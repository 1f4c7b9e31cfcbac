---------------------------- MODULE EnrichProofs ----------------------------
(***************************************************************************)
(* The properties of Enrich for any requests, workers, links and number of *)
(* attempts, every configuration and every answer of the sources.          *)
(***************************************************************************)
EXTENDS Enrich, FiniteSetTheorems, TLAPS

USE EnrichAssumption

-----------------------------------------------------------------------------
(* The invariant.                                                           *)

LadderLayers == {Ladder[j] : j \in DOMAIN Ladder}

\* What a request has asked for so far leaves it open what to ask next.
AllOpen(s) == \A i \in DOMAIN s : LeavesOpen(s[i])

\* The sources were asked in turn; ChocoData's attempts come first, every other
\* source was asked once.
InTurn(s, layers) ==
    /\ \A i \in 1 .. Len(s) - 1 : LeavesOpen(s[i])
    /\ \A i \in DOMAIN s : /\ s[i].to \in LadderLayers => s[i].to = layers[i]
                           /\ s[i].to = "choco" => i <= MaxAttempts
    /\ \A i, j \in DOMAIN s : s[i].to = s[j].to /\ s[i].to # "choco" => i = j

\* What was asked in each phase.
Phase(me, s, layers) ==
    /\ me.pc \in {"idle", "lookup", "fetch", "tiktok", "page", "structured"} => s = <<>>
    /\ me.pc \in {"lookup", "fetch"} => me.attempt = 1
    /\ me.pc = "plain" => Len(s) = 1 /\ s[1].to = "structured" /\ AllOpen(s)
    /\ me.pc = "choco" => /\ Len(s) = me.attempt - 1 /\ AllOpen(s)
                          /\ \A i \in DOMAIN s : s[i].to = "choco"
    /\ me.pc = "overlay" => AllOpen(s) /\ \A i \in DOMAIN s : s[i].to = "choco"
    /\ me.pc = "ladder" =>
          /\ AllOpen(s) /\ \A i \in DOMAIN s : s[i].to = layers[i]
          /\ s # <<>> => s[1].status = 429
          /\ IF me.layer = 0 THEN Len(s) = Len(layers)
             ELSE Len(s) + 1 <= Len(layers) /\ layers[Len(s) + 1] = Ladder[me.layer]
    /\ me.pc \in {"idle", "lookup", "fetch", "choco", "overlay", "ladder", "tiktok", "page", "save"}
       => me.op # "extract"
    /\ me.pc = "save" => me.op = "enrich"

\* A request that ended had a reason.
Excused(me, s, layers, on) ==
    /\ me.pc = "ended" /\ me.answer # 0 /\ s # <<>> /\ (me.answer # 200 \/ me.op = "extract") =>
          \/ ~LeavesOpen(s[Len(s)])
          \/ s[Len(s)].to = "choco" /\ Len(s) = MaxAttempts
          \/ s[Len(s)].to \in LadderLayers /\ Len(s) = Len(layers)
    /\ me.answer = 429 => \E i \in DOMAIN s : s[i].status = 429
    /\ me.answer = 500 => \/ s # <<>> /\ s[Len(s)].status = 500
                          \/ s = <<>> /\ on /\ me.key \in Unkeyable
    /\ me.pc # "ended" => me.answer = 0

RequestOK(me, s, layers, on) ==
    Phase(me, s, layers) /\ InTurn(s, layers) /\ Excused(me, s, layers, on)

\* At work on a link for which there may be an entry.
Enriching(q) == UnderWay(q) /\ req[q].op = "enrich"

\* Two requests for a link have met, or the one that looked it up found none.
CacheInv ==
    /\ ~settings.cacheOn => \A k \in Keys : cache[k] = Nothing
    /\ \A p, q \in Requests : p # q /\ Enriching(p) /\ Enriching(q) /\ req[p].key = req[q].key
                              => req[q].key \in shared
    /\ \A q \in Requests : Enriching(q) /\ req[q].pc # "lookup"
                           => cache[req[q].key] = Nothing \/ req[q].key \in shared \cup missed

RequestsOK == \A q \in Requests : RequestOK(req[q], asked[q], Layers, settings.cacheOn)

EnrichInv == TypeOK /\ RequestsOK /\ CacheInv

-----------------------------------------------------------------------------
(* The ladder.                                                              *)

LEMMA LadderFacts ==
    /\ Len(Ladder) = 4 /\ DOMAIN Ladder = 1 .. 4
    /\ Ladder[1] = "be:anonymous" /\ Ladder[2] = "be:authenticated"
    /\ Ladder[3] = "scraper:anonymous" /\ Ladder[4] = "scraper:authenticated"
    /\ \A j \in 1 .. 4 : Ladder[j] \in LadderLayers /\ Ladder[j] \in Sources /\ Ladder[j] # "choco"
    /\ LadderLayers = {Ladder[1], Ladder[2], Ladder[3], Ladder[4]}
<1>1. /\ Len(Ladder) = 4 /\ DOMAIN Ladder = 1 .. 4
      /\ Ladder[1] = "be:anonymous" /\ Ladder[2] = "be:authenticated"
      /\ Ladder[3] = "scraper:anonymous" /\ Ladder[4] = "scraper:authenticated"
  BY DEF Ladder
<1>2. \A j \in 1 .. 4 : Ladder[j] \in LadderLayers /\ Ladder[j] \in Sources
  BY <1>1 DEF LadderLayers, Sources
<1>3. \A j \in 1 .. 4 : j = 1 \/ j = 2 \/ j = 3 \/ j = 4
  OBVIOUS
<1>4. \A j \in 1 .. 4 : Ladder[j] # "choco"
  BY <1>1, <1>3
<1>5. LadderLayers = {Ladder[1], Ladder[2], Ladder[3], Ladder[4]}
  BY <1>1, <1>3 DEF LadderLayers
<1> QED BY <1>1, <1>2, <1>4, <1>5

LEMMA LadderApart ==
    \A i, j \in 1 .. 4 : Ladder[i] = Ladder[j] => i = j
<1>1. \A j \in 1 .. 4 : j = 1 \/ j = 2 \/ j = 3 \/ j = 4
  OBVIOUS
<1> QED BY <1>1, LadderFacts

\* The layers of each configuration.
LEMMA LayersFacts ==
    /\ settings.session /\ settings.scraper =>
          /\ Len(Layers) = 4 /\ Layers[1] = Ladder[1] /\ Layers[2] = Ladder[2]
          /\ Layers[3] = Ladder[3] /\ Layers[4] = Ladder[4]
    /\ settings.session /\ ~settings.scraper =>
          Len(Layers) = 2 /\ Layers[1] = Ladder[1] /\ Layers[2] = Ladder[2]
    /\ ~settings.session /\ settings.scraper =>
          /\ Len(Layers) = 3 /\ Layers[1] = Ladder[1] /\ Layers[2] = Ladder[3]
          /\ Layers[3] = Ladder[4]
    /\ ~settings.session /\ ~settings.scraper => Len(Layers) = 1 /\ Layers[1] = Ladder[1]
<1>1. Len(Ladder) = 4
  BY LadderFacts
<1> HIDE DEF Ladder
<1> QED BY <1>1 DEF Layers

LEMMA NextLayerIs ==
    ASSUME NEW i \in 0 .. 4, NEW j \in 1 .. 4, j > i, Available(Ladder[j]),
           \A l \in 1 .. 4 : l > i /\ Available(Ladder[l]) => j <= l
    PROVE  NextLayer(i) = j
<1> DEFINE left == {l \in DOMAIN Ladder : l > i /\ Available(Ladder[l])}
<1>1. j \in left /\ (\A l \in left : j <= l) /\ left \subseteq 1 .. 4
  BY LadderFacts
<1>2. NextLayer(i) = CHOOSE l \in left : \A m \in left : l <= m
  BY <1>1 DEF NextLayer
<1> HIDE DEF left
<1>3. \A l \in left : (\A m \in left : l <= m) => l = j
  BY <1>1
<1> QED BY <1>1, <1>2, <1>3

LEMMA NoLayerLeft ==
    ASSUME NEW i \in 0 .. 4, \A l \in 1 .. 4 : l > i => ~Available(Ladder[l])
    PROVE  NextLayer(i) = 0
BY LadderFacts DEF NextLayer

LEMMA NextLayers ==
    ASSUME settings.session \in BOOLEAN, settings.scraper \in BOOLEAN
    PROVE  /\ NextLayer(0) = 1
           /\ NextLayer(1) = IF settings.session THEN 2 ELSE IF settings.scraper THEN 3 ELSE 0
           /\ NextLayer(2) = IF settings.scraper THEN 3 ELSE 0
           /\ NextLayer(3) = IF settings.scraper THEN 4 ELSE 0
           /\ NextLayer(4) = 0
<1>1. /\ Available(Ladder[1])
      /\ Available(Ladder[2]) <=> settings.session
      /\ Available(Ladder[3]) <=> settings.scraper
      /\ Available(Ladder[4]) <=> settings.scraper
  BY LadderFacts DEF Available
<1>2. \A l \in 1 .. 4 : l = 1 \/ l = 2 \/ l = 3 \/ l = 4
  OBVIOUS
<1>3. NextLayer(0) = 1
  BY <1>1, NextLayerIs
<1>4. NextLayer(1) = IF settings.session THEN 2 ELSE IF settings.scraper THEN 3 ELSE 0
  <2>1. CASE settings.session
    BY <1>1, <2>1, NextLayerIs
  <2>2. CASE ~settings.session /\ settings.scraper
    <3>1. \A l \in 1 .. 4 : l > 1 /\ Available(Ladder[l]) => 3 <= l
      BY <1>1, <1>2, <2>2
    <3> QED BY <1>1, <2>2, <3>1, NextLayerIs
  <2>3. CASE ~settings.session /\ ~settings.scraper
    <3>1. \A l \in 1 .. 4 : l > 1 => ~Available(Ladder[l])
      BY <1>1, <1>2, <2>3
    <3> QED BY <2>3, <3>1, NoLayerLeft
  <2> QED BY <2>1, <2>2, <2>3
<1>5. NextLayer(2) = IF settings.scraper THEN 3 ELSE 0
  <2>1. CASE settings.scraper
    BY <1>1, <2>1, NextLayerIs
  <2>2. CASE ~settings.scraper
    <3>1. \A l \in 1 .. 4 : l > 2 => ~Available(Ladder[l])
      BY <1>1, <1>2, <2>2
    <3> QED BY <2>2, <3>1, NoLayerLeft
  <2> QED BY <2>1, <2>2
<1>6. NextLayer(3) = IF settings.scraper THEN 4 ELSE 0
  <2>1. CASE settings.scraper
    BY <1>1, <2>1, NextLayerIs
  <2>2. CASE ~settings.scraper
    <3>1. \A l \in 1 .. 4 : l > 3 => ~Available(Ladder[l])
      BY <1>1, <1>2, <2>2
    <3> QED BY <2>2, <3>1, NoLayerLeft
  <2> QED BY <2>1, <2>2
<1>7. NextLayer(4) = 0
  BY NoLayerLeft
<1> QED BY <1>3, <1>4, <1>5, <1>6, <1>7

\* Every layer is asked once; the first is always there.
LEMMA LayersApart ==
    ASSUME settings.session \in BOOLEAN, settings.scraper \in BOOLEAN
    PROVE  /\ Len(Layers) \in 1 .. 4 /\ Layers[1] = Ladder[1]
           /\ \A i, j \in 1 .. Len(Layers) : Layers[i] = Layers[j] => i = j
<1>1. \A j \in 1 .. 4 : j = 1 \/ j = 2 \/ j = 3 \/ j = 4
  OBVIOUS
<1>2. Len(Layers) \in 1 .. 4 /\ Layers[1] = Ladder[1]
  BY LayersFacts
<1>5. CASE settings.session /\ settings.scraper
  <2>1. Len(Layers) = 4
    BY <1>5, LayersFacts
  <2>2. \A i, j \in 1 .. 4 : Layers[i] = Layers[j] => i = j
    BY <1>1, <1>5, LadderApart, LayersFacts
  <2> QED BY <1>2, <2>1, <2>2
<1>6. CASE ~settings.session /\ settings.scraper
  <2>1. Len(Layers) = 3 /\ \A j \in 1 .. 3 : j = 1 \/ j = 2 \/ j = 3
    BY <1>6, LayersFacts
  <2>2. \A i, j \in 1 .. 3 : Layers[i] = Layers[j] => i = j
    BY <1>6, <2>1, LadderApart, LayersFacts
  <2> QED BY <1>2, <2>1, <2>2
<1>7. CASE settings.session /\ ~settings.scraper
  <2>1. Len(Layers) = 2 /\ \A j \in 1 .. 2 : j = 1 \/ j = 2
    BY <1>7, LayersFacts
  <2>2. \A i, j \in 1 .. 2 : Layers[i] = Layers[j] => i = j
    BY <1>7, <2>1, LadderApart, LayersFacts
  <2> QED BY <1>2, <2>1, <2>2
<1>8. CASE ~settings.session /\ ~settings.scraper
  <2>1. Len(Layers) = 1
    BY <1>8, LayersFacts
  <2> QED BY <1>2, <2>1
<1> QED BY <1>5, <1>6, <1>7, <1>8

\* The layer after the n-th available one is the next of the available ones.
LEMMA LayerAfter ==
    ASSUME settings.session \in BOOLEAN, settings.scraper \in BOOLEAN,
           NEW n \in 1 .. Len(Layers), NEW j \in 1 .. 4, Layers[n] = Ladder[j]
    PROVE  /\ NextLayer(j) \in 0 .. 4
           /\ NextLayer(j) = 0 => n = Len(Layers)
           /\ NextLayer(j) # 0 => n + 1 <= Len(Layers) /\ Layers[n + 1] = Ladder[NextLayer(j)]
<1>0. n \in 1 .. 4 /\ n \in 1 .. Len(Layers)
  BY LayersApart
<1>1. (n = 1 \/ n = 2 \/ n = 3 \/ n = 4) /\ (j = 1 \/ j = 2 \/ j = 3 \/ j = 4)
  BY <1>0
<1>n. /\ settings.session => NextLayer(1) = 2
      /\ ~settings.session /\ settings.scraper => NextLayer(1) = 3
      /\ ~settings.session /\ ~settings.scraper => NextLayer(1) = 0
      /\ settings.scraper => NextLayer(2) = 3 /\ NextLayer(3) = 4
      /\ ~settings.scraper => NextLayer(2) = 0 /\ NextLayer(3) = 0
      /\ NextLayer(4) = 0
  BY NextLayers
<1>2. CASE settings.session /\ settings.scraper
  <2>1. n = j
    BY <1>0, <1>1, <1>2, LadderApart, LayersFacts
  <2>2. /\ Len(Layers) = 4 /\ Layers[2] = Ladder[2] /\ Layers[3] = Ladder[3]
        /\ Layers[4] = Ladder[4] /\ NextLayer(1) = 2 /\ NextLayer(2) = 3
        /\ NextLayer(3) = 4 /\ NextLayer(4) = 0
    BY <1>2, <1>n, LayersFacts
  <2> QED BY <1>1, <2>1, <2>2
<1>3. CASE ~settings.session /\ settings.scraper
  <2>1. (n = 1 /\ j = 1) \/ (n = 2 /\ j = 3) \/ (n = 3 /\ j = 4)
    BY <1>0, <1>1, <1>3, LadderApart, LayersFacts
  <2>2. /\ Len(Layers) = 3 /\ Layers[2] = Ladder[3] /\ Layers[3] = Ladder[4]
        /\ NextLayer(1) = 3 /\ NextLayer(3) = 4 /\ NextLayer(4) = 0
    BY <1>3, <1>n, LayersFacts
  <2> QED BY <2>1, <2>2
<1>4. CASE settings.session /\ ~settings.scraper
  <2>1. (n = 1 /\ j = 1) \/ (n = 2 /\ j = 2)
    BY <1>0, <1>1, <1>4, LadderApart, LayersFacts
  <2>2. Len(Layers) = 2 /\ Layers[2] = Ladder[2] /\ NextLayer(1) = 2 /\ NextLayer(2) = 0
    BY <1>4, <1>n, LayersFacts
  <2> QED BY <2>1, <2>2
<1>5. CASE ~settings.session /\ ~settings.scraper
  <2>1. n = 1 /\ j = 1 /\ Len(Layers) = 1 /\ NextLayer(1) = 0
    BY <1>0, <1>1, <1>5, <1>n, LadderApart, LayersFacts
  <2> QED BY <2>1
<1> QED BY <1>2, <1>3, <1>4, <1>5

-----------------------------------------------------------------------------
(* Types.                                                                   *)

LEMMA RequestType ==
    /\ \A me \in Request : \A status \in Statuses \cup {0} : Ended(me, status) \in Request
    /\ \A me \in Request : \A pc \in {"lookup", "fetch", "choco", "overlay", "tiktok", "page",
                                      "structured", "plain", "save"} :
          [me EXCEPT !.pc = pc] \in Request
    /\ \A me \in Request : \A e \in Payload \cup {Nothing} : [me EXCEPT !.result = e] \in Request
    /\ \A me \in Request : \A layer \in 0 .. 4 :
          [me EXCEPT !.pc = "ladder", !.layer = layer] \in Request
    /\ \A me \in Request : \A n \in 1 .. MaxAttempts : [me EXCEPT !.attempt = n] \in Request
    /\ \A op \in {"post", "extract"} : \A me \in Request : [me EXCEPT !.op = op] \in Request
    /\ \A k \in Keys : NewRequest(k) \in Request
<1> USE LadderFacts
<1>1. \A me \in Request : \A status \in Statuses \cup {0} : Ended(me, status) \in Request
  BY DEF Request, Ended
<1>2. \A me \in Request : \A pc \in {"lookup", "fetch", "choco", "overlay", "tiktok", "page",
                                      "structured", "plain", "save"} :
          [me EXCEPT !.pc = pc] \in Request
  BY DEF Request
<1>3. \A me \in Request : \A e \in Payload \cup {Nothing} : [me EXCEPT !.result = e] \in Request
  BY DEF Request
<1>4. \A me \in Request : \A layer \in 0 .. 4 :
          [me EXCEPT !.pc = "ladder", !.layer = layer] \in Request
  BY DEF Request
<1>5. \A me \in Request : \A n \in 1 .. MaxAttempts : [me EXCEPT !.attempt = n] \in Request
  BY DEF Request
<1>6. \A op \in {"post", "extract"} : \A me \in Request : [me EXCEPT !.op = op] \in Request
  BY DEF Request
<1>7. \A k \in Keys : NewRequest(k) \in Request
  BY DEF Request, NewRequest
<1> QED BY <1>1, <1>2, <1>3, <1>4, <1>5, <1>6, <1>7

LEMMA GoesType ==
    ASSUME TypeOK, NEW q \in Requests, NEW me \in Request, Goes(q, me)
    PROVE  /\ req' \in [Requests -> Request] /\ req'[q] = me
           /\ \A p \in Requests : p # q => req'[p] = req[p]
<1> HIDE DEF Request
<1> QED BY DEF TypeOK, Goes

LEMMA HearsType ==
    ASSUME TypeOK, NEW q \in Requests, NEW to \in Sources, NEW status \in Statuses,
           NEW again \in BOOLEAN, Hears(q, to, status, again)
    PROVE  /\ asked' \in [Requests -> Seq(Asked)]
           /\ asked'[q] = Append(asked[q], [to |-> to, status |-> status, again |-> again])
           /\ \A p \in Requests : p # q => asked'[p] = asked[p]
<1> DEFINE a == [to |-> to, status |-> status, again |-> again]
<1>1. a \in Asked
  BY DEF Asked
<1>2. asked' = [asked EXCEPT ![q] = Append(asked[q], a)]
  BY DEF Hears
<1>3. asked \in [Requests -> Seq(Asked)]
  BY DEF TypeOK
<1> HIDE DEF a
<1>4. Append(asked[q], a) \in Seq(Asked)
  BY <1>1, <1>3
<1>5. asked' \in [Requests -> Seq(Asked)] /\ asked'[q] = Append(asked[q], a)
      /\ \A p \in Requests : p # q => asked'[p] = asked[p]
  BY <1>2, <1>3, <1>4
<1> QED BY <1>5 DEF a

LEMMA GotType ==
    ASSUME TypeOK, NEW q \in Requests, NEW thumbnail \in BOOLEAN
    PROVE  /\ Got(q, thumbnail) \in Request
           /\ Got(q, thumbnail).op = req[q].op /\ Got(q, thumbnail).key = req[q].key
           /\ req[q].op = "enrich" => /\ Got(q, thumbnail).pc = "save"
                                      /\ Got(q, thumbnail).answer = req[q].answer
           /\ req[q].op # "enrich" => /\ Got(q, thumbnail).pc = "ended"
                                      /\ Got(q, thumbnail).answer = 200
<1> DEFINE e == [key |-> req[q].key, thumbnail |-> thumbnail, by |-> q]
           me == [req[q] EXCEPT !.result = e]
<1>1. req[q] \in Request
  BY DEF TypeOK
<1>2. e \in Payload
  BY <1>1 DEF Payload, Request
<1>3. me \in Request /\ me.op = req[q].op /\ me.key = req[q].key /\ me.answer = req[q].answer
  BY <1>1, <1>2 DEF Request
<1>4. Got(q, thumbnail) = IF me.op = "enrich" THEN [me EXCEPT !.pc = "save"] ELSE Ended(me, 200)
  BY DEF Got
<1> HIDE DEF me
<1>5. [me EXCEPT !.pc = "save"] \in Request
  BY <1>3, RequestType
<1>6. Ended(me, 200) \in Request
  <2>1. 200 \in Statuses \cup {0}
    BY DEF Statuses
  <2>2. \A r \in Request : \A status \in Statuses \cup {0} : Ended(r, status) \in Request
    BY RequestType
  <2> HIDE DEF Statuses
  <2> QED BY <1>3, <2>1, <2>2
<1> QED BY <1>1, <1>3, <1>4, <1>5, <1>6 DEF Ended, Request

-----------------------------------------------------------------------------
(* One more source is asked.                                                *)

LEMMA AppendFacts ==
    ASSUME NEW s \in Seq(Asked), NEW a \in Asked
    PROVE  /\ Append(s, a) \in Seq(Asked) /\ Append(s, a) # <<>>
           /\ Len(s) \in Nat /\ Len(Append(s, a)) = Len(s) + 1
           /\ DOMAIN s = 1 .. Len(s) /\ DOMAIN Append(s, a) = 1 .. Len(s) + 1
           /\ Append(s, a)[Len(s) + 1] = a
           /\ \A i \in 1 .. Len(s) : Append(s, a)[i] = s[i]
<1> HIDE DEF Asked
<1>1. /\ Append(s, a) \in Seq(Asked) /\ Len(s) \in Nat /\ Len(Append(s, a)) = Len(s) + 1
      /\ DOMAIN s = 1 .. Len(s) /\ DOMAIN Append(s, a) = 1 .. Len(s) + 1
      /\ Append(s, a)[Len(s) + 1] = a
      /\ \A i \in 1 .. Len(s) : Append(s, a)[i] = s[i]
  OBVIOUS
<1>2. Append(s, a) # <<>>
  BY <1>1
<1> QED BY <1>1, <1>2

LEMMA AppendOpen ==
    ASSUME NEW s \in Seq(Asked), NEW a \in Asked, AllOpen(s), LeavesOpen(a)
    PROVE  AllOpen(Append(s, a))
<1>1. \A i \in 1 .. Len(s) + 1 : i \in 1 .. Len(s) \/ i = Len(s) + 1
  BY AppendFacts
<1> QED BY <1>1, AppendFacts DEF AllOpen

\* A source is asked in turn: a layer in its place, ChocoData not too often, any
\* other source for the first time.
Follows(s, a, layers) ==
    /\ a.to \in LadderLayers => a.to = layers[Len(s) + 1]
    /\ a.to = "choco" => Len(s) + 1 <= MaxAttempts
    /\ a.to # "choco" => \A i \in 1 .. Len(s) : s[i].to # a.to

LEMMA AppendInTurn ==
    ASSUME NEW s \in Seq(Asked), NEW a \in Asked, NEW layers,
           AllOpen(s), InTurn(s, layers), Follows(s, a, layers)
    PROVE  InTurn(Append(s, a), layers)
<1> DEFINE t == Append(s, a)
<1> HIDE DEF t
<1>1. /\ Len(s) \in Nat /\ Len(t) = Len(s) + 1 /\ DOMAIN s = 1 .. Len(s)
      /\ DOMAIN t = 1 .. Len(s) + 1 /\ t[Len(s) + 1] = a /\ \A i \in 1 .. Len(s) : t[i] = s[i]
  BY AppendFacts DEF t
<1>2. \A i \in 1 .. Len(s) + 1 : i \in 1 .. Len(s) \/ i = Len(s) + 1
  BY <1>1
<1>3. \A i \in 1 .. Len(t) - 1 : LeavesOpen(t[i])
  <2>1. \A i \in 1 .. Len(t) - 1 : i \in 1 .. Len(s)
    BY <1>1
  <2> QED BY <1>1, <2>1 DEF AllOpen
<1>4. \A i \in DOMAIN t : /\ t[i].to \in LadderLayers => t[i].to = layers[i]
                          /\ t[i].to = "choco" => i <= MaxAttempts
  BY <1>1, <1>2 DEF InTurn, Follows
<1>5. \A i, j \in DOMAIN t : t[i].to = t[j].to /\ t[i].to # "choco" => i = j
  BY <1>1, <1>2 DEF InTurn, Follows
<1>6. InTurn(t, layers)
  BY <1>3, <1>4, <1>5 DEF InTurn
<1> QED BY <1>6 DEF t

\* The request ends with the answer.
Justified(me, s, a, layers) ==
    /\ me.answer # 0 /\ (me.answer # 200 \/ me.op = "extract") =>
           \/ ~LeavesOpen(a)
           \/ a.to = "choco" /\ Len(s) + 1 = MaxAttempts
           \/ a.to \in LadderLayers /\ Len(s) + 1 = Len(layers)
    /\ me.answer \in {429, 500} => a.status = me.answer

LEMMA EndsOK ==
    ASSUME NEW s \in Seq(Asked), NEW a \in Asked, NEW layers, NEW on, NEW me,
           AllOpen(s), InTurn(s, layers), Follows(s, a, layers), me.pc = "ended",
           Justified(me, s, a, layers)
    PROVE  RequestOK(me, Append(s, a), layers, on)
<1> DEFINE t == Append(s, a)
<1> HIDE DEF t
<1>1. /\ t # <<>> /\ Len(s) \in Nat /\ Len(t) = Len(s) + 1
      /\ DOMAIN t = 1 .. Len(s) + 1 /\ t[Len(s) + 1] = a
  BY AppendFacts DEF t
<1>2. InTurn(t, layers)
  BY AppendInTurn DEF t
<1>3. Phase(me, t, layers)
  BY DEF Phase
<1>4. t[Len(t)] = a /\ Len(t) \in DOMAIN t
  BY <1>1
<1>5. Excused(me, t, layers, on)
  BY <1>1, <1>4 DEF Excused, Justified
<1>6. RequestOK(me, t, layers, on)
  BY <1>2, <1>3, <1>5 DEF RequestOK
<1> QED BY <1>6 DEF t

\* The request ends and nothing more was asked, or was ended and stays so.
LEMMA JustEnds ==
    ASSUME NEW s, NEW layers, NEW on, NEW me, InTurn(s, layers), Excused(me, s, layers, on),
           me.pc = "ended"
    PROVE  RequestOK(me, s, layers, on)
BY DEF RequestOK, Phase

LEMMA NothingAsked ==
    ASSUME NEW layers
    PROVE  InTurn(<<>>, layers) /\ AllOpen(<<>>)
BY DEF InTurn, AllOpen

LEMMA LayersSame ==
    ASSUME UNCHANGED settings
    PROVE  Layers' = Layers
BY DEF Layers

\* A request takes a step.
LEMMA OneStep ==
    ASSUME EnrichInv, UNCHANGED settings, NEW q \in Requests,
           RequestOK(req'[q], asked'[q], Layers, settings.cacheOn),
           \A p \in Requests : p # q => req'[p] = req[p] /\ asked'[p] = asked[p]
    PROVE  RequestsOK'
<1>1. \A p \in Requests : RequestOK(req'[p], asked'[p], Layers, settings.cacheOn)
  BY DEF EnrichInv, RequestsOK
<1> QED BY <1>1, LayersSame DEF RequestsOK

-----------------------------------------------------------------------------
(* The steps of a request.                                                  *)

LEMMA EndedFacts ==
    ASSUME NEW me \in Request, NEW status \in Statuses \cup {0}
    PROVE  /\ Ended(me, status) \in Request
           /\ Ended(me, status).pc = "ended" /\ Ended(me, status).answer = status
           /\ Ended(me, status).op = me.op /\ Ended(me, status).key = me.key
           /\ Ended(me, status).attempt = me.attempt
<1> HIDE DEF Statuses
<1>1. Ended(me, status) \in Request
  BY RequestType
<1>2. /\ Ended(me, status).pc = "ended" /\ Ended(me, status).answer = status
      /\ Ended(me, status).op = me.op /\ Ended(me, status).key = me.key
      /\ Ended(me, status).attempt = me.attempt
  BY DEF Ended, Request
<1> QED BY <1>1, <1>2

\* A request that goes on, and one with another operation.
At(me, pc) == [me EXCEPT !.pc = pc]
For(me, op) == [me EXCEPT !.op = op]

LEMMA AtFacts ==
    ASSUME NEW me \in Request, NEW pc \in {"lookup", "fetch", "choco", "overlay", "tiktok", "page",
                                           "structured", "plain", "save"}
    PROVE  /\ At(me, pc) \in Request /\ At(me, pc).pc = pc
           /\ At(me, pc).op = me.op /\ At(me, pc).key = me.key
           /\ At(me, pc).answer = me.answer /\ At(me, pc).attempt = me.attempt
<1>1. At(me, pc) \in Request
  BY RequestType DEF At
<1> QED BY <1>1 DEF At, Request

LEMMA ForFacts ==
    ASSUME NEW me \in Request, NEW op \in {"post", "extract"}
    PROVE  /\ For(me, op) \in Request /\ For(me, op).op = op
           /\ For(me, op).key = me.key /\ For(me, op).answer = me.answer
           /\ For(me, op).attempt = me.attempt
<1>1. For(me, op) \in Request
  BY RequestType DEF For
<1> QED BY <1>1 DEF For, Request

LEMMA OfRequest ==
    ASSUME EnrichInv, NEW q \in Requests
    PROVE  /\ req[q] \in Request /\ asked[q] \in Seq(Asked)
           /\ settings.session \in BOOLEAN /\ settings.scraper \in BOOLEAN
           /\ Phase(req[q], asked[q], Layers) /\ InTurn(asked[q], Layers)
           /\ Excused(req[q], asked[q], Layers, settings.cacheOn)
<1>1. settings \in Settings /\ req \in [Requests -> Request]
      /\ asked \in [Requests -> Seq(Asked)]
  BY DEF EnrichInv, TypeOK
<1>2. settings.session \in BOOLEAN /\ settings.scraper \in BOOLEAN
  BY <1>1 DEF Settings
<1> QED BY <1>1, <1>2 DEF EnrichInv, RequestsOK, RequestOK

\* A request goes on without asking.
LEMMA SilentStep ==
    ASSUME EnrichInv, UNCHANGED <<settings, asked>>, NEW q \in Requests, NEW me \in Request,
           Goes(q, me), RequestOK(me, asked[q], Layers, settings.cacheOn)
    PROVE  req' \in [Requests -> Request] /\ asked' \in [Requests -> Seq(Asked)] /\ RequestsOK'
<1>1. TypeOK
  BY DEF EnrichInv
<1>2. /\ req' \in [Requests -> Request] /\ req'[q] = me
      /\ \A p \in Requests : p # q => req'[p] = req[p]
  BY <1>1, GoesType
<1>3. asked' \in [Requests -> Seq(Asked)]
  BY <1>1 DEF TypeOK
<1>4. RequestsOK'
  BY <1>2, OneStep
<1> QED BY <1>2, <1>3, <1>4

\* A request asks a source.
LEMMA AskingStep ==
    ASSUME EnrichInv, CacheStays, Quiet, NEW q \in Requests, NEW me \in Request,
           NEW to \in Sources, NEW status \in Statuses, NEW again \in BOOLEAN,
           Goes(q, me), Hears(q, to, status, again),
           RequestOK(me, Append(asked[q], [to |-> to, status |-> status, again |-> again]),
                     Layers, settings.cacheOn)
    PROVE  TypeOK' /\ RequestsOK'
<1>1. TypeOK
  BY DEF EnrichInv
<1>2. /\ req' \in [Requests -> Request] /\ req'[q] = me
      /\ \A p \in Requests : p # q => req'[p] = req[p]
  BY <1>1, GoesType
<1>3. /\ asked' \in [Requests -> Seq(Asked)]
      /\ asked'[q] = Append(asked[q], [to |-> to, status |-> status, again |-> again])
      /\ \A p \in Requests : p # q => asked'[p] = asked[p]
  BY <1>1, HearsType
<1>4. UNCHANGED <<settings, cache, schema, ready, shared, missed, faults>>
  BY DEF CacheStays, Quiet
<1>5. TypeOK'
  BY <1>1, <1>2, <1>3, <1>4 DEF TypeOK
<1>6. RequestsOK'
  BY <1>2, <1>3, <1>4, OneStep
<1> QED BY <1>5, <1>6

-----------------------------------------------------------------------------
(* Every step keeps the types and the requests' order.                      *)

\* What an arriving request is like.
LEMMA FirstFacts ==
    ASSUME NEW me \in First
    PROVE  /\ me \in Request
           /\ \/ me.pc = "lookup" /\ me.op = "enrich" /\ me.answer = 0 /\ me.attempt = 1
              \/ me.pc = "fetch" /\ me.op = "post" /\ me.answer = 0 /\ me.attempt = 1
              \/ me.pc = "structured" /\ me.op = "extract" /\ me.answer = 0
              \/ me.pc = "ended" /\ me.answer \in {200, 400, 403}
<1>3. /\ \A k \in Keys : NewRequest(k) \in Request /\ NewRequest(k).op = "enrich"
                         /\ NewRequest(k).answer = 0 /\ NewRequest(k).attempt = 1
      /\ (CHOOSE k \in Keys : TRUE) \in Keys
  BY RequestType DEF NewRequest
<1> DEFINE caption == For(NewRequest(CHOOSE k \in Keys : TRUE), "extract")
<1>4. caption \in Request /\ caption.op = "extract" /\ caption.answer = 0
      /\ caption.attempt = 1
  BY <1>3, ForFacts
<1> HIDE DEF caption
<1> DEFINE Post(k) == For(NewRequest(k), "post")
<1>5. \A k \in Keys : Post(k) \in Request /\ Post(k).op = "post" /\ Post(k).answer = 0
                    /\ Post(k).attempt = 1
  BY <1>3, ForFacts
<1>6. \/ \E k \in Keys : me = At(NewRequest(k), "lookup")
      \/ \E k \in Keys : me = Ended(NewRequest(k), 400)
      \/ \E k \in Keys : me = At(Post(k), "fetch")
      \/ \E k \in Keys : me = Ended(Post(k), 403)
      \/ me = At(caption, "structured")
      \/ me = Ended(caption, 200)
  <2> DEFINE links == {NewRequest(k) : k \in Keys}
             posts == {For(l, "post") : l \in {m \in links : Site[m.key] = "instagram"}}
  <2>1. \/ me \in {At(l, "lookup") : l \in links} \/ me \in {Ended(l, 400) : l \in links}
        \/ me \in {At(l, "fetch") : l \in posts} \/ me \in {Ended(l, 403) : l \in posts}
        \/ me = At(caption, "structured")
        \/ me = Ended(caption, 200)
    BY DEF First, At, For, caption
  <2>2. \A l \in posts : \E k \in Keys : l = Post(k)
    BY DEF Post
  <2> HIDE DEF posts
  <2> QED BY <2>1, <2>2
<1> HIDE DEF Post
<1>7. 200 \in Statuses \cup {0} /\ 400 \in Statuses \cup {0} /\ 403 \in Statuses \cup {0}
  BY DEF Statuses
<1>8. CASE \E k \in Keys : me = At(NewRequest(k), "lookup")
  BY <1>3, <1>8, AtFacts
<1>9. CASE \E k \in Keys : me = Ended(NewRequest(k), 400)
  <2>1. PICK k \in Keys : me = Ended(NewRequest(k), 400)
    BY <1>9
  <2>2. NewRequest(k) \in Request
    BY <1>3
  <2> QED BY <1>7, <2>1, <2>2, EndedFacts
<1>10. CASE \E k \in Keys : me = At(Post(k), "fetch")
  <2>1. PICK k \in Keys : me = At(Post(k), "fetch")
    BY <1>10
  <2>2. Post(k) \in Request /\ Post(k).op = "post" /\ Post(k).answer = 0 /\ Post(k).attempt = 1
    BY <1>5
  <2> QED BY <2>1, <2>2, AtFacts
<1>11. CASE \E k \in Keys : me = Ended(Post(k), 403)
  <2>1. PICK k \in Keys : me = Ended(Post(k), 403)
    BY <1>11
  <2>2. Post(k) \in Request
    BY <1>5
  <2> QED BY <1>7, <2>1, <2>2, EndedFacts
<1>12. CASE me = At(caption, "structured")
  BY <1>4, <1>12, AtFacts
<1>13. CASE me = Ended(caption, 200)
  BY <1>4, <1>7, <1>13, EndedFacts
<1> QED BY <1>6, <1>8, <1>9, <1>10, <1>11, <1>12, <1>13

LEMMA ArriveOK ==
    ASSUME EnrichInv, NEW q \in Requests, Arrive(q)
    PROVE  TypeOK' /\ RequestsOK'
<1>1. TypeOK /\ req[q] \in Request /\ asked[q] = <<>>
  BY OfRequest DEF EnrichInv, Arrive, Phase
<1>2. PICK me \in First :
         Goes(q, me) /\ shared' \in {shared, shared \cup {me.key}}
  BY DEF Arrive
<1>3. /\ me \in Request
      /\ \/ me.pc = "lookup" /\ me.op = "enrich" /\ me.answer = 0 /\ me.attempt = 1
         \/ me.pc = "fetch" /\ me.op = "post" /\ me.answer = 0 /\ me.attempt = 1
         \/ me.pc = "structured" /\ me.op = "extract" /\ me.answer = 0
         \/ me.pc = "ended" /\ me.answer \in {200, 400, 403}
  BY <1>2, FirstFacts
<1>4. RequestOK(me, <<>>, Layers, settings.cacheOn)
  BY <1>3, NothingAsked DEF RequestOK, Phase, Excused
<1>5. UNCHANGED <<settings, cache, schema, ready, asked, missed, faults>>
  BY DEF Arrive, CacheStays
<1>6. req' \in [Requests -> Request] /\ asked' \in [Requests -> Seq(Asked)] /\ RequestsOK'
  BY <1>1, <1>2, <1>3, <1>4, <1>5, SilentStep
<1>7. me.key \in Keys
  BY <1>3 DEF Request
<1> QED BY <1>1, <1>2, <1>5, <1>6, <1>7 DEF TypeOK

LEMMA LookedUpFacts ==
    ASSUME NEW me \in Request, NEW entry \in Payload \cup {Nothing}
    PROVE  /\ LookedUp(me, entry) \in Request
           /\ LookedUp(me, entry).op = me.op /\ LookedUp(me, entry).key = me.key
           /\ LookedUp(me, entry).attempt = me.attempt
           /\ \/ /\ entry # Nothing
                 /\ LookedUp(me, entry).pc = "ended" /\ LookedUp(me, entry).answer = 200
              \/ /\ entry = Nothing
                 /\ LookedUp(me, entry).pc = "fetch" /\ LookedUp(me, entry).answer = me.answer
<1> DEFINE hit == [me EXCEPT !.result = entry]
<1>1. hit \in Request
  BY RequestType
<1>2. hit.op = me.op /\ hit.key = me.key
  BY <1>1 DEF Request
<1>2a. hit.attempt = me.attempt
  BY <1>1 DEF Request
<1>3. LookedUp(me, entry) = IF entry # Nothing THEN Ended(hit, 200) ELSE At(me, "fetch")
  BY DEF LookedUp, At
<1> HIDE DEF hit
<1>4. 200 \in Statuses \cup {0}
  BY DEF Statuses
<1>5. CASE entry # Nothing
  <2>1. LookedUp(me, entry) = Ended(hit, 200)
    BY <1>3, <1>5
  <2> QED BY <1>1, <1>2, <1>2a, <1>4, <1>5, <2>1, EndedFacts
<1>6. CASE entry = Nothing
  <2>1. LookedUp(me, entry) = At(me, "fetch")
    BY <1>3, <1>6
  <2> QED BY <1>6, <2>1, AtFacts
<1> QED BY <1>5, <1>6

\* A request that leaves the lookup has asked nobody.
LEMMA LeavesLookup ==
    ASSUME EnrichInv, NEW q \in Requests, req[q].pc = "lookup", NEW me \in Request,
           me.op = req[q].op, me.attempt = req[q].attempt,
           \/ me.pc = "fetch" /\ me.answer = 0
           \/ me.pc = "ended" /\ me.answer = 200
           \/ me.pc = "ended" /\ me.answer = 500 /\ settings.cacheOn /\ me.key \in Unkeyable
    PROVE  asked[q] = <<>> /\ RequestOK(me, asked[q], Layers, settings.cacheOn)
<1>1. asked[q] = <<>> /\ req[q].op # "extract" /\ req[q].attempt = 1
  BY OfRequest DEF Phase
<1> QED BY <1>1, NothingAsked DEF RequestOK, Phase, Excused

LEMMA LookupOK ==
    ASSUME EnrichInv, NEW q \in Requests, Lookup(q)
    PROVE  TypeOK' /\ RequestsOK'
<1>1. /\ TypeOK /\ req[q] \in Request /\ req[q].pc = "lookup" /\ req[q].answer = 0
      /\ req[q].key \in Keys
  BY OfRequest DEF EnrichInv, Lookup, Excused, Request
<1>2. UNCHANGED <<settings, asked, cache, shared, missed, faults>>
  BY DEF Lookup, CacheStays, Quiet
<1>3. cache[req[q].key] \in Payload \cup {Nothing}
  BY <1>1 DEF TypeOK
<1>4. schema' \in BOOLEAN /\ ready' \in [Workers -> BOOLEAN]
  BY <1>1 DEF TypeOK, Lookup, CacheStays, Initialised
<1>5. PICK me \in Request :
         /\ Goes(q, me) /\ me.op = req[q].op /\ me.attempt = req[q].attempt
         /\ \/ me.pc = "fetch" /\ me.answer = 0
            \/ me.pc = "ended" /\ me.answer = 200
            \/ me.pc = "ended" /\ me.answer = 500 /\ settings.cacheOn /\ me.key \in Unkeyable
  <2>0. 500 \in Statuses \cup {0}
    BY DEF Statuses
  <2>1. CASE settings.cacheOn /\ HasNoKey(req[q].key)
    <3>1. Goes(q, Ended(req[q], 500)) /\ req[q].key \in Unkeyable
      BY <2>1 DEF Lookup, HasNoKey
    <3> QED BY <1>1, <2>0, <2>1, <3>1, EndedFacts
  <2>2. CASE ~(settings.cacheOn /\ HasNoKey(req[q].key))
    <3>1. PICK entry \in Payload \cup {Nothing} : Goes(q, LookedUp(req[q], entry))
      BY <1>3, <2>2 DEF Lookup
    <3> QED BY <1>1, <3>1, LookedUpFacts
  <2> QED BY <2>1, <2>2
<1>6. RequestOK(me, asked[q], Layers, settings.cacheOn)
  BY <1>1, <1>5, LeavesLookup
<1>7. req' \in [Requests -> Request] /\ asked' \in [Requests -> Seq(Asked)] /\ RequestsOK'
  BY <1>2, <1>5, <1>6, SilentStep
<1> QED BY <1>1, <1>2, <1>4, <1>7 DEF TypeOK

\* A request that turns to the ladder.
OnLadder(me, layer) == [me EXCEPT !.pc = "ladder", !.layer = layer]

LEMMA OnLadderFacts ==
    ASSUME NEW me \in Request, NEW layer \in 0 .. 4
    PROVE  /\ OnLadder(me, layer) \in Request
           /\ OnLadder(me, layer).pc = "ladder" /\ OnLadder(me, layer).layer = layer
           /\ OnLadder(me, layer).op = me.op /\ OnLadder(me, layer).key = me.key
           /\ OnLadder(me, layer).answer = me.answer
<1>1. OnLadder(me, layer) \in Request
  BY RequestType DEF OnLadder
<1> QED BY <1>1 DEF OnLadder, Request

LEMMA FetchOK ==
    ASSUME EnrichInv, NEW q \in Requests, Fetch(q)
    PROVE  TypeOK' /\ RequestsOK'
<1>1. /\ TypeOK /\ req[q] \in Request /\ req[q].pc = "fetch" /\ req[q].answer = 0
      /\ asked[q] = <<>> /\ req[q].op # "extract" /\ req[q].key \in Keys
  <2>1. TypeOK /\ req[q].pc = "fetch"
    BY DEF EnrichInv, Fetch
  <2>2. req[q] \in Request /\ req[q].key \in Keys
    BY OfRequest DEF Request
  <2>3. Phase(req[q], asked[q], Layers) /\ Excused(req[q], asked[q], Layers, settings.cacheOn)
    BY OfRequest
  <2>4. asked[q] = <<>> /\ req[q].op # "extract"
    BY <2>1, <2>3 DEF Phase
  <2>5. req[q].answer = 0
    BY <2>1, <2>3 DEF Excused
  <2> QED BY <2>1, <2>2, <2>4, <2>5
<1>2. UNCHANGED <<settings, asked, cache, schema, ready, shared, missed, faults>>
  BY DEF Fetch, CacheStays, Quiet
<1>3. NextLayer(0) = 1 /\ Layers[1] = Ladder[1] /\ Len(Layers) \in 1 .. 4
  BY OfRequest, NextLayers, LayersApart
<1>4. \/ Goes(q, At(req[q], "choco")) \/ Goes(q, OnLadder(req[q], 1))
      \/ Goes(q, At(req[q], "tiktok")) \/ Goes(q, At(req[q], "page")) \/ Goes(q, Ended(req[q], 502))
  <2>1. Site[req[q].key] \in {"instagram", "tiktok", "web"}
    BY <1>1
  <2> QED BY <1>3, <2>1 DEF Fetch, At, OnLadder
<1>5. PICK me \in Request :
         /\ Goes(q, me) /\ me.op = req[q].op
         /\ \/ me.pc = "choco" /\ me.answer = 0 /\ me.attempt = req[q].attempt
            \/ me.pc \in {"tiktok", "page"} /\ me.answer = 0
            \/ me.pc = "ladder" /\ me.answer = 0 /\ me.layer = 1
            \/ me.pc = "ended" /\ me.answer = 502
  <2>0. 502 \in Statuses \cup {0}
    BY DEF Statuses
  <2>1. CASE Goes(q, At(req[q], "choco"))
    BY <1>1, <2>1, AtFacts
  <2>2. CASE Goes(q, OnLadder(req[q], 1))
    BY <1>1, <2>2, OnLadderFacts
  <2>3. CASE Goes(q, At(req[q], "tiktok")) \/ Goes(q, At(req[q], "page"))
    BY <1>1, <2>3, AtFacts
  <2>4. CASE Goes(q, Ended(req[q], 502))
    BY <1>1, <2>0, <2>4, EndedFacts
  <2> QED BY <1>4, <2>1, <2>2, <2>3, <2>4
<1>6. req[q].attempt = 1
  BY <1>1, OfRequest DEF Phase
<1>7. RequestOK(me, asked[q], Layers, settings.cacheOn)
  BY <1>1, <1>3, <1>5, <1>6, NothingAsked DEF RequestOK, Phase, Excused
<1>8. req' \in [Requests -> Request] /\ asked' \in [Requests -> Seq(Asked)] /\ RequestsOK'
  BY <1>2, <1>5, <1>7, SilentStep
<1> QED BY <1>1, <1>2, <1>8 DEF TypeOK

LEMMA LadderExhaustedOK ==
    ASSUME EnrichInv, NEW q \in Requests, LadderExhausted(q)
    PROVE  TypeOK' /\ RequestsOK'
<1>1. /\ TypeOK /\ req[q] \in Request /\ req[q].pc = "ladder" /\ req[q].layer = 0
      /\ asked[q] \in Seq(Asked) /\ InTurn(asked[q], Layers)
      /\ Len(asked[q]) = Len(Layers) /\ AllOpen(asked[q])
      /\ \A i \in DOMAIN asked[q] : asked[q][i].to = Layers[i]
      /\ asked[q] # <<>> => asked[q][1].status = 429
  BY OfRequest DEF EnrichInv, LadderExhausted, Phase
<1>2. UNCHANGED <<settings, asked, cache, schema, ready, shared, missed, faults>>
  BY DEF LadderExhausted, CacheStays, Quiet
<1>3. Len(asked[q]) \in 1 .. 4 /\ asked[q] # <<>> /\ DOMAIN asked[q] = 1 .. Len(asked[q])
  BY <1>1, OfRequest, LayersApart
<1>4. asked[q][Len(asked[q])].to \in LadderLayers
  <2>1. Layers[Len(Layers)] \in LadderLayers
    BY OfRequest, LayersFacts, LadderFacts
  <2>2. asked[q][Len(asked[q])].to = Layers[Len(Layers)]
    BY <1>1, <1>3
  <2> QED BY <2>1, <2>2
<1> DEFINE me == Ended(req[q], 429)
<1>5. me \in Request /\ me.pc = "ended" /\ me.answer = 429
  <2>1. 429 \in Statuses \cup {0}
    BY DEF Statuses
  <2> QED BY <1>1, <2>1, EndedFacts
<1>6. Goes(q, me)
  BY DEF LadderExhausted
<1> HIDE DEF me
<1>7. Excused(me, asked[q], Layers, settings.cacheOn)
  <2>1. \E i \in DOMAIN asked[q] : asked[q][i].status = 429
    BY <1>1, <1>3
  <2> QED BY <1>1, <1>4, <1>5, <2>1 DEF Excused
<1>8. RequestOK(me, asked[q], Layers, settings.cacheOn)
  BY <1>1, <1>5, <1>7, JustEnds
<1>9. req' \in [Requests -> Request] /\ asked' \in [Requests -> Seq(Asked)] /\ RequestsOK'
  BY <1>2, <1>5, <1>6, <1>8, SilentStep
<1> QED BY <1>1, <1>2, <1>9 DEF TypeOK

\* A request that moves on to another layer.
MovedOn(me, layer, status) == [me EXCEPT !.layer = layer, !.last = me.last \/ status = 429]

LEMMA MovedOnType ==
    ASSUME NEW me \in Request, NEW layer \in 0 .. 4, NEW status \in Statuses
    PROVE  MovedOn(me, layer, status) \in Request
<1> DEFINE last == me.last \/ status = 429
<1>1. last \in BOOLEAN
  BY DEF Request
<1> HIDE DEF last
<1>2. [me EXCEPT !.layer = layer, !.last = last] \in Request
  BY <1>1, LadderFacts DEF Request
<1> QED BY <1>2 DEF MovedOn, last

\* What has been heard from a source, and the sources' kinds.
Heard(to, status, again) == [to |-> to, status |-> status, again |-> again]

LEMMA HeardFacts ==
    ASSUME NEW to \in Sources, NEW status \in Statuses, NEW again \in BOOLEAN
    PROVE  /\ Heard(to, status, again) \in Asked /\ Heard(to, status, again).to = to
           /\ Heard(to, status, again).status = status
           /\ Heard(to, status, again).again <=> again
BY DEF Heard, Asked

\* AskingStep, for a request that ends.
LEMMA EndingStep ==
    ASSUME EnrichInv, CacheStays, Quiet, NEW q \in Requests, NEW me \in Request,
           NEW to \in Sources, NEW status \in Statuses, NEW again \in BOOLEAN,
           Goes(q, me), Hears(q, to, status, again),
           AllOpen(asked[q]), Follows(asked[q], Heard(to, status, again), Layers), me.pc = "ended",
           Justified(me, asked[q], Heard(to, status, again), Layers)
    PROVE  TypeOK' /\ RequestsOK'
<1> DEFINE a == Heard(to, status, again)
<1>1. a \in Asked /\ a.to = to /\ a.status = status
  BY HeardFacts
<1>2. asked[q] \in Seq(Asked) /\ InTurn(asked[q], Layers)
  BY OfRequest
<1> HIDE DEF a
<1>3. RequestOK(me, Append(asked[q], a), Layers, settings.cacheOn)
  BY <1>1, <1>2, EndsOK DEF a
<1> QED BY <1>3, AskingStep DEF a, Heard

\* AskingStep, for a request that goes on: to another source, or to the cache.
LEMMA GoesOnStep ==
    ASSUME EnrichInv, CacheStays, Quiet, NEW q \in Requests, NEW me \in Request,
           NEW to \in Sources, NEW status \in Statuses, NEW again \in BOOLEAN,
           Goes(q, me), Hears(q, to, status, again),
           AllOpen(asked[q]), Follows(asked[q], Heard(to, status, again), Layers),
           me.pc \notin {"ended", "idle"}, me.answer = 0,
           Phase(me, Append(asked[q], Heard(to, status, again)), Layers)
    PROVE  TypeOK' /\ RequestsOK'
<1> DEFINE a == Heard(to, status, again)
<1>1. a \in Asked /\ asked[q] \in Seq(Asked) /\ InTurn(asked[q], Layers)
  BY HeardFacts, OfRequest
<1> HIDE DEF a
<1>2. InTurn(Append(asked[q], a), Layers)
  BY <1>1, AppendInTurn DEF a
<1>3. RequestOK(me, Append(asked[q], a), Layers, settings.cacheOn)
  BY <1>2 DEF RequestOK, Excused, a
<1> QED BY <1>3, AskingStep DEF a, Heard

\* The metadata is there.
LEMMA GotStep ==
    ASSUME EnrichInv, CacheStays, Quiet, NEW q \in Requests, NEW thumbnail \in BOOLEAN,
           NEW to \in Sources, NEW status \in Statuses, NEW again \in BOOLEAN,
           Goes(q, Got(q, thumbnail)), Hears(q, to, status, again), req[q].op # "extract",
           UnderWay(q),
           AllOpen(asked[q]), Follows(asked[q], Heard(to, status, again), Layers)
    PROVE  TypeOK' /\ RequestsOK'
<1> DEFINE me == Got(q, thumbnail)
<1>1. TypeOK /\ req[q].answer = 0
  BY OfRequest DEF EnrichInv, UnderWay, Excused
<1>2. /\ me \in Request /\ me.op = req[q].op
      /\ \/ me.pc = "save" /\ me.op = "enrich" /\ me.answer = 0
         \/ me.pc = "ended" /\ me.answer = 200
  BY <1>1, GotType
<1> HIDE DEF me
<1>3. CASE me.pc = "ended"
  <2>1. Justified(me, asked[q], Heard(to, status, again), Layers)
    BY <1>2, <1>3 DEF Justified
  <2>2. Goes(q, me)
    BY DEF me
  <2> QED BY <1>2, <1>3, <2>1, <2>2, EndingStep
<1>4. CASE me.pc = "save"
  <2>1. Phase(me, Append(asked[q], Heard(to, status, again)), Layers)
    BY <1>2, <1>4 DEF Phase
  <2>2. me.answer = 0
    BY <1>2, <1>4
  <2> QED BY <1>2, <1>4, <2>1, <2>2, GoesOnStep DEF me
<1> QED BY <1>2, <1>3, <1>4

LEMMA LayerSteps ==
    ASSUME NEW q \in Requests, AskLayer(q)
    PROVE  \E status \in (IF OfScraper(req[q].layer) THEN ScraperStatuses ELSE BeStatuses),
              thumbnail \in BOOLEAN, again \in BOOLEAN :
              /\ ~again /\ Hears(q, Ladder[req[q].layer], status, again)
              /\ Goes(q, IF status = 200 THEN Got(q, thumbnail)
                         ELSE IF MovesOn(req[q].layer, status)
                         THEN MovedOn(req[q], NextLayer(req[q].layer), status)
                         ELSE Ended(req[q], status))
<1>1. PICK status \in (IF OfScraper(req[q].layer) THEN ScraperStatuses ELSE BeStatuses),
           thumbnail \in BOOLEAN :
         /\ Hears(q, Ladder[req[q].layer], status, FALSE)
         /\ Goes(q, IF status = 200 THEN Got(q, thumbnail)
                    ELSE IF MovesOn(req[q].layer, status)
                    THEN [req[q] EXCEPT !.layer = NextLayer(@), !.last = @ \/ status = 429]
                    ELSE Ended(req[q], status))
  BY Zenon DEF AskLayer
<1>2. Goes(q, IF status = 200 THEN Got(q, thumbnail)
              ELSE IF MovesOn(req[q].layer, status)
              THEN MovedOn(req[q], NextLayer(req[q].layer), status)
              ELSE Ended(req[q], status))
  BY <1>1 DEF MovedOn
<1>3. PICK again \in BOOLEAN : ~again /\ Hears(q, Ladder[req[q].layer], status, again)
  BY <1>1
<1> QED BY <1>2, <1>3

\* The layer that is asked is the next available one.
LEMMA AskLayerOK ==
    ASSUME EnrichInv, NEW q \in Requests, AskLayer(q)
    PROVE  TypeOK' /\ RequestsOK'
<1> DEFINE s == asked[q]
           n == Len(asked[q]) + 1
           j == req[q].layer
<1>1. /\ req[q] \in Request /\ req[q].pc = "ladder" /\ j # 0
      /\ s \in Seq(Asked) /\ InTurn(s, Layers) /\ AllOpen(s)
      /\ \A i \in DOMAIN s : s[i].to = Layers[i]
      /\ s # <<>> => s[1].status = 429
      /\ n <= Len(Layers) /\ Layers[n] = Ladder[j]
      /\ req[q].op # "extract" /\ req[q].answer = 0 /\ req[q].pc # "ended"
      /\ settings.session \in BOOLEAN /\ settings.scraper \in BOOLEAN
  BY OfRequest DEF AskLayer, Phase, Excused
<1>2. Len(Ladder) = 4
  BY LadderFacts
<1>3. req[q].layer \in 0 .. Len(Ladder) /\ req[q].layer # 0
  <2>1. req[q] \in Request /\ req[q].layer # 0
    BY <1>1
  <2> QED BY <2>1 DEF Request
<1>4. j \in 1 .. 4
  BY <1>2, <1>3
<1>5. PICK status \in (IF OfScraper(j) THEN ScraperStatuses ELSE BeStatuses),
           thumbnail \in BOOLEAN, again \in BOOLEAN :
         /\ ~again /\ Hears(q, Ladder[j], status, again)
         /\ Goes(q, IF status = 200 THEN Got(q, thumbnail)
                    ELSE IF MovesOn(j, status)
                    THEN MovedOn(req[q], NextLayer(j), status)
                    ELSE Ended(req[q], status))
  BY LayerSteps
<1>6. CacheStays /\ Quiet
  BY DEF AskLayer
<1>7. /\ status \in Statuses /\ status # 0 /\ (status = 503 => OfScraper(j))
      /\ Ladder[j] \in Sources /\ Ladder[j] \in LadderLayers /\ Ladder[j] # "choco"
  BY <1>4, <1>5, LadderFacts DEF ScraperStatuses, BeStatuses, Statuses
<1> DEFINE a == Heard(Ladder[j], status, again)
<1>8. a \in Asked /\ a.to = Ladder[j] /\ a.status = status /\ ~a.again
  BY <1>5, <1>7, HeardFacts
<1>9. Len(s) \in Nat /\ DOMAIN s = 1 .. Len(s) /\ n \in 1 .. Len(Layers) /\ Len(Layers) \in 1 .. 4
  BY <1>1, LayersApart
<1> HIDE DEF s, n, j, a
<1>10. Follows(s, a, Layers)
  <2>1. \A i \in 1 .. Len(s) : i \in 1 .. Len(Layers) /\ i # n
    BY <1>9 DEF n, s
  <2>2. \A i \in 1 .. Len(s) : Layers[i] # Layers[n]
    BY <1>1, <1>9, <2>1, LayersApart
  <2>3. \A i \in 1 .. Len(s) : s[i].to # a.to
    BY <1>1, <1>8, <1>9, <2>2
  <2> QED BY <1>1, <1>7, <1>8, <2>3 DEF Follows, n, s
<1>11. LeavesOpen(a) <=> MovesOn(j, status)
  <2>1. j = 1 \/ j = 2 \/ j = 3 \/ j = 4
    BY <1>4
  <2>2. /\ a.to \in {Ladder[1], Ladder[2]} <=> j <= 2
        /\ a.to \in {Ladder[3], Ladder[4]} <=> j > 2
        /\ a.to # "choco" /\ a.to # "structured"
    BY <1>8, <2>1, LadderFacts
  <2> QED BY <1>4, <1>8, <2>2 DEF LeavesOpen, MovesOn, OfScraper
<1>12. CASE status = 200
  <2>1. Goes(q, Got(q, thumbnail)) /\ Hears(q, Ladder[j], status, again) /\ UnderWay(q)
    BY <1>1, <1>5, <1>12 DEF UnderWay
  <2>2. AllOpen(asked[q]) /\ Follows(asked[q], Heard(Ladder[j], status, again), Layers)
    BY <1>1, <1>10 DEF a, s
  <2> QED BY <1>1, <1>6, <1>7, <2>1, <2>2, GotStep
<1>13. CASE status # 200 /\ ~MovesOn(j, status)
  <2> DEFINE me == Ended(req[q], status)
  <2>1. me \in Request /\ me.pc = "ended" /\ me.answer = status
    BY <1>1, <1>7, EndedFacts
  <2> HIDE DEF me
  <2>2. Goes(q, me) /\ Hears(q, Ladder[j], status, again)
    BY <1>5, <1>13 DEF me
  <2>3. /\ AllOpen(asked[q]) /\ Follows(asked[q], Heard(Ladder[j], status, again), Layers)
        /\ Justified(me, asked[q], Heard(Ladder[j], status, again), Layers)
    BY <1>1, <1>8, <1>10, <1>11, <1>13, <2>1 DEF a, s, Justified
  <2> QED BY <1>6, <1>7, <2>1, <2>2, <2>3, EndingStep
<1>14. CASE status # 200 /\ MovesOn(j, status)
  <2> DEFINE me == MovedOn(req[q], NextLayer(j), status)
             t == Append(s, a)
  <2>1. /\ NextLayer(j) \in 0 .. 4
        /\ NextLayer(j) = 0 => n = Len(Layers)
        /\ NextLayer(j) # 0 => n + 1 <= Len(Layers) /\ Layers[n + 1] = Ladder[NextLayer(j)]
    <3>1. /\ settings.session \in BOOLEAN /\ settings.scraper \in BOOLEAN
          /\ n \in 1 .. Len(Layers) /\ j \in 1 .. 4 /\ Layers[n] = Ladder[j]
      BY <1>1, <1>4, <1>9
    <3> QED BY <3>1, LayerAfter
  <2>2. Goes(q, me) /\ Hears(q, Ladder[j], status, again)
    BY <1>5, <1>14
  <2>3. /\ me \in Request /\ me.pc = "ladder" /\ me.layer = NextLayer(j) /\ me.op = req[q].op
        /\ me.answer = req[q].answer
    <3>1. NextLayer(j) \in 0 .. 4 /\ req[q] \in Request /\ req[q].pc = "ladder"
      BY <1>1, <2>1
    <3>2. PICK k \in 0 .. 4 : k = NextLayer(j)
      BY <3>1
    <3>3. me = MovedOn(req[q], k, status)
      BY <3>2
    <3> HIDE DEF me
    <3>4. req[q] \in Request /\ status \in Statuses /\ k \in 0 .. 4
      BY <1>7, <3>1
    <3>5. MovedOn(req[q], k, status) \in Request
      BY <3>4, MovedOnType
    <3>6. /\ MovedOn(req[q], k, status).pc = req[q].pc
          /\ MovedOn(req[q], k, status).layer = k
          /\ MovedOn(req[q], k, status).op = req[q].op
          /\ MovedOn(req[q], k, status).answer = req[q].answer
      BY <3>4, <3>5 DEF MovedOn, Request
    <3> QED BY <3>1, <3>2, <3>3, <3>5, <3>6
  <2> HIDE DEF me, t
  <2>5. /\ DOMAIN t = 1 .. n /\ Len(t) = n /\ t[n] = a /\ t # <<>>
        /\ \A i \in 1 .. Len(s) : t[i] = s[i]
        /\ \A i \in 1 .. n : i \in 1 .. Len(s) \/ i = n
    BY <1>1, <1>8, <1>9, AppendFacts DEF t, n, s
  <2>6. AllOpen(t)
    BY <1>1, <1>8, <1>11, <1>14, AppendOpen DEF t
  <2>7. \A i \in DOMAIN t : t[i].to = Layers[i]
    BY <1>1, <1>8, <1>9, <2>5
  <2>8. t[1].status = 429
    <3>1. CASE s = <<>>
      <4>1. n = 1
        BY <3>1, <1>9 DEF n, s
      <4>2. j = 1
        BY <1>1, <1>4, <4>1, LadderApart, LayersApart
      <4> QED BY <1>8, <1>14, <2>5, <4>1, <4>2 DEF MovesOn, OfScraper
    <3>2. CASE s # <<>>
      <4>1. 1 \in 1 .. Len(s)
        BY <1>1, <1>9, <3>2
      <4> QED BY <1>1, <2>5, <3>2, <4>1
    <3> QED BY <3>1, <3>2
  <2>9. Phase(me, t, Layers)
    BY <1>1, <2>1, <2>3, <2>5, <2>6, <2>7, <2>8 DEF Phase
  <2>10. /\ AllOpen(asked[q]) /\ Follows(asked[q], Heard(Ladder[j], status, again), Layers)
         /\ Phase(me, Append(asked[q], Heard(Ladder[j], status, again)), Layers)
    BY <1>1, <1>10, <2>9 DEF a, s, t
  <2> QED BY <1>1, <1>6, <1>7, <2>2, <2>3, <2>10, GoesOnStep
<1> QED BY <1>12, <1>13, <1>14

\* Another attempt.
Again(me) == [me EXCEPT !.attempt = me.attempt + 1]

LEMMA AgainFacts ==
    ASSUME NEW me \in Request, me.attempt < MaxAttempts
    PROVE  /\ Again(me) \in Request /\ Again(me).pc = me.pc
           /\ Again(me).attempt = me.attempt + 1
           /\ Again(me).op = me.op /\ Again(me).answer = me.answer
<1>1. me.attempt + 1 \in 1 .. MaxAttempts
  BY DEF Request
<1>2. Again(me) \in Request
  BY <1>1 DEF Again, Request
<1> QED BY <1>1, <1>2 DEF Again, Request

\* What comes of an attempt.
Heeds(q, status, again, thumbnail) ==
    \/ status = 200 /\ Goes(q, Got(q, thumbnail))
    \/ status = 200 /\ Goes(q, At(req[q], "overlay"))
    \/ again /\ TriesAgain(req[q]) /\ Goes(q, Again(req[q]))
    \/ again /\ ~TriesAgain(req[q]) /\ Goes(q, Ended(req[q], status))
    \/ ~again /\ status # 200 /\ Goes(q, Ended(req[q], status))

LEMMA ChocoSteps ==
    ASSUME NEW q \in Requests, AskChoco(q)
    PROVE  \E status \in Statuses, again \in BOOLEAN, thumbnail \in BOOLEAN :
              Hears(q, "choco", status, again) /\ Heeds(q, status, again, thumbnail)
<1>0. {200, 404, 429, 502} \subseteq Statuses
  BY DEF Statuses
<1>1. CASE \E thumbnail \in BOOLEAN :
              /\ Hears(q, "choco", 200, FALSE)
              /\ Goes(q, IF thumbnail THEN Got(q, TRUE) ELSE [req[q] EXCEPT !.pc = "overlay"])
  <2>1. Goes(q, Got(q, TRUE)) \/ Goes(q, At(req[q], "overlay"))
    BY <1>1 DEF At
  <2>2. Heeds(q, 200, FALSE, TRUE)
    BY <2>1 DEF Heeds
  <2>3. Hears(q, "choco", 200, FALSE)
    BY <1>1, Zenon
  <2>4. \E again \in BOOLEAN, thumbnail \in BOOLEAN :
           Hears(q, "choco", 200, again) /\ Heeds(q, 200, again, thumbnail)
    BY <2>2, <2>3
  <2>5. 200 \in Statuses
    BY DEF Statuses
  <2> QED BY <2>4, <2>5
<1>2. CASE \E status \in {429, 502} :
              /\ Hears(q, "choco", status, TRUE)
              /\ Goes(q, IF TriesAgain(req[q]) THEN [req[q] EXCEPT !.attempt = @ + 1]
                         ELSE Ended(req[q], status))
  <2>1. PICK status \in {429, 502} :
              /\ Hears(q, "choco", status, TRUE)
              /\ Goes(q, IF TriesAgain(req[q]) THEN [req[q] EXCEPT !.attempt = @ + 1]
                         ELSE Ended(req[q], status))
    BY <1>2
  <2>2. status \in Statuses
    BY <1>0
  <2>3. Heeds(q, status, TRUE, TRUE)
    BY <2>1 DEF Again, Heeds
  <2> QED BY <2>1, <2>2, <2>3
<1>3. CASE \E status \in {404, 502} :
              Hears(q, "choco", status, FALSE) /\ Goes(q, Ended(req[q], status))
  <2>1. PICK status \in {404, 502} :
              Hears(q, "choco", status, FALSE) /\ Goes(q, Ended(req[q], status))
    BY <1>3
  <2>2. status # 200 /\ status \in Statuses
    BY <1>0
  <2>3. Heeds(q, status, FALSE, FALSE)
    BY <2>1, <2>2, Zenon DEF Heeds
  <2>4. Hears(q, "choco", status, FALSE) /\ Heeds(q, status, FALSE, FALSE)
    BY <2>1, <2>3
  <2>5. \E again \in BOOLEAN, thumbnail \in BOOLEAN :
           Hears(q, "choco", status, again) /\ Heeds(q, status, again, thumbnail)
    BY <2>4
  <2> QED BY <2>2, <2>5
<1>4. \/ \E thumbnail \in BOOLEAN :
            /\ Hears(q, "choco", 200, FALSE)
            /\ Goes(q, IF thumbnail THEN Got(q, TRUE) ELSE [req[q] EXCEPT !.pc = "overlay"])
      \/ \E status \in {429, 502} :
            /\ Hears(q, "choco", status, TRUE)
            /\ Goes(q, IF TriesAgain(req[q]) THEN [req[q] EXCEPT !.attempt = @ + 1]
                       ELSE Ended(req[q], status))
      \/ \E status \in {404, 502} :
            Hears(q, "choco", status, FALSE) /\ Goes(q, Ended(req[q], status))
  BY DEF AskChoco
<1> QED BY <1>1, <1>2, <1>3, <1>4

\* An attempt with ChocoData, up to _MAX_ATTEMPTS of them.
LEMMA AskChocoOK ==
    ASSUME EnrichInv, NEW q \in Requests, AskChoco(q)
    PROVE  TypeOK' /\ RequestsOK'
<1> DEFINE s == asked[q]
<1>1. /\ req[q] \in Request /\ req[q].pc = "choco" /\ UnderWay(q)
      /\ s \in Seq(Asked) /\ AllOpen(s) /\ Len(s) = req[q].attempt - 1
      /\ \A i \in DOMAIN s : s[i].to = "choco"
      /\ req[q].op # "extract" /\ req[q].answer = 0
  BY OfRequest DEF AskChoco, Phase, Excused, UnderWay
<1>2. CacheStays /\ Quiet
  BY DEF AskChoco
<1>3. "choco" \in Sources /\ "choco" \notin LadderLayers
  <2>1. \A j \in 1 .. 4 : Ladder[j] # "choco"
    BY LadderFacts
  <2> QED BY <2>1, LadderFacts DEF Sources
<1>4. /\ req[q].attempt \in 1 .. MaxAttempts /\ Len(s) + 1 = req[q].attempt
      /\ Len(s) \in Nat /\ DOMAIN s = 1 .. Len(s)
  BY <1>1 DEF Request
<1> HIDE DEF s
<1>6. ASSUME NEW status \in Statuses, NEW again \in BOOLEAN
      PROVE  /\ Follows(s, Heard("choco", status, again), Layers)
             /\ Heard("choco", status, again) \in Asked
             /\ Heard("choco", status, again).to = "choco"
             /\ LeavesOpen(Heard("choco", status, again)) <=> again \/ status = 200
  <2> DEFINE a == Heard("choco", status, again)
  <2>1. a \in Asked /\ a.to = "choco" /\ a.status = status /\ (a.again <=> again)
    BY <1>3, HeardFacts
  <2> HIDE DEF a
  <2>2. Follows(s, a, Layers)
    BY <1>3, <1>4, <2>1 DEF Follows
  <2>3. LeavesOpen(a) <=> again \/ status = 200
    <3>1. a.to \notin {Ladder[1], Ladder[2]} /\ a.to \notin {Ladder[3], Ladder[4]}
          /\ a.to # "structured"
      BY <2>1, LadderFacts
    <3> QED BY <2>1, <3>1 DEF LeavesOpen
  <2> QED BY <2>1, <2>2, <2>3 DEF a
<1>7. ASSUME NEW status \in Statuses, NEW again \in BOOLEAN, again \/ status = 200
      PROVE  /\ AllOpen(Append(s, Heard("choco", status, again)))
             /\ Len(Append(s, Heard("choco", status, again))) = req[q].attempt
             /\ \A i \in DOMAIN Append(s, Heard("choco", status, again)) :
                   Append(s, Heard("choco", status, again))[i].to = "choco"
  <2> DEFINE a == Heard("choco", status, again)
  <2>1. a \in Asked /\ a.to = "choco" /\ LeavesOpen(a)
    BY <1>6, <1>7
  <2> HIDE DEF a
  <2>2. AllOpen(Append(s, a))
    BY <1>1, <2>1, AppendOpen
  <2>3. \A i \in 1 .. Len(s) + 1 : i \in 1 .. Len(s) \/ i = Len(s) + 1
    BY <1>4
  <2>4. /\ Len(Append(s, a)) = req[q].attempt
        /\ \A i \in DOMAIN Append(s, a) : Append(s, a)[i].to = "choco"
    BY <1>1, <1>4, <2>1, <2>3, AppendFacts
  <2> QED BY <2>2, <2>4 DEF a
<1>8. PICK status \in Statuses, again \in BOOLEAN, thumbnail \in BOOLEAN :
         Hears(q, "choco", status, again) /\ Heeds(q, status, again, thumbnail)
  BY ChocoSteps
<1>9. /\ AllOpen(asked[q]) /\ Follows(asked[q], Heard("choco", status, again), Layers)
  BY <1>1, <1>6 DEF s
<1>10. CASE status = 200 /\ Goes(q, Got(q, thumbnail))
  BY <1>1, <1>2, <1>3, <1>8, <1>9, <1>10, GotStep
<1>11. CASE status = 200 /\ Goes(q, At(req[q], "overlay"))
  <2> DEFINE me == At(req[q], "overlay")
  <2>1. me \in Request /\ me.pc = "overlay" /\ me.op # "extract" /\ me.answer = 0
    BY <1>1, AtFacts
  <2> HIDE DEF me
  <2>2. Phase(me, Append(asked[q], Heard("choco", status, again)), Layers)
    BY <1>7, <1>11, <2>1 DEF Phase, s
  <2>3. Goes(q, me)
    BY <1>11 DEF me
  <2> QED BY <1>2, <1>3, <1>8, <1>9, <2>1, <2>2, <2>3, GoesOnStep
<1>12. CASE again /\ TriesAgain(req[q]) /\ Goes(q, Again(req[q]))
  <2> DEFINE me == Again(req[q])
  <2>1. /\ me \in Request /\ me.pc = "choco" /\ me.op # "extract" /\ me.answer = 0
        /\ req[q].attempt = me.attempt - 1
    BY <1>1, <1>4, <1>12, AgainFacts DEF TriesAgain
  <2> HIDE DEF me
  <2>2. Phase(me, Append(asked[q], Heard("choco", status, again)), Layers)
    BY <1>7, <1>12, <2>1 DEF Phase, s
  <2>3. Goes(q, me)
    BY <1>12 DEF me
  <2> QED BY <1>2, <1>3, <1>8, <1>9, <2>1, <2>2, <2>3, GoesOnStep
<1>13. CASE /\ (again /\ ~TriesAgain(req[q])) \/ (~again /\ status # 200)
            /\ Goes(q, Ended(req[q], status))
  <2> DEFINE me == Ended(req[q], status)
  <2>1. me \in Request /\ me.pc = "ended" /\ me.answer = status
    BY <1>1, EndedFacts
  <2> HIDE DEF me
  <2>2. Justified(me, asked[q], Heard("choco", status, again), Layers)
    <3>1. Heard("choco", status, again).status = status
      BY <1>3, HeardFacts
    <3>2. ~again => ~LeavesOpen(Heard("choco", status, again))
      BY <1>6, <1>13
    <3>3. again => Len(asked[q]) + 1 = MaxAttempts
      BY <1>4, <1>13 DEF TriesAgain, s
    <3> QED BY <1>6, <2>1, <3>1, <3>2, <3>3 DEF Justified
  <2>3. Goes(q, me)
    BY <1>13 DEF me
  <2> QED BY <1>2, <1>3, <1>8, <1>9, <2>1, <2>2, <2>3, EndingStep
<1> QED BY <1>8, <1>10, <1>11, <1>12, <1>13 DEF Heeds

\* The one source of a site, or the first one of all.
LEMMA FirstAsked ==
    ASSUME NEW layers, NEW a \in Asked, a.to \notin LadderLayers, a.to # "choco"
    PROVE  Follows(<<>>, a, layers) /\ AllOpen(<<>>)
BY DEF Follows, AllOpen

LEMMA AskOverlayOK ==
    ASSUME EnrichInv, NEW q \in Requests, AskOverlay(q)
    PROVE  TypeOK' /\ RequestsOK'
<1>1. /\ req[q].pc = "overlay" /\ UnderWay(q) /\ AllOpen(asked[q])
      /\ \A i \in DOMAIN asked[q] : asked[q][i].to = "choco"
      /\ req[q].op # "extract" /\ asked[q] \in Seq(Asked)
  BY OfRequest DEF AskOverlay, Phase, UnderWay
<1>2. CacheStays /\ Quiet
  BY DEF AskOverlay
<1>3. "overlay" \in Sources /\ "overlay" \notin LadderLayers
  <2>1. \A j \in 1 .. 4 : Ladder[j] # "overlay"
    <3>1. \A j \in 1 .. 4 : j = 1 \/ j = 2 \/ j = 3 \/ j = 4
      OBVIOUS
    <3> QED BY <3>1, LadderFacts
  <2> QED BY <2>1, LadderFacts DEF Sources
<1>4. {200, 502, 500} \subseteq Statuses
  BY DEF Statuses
<1>s. PICK status \in {200, 502, 500} :
         /\ Hears(q, "overlay", status, FALSE)
         /\ Goes(q, IF status = 500 THEN Ended(req[q], 500) ELSE Got(q, status = 200))
  BY DEF AskOverlay
<1>a. PICK again \in BOOLEAN : ~again /\ Hears(q, "overlay", status, again)
  BY <1>s
<1>5. /\ status \in Statuses
      /\ \/ \E found \in BOOLEAN : Goes(q, Got(q, found))
         \/ status = 500 /\ Goes(q, Ended(req[q], status))
  <2>1. CASE status = 500
    BY <1>4, <1>s, <2>1
  <2>2. CASE status # 500
    <3>1. Goes(q, Got(q, status = 200)) /\ (status = 200) \in BOOLEAN
      BY <1>s, <2>2
    <3>2. \E found \in BOOLEAN : Goes(q, Got(q, found))
      BY <3>1, Zenon
    <3> QED BY <1>4, <3>2
  <2> QED BY <2>1, <2>2
<1> DEFINE a == Heard("overlay", status, again)
<1>6. a \in Asked /\ a.to = "overlay" /\ a.status = status
  BY <1>3, <1>5, HeardFacts
<1> HIDE DEF a
<1>7. Follows(asked[q], a, Layers) /\ ~LeavesOpen(a)
  BY <1>1, <1>3, <1>6, LadderFacts DEF Follows, LeavesOpen
<1>8. CASE \E found \in BOOLEAN : Goes(q, Got(q, found))
  <2>1. PICK found \in BOOLEAN : Goes(q, Got(q, found))
    BY <1>8
  <2> QED BY <1>1, <1>2, <1>3, <1>a, <1>5, <1>7, <2>1, GotStep DEF a
<1>9. CASE status = 500 /\ Goes(q, Ended(req[q], status))
  <2> DEFINE me == Ended(req[q], status)
  <2>1. me \in Request /\ me.pc = "ended" /\ me.answer = status
    BY <1>5, OfRequest, EndedFacts
  <2>2. Goes(q, me)
    BY <1>9
  <2> HIDE DEF me
  <2>3. Justified(me, asked[q], a, Layers)
    BY <1>6, <1>7, <1>9, <2>1 DEF Justified
  <2> QED BY <1>1, <1>2, <1>3, <1>a, <1>5, <1>7, <2>1, <2>2, <2>3, EndingStep DEF a
<1> QED BY <1>5, <1>8, <1>9

LEMMA AskOnlyOK ==
    ASSUME EnrichInv, NEW q \in Requests, NEW source \in {"tiktok", "page"}, AskOnly(q, source)
    PROVE  TypeOK' /\ RequestsOK'
<1>1. /\ req[q] \in Request /\ UnderWay(q) /\ asked[q] = <<>> /\ req[q].op # "extract"
  BY OfRequest DEF AskOnly, Phase, UnderWay
<1>2. CacheStays /\ Quiet
  BY DEF AskOnly
<1>3. source \in Sources /\ source \notin LadderLayers /\ source # "choco"
      /\ source # "structured"
  <2>1. \A j \in 1 .. 4 : Ladder[j] # source
    <3>1. \A j \in 1 .. 4 : j = 1 \/ j = 2 \/ j = 3 \/ j = 4
      OBVIOUS
    <3> QED BY <3>1, LadderFacts
  <2> QED BY <2>1, LadderFacts DEF Sources
<1>4. {200, 502, 500} \subseteq Statuses
  BY DEF Statuses
<1>s. PICK status \in {200, 502, 500}, thumbnail \in BOOLEAN :
         /\ Hears(q, source, status, FALSE)
         /\ Goes(q, IF status = 200 THEN Got(q, thumbnail) ELSE Ended(req[q], status))
  BY DEF AskOnly
<1>a. PICK again \in BOOLEAN : ~again /\ Hears(q, source, status, again)
  BY <1>s
<1>5. /\ status \in Statuses /\ status # 429
      /\ \/ status = 200 /\ Goes(q, Got(q, thumbnail))
         \/ status # 200 /\ Goes(q, Ended(req[q], status))
  BY <1>4, <1>s
<1> DEFINE a == Heard(source, status, again)
<1>6. a \in Asked /\ a.to = source /\ a.status = status
  BY <1>3, <1>5, HeardFacts
<1> HIDE DEF a
<1>7. /\ AllOpen(asked[q]) /\ Follows(asked[q], a, Layers) /\ ~LeavesOpen(a)
  <2>1. ~LeavesOpen(a)
    BY <1>3, <1>6, LadderFacts DEF LeavesOpen
  <2> QED BY <1>1, <1>3, <1>6, <2>1, FirstAsked
<1>8. CASE status = 200 /\ Goes(q, Got(q, thumbnail))
  BY <1>1, <1>2, <1>3, <1>a, <1>5, <1>7, <1>8, GotStep DEF a
<1>9. CASE status # 200 /\ Goes(q, Ended(req[q], status))
  <2> DEFINE me == Ended(req[q], status)
  <2>1. me \in Request /\ me.pc = "ended" /\ me.answer = status
    BY <1>1, <1>5, EndedFacts
  <2>2. Goes(q, me)
    BY <1>9
  <2> HIDE DEF me
  <2>3. Justified(me, asked[q], a, Layers)
    BY <1>6, <1>7, <2>1 DEF Justified
  <2> QED BY <1>2, <1>3, <1>a, <1>5, <1>7, <2>1, <2>2, <2>3, EndingStep DEF a
<1> QED BY <1>5, <1>8, <1>9

\* Groq is asked with a schema, and once more without it if it was refused.
LEMMA AskGroqOK ==
    ASSUME EnrichInv, NEW q \in Requests, AskGroq(q)
    PROVE  TypeOK' /\ RequestsOK'
<1> DEFINE source == req[q].pc
<1>1. /\ req[q] \in Request /\ asked[q] \in Seq(Asked) /\ req[q].answer = 0
      /\ source \in {"structured", "plain"}
      /\ source = "structured" => asked[q] = <<>>
      /\ source = "plain" => Len(asked[q]) = 1 /\ asked[q][1].to = "structured" /\ AllOpen(asked[q])
  BY OfRequest DEF AskGroq, Phase, Excused
<1>2. CacheStays /\ Quiet
  BY DEF AskGroq
<1>s. PICK status \in {200, 400, 502} :
         /\ Hears(q, source, status, FALSE)
         /\ Goes(q, IF FallsBack(source, status) THEN [req[q] EXCEPT !.pc = "plain"]
                    ELSE Ended(req[q], 200))
  BY DEF AskGroq
<1>b. \/ FallsBack(source, status) /\ Goes(q, At(req[q], "plain"))
      \/ ~FallsBack(source, status) /\ Goes(q, Ended(req[q], 200))
  BY <1>s DEF At
<1>3. PICK again \in BOOLEAN : ~again /\ Hears(q, source, status, again)
  BY <1>s
<1> HIDE DEF source
<1>4. /\ source \in Sources /\ source \notin LadderLayers /\ source # "choco"
      /\ status \in Statuses /\ 200 \in Statuses \cup {0}
  <2>1. \A j \in 1 .. 4 : Ladder[j] # source
    <3>1. \A j \in 1 .. 4 : j = 1 \/ j = 2 \/ j = 3 \/ j = 4
      OBVIOUS
    <3> QED BY <1>1, <3>1, LadderFacts
  <2> QED BY <1>1, <2>1, LadderFacts DEF Sources, Statuses
<1> DEFINE a == Heard(source, status, again)
<1>5. a \in Asked /\ a.to = source /\ a.status = status
  BY <1>4, HeardFacts
<1> HIDE DEF a
<1>6. LeavesOpen(a) <=> FallsBack(source, status)
  <2>1. a.to \notin {Ladder[1], Ladder[2]} /\ a.to \notin {Ladder[3], Ladder[4]}
    BY <1>4, <1>5, LadderFacts
  <2> QED BY <1>4, <1>5, <2>1 DEF LeavesOpen, FallsBack
<1>7. AllOpen(asked[q]) /\ Follows(asked[q], a, Layers)
  <2>1. CASE source = "structured"
    BY <1>1, <1>4, <1>5, <2>1, FirstAsked
  <2>2. CASE source = "plain"
    <3>1. Len(asked[q]) = 1 /\ asked[q][1].to = "structured" /\ AllOpen(asked[q])
      BY <1>1, <2>2
    <3>2. \A i \in 1 .. 1 : i = 1
      OBVIOUS
    <3> QED BY <1>4, <1>5, <2>2, <3>1, <3>2 DEF Follows
  <2> QED BY <1>1, <2>1, <2>2
<1>8. CASE FallsBack(source, status) /\ Goes(q, At(req[q], "plain"))
  <2> DEFINE me == At(req[q], "plain")
             t == Append(asked[q], a)
  <2>1. me \in Request /\ me.pc = "plain" /\ me.answer = 0
    BY <1>1, AtFacts
  <2>2. Goes(q, me)
    BY <1>8
  <2> HIDE DEF me
  <2>3. source = "structured" /\ asked[q] = <<>>
    BY <1>1, <1>8 DEF FallsBack
  <2>4. Len(t) = 1 /\ t[1] = a
    BY <1>5, <2>3
  <2>5. AllOpen(t)
    BY <1>1, <1>5, <1>6, <1>7, <1>8, AppendOpen
  <2> HIDE DEF t
  <2>6. Phase(me, t, Layers)
    BY <1>5, <2>1, <2>3, <2>4, <2>5 DEF Phase
  <2> QED BY <1>2, <1>3, <1>4, <1>7, <2>1, <2>2, <2>6, GoesOnStep DEF a, t
<1>9. CASE ~FallsBack(source, status) /\ Goes(q, Ended(req[q], 200))
  <2> DEFINE me == Ended(req[q], 200)
  <2>1. me \in Request /\ me.pc = "ended" /\ me.answer = 200
    BY <1>1, <1>4, EndedFacts
  <2>2. Goes(q, me)
    BY <1>9
  <2> HIDE DEF me
  <2>3. Justified(me, asked[q], a, Layers)
    BY <1>6, <1>9, <2>1 DEF Justified
  <2> QED BY <1>2, <1>3, <1>4, <1>7, <2>1, <2>2, <2>3, EndingStep DEF a
<1> QED BY <1>b, <1>8, <1>9

\* A request whose metadata was or was not saved, or that is cut off, ends well.
LEMMA EndsWell ==
    ASSUME EnrichInv, NEW q \in Requests, NEW status \in {0, 200},
           status = 200 => req[q].op # "extract"
    PROVE  /\ Ended(req[q], status) \in Request
           /\ RequestOK(Ended(req[q], status), asked[q], Layers, settings.cacheOn)
<1>1. req[q] \in Request /\ InTurn(asked[q], Layers) /\ status \in Statuses \cup {0}
  BY OfRequest DEF Statuses
<1> DEFINE me == Ended(req[q], status)
<1>2. me \in Request /\ me.pc = "ended" /\ me.answer = status /\ me.op = req[q].op
  BY <1>1, EndedFacts
<1> HIDE DEF me
<1>3. Excused(me, asked[q], Layers, settings.cacheOn)
  BY <1>2 DEF Excused
<1>4. RequestOK(me, asked[q], Layers, settings.cacheOn)
  BY <1>1, <1>2, <1>3, JustEnds
<1> QED BY <1>2, <1>4 DEF me

LEMMA SaveOK ==
    ASSUME EnrichInv, NEW q \in Requests, Save(q)
    PROVE  TypeOK' /\ RequestsOK'
<1>1. /\ TypeOK /\ req[q] \in Request /\ req[q].op = "enrich"
      /\ req[q].key \in Keys /\ req[q].result \in Payload \cup {Nothing}
  BY OfRequest DEF EnrichInv, Save, Phase, Request
<1>2. UNCHANGED <<settings, asked, shared, missed, faults>> /\ Goes(q, Ended(req[q], 200))
  BY DEF Save, Quiet
<1>3. schema' \in BOOLEAN /\ ready' \in [Workers -> BOOLEAN]
  BY <1>1 DEF TypeOK, Save, CacheStays, Initialised
<1>4. cache' \in [Keys -> Payload \cup {Nothing}]
  BY <1>1 DEF TypeOK, Save, CacheStays
<1>5. /\ Ended(req[q], 200) \in Request
      /\ RequestOK(Ended(req[q], 200), asked[q], Layers, settings.cacheOn)
  BY <1>1, EndsWell
<1>6. req' \in [Requests -> Request] /\ asked' \in [Requests -> Seq(Asked)] /\ RequestsOK'
  BY <1>2, <1>5, SilentStep
<1> QED BY <1>1, <1>2, <1>3, <1>4, <1>6 DEF TypeOK

LEMMA ReadFailsOK ==
    ASSUME EnrichInv, NEW q \in Requests, ReadFails(q)
    PROVE  TypeOK' /\ RequestsOK'
<1>1. /\ TypeOK /\ req[q] \in Request /\ req[q].pc = "lookup" /\ req[q].key \in Keys
      /\ req[q].answer = 0
  BY OfRequest DEF EnrichInv, ReadFails, Excused, Request
<1>2. /\ UNCHANGED <<settings, asked, shared, cache, schema, ready>>
      /\ faults < MaxFaults /\ faults' = faults + 1 /\ missed' = missed \cup {req[q].key}
      /\ Goes(q, At(req[q], "fetch"))
  BY DEF ReadFails, Fault, CacheStays, At
<1> DEFINE me == At(req[q], "fetch")
<1>3. /\ me \in Request /\ me.pc = "fetch" /\ me.answer = 0 /\ me.op = req[q].op
      /\ me.attempt = req[q].attempt
  BY <1>1, AtFacts
<1>4. Goes(q, me)
  BY <1>2
<1> HIDE DEF me
<1>5. RequestOK(me, asked[q], Layers, settings.cacheOn)
  BY <1>1, <1>3, LeavesLookup
<1>6. req' \in [Requests -> Request] /\ asked' \in [Requests -> Seq(Asked)] /\ RequestsOK'
  BY <1>2, <1>3, <1>4, <1>5, SilentStep
<1>7. faults' \in 0 .. MaxFaults
  BY <1>1, <1>2 DEF TypeOK
<1> QED BY <1>1, <1>2, <1>6, <1>7 DEF TypeOK

LEMMA WriteFailsOK ==
    ASSUME EnrichInv, NEW q \in Requests, WriteFails(q)
    PROVE  TypeOK' /\ RequestsOK'
<1>1. TypeOK /\ req[q].op = "enrich"
  <2>1. TypeOK /\ req[q].pc = "save"
    BY DEF EnrichInv, WriteFails
  <2> QED BY <2>1, OfRequest DEF Phase
<1>2. /\ UNCHANGED <<settings, asked, shared, missed, cache, schema, ready>>
      /\ faults < MaxFaults /\ faults' = faults + 1
      /\ Goes(q, Ended(req[q], 200))
  BY DEF WriteFails, Fault, CacheStays, AfterFailedWrite
<1>3. /\ Ended(req[q], 200) \in Request
      /\ RequestOK(Ended(req[q], 200), asked[q], Layers, settings.cacheOn)
  BY <1>1, EndsWell
<1>4. req' \in [Requests -> Request] /\ asked' \in [Requests -> Seq(Asked)] /\ RequestsOK'
  BY <1>2, <1>3, SilentStep
<1>5. faults' \in 0 .. MaxFaults
  BY <1>1, <1>2 DEF TypeOK
<1> QED BY <1>1, <1>2, <1>4, <1>5 DEF TypeOK

LEMMA LoseFileOK ==
    ASSUME EnrichInv, LoseFile
    PROVE  TypeOK' /\ RequestsOK'
<1>1. TypeOK /\ RequestsOK
  BY DEF EnrichInv
<1>2. /\ UNCHANGED <<settings, asked, shared, missed, ready, req>>
      /\ faults < MaxFaults /\ faults' = faults + 1
      /\ schema' = FALSE /\ cache' = [k \in Keys |-> Nothing]
  BY DEF LoseFile, Fault
<1>3. faults' \in 0 .. MaxFaults
  BY <1>1, <1>2 DEF TypeOK
<1>4. TypeOK'
  BY <1>1, <1>2, <1>3 DEF TypeOK
<1>5. RequestsOK'
  BY <1>1, <1>2, LayersSame DEF RequestsOK
<1> QED BY <1>4, <1>5

LEMMA RestartOK ==
    ASSUME EnrichInv, NEW w \in Workers, Restart(w)
    PROVE  TypeOK' /\ RequestsOK'
<1>1. TypeOK /\ RequestsOK
  BY DEF EnrichInv
<1>2. /\ UNCHANGED <<settings, asked, shared, missed, cache, schema>>
      /\ faults < MaxFaults /\ faults' = faults + 1
      /\ ready' = [ready EXCEPT ![w] = FALSE]
      /\ req' = [q \in Requests |-> IF Worker[q] = w /\ UnderWay(q) THEN Ended(req[q], 0)
                                    ELSE req[q]]
  BY DEF Restart, Fault
<1>3. \A q \in Requests : Ended(req[q], 0) \in Request
                          /\ RequestOK(Ended(req[q], 0), asked[q], Layers, settings.cacheOn)
  BY EndsWell
<1>4. req' \in [Requests -> Request]
  BY <1>1, <1>2, <1>3 DEF TypeOK
<1>5. faults' \in 0 .. MaxFaults
  BY <1>1, <1>2 DEF TypeOK
<1>6. ready' \in [Workers -> BOOLEAN]
  BY <1>1, <1>2 DEF TypeOK
<1>7. TypeOK'
  BY <1>1, <1>2, <1>4, <1>5, <1>6 DEF TypeOK
<1>8. \A q \in Requests : RequestOK(req'[q], asked[q], Layers, settings.cacheOn)
  BY <1>1, <1>2, <1>3 DEF RequestsOK
<1>9. RequestsOK'
  BY <1>2, <1>8, LayersSame DEF RequestsOK
<1> QED BY <1>7, <1>9

-----------------------------------------------------------------------------
(* The cache.                                                               *)

LEMMA AskFrame ==
    ASSUME NEW q \in Requests, Ask(q)
    PROVE  Quiet /\ CacheStays /\ req[q].pc # "lookup" /\ req[q].pc # "save"
<1>1. CASE AskLayer(q)
  BY <1>1 DEF AskLayer
<1>2. CASE LadderExhausted(q)
  BY <1>2 DEF LadderExhausted
<1>3. CASE AskChoco(q)
  BY <1>3 DEF AskChoco
<1>4. CASE AskOverlay(q)
  BY <1>4 DEF AskOverlay
<1>5. CASE AskTikTok(q)
  BY <1>5 DEF AskTikTok, AskOnly
<1>6. CASE AskPage(q)
  BY <1>6 DEF AskPage, AskOnly
<1>7. CASE AskGroq(q)
  BY <1>7 DEF AskGroq
<1> QED BY <1>1, <1>2, <1>3, <1>4, <1>5, <1>6, <1>7 DEF Ask

\* A step of a request under way changes neither its link nor its operation.
LEMMA KeepsLink ==
    ASSUME EnrichInv, NEW q \in Requests,
           Lookup(q) \/ Fetch(q) \/ Ask(q) \/ Save(q) \/ ReadFails(q) \/ WriteFails(q)
    PROVE  /\ UnderWay(q) /\ req'[q].key = req[q].key /\ req'[q].op = req[q].op
           /\ \A p \in Requests : p # q => req'[p] = req[p]
<1>1. req \in [Requests -> Request] /\ req[q] \in Request
  BY OfRequest DEF EnrichInv, TypeOK
<1> DEFINE Same(me) == me.key = req[q].key /\ me.op = req[q].op
<1>2. /\ \A pc : Same(At(req[q], pc))
      /\ \A status : Same(Ended(req[q], status))
      /\ \A layer : Same(OnLadder(req[q], layer))
      /\ \A layer, status : Same(MovedOn(req[q], layer, status))
      /\ Same(Again(req[q]))
  BY <1>1 DEF At, Ended, OnLadder, MovedOn, Again, Request
<1>3. \A entry \in Payload \cup {Nothing} : Same(LookedUp(req[q], entry))
  BY <1>1, LookedUpFacts
<1>4. \A thumbnail \in BOOLEAN : Same(Got(q, thumbnail))
  BY GotType DEF EnrichInv
<1> HIDE DEF Same
<1>5. SUFFICES ASSUME TRUE
               PROVE  UnderWay(q) /\ \E me : Goes(q, me) /\ Same(me)
  BY <1>1 DEF Goes, Same
<1>6. CASE Lookup(q)
  <2>1. cache[req[q].key] \in Payload \cup {Nothing} /\ Nothing \in Payload \cup {Nothing}
    BY <1>1 DEF EnrichInv, TypeOK, Request
  <2> QED BY <1>2, <1>3, <1>6, <2>1 DEF Lookup, UnderWay
<1>7. CASE Fetch(q)
  <2>1. \/ Goes(q, At(req[q], "choco")) \/ Goes(q, OnLadder(req[q], NextLayer(0)))
        \/ Goes(q, At(req[q], "tiktok")) \/ Goes(q, At(req[q], "page"))
        \/ Goes(q, Ended(req[q], 502))
    <3>1. Site[req[q].key] \in {"instagram", "tiktok", "web"}
      BY <1>1 DEF Request
    <3> QED BY <1>7, <3>1 DEF Fetch, At, OnLadder
  <2>2. UnderWay(q)
    BY <1>7 DEF Fetch, UnderWay
  <2> QED BY <1>2, <2>1, <2>2
<1>8. CASE AskLayer(q)
  <2>1. \E status, thumbnail : /\ thumbnail \in BOOLEAN
                               /\ \/ Goes(q, Got(q, thumbnail)) \/ Goes(q, Ended(req[q], status))
                                  \/ Goes(q, MovedOn(req[q], NextLayer(req[q].layer), status))
    BY <1>8, LayerSteps
  <2>2. UnderWay(q)
    BY <1>8 DEF AskLayer, UnderWay
  <2> QED BY <1>2, <1>4, <2>1, <2>2
<1>9. CASE LadderExhausted(q)
  BY <1>2, <1>9 DEF LadderExhausted, UnderWay
<1>10. CASE AskChoco(q)
  <2>1. \/ \E thumbnail \in BOOLEAN : Goes(q, Got(q, thumbnail))
        \/ Goes(q, At(req[q], "overlay")) \/ Goes(q, Again(req[q]))
        \/ \E status : Goes(q, Ended(req[q], status))
    BY <1>10, ChocoSteps DEF Heeds
  <2>2. UnderWay(q)
    BY <1>10 DEF AskChoco, UnderWay
  <2> QED BY <1>2, <1>4, <2>1, <2>2
<1>11. CASE AskOverlay(q)
  <2>1. Goes(q, Ended(req[q], 500)) \/ \E found \in BOOLEAN : Goes(q, Got(q, found))
    BY <1>11 DEF AskOverlay
  <2> QED BY <1>2, <1>4, <1>11, <2>1 DEF AskOverlay, UnderWay
<1>12. CASE AskTikTok(q) \/ AskPage(q)
  <2>1. PICK source \in {"tiktok", "page"} : AskOnly(q, source)
    BY <1>12 DEF AskTikTok, AskPage
  <2> QED BY <1>2, <1>4, <2>1 DEF AskOnly, UnderWay
<1>13. CASE AskGroq(q)
  <2>1. Goes(q, At(req[q], "plain")) \/ Goes(q, Ended(req[q], 200))
    BY <1>13 DEF AskGroq, At
  <2> QED BY <1>2, <1>13, <2>1 DEF AskGroq, UnderWay
<1>14. CASE Save(q)
  BY <1>2, <1>14 DEF Save, UnderWay
<1>15. CASE ReadFails(q)
  <2>1. Goes(q, At(req[q], "fetch"))
    BY <1>15 DEF ReadFails, At
  <2> QED BY <1>2, <1>15, <2>1 DEF ReadFails, UnderWay
<1>16. CASE WriteFails(q)
  BY <1>2, <1>16 DEF WriteFails, AfterFailedWrite, UnderWay
<1> QED BY <1>6, <1>7, <1>8, <1>9, <1>10, <1>11, <1>12, <1>13, <1>14, <1>15, <1>16 DEF Ask

LEMMA ArriveCache ==
    ASSUME EnrichInv, NEW q \in Requests, Arrive(q)
    PROVE  CacheInv'
<1>1. /\ TypeOK /\ CacheInv /\ req[q].pc = "idle"
      /\ UNCHANGED <<settings, cache, missed>>
  BY DEF EnrichInv, Arrive, CacheStays
<1>2. PICK me \in First :
         /\ Goes(q, me)
         /\ shared' = IF me.pc = "lookup" /\ \E p \in Requests : /\ UnderWay(p) /\ req[p].op = "enrich"
                                                                 /\ req[p].key = me.key
                      THEN shared \cup {me.key} ELSE shared
  BY DEF Arrive
<1>3. me.pc \in {"lookup", "ended"} \/ me.op # "enrich"
  BY <1>2, FirstFacts
<1>4. req'[q] = me /\ \A p \in Requests : p # q => req'[p] = req[p]
  BY <1>1, <1>2 DEF Goes, TypeOK
<1>5. shared \subseteq shared'
  BY <1>2
<1>6. \A p \in Requests : p # q => (Enriching(p)' <=> Enriching(p)) /\ req'[p].key = req[p].key
  BY <1>4 DEF Enriching, UnderWay
<1>7. Enriching(q)' => me.pc = "lookup" /\ me.op = "enrich"
  BY <1>3, <1>4 DEF Enriching, UnderWay
<1>8. \A p \in Requests : p # q /\ Enriching(p) /\ req[p].key = me.key /\ me.pc = "lookup"
                          => me.key \in shared'
  BY <1>2 DEF Enriching
<1>9. \A o, p \in Requests : o # p /\ Enriching(o)' /\ Enriching(p)' /\ req'[o].key = req'[p].key
                             => req'[p].key \in shared'
  <2> SUFFICES ASSUME NEW o \in Requests, NEW p \in Requests, o # p, Enriching(o)', Enriching(p)',
                      req'[o].key = req'[p].key
               PROVE  req'[p].key \in shared'
    OBVIOUS
  <2>1. CASE o # q /\ p # q
    BY <1>1, <1>5, <1>6, <2>1 DEF CacheInv
  <2>2. CASE p = q
    BY <1>4, <1>6, <1>7, <1>8, <2>2
  <2>3. CASE o = q
    BY <1>4, <1>6, <1>7, <1>8, <2>3
  <2> QED BY <2>1, <2>2, <2>3
<1>10. \A p \in Requests : Enriching(p)' /\ req'[p].pc # "lookup"
                           => cache'[req'[p].key] = Nothing \/ req'[p].key \in shared' \cup missed'
  <2> SUFFICES ASSUME NEW p \in Requests, Enriching(p)', req'[p].pc # "lookup"
               PROVE  cache'[req'[p].key] = Nothing \/ req'[p].key \in shared' \cup missed'
    OBVIOUS
  <2>1. p # q /\ req'[p] = req[p] /\ Enriching(p)
    BY <1>4, <1>6, <1>7
  <2> QED BY <1>1, <1>5, <2>1 DEF CacheInv
<1> QED BY <1>1, <1>9, <1>10 DEF CacheInv

\* A step that leaves the cache alone, of a request that has looked its link up
\* before, or finds now that there is no entry, or fails to read it.
LEMMA RequestCache ==
    ASSUME EnrichInv, NEW q \in Requests, UNCHANGED <<settings, shared>>, missed \subseteq missed',
           Lookup(q) \/ Fetch(q) \/ Ask(q) \/ Save(q) \/ ReadFails(q) \/ WriteFails(q),
           cache' = cache \/ Save(q),
           Enriching(q)' /\ req'[q].pc # "lookup" =>
              \/ req[q].pc # "lookup" /\ ~Save(q)
              \/ cache[req[q].key] = Nothing \/ req[q].key \in missed'
    PROVE  CacheInv'
<1>1. TypeOK /\ CacheInv
  BY DEF EnrichInv
<1>2. /\ UnderWay(q) /\ req'[q].key = req[q].key /\ req'[q].op = req[q].op
      /\ \A p \in Requests : p # q => req'[p] = req[p]
  BY KeepsLink
<1>3. \A p \in Requests : (Enriching(p)' => Enriching(p)) /\ req'[p].key = req[p].key
  BY <1>2 DEF Enriching, UnderWay
<1>4. \A o, p \in Requests : o # p /\ Enriching(o)' /\ Enriching(p)' /\ req'[o].key = req'[p].key
                             => req'[p].key \in shared'
  BY <1>1, <1>3 DEF CacheInv
<1>5. ~settings'.cacheOn => \A k \in Keys : cache'[k] = Nothing
  BY <1>1 DEF CacheInv, Save, CacheStays
<1>6. Save(q) => /\ ~Enriching(q)' /\ Enriching(q)
                 /\ \A k \in Keys : k # req[q].key => cache'[k] = cache[k]
  <2> SUFFICES ASSUME Save(q)
               PROVE  /\ ~Enriching(q)' /\ Enriching(q)
                      /\ \A k \in Keys : k # req[q].key => cache'[k] = cache[k]
    OBVIOUS
  <2>1. req[q] \in Request /\ req[q].op = "enrich" /\ 200 \in Statuses \cup {0}
    BY OfRequest DEF Save, Phase, Statuses
  <2>2. req'[q] = Ended(req[q], 200)
    BY <1>1 DEF Save, Goes, TypeOK
  <2>3. req'[q].pc = "ended"
    BY <2>1, <2>2, EndedFacts
  <2>4. \A k \in Keys : k # req[q].key => cache'[k] = cache[k]
    BY <1>1 DEF Save, CacheStays, TypeOK
  <2> QED BY <2>1, <2>3, <2>4 DEF Enriching, UnderWay, Save
<1>7. \A p \in Requests : Enriching(p)' /\ req'[p].pc # "lookup"
                          => cache'[req'[p].key] = Nothing \/ req'[p].key \in shared' \cup missed'
  <2> SUFFICES ASSUME NEW p \in Requests, Enriching(p)', req'[p].pc # "lookup"
               PROVE  cache'[req'[p].key] = Nothing \/ req'[p].key \in shared' \cup missed'
    OBVIOUS
  <2>1. req[p].key \in Keys /\ Enriching(p) /\ req'[p].key = req[p].key
    BY <1>3, OfRequest DEF Request
  <2>2. CASE p # q /\ (~Save(q) \/ req[p].key # req[q].key)
    <3>1. cache'[req[p].key] = cache[req[p].key]
      BY <1>6, <2>1, <2>2
    <3> QED BY <1>1, <1>2, <2>1, <2>2, <3>1 DEF CacheInv
  <2>3. CASE p # q /\ Save(q) /\ req[p].key = req[q].key
    <3>1. req[p].key \in shared
      BY <1>1, <1>6, <2>1, <2>3 DEF CacheInv
    <3> QED BY <2>1, <3>1
  <2>4. CASE p = q
    <3>1. ~Save(q) /\ cache' = cache
      BY <1>6, <2>4
    <3> QED BY <1>1, <2>1, <2>4, <3>1 DEF CacheInv
  <2> QED BY <2>2, <2>3, <2>4
<1> QED BY <1>4, <1>5, <1>7 DEF CacheInv

-----------------------------------------------------------------------------
(* The invariant holds, and with it the properties.                         *)

LEMMA EnrichInit == Init => EnrichInv
<1> SUFFICES ASSUME Init PROVE EnrichInv
  OBVIOUS
<1> DEFINE me == NewRequest(CHOOSE k \in Keys : TRUE)
<1>1. me \in Request /\ me.pc = "idle" /\ me.op = "enrich" /\ me.answer = 0
  BY RequestType DEF NewRequest
<1> HIDE DEF me
<1>2. \A q \in Requests : req[q] = me /\ asked[q] = <<>>
  BY DEF Init, me
<1>3. req \in [Requests -> Request]
  BY <1>1 DEF Init, me
<1>4. TypeOK
  <2>1. asked \in [Requests -> Seq(Asked)]
    BY DEF Init
  <2>2. cache \in [Keys -> Payload \cup {Nothing}] /\ ready \in [Workers -> BOOLEAN]
    BY DEF Init
  <2>3. settings \in Settings /\ schema \in BOOLEAN
    BY DEF Init
  <2>4. shared \subseteq Keys /\ missed \subseteq Keys /\ faults \in 0 .. MaxFaults
    BY DEF Init
  <2> QED BY <1>3, <2>1, <2>2, <2>3, <2>4 DEF TypeOK
<1>5. RequestsOK
  BY <1>1, <1>2, NothingAsked DEF RequestsOK, RequestOK, Phase, Excused
<1>6. CacheInv
  BY <1>1, <1>2 DEF Init, CacheInv, Enriching, UnderWay
<1> QED BY <1>4, <1>5, <1>6 DEF EnrichInv

\* The steps that are no request's.
LEMMA OtherCache ==
    ASSUME EnrichInv,
           \/ UNCHANGED vars
           \/ LoseFile
           \/ \E w \in Workers : Restart(w)
    PROVE  CacheInv'
<1>1. TypeOK /\ CacheInv
  BY DEF EnrichInv
<1>2. UNCHANGED <<settings, shared, missed>>
  BY DEF vars, LoseFile, Restart, Fault
<1>3. \/ cache' = cache
      \/ \A k \in Keys : cache'[k] = Nothing
  BY DEF vars, LoseFile, Restart
<1>4. \A q \in Requests : Enriching(q)' => req'[q] = req[q] /\ Enriching(q)
  <2>1. CASE req' = req
    BY <2>1 DEF Enriching, UnderWay
  <2>2. ASSUME NEW w \in Workers, Restart(w)
        PROVE  \A q \in Requests : Enriching(q)' => req'[q] = req[q] /\ Enriching(q)
    <3>1. \A q \in Requests : Ended(req[q], 0).pc = "ended"
      BY EndedFacts, OfRequest
    <3>2. \A q \in Requests : req'[q] = Ended(req[q], 0) \/ req'[q] = req[q]
      BY <2>2 DEF Restart
    <3> QED BY <3>1, <3>2 DEF Enriching, UnderWay
  <2> QED BY <2>1, <2>2 DEF vars, LoseFile
<1>5. \A q \in Requests : req[q].key \in Keys
  BY OfRequest DEF Request
<1>6. ~settings'.cacheOn => \A k \in Keys : cache'[k] = Nothing
  BY <1>1, <1>2, <1>3 DEF CacheInv
<1>7. \A p, q \in Requests : p # q /\ Enriching(p)' /\ Enriching(q)' /\ req'[p].key = req'[q].key
                             => req'[q].key \in shared'
  BY <1>1, <1>2, <1>4 DEF CacheInv
<1>8. \A q \in Requests : Enriching(q)' /\ req'[q].pc # "lookup"
                          => cache'[req'[q].key] = Nothing \/ req'[q].key \in shared' \cup missed'
  BY <1>1, <1>2, <1>3, <1>4, <1>5 DEF CacheInv
<1> QED BY <1>6, <1>7, <1>8 DEF CacheInv

LEMMA EnrichNext == EnrichInv /\ [Next]_vars => EnrichInv'
<1> SUFFICES ASSUME EnrichInv, [Next]_vars PROVE EnrichInv'
  OBVIOUS
<1>1. ASSUME NEW q \in Requests, Arrive(q) PROVE EnrichInv'
  BY <1>1, ArriveOK, ArriveCache DEF EnrichInv
<1>2. ASSUME NEW q \in Requests, Lookup(q) PROVE EnrichInv'
  <2>1. /\ UNCHANGED <<settings, shared, cache>> /\ missed' = missed
        /\ CacheInv /\ TypeOK /\ req[q] \in Request
    BY <1>2, OfRequest DEF Lookup, Quiet, CacheStays, EnrichInv
  <2>2. req'[q].pc # "ended" => cache[req[q].key] = Nothing
    <3>1. CASE settings.cacheOn /\ HasNoKey(req[q].key)
      <4>1. req'[q] = Ended(req[q], 500)
        BY <1>2, <2>1, <3>1 DEF Lookup, Goes, TypeOK
      <4>2. 500 \in Statuses \cup {0}
        BY DEF Statuses
      <4> QED BY <2>1, <4>1, <4>2, EndedFacts
    <3>2. CASE settings.cacheOn /\ ~HasNoKey(req[q].key)
      <4>1. req'[q] = LookedUp(req[q], cache[req[q].key])
        BY <1>2, <2>1, <3>2 DEF Lookup, Goes, TypeOK
      <4>2. cache[req[q].key] \in Payload \cup {Nothing}
        BY <2>1 DEF TypeOK, Request
      <4> QED BY <2>1, <4>1, <4>2, LookedUpFacts
    <3>3. CASE ~settings.cacheOn
      BY <2>1, <3>3 DEF CacheInv, Request
    <3> QED BY <3>1, <3>2, <3>3
  <2>3. CacheInv'
    BY <1>2, <2>1, <2>2, RequestCache DEF Enriching, UnderWay
  <2> QED BY <1>2, <2>3, LookupOK DEF EnrichInv
<1>3. ASSUME NEW q \in Requests, Fetch(q) PROVE EnrichInv'
  <2>1. UNCHANGED <<settings, shared, cache>> /\ missed' = missed /\ req[q].pc = "fetch"
    BY <1>3 DEF Fetch, Quiet, CacheStays
  <2>2. ~Save(q)
    BY <2>1 DEF Save
  <2>3. CacheInv'
    BY <1>3, <2>1, <2>2, RequestCache
  <2> QED BY <1>3, <2>3, FetchOK DEF EnrichInv
<1>4. ASSUME NEW q \in Requests, Ask(q) PROVE EnrichInv'
  <2>1. /\ UNCHANGED <<settings, shared, cache>> /\ missed' = missed
        /\ req[q].pc # "lookup" /\ req[q].pc # "save"
    BY <1>4, AskFrame DEF Quiet, CacheStays
  <2>2. ~Save(q)
    BY <2>1 DEF Save
  <2>3. CacheInv'
    BY <1>4, <2>1, <2>2, RequestCache
  <2>4. TypeOK' /\ RequestsOK'
    BY <1>4, AskLayerOK, LadderExhaustedOK, AskChocoOK, AskOverlayOK, AskOnlyOK, AskGroqOK
    DEF Ask, AskTikTok, AskPage
  <2> QED BY <2>3, <2>4 DEF EnrichInv
<1>5. ASSUME NEW q \in Requests, Save(q) PROVE EnrichInv'
  <2>1. UNCHANGED <<settings, shared>> /\ missed' = missed
    BY <1>5 DEF Save, Quiet
  <2>2. ~Enriching(q)'
    <3>1. req[q] \in Request /\ TypeOK /\ 200 \in Statuses \cup {0}
      BY OfRequest DEF EnrichInv, Statuses
    <3>2. req'[q] = Ended(req[q], 200)
      BY <1>5, <3>1 DEF Save, Goes, TypeOK
    <3>3. req'[q].pc = "ended"
      BY <3>1, <3>2, EndedFacts
    <3> QED BY <3>3 DEF Enriching, UnderWay
  <2>3. CacheInv'
    BY <1>5, <2>1, <2>2, RequestCache
  <2> QED BY <1>5, <2>3, SaveOK DEF EnrichInv
<1>6. ASSUME NEW q \in Requests, ReadFails(q) PROVE EnrichInv'
  <2>1. /\ UNCHANGED <<settings, shared, cache>> /\ missed \subseteq missed'
        /\ req[q].key \in missed'
    BY <1>6 DEF ReadFails, Fault, CacheStays
  <2>2. CacheInv'
    BY <1>6, <2>1, RequestCache
  <2> QED BY <1>6, <2>2, ReadFailsOK DEF EnrichInv
<1>7. ASSUME NEW q \in Requests, WriteFails(q) PROVE EnrichInv'
  <2>1. UNCHANGED <<settings, shared, cache>> /\ missed' = missed /\ req[q].pc = "save"
    BY <1>7 DEF WriteFails, Fault, CacheStays
  <2>2. ~Enriching(q)'
    <3>1. req[q] \in Request /\ TypeOK /\ 200 \in Statuses \cup {0}
      BY OfRequest DEF EnrichInv, Statuses
    <3>2. req'[q] = Ended(req[q], 200)
      BY <1>7, <3>1 DEF WriteFails, AfterFailedWrite, Goes, TypeOK
    <3>3. req'[q].pc = "ended"
      BY <3>1, <3>2, EndedFacts
    <3> QED BY <3>3 DEF Enriching, UnderWay
  <2>3. CacheInv'
    BY <1>7, <2>1, <2>2, RequestCache
  <2> QED BY <1>7, <2>3, WriteFailsOK DEF EnrichInv
<1>8. CASE LoseFile
  BY <1>8, LoseFileOK, OtherCache DEF EnrichInv
<1>9. ASSUME NEW w \in Workers, Restart(w) PROVE EnrichInv'
  BY <1>9, RestartOK, OtherCache DEF EnrichInv
<1>10. CASE UNCHANGED vars
  <2>1. TypeOK'
    BY <1>10 DEF EnrichInv, TypeOK, vars
  <2>2. RequestsOK'
    BY <1>10, LayersSame DEF EnrichInv, RequestsOK, vars
  <2> QED BY <1>10, <2>1, <2>2, OtherCache DEF EnrichInv
<1> QED BY <1>1, <1>2, <1>3, <1>4, <1>5, <1>6, <1>7, <1>8, <1>9, <1>10 DEF Next

LEMMA EnrichInvHolds == Spec => []EnrichInv
BY EnrichInit, EnrichNext, PTL DEF Spec

\* Every variable and every request has its type.
THEOREM TypesHold == Spec => []TypeOK
<1>1. EnrichInv => TypeOK
  BY DEF EnrichInv
<1> QED BY <1>1, EnrichInvHolds, PTL

\* Sources are asked one after the other, none after an answer that settles the
\* matter, the layers in their order, ChocoData _MAX_ATTEMPTS times at most.
THEOREM AsksInTurnHolds == Spec => []AsksInTurn
<1>1. ASSUME EnrichInv, NEW q \in Requests, NEW to \in Sources
      PROVE  Cardinality({i \in DOMAIN asked[q] : asked[q][i].to = to})
                <= IF to = "choco" THEN MaxAttempts ELSE 1
  <2> DEFINE times == {i \in DOMAIN asked[q] : asked[q][i].to = to}
  <2>1. /\ InTurn(asked[q], Layers) /\ DOMAIN asked[q] = 1 .. Len(asked[q])
        /\ Len(asked[q]) \in Nat
    BY <1>1, OfRequest
  <2>2. CASE to = "choco"
    <3>1. times \subseteq 1 .. MaxAttempts
      BY <2>1, <2>2 DEF InTurn
    <3>2. IsFiniteSet(1 .. MaxAttempts) /\ Cardinality(1 .. MaxAttempts) = MaxAttempts
      BY FS_Interval
    <3>3. Cardinality(times) <= MaxAttempts
      BY <3>1, <3>2, FS_Subset
    <3> QED BY <2>2, <3>3
  <2>3. CASE to # "choco"
    <3>1. \A i, j \in times : i = j
      BY <2>1, <2>3 DEF InTurn
    <3>2. CASE times = {}
      <4>1. Cardinality(times) = 0
        BY <3>2, FS_EmptySet
      <4> QED BY <2>3, <4>1
    <3>3. CASE times # {}
      <4>1. PICK i \in times : TRUE
        BY <3>3
      <4>2. times = {i}
        BY <3>1, <4>1
      <4>3. Cardinality(times) = 1
        BY <4>2, FS_Singleton
      <4> QED BY <2>3, <4>3
    <3> QED BY <3>2, <3>3
  <2> QED BY <2>2, <2>3
<1>2. ASSUME EnrichInv, NEW q \in Requests
      PROVE  InTurn(asked[q], Layers)
  BY <1>2, OfRequest
<1>3. EnrichInv => AsksInTurn
  BY <1>1, <1>2 DEF AsksInTurn, InTurn, LadderLayers
<1> QED BY <1>3, EnrichInvHolds, PTL

\* A request fails only when its last answer settles the matter or nothing is
\* left to ask, and 429 comes from a source.
THEOREM FailsOnlyWhenExhaustedHolds == Spec => []FailsOnlyWhenExhausted
<1>1. ASSUME EnrichInv, NEW q \in Requests
      PROVE  Excused(req[q], asked[q], Layers, settings.cacheOn)
  BY <1>1, OfRequest
<1>2. EnrichInv => FailsOnlyWhenExhausted
  BY <1>1 DEF FailsOnlyWhenExhausted, Excused, LadderLayers
<1> QED BY <1>2, EnrichInvHolds, PTL

\* Trouble with the cache never fails a request.
THEOREM CacheNeverFailsRequestHolds == Spec => []CacheNeverFailsRequest
<1>1. ASSUME EnrichInv, NEW q \in Requests
      PROVE  Excused(req[q], asked[q], Layers, settings.cacheOn)
  BY <1>1, OfRequest
<1>2. EnrichInv => CacheNeverFailsRequest
  BY <1>1 DEF CacheNeverFailsRequest, Excused
<1> QED BY <1>2, EnrichInvHolds, PTL

\* An entry is overwritten only by a request that met another one for the link,
\* or whose read had failed.
THEOREM CachedMetadataIsStableHolds == Spec => CachedMetadataIsStable
<1> DEFINE Stable == \A k \in Keys : cache[k] # Nothing /\ cache'[k] \notin {cache[k], Nothing} =>
                                        k \in shared \cup missed
<1>1. ASSUME EnrichInv, [Next]_vars
      PROVE  Stable
  <2>1. CASE cache' = cache \/ \A k \in Keys : cache'[k] = Nothing
    BY <2>1
  <2>2. ASSUME NEW q \in Requests, Save(q)
        PROVE  Stable
    <3>1. TypeOK /\ CacheInv /\ Enriching(q) /\ req[q].pc # "lookup"
      BY <1>1, <2>2, OfRequest DEF EnrichInv, Save, Phase, Enriching, UnderWay
    <3>2. \A k \in Keys : cache'[k] # cache[k] => k = req[q].key
      BY <2>2, <3>1 DEF Save, CacheStays, TypeOK
    <3> QED BY <3>1, <3>2 DEF CacheInv
  <2>3. \/ cache' = cache
        \/ \A k \in Keys : cache'[k] = Nothing
        \/ \E q \in Requests : Save(q)
    <3>1. ASSUME NEW q \in Requests, Ask(q) PROVE CacheStays
      BY <3>1, AskFrame
    <3>2. ASSUME NEW q \in Requests, Lookup(q) PROVE UNCHANGED cache
      BY <3>2 DEF Lookup, CacheStays
    <3> QED BY <1>1, <3>1, <3>2
            DEF Next, vars, Arrive, Fetch, ReadFails, WriteFails, LoseFile, Restart, CacheStays
  <2> QED BY <2>1, <2>2, <2>3
<1>2. EnrichInv /\ [Next]_vars => [Stable]_vars
  BY <1>1
<1> QED BY <1>2, EnrichInvHolds, PTL DEF Spec, CachedMetadataIsStable

-----------------------------------------------------------------------------
(* Requests end: the part of it that does not need fairness.                *)

\* What a request has still to do, at most: to look up and to fetch, the attempts
\* with ChocoData or the layers behind this one, to save what it got.
StepsLeft(me) ==
    CASE me.pc = "ended"      -> 0
      [] me.pc = "save"       -> 1
      [] me.pc = "plain"      -> 1
      [] me.pc = "structured" -> 2
      [] me.pc \in {"tiktok", "page", "overlay"} -> 2
      [] me.pc = "ladder"     -> IF me.layer = 0 THEN 1 ELSE 6 - me.layer
      [] me.pc = "choco"      -> MaxAttempts - me.attempt + 3
      [] me.pc = "fetch"      -> MaxAttempts + 6
      [] me.pc = "lookup"     -> MaxAttempts + 7
      [] me.pc = "idle"       -> MaxAttempts + 8

LEMMA StepsAreFew ==
    ASSUME NEW me \in Request
    PROVE  /\ StepsLeft(me) \in 0 .. MaxAttempts + 8
           /\ me.pc # "ended" => StepsLeft(me) > 0
           /\ me.pc \notin {"ended", "save", "plain", "ladder"} => StepsLeft(me) > 1
           /\ me.pc \in {"idle", "lookup", "fetch"} => StepsLeft(me) > 5
<1>1. /\ me.layer \in 0 .. 4 /\ me.attempt \in 1 .. MaxAttempts /\ MaxAttempts \in Nat
      /\ me.pc \in {"idle", "lookup", "fetch", "choco", "overlay", "ladder", "tiktok", "page",
                    "structured", "plain", "save", "ended"}
  BY LadderFacts DEF Request
<1>2. MaxAttempts - me.attempt + 3 \in 3 .. MaxAttempts + 2 /\ 6 - me.layer \in 2 .. 6
  BY <1>1
<1>3. CASE me.pc \in {"ended", "save", "plain", "structured", "tiktok", "page", "overlay"}
  <2>1. /\ StepsLeft(me) \in {0, 1, 2}
        /\ StepsLeft(me) = 0 => me.pc = "ended"
        /\ StepsLeft(me) = 1 => me.pc \in {"save", "plain"}
    BY <1>3 DEF StepsLeft
  <2>2. StepsLeft(me) = 0 \/ StepsLeft(me) = 1 \/ StepsLeft(me) = 2
    BY <2>1
  <2> HIDE DEF StepsLeft
  <2> QED BY <1>1, <1>3, <2>1, <2>2
<1>4. CASE me.pc \in {"idle", "lookup", "fetch"}
  <2>1. StepsLeft(me) \in {MaxAttempts + 6, MaxAttempts + 7, MaxAttempts + 8}
    BY <1>4 DEF StepsLeft
  <2> QED BY <1>1, <1>4, <2>1
<1>5. CASE me.pc = "ladder"
  BY <1>1, <1>2, <1>5 DEF StepsLeft
<1>6. CASE me.pc = "choco"
  BY <1>1, <1>2, <1>6 DEF StepsLeft
<1> QED BY <1>1, <1>3, <1>4, <1>5, <1>6

\* A request that ends, or that has its metadata, has almost done.
LEMMA EndingNearer ==
    ASSUME TypeOK, NEW q \in Requests, req[q].pc # "ended", NEW status \in Statuses \cup {0}
    PROVE  StepsLeft(Ended(req[q], status)) < StepsLeft(req[q])
<1>1. req[q] \in Request
  BY DEF TypeOK
<1>2. Ended(req[q], status) \in Request /\ Ended(req[q], status).pc = "ended"
  BY <1>1, EndedFacts
<1>3. StepsLeft(Ended(req[q], status)) = 0
  BY <1>2 DEF StepsLeft
<1> QED BY <1>1, <1>3, StepsAreFew

LEMMA GotNearer ==
    ASSUME TypeOK, NEW q \in Requests, NEW thumbnail \in BOOLEAN,
           StepsLeft(req[q]) > 1, StepsLeft(req[q]) \in Nat, req[q].op # "extract"
    PROVE  StepsLeft(Got(q, thumbnail)) < StepsLeft(req[q])
<1>1. Got(q, thumbnail).pc \in {"save", "ended"}
  BY GotType
<1>2. StepsLeft(Got(q, thumbnail)) \in {0, 1}
  BY <1>1 DEF StepsLeft
<1> QED BY <1>2

\* Each step of a request, one after the other.
Nearer(q) == \E me \in Request : Goes(q, me) /\ StepsLeft(me) < StepsLeft(req[q])

LEMMA ArriveNearer ==
    ASSUME TypeOK, NEW q \in Requests, Arrive(q)
    PROVE  Nearer(q)
<1>1. PICK me \in First : Goes(q, me)
  BY DEF Arrive
<1>2. req[q].pc = "idle"
  BY DEF Arrive
<1>3. me \in Request /\ me.pc \in {"lookup", "fetch", "structured", "ended"}
  BY FirstFacts
<1>4. MaxAttempts \in Nat
  OBVIOUS
<1>5. StepsLeft(me) < StepsLeft(req[q])
  BY <1>2, <1>3, <1>4 DEF StepsLeft
<1> QED BY <1>1, <1>3, <1>5 DEF Nearer

LEMMA LookupNearer ==
    ASSUME EnrichInv, NEW q \in Requests, Lookup(q)
    PROVE  Nearer(q)
<1>1. TypeOK /\ req[q] \in Request /\ req[q].pc = "lookup"
  BY OfRequest DEF EnrichInv, Lookup
<1>2. cache[req[q].key] \in Payload \cup {Nothing}
  BY <1>1 DEF TypeOK, Request
<1>3. MaxAttempts \in Nat
  OBVIOUS
<1>4. CASE settings.cacheOn /\ HasNoKey(req[q].key)
  <2>1. Goes(q, Ended(req[q], 500)) /\ 500 \in Statuses \cup {0}
    BY <1>4 DEF Lookup, Statuses
  <2> QED BY <1>1, <2>1, EndingNearer, EndedFacts DEF Nearer
<1>5. CASE ~(settings.cacheOn /\ HasNoKey(req[q].key))
  <2>1. PICK entry \in Payload \cup {Nothing} : Goes(q, LookedUp(req[q], entry))
    BY <1>2, <1>5 DEF Lookup
  <2> DEFINE me == LookedUp(req[q], entry)
  <2>2. me \in Request /\ me.pc \in {"ended", "fetch"}
    BY <1>1, LookedUpFacts
  <2> HIDE DEF me
  <2>3. StepsLeft(me) < StepsLeft(req[q])
    BY <1>1, <1>3, <2>2 DEF StepsLeft
  <2> QED BY <2>1, <2>2, <2>3 DEF Nearer, me
<1> QED BY <1>4, <1>5

LEMMA FetchNearer ==
    ASSUME EnrichInv, NEW q \in Requests, Fetch(q)
    PROVE  Nearer(q)
<1>1. TypeOK /\ req[q] \in Request /\ req[q].pc = "fetch"
  BY OfRequest DEF EnrichInv, Fetch
<1>2. req[q].attempt = 1 /\ MaxAttempts \in Nat
  BY <1>1, OfRequest DEF Phase
<1>3. NextLayer(0) = 1
  BY OfRequest, NextLayers
<1>4. \/ Goes(q, At(req[q], "choco")) \/ Goes(q, OnLadder(req[q], 1))
      \/ Goes(q, At(req[q], "tiktok")) \/ Goes(q, At(req[q], "page")) \/ Goes(q, Ended(req[q], 502))
  <2>1. req[q].key \in Keys /\ Site[req[q].key] \in {"instagram", "tiktok", "web"}
    BY <1>1 DEF Request
  <2> QED BY <1>3, <2>1 DEF Fetch, At, OnLadder
<1>5. ASSUME NEW pc \in {"choco", "tiktok", "page"}, Goes(q, At(req[q], pc))
      PROVE  Nearer(q)
  <2>1. At(req[q], pc) \in Request /\ At(req[q], pc).pc = pc /\ At(req[q], pc).attempt = 1
    BY <1>1, <1>2, AtFacts
  <2>2. StepsLeft(At(req[q], pc)) < StepsLeft(req[q])
    BY <1>1, <1>2, <2>1 DEF StepsLeft
  <2> QED BY <1>5, <2>1, <2>2 DEF Nearer
<1>6. CASE Goes(q, OnLadder(req[q], 1))
  <2>1. /\ OnLadder(req[q], 1) \in Request /\ OnLadder(req[q], 1).pc = "ladder"
        /\ OnLadder(req[q], 1).layer = 1
    BY <1>1, OnLadderFacts
  <2>2. StepsLeft(OnLadder(req[q], 1)) < StepsLeft(req[q])
    BY <1>1, <1>2, <2>1 DEF StepsLeft
  <2> QED BY <1>6, <2>1, <2>2 DEF Nearer
<1>7. CASE Goes(q, Ended(req[q], 502))
  <2>1. 502 \in Statuses \cup {0}
    BY DEF Statuses
  <2> QED BY <1>1, <1>7, <2>1, EndingNearer, EndedFacts DEF Nearer
<1> QED BY <1>4, <1>5, <1>6, <1>7

LEMMA NextLayerIsBehind ==
    ASSUME settings.session \in BOOLEAN, settings.scraper \in BOOLEAN, NEW j \in 1 .. 4
    PROVE  NextLayer(j) \in 0 .. 4 /\ (NextLayer(j) = 0 \/ NextLayer(j) > j)
<1>1. j = 1 \/ j = 2 \/ j = 3 \/ j = 4
  OBVIOUS
<1> QED BY <1>1, NextLayers

LEMMA AskLayerNearer ==
    ASSUME EnrichInv, NEW q \in Requests, AskLayer(q)
    PROVE  Nearer(q)
<1> DEFINE j == req[q].layer
<1>1. TypeOK /\ req[q] \in Request /\ req[q].pc = "ladder" /\ req[q].op # "extract"
  BY OfRequest DEF EnrichInv, AskLayer, Phase
<1>2. j \in 1 .. 4
  <2>1. j \in 0 .. Len(Ladder) /\ j # 0
    BY <1>1 DEF Request, AskLayer
  <2> QED BY <2>1, LadderFacts
<1>3. StepsLeft(req[q]) = 6 - j
  BY <1>1, <1>2 DEF StepsLeft
<1>4. PICK status \in (IF OfScraper(j) THEN ScraperStatuses ELSE BeStatuses),
           thumbnail \in BOOLEAN :
         Goes(q, IF status = 200 THEN Got(q, thumbnail)
                 ELSE IF MovesOn(j, status) THEN MovedOn(req[q], NextLayer(j), status)
                 ELSE Ended(req[q], status))
  BY LayerSteps
<1>5. status \in Statuses
  BY <1>4 DEF ScraperStatuses, BeStatuses, Statuses
<1>6. CASE Goes(q, Got(q, thumbnail))
  <2>1. StepsLeft(req[q]) > 1 /\ StepsLeft(req[q]) \in Nat
    BY <1>2, <1>3
  <2> QED BY <1>1, <1>6, <2>1, GotNearer, GotType DEF Nearer
<1>7. CASE Goes(q, Ended(req[q], status))
  BY <1>1, <1>5, <1>7, EndingNearer, EndedFacts DEF Nearer
<1>8. CASE Goes(q, MovedOn(req[q], NextLayer(j), status))
  <2>1. NextLayer(j) \in 0 .. 4 /\ (NextLayer(j) = 0 \/ NextLayer(j) > j)
    BY <1>2, OfRequest, NextLayerIsBehind
  <2> DEFINE me == MovedOn(req[q], NextLayer(j), status)
  <2>2. me \in Request
    BY <1>1, <1>5, <2>1, MovedOnType
  <2>3. me.pc = "ladder" /\ me.layer = NextLayer(j)
    BY <1>1 DEF MovedOn, Request
  <2> HIDE DEF me
  <2>4. StepsLeft(me) = IF NextLayer(j) = 0 THEN 1 ELSE 6 - NextLayer(j)
    BY <2>3 DEF StepsLeft
  <2>5. StepsLeft(me) < 6 - j
    BY <1>2, <2>1, <2>4
  <2>6. StepsLeft(me) < StepsLeft(req[q])
    BY <1>3, <2>5
  <2> QED BY <1>8, <2>2, <2>6 DEF Nearer, me
<1> QED BY <1>4, <1>6, <1>7, <1>8

LEMMA AskChocoNearer ==
    ASSUME EnrichInv, NEW q \in Requests, AskChoco(q)
    PROVE  Nearer(q)
<1>1. TypeOK /\ req[q] \in Request /\ req[q].pc = "choco" /\ req[q].op # "extract"
  BY OfRequest DEF EnrichInv, AskChoco, Phase
<1>2. req[q].attempt \in 1 .. MaxAttempts /\ MaxAttempts \in Nat
  BY <1>1 DEF Request
<1>3. StepsLeft(req[q]) = MaxAttempts - req[q].attempt + 3
  BY <1>1 DEF StepsLeft
<1>4. PICK status \in Statuses, again \in BOOLEAN, thumbnail \in BOOLEAN :
         Heeds(q, status, again, thumbnail)
  BY ChocoSteps
<1>5. CASE Goes(q, Got(q, thumbnail))
  <2>1. StepsLeft(req[q]) > 1 /\ StepsLeft(req[q]) \in Nat
    BY <1>2, <1>3
  <2> QED BY <1>1, <1>5, <2>1, GotNearer, GotType DEF Nearer
<1>6. CASE Goes(q, At(req[q], "overlay"))
  <2>1. At(req[q], "overlay") \in Request /\ At(req[q], "overlay").pc = "overlay"
    BY <1>1, AtFacts
  <2>2. StepsLeft(At(req[q], "overlay")) < StepsLeft(req[q])
    <3>1. StepsLeft(At(req[q], "overlay")) = 2
      BY <2>1 DEF StepsLeft
    <3> QED BY <1>2, <1>3, <3>1
  <2> QED BY <1>6, <2>1, <2>2 DEF Nearer
<1>7. CASE TriesAgain(req[q]) /\ Goes(q, Again(req[q]))
  <2>1. req[q].attempt < MaxAttempts
    BY <1>7 DEF TriesAgain
  <2>2. /\ Again(req[q]) \in Request /\ Again(req[q]).pc = "choco"
        /\ Again(req[q]).attempt = req[q].attempt + 1
    BY <1>1, <2>1, AgainFacts
  <2>3. StepsLeft(Again(req[q])) = MaxAttempts - (req[q].attempt + 1) + 3
    BY <2>2 DEF StepsLeft
  <2>4. StepsLeft(Again(req[q])) < StepsLeft(req[q])
    BY <1>2, <1>3, <2>3
  <2> QED BY <1>7, <2>2, <2>4 DEF Nearer
<1>8. CASE Goes(q, Ended(req[q], status))
  BY <1>1, <1>8, EndingNearer, EndedFacts DEF Nearer
<1> QED BY <1>4, <1>5, <1>6, <1>7, <1>8 DEF Heeds

LEMMA AskNearer ==
    ASSUME EnrichInv, NEW q \in Requests, Ask(q)
    PROVE  Nearer(q)
<1>1. TypeOK /\ req[q] \in Request
  BY OfRequest DEF EnrichInv
<1>3. ASSUME NEW thumbnail \in BOOLEAN, Goes(q, Got(q, thumbnail)),
             req[q].pc \in {"overlay", "tiktok", "page"}
      PROVE  Nearer(q)
  <2>1. StepsLeft(req[q]) = 2
    BY <1>3 DEF StepsLeft
  <2>2. req[q].op # "extract"
    BY <1>3, OfRequest DEF Phase
  <2> QED BY <1>1, <1>3, <2>1, <2>2, GotNearer, GotType DEF Nearer
<1>4. ASSUME NEW status \in {200, 429, 500, 502}, Goes(q, Ended(req[q], status)),
             req[q].pc # "ended"
      PROVE  Nearer(q)
  <2>1. status \in Statuses \cup {0}
    BY DEF Statuses
  <2>2. Ended(req[q], status) \in Request
    BY <1>1, <2>1, EndedFacts
  <2>3. StepsLeft(Ended(req[q], status)) < StepsLeft(req[q])
    BY <1>1, <1>4, <2>1, EndingNearer
  <2> QED BY <1>4, <2>2, <2>3 DEF Nearer
<1>5. CASE LadderExhausted(q)
  BY <1>4, <1>5 DEF LadderExhausted
<1>6. CASE AskOverlay(q)
  <2>1. Goes(q, Ended(req[q], 500)) \/ \E found \in BOOLEAN : Goes(q, Got(q, found))
    BY <1>6 DEF AskOverlay
  <2> QED BY <1>3, <1>4, <1>6, <2>1 DEF AskOverlay
<1>7. ASSUME NEW source \in {"tiktok", "page"}, AskOnly(q, source)
      PROVE  Nearer(q)
  <2>1. req[q].pc = source
    BY <1>7 DEF AskOnly
  <2>2. PICK status \in {200, 502, 500}, thumbnail \in BOOLEAN :
           Goes(q, IF status = 200 THEN Got(q, thumbnail) ELSE Ended(req[q], status))
    BY <1>7 DEF AskOnly
  <2> QED BY <1>3, <1>4, <2>1, <2>2
<1>8. CASE AskGroq(q)
  <2>1. \/ req[q].pc = "structured" /\ Goes(q, At(req[q], "plain"))
        \/ req[q].pc \in {"structured", "plain"} /\ Goes(q, Ended(req[q], 200))
    BY <1>8 DEF AskGroq, FallsBack, At
  <2>2. CASE req[q].pc = "structured" /\ Goes(q, At(req[q], "plain"))
    <3>1. At(req[q], "plain") \in Request /\ At(req[q], "plain").pc = "plain"
      BY <1>1, AtFacts
    <3>2. StepsLeft(At(req[q], "plain")) < StepsLeft(req[q])
      BY <2>2, <3>1 DEF StepsLeft
    <3> QED BY <2>2, <3>1, <3>2 DEF Nearer
  <2> QED BY <1>4, <2>1, <2>2
<1> QED BY <1>5, <1>6, <1>7, <1>8, AskLayerNearer, AskChocoNearer DEF Ask, AskTikTok, AskPage

LEMMA OthersNearer ==
    ASSUME EnrichInv, NEW q \in Requests, Save(q) \/ ReadFails(q) \/ WriteFails(q)
    PROVE  Nearer(q)
<1>1. TypeOK /\ req[q] \in Request /\ 200 \in Statuses \cup {0}
  BY OfRequest DEF EnrichInv, Statuses
<1>2. CASE Save(q) \/ WriteFails(q)
  <2>1. Goes(q, Ended(req[q], 200)) /\ req[q].pc # "ended"
    BY <1>2 DEF Save, WriteFails, AfterFailedWrite
  <2> QED BY <1>1, <2>1, EndingNearer, EndedFacts DEF Nearer
<1>3. CASE ReadFails(q)
  <2>1. Goes(q, At(req[q], "fetch")) /\ req[q].pc = "lookup" /\ MaxAttempts \in Nat
    BY <1>3 DEF ReadFails, At
  <2>2. At(req[q], "fetch") \in Request /\ At(req[q], "fetch").pc = "fetch"
    BY <1>1, AtFacts
  <2>3. StepsLeft(At(req[q], "fetch")) < StepsLeft(req[q])
    BY <2>1, <2>2 DEF StepsLeft
  <2> QED BY <2>1, <2>2, <2>3 DEF Nearer
<1> QED BY <1>2, <1>3

\* A step leaves each request as it is, or with fewer steps to do.
StepsRunOut ==
    \A q \in Requests :
        /\ StepsLeft(req[q]) \in 0 .. MaxAttempts + 8
        /\ req'[q] # req[q] => StepsLeft(req'[q]) < StepsLeft(req[q])

\* However the sources answer, however often the cache fails, and whatever else
\* is restarted, a request asks no source in an endless loop: each of its steps
\* leaves it with fewer, MaxAttempts + 8 at first, and only what it does itself
\* or the restart of its worker changes it.
THEOREM RequestsRunOut == Spec => [][StepsRunOut]_vars
<1>1. ASSUME EnrichInv, Next
      PROVE  StepsRunOut
  <2>1. TypeOK /\ req \in [Requests -> Request]
    BY <1>1 DEF EnrichInv, TypeOK
  <2>2. \A q \in Requests : StepsLeft(req[q]) \in 0 .. MaxAttempts + 8
    BY <2>1, StepsAreFew
  <2>3. ASSUME NEW p \in Requests, Nearer(p)
        PROVE  StepsRunOut
    <3>1. PICK me \in Request : Goes(p, me) /\ StepsLeft(me) < StepsLeft(req[p])
      BY <2>3 DEF Nearer
    <3>2. req'[p] = me /\ \A q \in Requests : q # p => req'[q] = req[q]
      BY <2>1, <3>1, GoesType
    <3> QED BY <2>2, <3>1, <3>2 DEF StepsRunOut
  <2>4. ASSUME NEW w \in Workers, Restart(w)
        PROVE  StepsRunOut
    <3>1. req' = [q \in Requests |-> IF Worker[q] = w /\ UnderWay(q) THEN Ended(req[q], 0)
                                     ELSE req[q]]
      BY <2>4 DEF Restart
    <3>2. \A q \in Requests : UnderWay(q) => StepsLeft(Ended(req[q], 0)) < StepsLeft(req[q])
      BY <2>1, EndingNearer DEF UnderWay
    <3> QED BY <2>2, <3>1, <3>2 DEF StepsRunOut
  <2>5. CASE LoseFile
    BY <2>2, <2>5 DEF LoseFile, StepsRunOut
  <2> QED BY <1>1, <2>1, <2>3, <2>4, <2>5, ArriveNearer, LookupNearer, FetchNearer,
             AskNearer, OthersNearer DEF Next
<1>2. EnrichInv /\ [Next]_vars => [StepsRunOut]_vars
  BY <1>1
<1> QED BY <1>2, EnrichInvHolds, PTL DEF Spec

=============================================================================
