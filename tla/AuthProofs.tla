----------------------------- MODULE AuthProofs -----------------------------
(***************************************************************************)
(* The properties of Auth for any number of threads and keys, any lifespan *)
(* and any number of rotations and failures.                               *)
(***************************************************************************)
EXTENDS Auth, TLAPS

-----------------------------------------------------------------------------
(* Types.                                                                   *)

LEMMA EndedType ==
    ASSUME NEW me \in Thread, NEW answer \in {0, 200, 401}
    PROVE  Ended(me, answer) \in Thread
<1>1. me.token \in Token
  BY DEF Thread
<1> QED BY <1>1 DEF Ended, With, Thread

\* The steps of a thread change these fields.
LEMMA MovedType ==
    ASSUME NEW me \in Thread,
           NEW pc \in {"idle", "key", "set", "read", "asking", "answered", "ended"}
    PROVE  [me EXCEPT !.pc = pc] \in Thread
BY DEF Thread

LEMMA RefreshType ==
    ASSUME NEW me \in Thread
    PROVE  [me EXCEPT !.pc = "asking", !.refresh = TRUE] \in Thread
<1>1. ASSUME NEW m \in Thread, NEW b \in BOOLEAN PROVE [m EXCEPT !.refresh = b] \in Thread
  BY DEF Thread
<1>2. [me EXCEPT !.pc = "asking"] \in Thread
  BY DEF Thread
<1> QED BY <1>1, <1>2

LEMMA GotType ==
    ASSUME NEW me \in Thread, NEW got \in SUBSET Kids
    PROVE  [me EXCEPT !.pc = "answered", !.got = got] \in Thread
<1>1. ASSUME NEW m \in Thread PROVE [m EXCEPT !.got = got] \in Thread
  BY DEF Thread
<1>2. [me EXCEPT !.pc = "answered"] \in Thread
  BY DEF Thread
<1> QED BY <1>1, <1>2

LEMMA NewThreadType ==
    ASSUME NEW token \in Token,
           NEW pc \in {"idle", "key", "set", "read", "asking", "answered", "ended"}
    PROVE  NewThread(token, pc) \in Thread
BY DEF NewThread, With, Thread

LEMMA VerifiedType == ASSUME NEW me \in Thread PROVE Verified(me) \in Thread
BY EndedType DEF Verified

LEMMA UsesTypes ==
    ASSUME TypeOK, NEW q \in Threads, NEW keys
    PROVE  Raised(q) \in Thread /\ Matched(q, keys) \in Thread
<1>1. th[q] \in Thread /\ th[q].token \in Token
  BY DEF TypeOK, Thread
<1>2. Raised(q) \in Thread
  BY <1>1, EndedType DEF Raised
<1> QED BY <1>1, <1>2, RefreshType, VerifiedType DEF Matched

LEMMA TypeStep == TypeOK /\ [Next]_vars => TypeOK'
<1> SUFFICES ASSUME TypeOK, [Next]_vars PROVE TypeOK'
  OBVIOUS
<1> USE AuthAssumption
<1>T. ASSUME NEW q \in Threads, NEW me \in Thread, Goes(q, me) PROVE th' \in [Threads -> Thread]
  BY <1>T DEF Goes, TypeOK
<1>1. CASE UNCHANGED vars
  BY <1>1 DEF vars, TypeOK
<1>2. ASSUME NEW q \in Threads, Start(q) PROVE TypeOK'
  <2>0. th[q] \in Thread
    BY DEF TypeOK
  <2>1. PICK token \in Token :
          /\ Goes(q, CASE token.alg = "HS256"      -> Verified(NewThread(token, "ended"))
                       [] token.alg = "asymmetric" -> NewThread(token, "key")
                       [] token.alg = "other"      -> Ended(NewThread(token, "ended"), 401))
          /\ gone' = IF token.kid \in published THEN gone ELSE gone \cup {q}
    BY <1>2 DEF Start
  <2>2. /\ NewThread(token, "ended") \in Thread /\ NewThread(token, "key") \in Thread
        /\ token.alg \in {"HS256", "asymmetric", "other"}
    <3>1. token.alg \in {"HS256", "asymmetric", "other"}
      BY DEF Token
    <3> QED BY <3>1, NewThreadType
  <2> DEFINE me == CASE token.alg = "HS256"      -> Verified(NewThread(token, "ended"))
                     [] token.alg = "asymmetric" -> NewThread(token, "key")
                     [] token.alg = "other"      -> Ended(NewThread(token, "ended"), 401)
  <2>4. Verified(NewThread(token, "ended")) \in Thread
    BY <2>2, VerifiedType
  <2>5. Ended(NewThread(token, "ended"), 401) \in Thread
    BY <2>2, EndedType
  <2>6. me \in Thread
    BY <2>2, <2>4, <2>5
  <2>7. Goes(q, me)
    BY <2>1
  <2> HIDE DEF me
  <2>3. th' \in [Threads -> Thread]
    BY <2>6, <2>7, <1>T
  <2>8. gone' \subseteq Requests /\ UNCHANGED <<published, now, set, signing, fickle, excused,
                                               emptied, faults, rotations>>
    BY <1>2, <2>1 DEF Start, endpoint, TypeOK
  <2> QED BY <2>3, <2>8 DEF TypeOK
<1>3. ASSUME NEW q \in Threads, KeyLookup(q) PROVE TypeOK'
  <2>1. th[q] \in Thread /\ th[q].token \in Token
    BY DEF TypeOK, Thread
  <2>3. Verified(th[q]) \in Thread /\ [th[q] EXCEPT !.pc = "set"] \in Thread
    BY <2>1, VerifiedType, MovedType
  <2>2. th' \in [Threads -> Thread]
    BY <1>3, <2>3, <1>T DEF KeyLookup
  <2> QED BY <1>3, <2>2 DEF KeyLookup, endpoint, TypeOK
<1>4. ASSUME NEW q \in Threads, SetLookup(q) PROVE TypeOK'
  <2>1. th[q] \in Thread /\ th[q].token \in Token
    BY DEF TypeOK, Thread
  <2> DEFINE pc == IF SetIsFresh THEN "read" ELSE "asking"
  <2>3. pc \in {"read", "asking"} /\ Goes(q, [th[q] EXCEPT !.pc = pc])
    BY <1>4 DEF SetLookup
  <2> HIDE DEF pc
  <2>4. [th[q] EXCEPT !.pc = pc] \in Thread
    BY <2>1, <2>3, MovedType
  <2>2. th' \in [Threads -> Thread]
    BY <2>3, <2>4, <1>T
  <2> QED BY <1>4, <2>2 DEF SetLookup, endpoint, TypeOK
<1>5. ASSUME NEW q \in Threads, SetRead(q) PROVE TypeOK'
  <2>1. th' \in [Threads -> Thread]
    BY <1>5, <1>T, UsesTypes DEF SetRead, Uses
  <2>2. th[q].token.kid \in Kids
    BY DEF TypeOK, Thread, Token
  <2> QED BY <1>5, <2>1, <2>2 DEF SetRead, Uses, endpoint, TypeOK
<1>6. ASSUME NEW q \in Threads, Answered(q) PROVE TypeOK'
  <2>1. th[q] \in Thread /\ th[q].token \in Token /\ published \in SUBSET Kids
    BY DEF TypeOK, Thread
  <2>3. [th[q] EXCEPT !.pc = "answered", !.got = published] \in Thread
    BY <2>1, GotType
  <2>2. th' \in [Threads -> Thread]
    BY <1>6, <2>3, <1>T DEF Answered
  <2> QED BY <1>6, <2>2 DEF Answered, endpoint, TypeOK
<1>7. ASSUME NEW q \in Threads, Stored(q) PROVE TypeOK'
  <2>1. th' \in [Threads -> Thread]
    BY <1>7, <1>T, UsesTypes DEF Stored, Uses
  <2>2. th[q].token.kid \in Kids /\ th[q].got \in SUBSET Kids /\ now \in Nat
    BY DEF TypeOK, Thread, Token
  <2>3. set' \in KeySet
    BY <1>7, <2>2 DEF Stored, KeySet
  <2> QED BY <1>7, <2>1, <2>2, <2>3 DEF Stored, Uses, endpoint, TypeOK
<1>8. ASSUME NEW q \in Threads, FetchFails(q) PROVE TypeOK'
  <2>1. th' \in [Threads -> Thread]
    BY <1>8, <1>T, UsesTypes DEF FetchFails
  <2> QED BY <1>8, <2>1 DEF FetchFails, endpoint, TypeOK
<1>9. ASSUME NEW k \in Kids, Rotate(k) PROVE TypeOK'
  BY <1>9 DEF Rotate, TypeOK
<1>10. CASE Tick
  BY <1>10 DEF Tick, endpoint, TypeOK
<1> QED BY <1>1, <1>2, <1>3, <1>4, <1>5, <1>6, <1>7, <1>8, <1>9, <1>10 DEF Next, Verify

LEMMA InitTypes == Init => TypeOK
<1> SUFFICES ASSUME Init PROVE TypeOK
  OBVIOUS
<1> USE AuthAssumption
<1> DEFINE token0 == CHOOSE token \in Token : TRUE
           me0    == NewThread(token0, "idle")
<1>1. PICK kid \in Kids : TRUE
  OBVIOUS
<1>2. [alg |-> "other", kid |-> kid, claims |-> "bad"] \in Token
  BY <1>1 DEF Token
<1>3. token0 \in Token
  BY <1>2
<1>4. me0 \in Thread
  BY <1>3 DEF NewThread, With, Thread
<1>5. [me0 EXCEPT !.pc = "asking", !.refresh = TRUE] \in Thread
  BY <1>4, RefreshType
<1>6. th = [q \in Threads |-> IF q = Startup THEN [me0 EXCEPT !.pc = "asking", !.refresh = TRUE]
                              ELSE me0]
  BY DEF Init
<1>7. th \in [Threads -> Thread]
  <2> HIDE DEF me0
  <2> QED BY <1>4, <1>5, <1>6
<1>8. emptied \in BOOLEAN
  BY Zenon DEF Init
<1>9. 0 \in 0 .. MaxNow /\ 0 \in 0 .. MaxFaults /\ 0 \in 0 .. MaxRotations
  OBVIOUS
<1> QED BY <1>7, <1>8, <1>9 DEF Init, TypeOK

\* Caches, threads and answers keep their types, whatever fails or is rotated; in
\* particular no error of the key set is answered with a status of its own.
THEOREM TypesHold == Spec => []TypeOK
<1> QED BY InitTypes, TypeStep, PTL DEF Spec

-----------------------------------------------------------------------------
(* The invariant: what the caches and the answers under way know.  Every set *)
(* of keys that the worker holds was published at some moment, so it has all *)
(* the keys that were always published; and of a request whose token has     *)
(* nothing wrong about it, whatever it holds has its key.                    *)

Steady == Kids \ fickle

KeysInv ==
    /\ Steady \subseteq published
    /\ ~emptied => published # {}
    /\ set # Nothing => Steady \subseteq set.keys /\ (~emptied => set.keys # {})
    /\ \A q \in Threads : th[q].pc = "answered" =>
          Steady \subseteq th[q].got /\ (~emptied => th[q].got # {})

OrderInv ==
    /\ th[Startup].pc \in {"asking", "answered", "ended"}
    /\ \A q \in Requests : th[q].pc # "idle" => th[Startup].pc = "ended"
    /\ faults = 0 /\ th[Startup].pc = "ended" => set # Nothing
    /\ \A q \in Requests : th[q].pc \in {"key", "set", "read"} => ~th[q].refresh

Flawless(q) ==
    /\ th[q].token.alg = "asymmetric" /\ th[q].token.claims = "good"
    /\ q \notin gone /\ q \notin excused /\ ~emptied

GoodInv ==
    \A q \in Requests : Flawless(q) =>
        /\ th[q].answer # 401
        /\ UnderWay(q) => th[q].token.kid \in published
        /\ th[q].pc = "answered" => th[q].token.kid \in th[q].got
        /\ th[q].pc = "read" => set # Nothing

AuthInv == TypeOK /\ KeysInv /\ OrderInv /\ GoodInv

LEMMA Moves ==
    ASSUME TypeOK, NEW q \in Threads, NEW me, Goes(q, me)
    PROVE  th'[q] = me /\ \A p \in Threads : p # q => th'[p] = th[p]
BY DEF Goes, TypeOK

LEMMA Endings ==
    ASSUME NEW q \in Threads, NEW me, NEW answer
    PROVE  /\ Ended(me, answer).pc = "ended" /\ Ended(me, answer).token = me.token
           /\ Ended(me, answer).answer = answer
           /\ Verified(me).pc = "ended" /\ Verified(me).token = me.token
           /\ me.token.claims = "good" => Verified(me).answer = 200
           /\ Raised(q).pc = "ended" /\ Raised(q).token = th[q].token
BY DEF Ended, With, Verified, Raised

LEMMA Matches ==
    ASSUME TypeOK, NEW q \in Threads, NEW keys
    PROVE  LET me == Matched(q, keys) IN
           /\ me.token = th[q].token
           /\ me.pc \in {"ended", "asking"}
           /\ q = Startup => me.pc = "ended"
           /\ me.pc = "asking" => th[q].token.kid \notin keys /\ me.answer = th[q].answer
           /\ q # Startup /\ keys # {} /\ ~th[q].refresh /\ th[q].token.kid \notin keys
              => me.pc = "asking"
           /\ q # Startup /\ th[q].token.kid \in keys => me = Verified(th[q])
<1> DEFINE again == [th[q] EXCEPT !.pc = "asking", !.refresh = TRUE]
<1>1. again.pc = "asking" /\ again.token = th[q].token /\ again.answer = th[q].answer
  BY DEF TypeOK, Thread
<1>2. /\ Raised(q).pc = "ended" /\ Raised(q).token = th[q].token
      /\ Verified(th[q]).pc = "ended" /\ Verified(th[q]).token = th[q].token
  BY Endings
<1> HIDE DEF again
<1>3. Matched(q, keys) = IF keys = {} \/ q = Startup THEN Raised(q)
                         ELSE IF th[q].token.kid \in keys THEN Verified(th[q])
                         ELSE IF th[q].refresh THEN Raised(q) ELSE again
  BY DEF Matched, again
<1> QED BY <1>1, <1>2, <1>3

\* A thread that neither stores nor fails: the caches and the endpoint stay.
LEMMA LocalStep ==
    ASSUME AuthInv, NEW q \in Threads, NEW me, Goes(q, me),
           UNCHANGED <<endpoint, set, excused, faults>>,
           q = Startup => th[q].pc = "asking" /\ me.pc = "answered",
           q # Startup => th[Startup].pc = "ended",
           me.pc = "answered" => me.got = published,
           gone \subseteq gone',
           me.pc \in {"key", "set", "read"} => ~me.refresh,
           q \in Requests /\ Flawless(q)' =>
               /\ me.answer # 401
               /\ me.pc \notin {"idle", "ended"} => me.token.kid \in published
               /\ me.pc = "read" => set # Nothing
    PROVE  KeysInv' /\ OrderInv' /\ GoodInv'
<1> USE AuthAssumption
<1>1. th'[q] = me /\ \A p \in Threads : p # q => th'[p] = th[p]
  BY Moves DEF AuthInv
<1>2. Startup \in Threads /\ Startup \notin Requests /\ Requests \subseteq Threads
  BY DEF Threads
<1>3. KeysInv'
  BY <1>1 DEF AuthInv, KeysInv, Steady, endpoint
<1>4. OrderInv'
  BY <1>1, <1>2 DEF AuthInv, OrderInv, endpoint, Threads
<1>5. ASSUME NEW p \in Requests, Flawless(p)'
      PROVE  /\ th'[p].answer # 401
             /\ UnderWay(p)' => th'[p].token.kid \in published'
             /\ th'[p].pc = "answered" => th'[p].token.kid \in th'[p].got
             /\ th'[p].pc = "read" => set' # Nothing
  <2>1. CASE p = q
    BY <1>1, <1>5, <2>1 DEF UnderWay, endpoint
  <2>2. CASE p # q
    <3>1. th'[p] = th[p] /\ Flawless(p)
      BY <1>1, <1>2, <1>5, <2>2 DEF Flawless, endpoint
    <3> QED BY <3>1 DEF AuthInv, GoodInv, UnderWay, endpoint
  <2> QED BY <2>1, <2>2
<1> QED BY <1>3, <1>4, <1>5 DEF GoodInv

LEMMA StartStep ==
    ASSUME AuthInv, NEW q \in Threads, Start(q) PROVE KeysInv' /\ OrderInv' /\ GoodInv'
<1> USE AuthAssumption
<1> DEFINE first(token) ==
               CASE token.alg = "HS256"      -> Verified(NewThread(token, "ended"))
                 [] token.alg = "asymmetric" -> NewThread(token, "key")
                 [] token.alg = "other"      -> Ended(NewThread(token, "ended"), 401)
<1>1. PICK token \in Token :
        /\ Goes(q, first(token))
        /\ gone' = IF token.kid \in published THEN gone ELSE gone \cup {q}
  BY DEF Start
<1>2. \A pc : NewThread(token, pc).token = token /\ NewThread(token, pc).pc = pc
               /\ NewThread(token, pc).answer = 0 /\ ~NewThread(token, pc).refresh
  BY DEF NewThread, With
<1>3. /\ token.alg = "asymmetric" => first(token) = NewThread(token, "key")
      /\ token.alg # "asymmetric" => first(token).pc = "ended"
      /\ first(token).token = token
  <2>1. token.alg \in {"HS256", "asymmetric", "other"}
    BY DEF Token
  <2>2. CASE token.alg = "asymmetric"
    BY <1>2, <2>2
  <2>3. CASE token.alg = "HS256"
    <3>1. first(token) = Verified(NewThread(token, "ended"))
      BY <2>3
    <3> HIDE DEF first
    <3>2. first(token).pc = "ended" /\ first(token).token = NewThread(token, "ended").token
      BY <3>1 DEF Verified, Ended, With
    <3> QED BY <1>2, <2>3, <3>2
  <2>4. CASE token.alg = "other"
    <3>1. first(token) = Ended(NewThread(token, "ended"), 401)
      BY <2>4
    <3> HIDE DEF first
    <3>2. first(token).pc = "ended" /\ first(token).token = NewThread(token, "ended").token
      BY <3>1 DEF Ended, With
    <3> QED BY <1>2, <2>4, <3>2
  <2> QED BY <2>1, <2>2, <2>3, <2>4
<1> HIDE DEF first
<1>4. th'[q] = first(token)
  BY <1>1, Moves DEF AuthInv
<1>5. first(token).pc \in {"key", "ended"}
  BY <1>2, <1>3
<1>6. ASSUME Flawless(q)' PROVE first(token).answer = 0 /\ token.kid \in published
  <2>1. token.alg = "asymmetric" /\ q \notin gone'
    BY <1>3, <1>4, <1>6 DEF Flawless
  <2> QED BY <1>1, <1>2, <1>3, <2>1
<1>7. q # Startup /\ th[Startup].pc = "ended"
  BY DEF Start
<1>8. UNCHANGED <<endpoint, set, excused, faults>> /\ gone \subseteq gone'
  BY <1>1 DEF Start
<1>9. Goes(q, first(token))
  BY <1>1
<1>10. first(token).pc = "key" => ~first(token).refresh
  BY <1>2, <1>3
<1> QED BY <1>3, <1>5, <1>6, <1>7, <1>8, <1>9, <1>10, LocalStep

LEMMA OpenRequests ==
    ASSUME AuthInv, NEW q \in Threads, UnderWay(q)
    PROVE  q # Startup => q \in Requests /\ th[Startup].pc = "ended"
BY AuthAssumption DEF AuthInv, OrderInv, UnderWay, Threads

LEMMA LookupSteps ==
    ASSUME AuthInv, NEW q \in Threads, KeyLookup(q) \/ SetLookup(q) \/ SetRead(q) \/ Answered(q)
    PROVE  KeysInv' /\ OrderInv' /\ GoodInv'
<1> USE AuthAssumption
<1>1. th[q] \in Thread /\ UnderWay(q)
  BY DEF AuthInv, TypeOK, UnderWay, KeyLookup, SetLookup, SetRead, Answered
<1>2. q # Startup => q \in Requests /\ th[Startup].pc = "ended"
  BY <1>1, OpenRequests
<1>3. UNCHANGED <<endpoint, set, excused, faults, gone>>
  BY DEF KeyLookup, SetLookup, SetRead, Answered
<1>4. \A me : Goes(q, me) /\ Flawless(q)' /\ me.token = th[q].token => Flawless(q)
  BY <1>3, Moves DEF Flawless, endpoint, AuthInv
<1>5. Flawless(q) /\ q \in Requests =>
        /\ th[q].answer # 401 /\ th[q].token.kid \in published
        /\ th[q].token.claims = "good"
        /\ th[q].pc = "read" => set # Nothing
  BY <1>1 DEF AuthInv, GoodInv, Flawless
<1>r. q \in Requests /\ th[q].pc \in {"key", "set", "read"} => ~th[q].refresh
  BY DEF AuthInv, OrderInv
<1>6. CASE KeyLookup(q)
  <2> DEFINE me == IF th[q].token.kid \in signing THEN Verified(th[q])
                   ELSE [th[q] EXCEPT !.pc = "set"]
  <2>1. Goes(q, me) /\ th[q].pc = "key"
    BY <1>6 DEF KeyLookup
  <2>2. /\ me.token = th[q].token
        /\ me.pc \in {"ended", "set"}
        /\ th[q].token.claims = "good" /\ th[q].answer # 401 => me.answer # 401
        /\ me.pc = "set" => me.refresh = th[q].refresh
    <3>1. CASE th[q].token.kid \in signing
      BY <3>1, Endings
    <3>2. CASE th[q].token.kid \notin signing
      BY <3>2, <1>1 DEF Thread
    <3> QED BY <3>1, <3>2
  <2>3. q # Startup
    BY <2>1 DEF AuthInv, OrderInv
  <2> HIDE DEF me
  <2> QED BY <1>2, <1>3, <1>4, <1>5, <1>r, <2>1, <2>2, <2>3, LocalStep
<1>7. CASE SetLookup(q)
  <2> DEFINE me == [th[q] EXCEPT !.pc = IF SetIsFresh THEN "read" ELSE "asking"]
  <2>1. Goes(q, me) /\ th[q].pc = "set"
    BY <1>7 DEF SetLookup
  <2>2. /\ me.token = th[q].token /\ me.answer = th[q].answer
        /\ me.refresh = th[q].refresh
        /\ me.pc = "asking" \/ (me.pc = "read" /\ set # Nothing)
    BY <1>1, Zenon DEF Thread, SetIsFresh
  <2>3. q # Startup
    BY <2>1 DEF AuthInv, OrderInv
  <2> HIDE DEF me
  <2> QED BY <1>2, <1>3, <1>4, <1>5, <1>r, <2>1, <2>2, <2>3, LocalStep
<1>8. CASE SetRead(q)
  <2> DEFINE keys == IF set = Nothing THEN {} ELSE set.keys
             me   == Matched(q, keys)
  <2>1. Goes(q, me) /\ th[q].pc = "read"
    BY <1>8 DEF SetRead, Uses
  <2>2. q # Startup
    BY <2>1 DEF AuthInv, OrderInv
  <2>3. me.token = th[q].token /\ me.pc \in {"ended", "asking"}
    BY Matches DEF AuthInv
  <2>4. ASSUME Flawless(q), q \in Requests PROVE me.answer # 401
    <3>1. keys # {} /\ ~th[q].refresh
      BY <1>5, <2>1, <2>4 DEF AuthInv, KeysInv, OrderInv, Flawless
    <3>2. CASE th[q].token.kid \in keys
      BY <1>5, <2>2, <2>4, <3>2, Matches, Endings DEF AuthInv
    <3>3. CASE th[q].token.kid \notin keys
      <4>1. me.pc = "asking" /\ me.answer = th[q].answer
        BY <2>2, <3>1, <3>3, Matches DEF AuthInv
      <4> QED BY <1>5, <2>4, <4>1
    <3> QED BY <3>2, <3>3
  <2> HIDE DEF me
  <2> QED BY <1>2, <1>3, <1>4, <1>5, <1>r, <2>1, <2>2, <2>3, <2>4, LocalStep
<1>9. CASE Answered(q)
  <2> DEFINE me == [th[q] EXCEPT !.pc = "answered", !.got = published]
  <2>1. Goes(q, me) /\ th[q].pc = "asking"
    BY <1>9 DEF Answered
  <2>2. me.token = th[q].token /\ me.answer = th[q].answer /\ me.pc = "answered"
        /\ me.got = published
    BY <1>1 DEF Thread
  <2> HIDE DEF me
  <2> QED BY <1>2, <1>3, <1>4, <1>5, <1>r, <2>1, <2>2, LocalStep
<1> QED BY <1>6, <1>7, <1>8, <1>9

LEMMA StoredStep ==
    ASSUME AuthInv, NEW q \in Threads, Stored(q) PROVE KeysInv' /\ OrderInv' /\ GoodInv'
<1> USE AuthAssumption
<1> DEFINE me == Matched(q, th[q].got)
<1>1. /\ th[q].pc = "answered" /\ Goes(q, me)
      /\ set' = [keys |-> th[q].got, at |-> now]
      /\ UNCHANGED <<endpoint, now, gone, excused, faults>>
  BY DEF Stored, Uses
<1>2. th'[q] = me /\ \A p \in Threads : p # q => th'[p] = th[p]
  BY <1>1, Moves DEF AuthInv
<1>3. me.token = th[q].token /\ me.pc \in {"ended", "asking"} /\ (q = Startup => me.pc = "ended")
  BY Matches DEF AuthInv
<1>4. set'.keys = th[q].got /\ set' # Nothing
  <2>1. th[q].got \subseteq Kids /\ now \in Nat
    BY DEF AuthInv, TypeOK, Thread
  <2>2. set' \in KeySet
    BY <1>1, <2>1 DEF KeySet
  <2> QED BY <1>1, <2>2
<1>5. Steady \subseteq th[q].got /\ (~emptied => th[q].got # {})
  BY <1>1 DEF AuthInv, KeysInv
<1>6. q # Startup => q \in Requests /\ th[Startup].pc = "ended"
  BY <1>1, OpenRequests DEF UnderWay
<1>7. Startup \in Threads /\ Startup \notin Requests /\ Requests \subseteq Threads
  BY DEF Threads
<1>8. ASSUME q \in Requests, Flawless(q) PROVE me.answer = 200
  <2>1. th[q].token.kid \in th[q].got /\ th[q].token.claims = "good"
    BY <1>1, <1>8 DEF AuthInv, GoodInv, Flawless
  <2>2. me = Verified(th[q])
    BY <1>7, <1>8, <2>1, Matches DEF AuthInv
  <2> HIDE DEF me
  <2> QED BY <2>1, <2>2, Endings
<1> HIDE DEF me
<1>9. KeysInv'
  BY <1>1, <1>2, <1>3, <1>4, <1>5 DEF AuthInv, KeysInv, Steady, endpoint
<1>10. OrderInv'
  BY <1>1, <1>2, <1>3, <1>4, <1>6, <1>7 DEF AuthInv, OrderInv
<1>11. ASSUME NEW p \in Requests, Flawless(p)'
       PROVE  /\ th'[p].answer # 401
              /\ UnderWay(p)' => th'[p].token.kid \in published'
              /\ th'[p].pc = "answered" => th'[p].token.kid \in th'[p].got
              /\ th'[p].pc = "read" => set' # Nothing
  <2>1. CASE p = q
    <3>1. Flawless(q)
      BY <1>1, <1>2, <1>3, <1>11, <2>1 DEF Flawless, endpoint
    <3>2. me.answer = 200 /\ th[q].token.kid \in published
      BY <1>1, <1>8, <2>1, <3>1 DEF AuthInv, GoodInv, UnderWay
    <3> QED BY <1>1, <1>2, <1>3, <2>1, <3>2 DEF endpoint
  <2>2. CASE p # q
    <3>1. th'[p] = th[p] /\ Flawless(p)
      BY <1>1, <1>2, <1>7, <1>11, <2>2 DEF Flawless, endpoint
    <3> QED BY <1>1, <1>4, <3>1 DEF AuthInv, GoodInv, UnderWay, endpoint
  <2> QED BY <2>1, <2>2
<1> QED BY <1>9, <1>10, <1>11 DEF GoodInv

LEMMA FetchFailsStep ==
    ASSUME AuthInv, NEW q \in Threads, FetchFails(q) PROVE KeysInv' /\ OrderInv' /\ GoodInv'
<1> USE AuthAssumption
<1>1. /\ th[q].pc = "asking" /\ Goes(q, Raised(q))
      /\ set' = Nothing /\ faults' = faults + 1
      /\ excused' = excused \cup {p \in Requests : UnderWay(p)}
      /\ UNCHANGED <<endpoint, now, gone>>
  BY DEF FetchFails
<1>2. /\ th'[q] = Raised(q) /\ \A p \in Threads : p # q => th'[p] = th[p]
      /\ Raised(q).pc = "ended" /\ Raised(q).token = th[q].token
  BY <1>1, Moves, Endings DEF AuthInv
<1>3. Startup \in Threads /\ Startup \notin Requests /\ Requests \subseteq Threads
  BY DEF Threads
<1>4. q # Startup => q \in Requests /\ th[Startup].pc = "ended"
  BY <1>1, OpenRequests DEF UnderWay
<1>5. faults' # 0
  BY <1>1 DEF AuthInv, TypeOK
<1>6. KeysInv'
  BY <1>1, <1>2 DEF AuthInv, KeysInv, Steady, endpoint
<1>7. OrderInv'
  BY <1>1, <1>2, <1>3, <1>4, <1>5 DEF AuthInv, OrderInv
<1>8. ASSUME NEW p \in Requests, Flawless(p)' PROVE p # q /\ ~UnderWay(p) /\ Flawless(p)
  <2>1. p # q /\ ~UnderWay(p)
    BY <1>1, <1>8 DEF Flawless, UnderWay
  <2> QED BY <1>1, <1>2, <1>3, <1>8, <2>1 DEF Flawless, endpoint
<1>9. GoodInv'
  BY <1>2, <1>3, <1>8 DEF AuthInv, GoodInv, UnderWay
<1> QED BY <1>6, <1>7, <1>9

LEMMA RotateStep ==
    ASSUME AuthInv, NEW k \in Kids, Rotate(k) PROVE KeysInv' /\ OrderInv' /\ GoodInv'
<1>1. /\ fickle' = fickle \cup (Kids \ published')
      /\ emptied' = (emptied \/ published' = {})
      /\ gone' = gone \cup {q \in Requests : UnderWay(q) /\ th[q].token.kid \notin published'}
      /\ UNCHANGED <<now, set, signing, th, excused, faults>>
  BY DEF Rotate
<1>2. /\ Kids \ fickle' \subseteq published' /\ Kids \ fickle' \subseteq Kids \ fickle
  BY <1>1
<1>3. ~emptied' => ~emptied /\ published' # {}
  BY <1>1
<1>4. KeysInv'
  BY <1>1, <1>2, <1>3 DEF AuthInv, KeysInv, Steady
<1>5. OrderInv'
  BY <1>1 DEF AuthInv, OrderInv
<1>6. ASSUME NEW p \in Requests, Flawless(p)'
      PROVE  Flawless(p) /\ (UnderWay(p) => th[p].token.kid \in published')
  BY <1>1, <1>3, <1>6 DEF Flawless
<1>7. GoodInv'
  BY <1>1, <1>6 DEF AuthInv, GoodInv, UnderWay
<1> QED BY <1>4, <1>5, <1>7

LEMMA AuthStep == AuthInv /\ [Next]_vars => AuthInv'
<1> SUFFICES ASSUME AuthInv, [Next]_vars PROVE AuthInv'
  OBVIOUS
<1>1. TypeOK'
  BY TypeStep DEF AuthInv
<1>2. CASE UNCHANGED vars
  BY <1>1, <1>2 DEF vars, AuthInv, KeysInv, Steady, OrderInv, GoodInv, Flawless, UnderWay
<1>3. CASE Tick
  BY <1>1, <1>3 DEF Tick, endpoint, AuthInv, KeysInv, Steady, OrderInv, GoodInv, Flawless, UnderWay
<1>4. ASSUME NEW k \in Kids, Rotate(k) PROVE AuthInv'
  BY <1>1, <1>4, RotateStep DEF AuthInv
<1>5. ASSUME NEW q \in Threads, Verify(q) PROVE AuthInv'
  <2>1. CASE Start(q)
    BY <1>1, <2>1, StartStep DEF AuthInv
  <2>2. CASE KeyLookup(q) \/ SetLookup(q) \/ SetRead(q) \/ Answered(q)
    BY <1>1, <2>2, LookupSteps DEF AuthInv
  <2>3. CASE Stored(q)
    BY <1>1, <2>3, StoredStep DEF AuthInv
  <2>4. CASE FetchFails(q)
    BY <1>1, <2>4, FetchFailsStep DEF AuthInv
  <2> QED BY <1>5, <2>1, <2>2, <2>3, <2>4 DEF Verify
<1> QED BY <1>2, <1>3, <1>4, <1>5 DEF Next

LEMMA InitInv == Init => AuthInv
<1> SUFFICES ASSUME Init PROVE AuthInv
  OBVIOUS
<1>1. TypeOK
  BY InitTypes
<1> DEFINE token0 == CHOOSE token \in Token : TRUE
<1>2. \A q \in Threads :
         /\ th[q].pc = IF q = Startup THEN "asking" ELSE "idle"
         /\ th[q].answer = 0
  BY DEF Init, NewThread, With
<1>3. Startup \in Threads /\ Requests \subseteq Threads /\ Startup \notin Requests
  BY AuthAssumption DEF Threads
<1>4. set = Nothing /\ fickle = Kids \ published /\ emptied = (published = {})
      /\ published \subseteq Kids
  BY DEF Init
<1>5. Steady \subseteq published
  BY <1>4 DEF Steady
<1>6. ~emptied => published # {}
  BY <1>4, Zenon
<1>7. KeysInv
  BY <1>2, <1>4, <1>5, <1>6 DEF KeysInv
<1>8. OrderInv
  BY <1>2, <1>3 DEF OrderInv
<1>9. GoodInv
  BY <1>2, <1>3 DEF GoodInv, UnderWay
<1> QED BY <1>1, <1>7, <1>8, <1>9 DEF AuthInv

LEMMA InvHolds == Spec => []AuthInv
<1> QED BY InitInv, AuthStep, PTL DEF Spec

\* A token with nothing wrong about it is refused only if a fetch failed while
\* it was looked at.
THEOREM GoodTokensHold == Spec => []GoodTokensAreAccepted
<1>1. AuthInv => GoodTokensAreAccepted
  BY DEF AuthInv, GoodInv, Flawless, GoodTokensAreAccepted
<1> QED BY <1>1, InvHolds, PTL

\* Within the lifespan nobody waits for keys that were always published.
THEOREM WarmHolds == Spec => PublishedKeysAreWarm
<1> DEFINE Warm == \A q \in Requests : th[q].pc # "asking" /\ th'[q].pc = "asking" =>
                       th[q].token.kid \in fickle \/ faults > 0 \/ now > Lifespan
<1>1. ASSUME AuthInv, [Next]_vars, NEW q \in Requests, th[q].pc # "asking", th'[q].pc = "asking"
      PROVE  th[q].token.kid \in fickle \/ faults > 0 \/ now > Lifespan
  <2>1. q \in Threads /\ th[q] \in Thread /\ th[q].token.kid \in Kids /\ faults \in Nat
    BY <1>1 DEF AuthInv, TypeOK, Threads, Thread, Token
  <2>2. PICK p \in Threads : Verify(p)
    BY <1>1 DEF Next, vars, Rotate, Tick
  <2>3. \A me : Goes(p, me) => p = q /\ me.pc = "asking"
    BY <1>1, <2>1, Moves DEF AuthInv
  <2>4. CASE SetLookup(p)
    <3>1. th[q].pc = "set" /\ ~SetIsFresh
      <4>1. Goes(p, [th[p] EXCEPT !.pc = IF SetIsFresh THEN "read" ELSE "asking"])
            /\ th[p].pc = "set"
        BY <2>4 DEF SetLookup
      <4>2. p = q /\ [th[p] EXCEPT !.pc = IF SetIsFresh THEN "read" ELSE "asking"].pc = "asking"
        BY <2>3, <4>1
      <4> HIDE DEF SetIsFresh
      <4> QED BY <2>1, <4>1, <4>2 DEF Thread
    <3>2. faults = 0 => set # Nothing
      BY <1>1, <3>1 DEF AuthInv, OrderInv
    <3>3. set # Nothing => set.at \in Nat
      BY <1>1 DEF AuthInv, TypeOK, KeySet
    <3>4. now \in Nat /\ Lifespan \in Nat
      BY <1>1, AuthAssumption DEF AuthInv, TypeOK
    <3> QED BY <2>1, <3>1, <3>2, <3>3, <3>4 DEF SetIsFresh
  <2>5. CASE SetRead(p)
    <3> DEFINE keys == IF set = Nothing THEN {} ELSE set.keys
    <3>1. Goes(p, Matched(p, keys)) /\ th[p].pc = "read"
      BY <2>5 DEF SetRead, Uses
    <3>2. p = q /\ th[q].token.kid \notin keys
      BY <1>1, <2>3, <3>1, Matches DEF AuthInv
    <3>3. faults = 0 => set # Nothing
      BY <1>1, <3>1, <3>2 DEF AuthInv, OrderInv
    <3> QED BY <1>1, <2>1, <3>2, <3>3 DEF AuthInv, KeysInv, Steady
  <2>6. CASE Stored(p)
    <3>1. Goes(p, Matched(p, th[p].got)) /\ th[p].pc = "answered"
      BY <2>6 DEF Stored, Uses
    <3>2. p = q /\ th[q].token.kid \notin th[q].got
      BY <1>1, <2>3, <3>1, Matches DEF AuthInv
    <3> QED BY <1>1, <2>1, <3>1, <3>2 DEF AuthInv, KeysInv, Steady
  <2>7. CASE Start(p)
    <3>1. ASSUME NEW token \in Token,
                 Goes(p, CASE token.alg = "HS256"      -> Verified(NewThread(token, "ended"))
                           [] token.alg = "asymmetric" -> NewThread(token, "key")
                           [] token.alg = "other"      -> Ended(NewThread(token, "ended"), 401))
          PROVE  FALSE
      <4>1. /\ Verified(NewThread(token, "ended")).pc = "ended"
            /\ NewThread(token, "key").pc = "key"
            /\ Ended(NewThread(token, "ended"), 401).pc = "ended"
        BY DEF Verified, Ended, NewThread, With
      <4>2. token.alg \in {"HS256", "asymmetric", "other"}
        BY DEF Token
      <4> QED BY <2>3, <3>1, <4>1, <4>2
    <3> QED BY <2>7, <3>1 DEF Start
  <2>8. CASE KeyLookup(p)
    <3>1. Verified(th[p]).pc = "ended"
      BY Endings
    <3>2. [th[p] EXCEPT !.pc = "set"].pc = "set"
      BY <1>1 DEF AuthInv, TypeOK, Thread
    <3>3. Goes(p, IF th[p].token.kid \in signing THEN Verified(th[p])
                  ELSE [th[p] EXCEPT !.pc = "set"])
      BY <2>8 DEF KeyLookup
    <3> QED BY <2>3, <3>1, <3>2, <3>3
  <2>9. CASE Answered(p)
    <3>1. [th[p] EXCEPT !.pc = "answered", !.got = published].pc = "answered"
      BY <1>1 DEF AuthInv, TypeOK, Thread
    <3> QED BY <2>3, <2>9, <3>1 DEF Answered
  <2>10. CASE FetchFails(p)
    BY <2>3, <2>10, Endings DEF FetchFails
  <2> QED BY <2>2, <2>4, <2>5, <2>6, <2>7, <2>8, <2>9, <2>10 DEF Verify
<1>2. AuthInv /\ [Next]_vars => [Warm]_vars
  BY <1>1
<1> QED BY <1>2, InvHolds, PTL DEF Spec, PublishedKeysAreWarm

-----------------------------------------------------------------------------
(* Verification ends: the part of it that does not need fairness.           *)

\* The steps a thread has left at most; the endpoint is asked in two of them,
\* once for the cached set and once for a key that is missing in it.
ChecksLeft(me) ==
    CASE me.pc = "idle"                      -> 8
      [] me.pc = "key"                       -> 7
      [] me.pc = "set"                       -> 6
      [] me.pc = "read"                      -> 5
      [] me.pc = "asking" /\ ~me.refresh     -> 4
      [] me.pc = "answered" /\ ~me.refresh   -> 3
      [] me.pc = "asking" /\ me.refresh      -> 2
      [] me.pc = "answered" /\ me.refresh    -> 1
      [] me.pc = "ended"                     -> 0

\* Only threads that have not looked for a key again read the cached set.
FirstLook(me) == me.pc \in {"idle", "key", "set", "read"} => ~me.refresh

FirstLooks == \A q \in Threads : FirstLook(th[q])

\* A step that a thread takes brings it nearer to its answer.
ChecksFall == \A q \in Threads : th'[q] # th[q] => ChecksLeft(th'[q]) < ChecksLeft(th[q])

LEMMA ChecksAreFew == ASSUME NEW me \in Thread PROVE ChecksLeft(me) \in 0 .. 8
<1>1. /\ me.pc \in {"idle", "key", "set", "read", "asking", "answered", "ended"}
      /\ me.refresh \in BOOLEAN
  BY DEF Thread
<1>2. CASE me.refresh
  BY <1>1, <1>2 DEF ChecksLeft
<1>3. CASE ~me.refresh
  BY <1>1, <1>3 DEF ChecksLeft
<1> QED BY <1>1, <1>2, <1>3

\* How a thread goes on after each of its steps.
LEMMA StepChecks ==
    ASSUME TypeOK, FirstLooks, NEW q \in Threads, Verify(q)
    PROVE  \E n : /\ Goes(q, n) /\ FirstLook(n)
                  /\ ChecksLeft(n) < ChecksLeft(th[q])
<1> DEFINE me == th[q]
<1>0. me \in Thread /\ FirstLook(me)
  BY DEF TypeOK, FirstLooks
<1>1. ASSUME NEW n, Goes(q, n), n.pc = "ended", me.pc # "ended"
      PROVE  FirstLook(n) /\ ChecksLeft(n) < ChecksLeft(me)
  <2>1. ChecksLeft(n) = 0
    BY <1>1 DEF ChecksLeft
  <2>2. ChecksLeft(me) # 0
    <3>1. CASE me.refresh
      BY <1>0, <1>1, <3>1 DEF ChecksLeft, Thread
    <3>2. CASE ~me.refresh
      BY <1>0, <1>1, <3>2 DEF ChecksLeft, Thread
    <3> QED BY <3>1, <3>2
  <2>3. ChecksLeft(me) \in 0 .. 8
    BY <1>0, ChecksAreFew
  <2>4. FirstLook(n)
    BY <1>1 DEF FirstLook
  <2> QED BY <2>1, <2>2, <2>3, <2>4
<1>2. \A m, answer : Ended(m, answer).pc = "ended"
  BY DEF Ended, With
<1>3. Verified(me).pc = "ended" /\ Raised(q).pc = "ended"
  BY <1>2 DEF Verified, Raised
<1>4. ASSUME NEW keys, Goes(q, Matched(q, keys)), me.pc \in {"read", "answered"}
      PROVE  \E n : Goes(q, n) /\ FirstLook(n) /\ ChecksLeft(n) < ChecksLeft(me)
  <2>1. CASE Matched(q, keys).pc = "ended"
    BY <1>1, <1>4, <2>1
  <2>2. CASE Matched(q, keys).pc # "ended"
    <3> DEFINE n == [me EXCEPT !.pc = "asking", !.refresh = TRUE]
    <3>1. Matched(q, keys) = n /\ ~me.refresh
      BY <1>3, <2>2 DEF Matched
    <3>2. n.pc = "asking" /\ n.refresh
      BY <1>0 DEF Thread
    <3> HIDE DEF n
    <3>3. ChecksLeft(n) = 2
      BY <3>2 DEF ChecksLeft
    <3>4. ChecksLeft(me) \in {3, 5}
      BY <1>4, <3>1 DEF ChecksLeft
    <3>5. FirstLook(n)
      BY <3>2 DEF FirstLook
    <3> QED BY <1>4, <3>1, <3>3, <3>4, <3>5
  <2> QED BY <2>1, <2>2
<1>5. CASE Start(q)
  <2>1. PICK token \in Token :
          Goes(q, CASE token.alg = "HS256"      -> Verified(NewThread(token, "ended"))
                    [] token.alg = "asymmetric" -> NewThread(token, "key")
                    [] token.alg = "other"      -> Ended(NewThread(token, "ended"), 401))
    BY <1>5 DEF Start
  <2>2. token.alg \in {"HS256", "asymmetric", "other"}
    BY DEF Token
  <2>3. me.pc = "idle"
    BY <1>5 DEF Start
  <2>4. CASE token.alg = "HS256"
    <3>1. Verified(NewThread(token, "ended")).pc = "ended"
      BY <1>2 DEF Verified
    <3> QED BY <1>1, <2>1, <2>3, <2>4, <3>1
  <2>5. CASE token.alg = "other"
    <3>1. Goes(q, Ended(NewThread(token, "ended"), 401))
      BY <2>1, <2>5
    <3> QED BY <1>1, <1>2, <2>3, <3>1
  <2>6. CASE token.alg = "asymmetric"
    <3> DEFINE n == NewThread(token, "key")
    <3>1. n.pc = "key" /\ ~n.refresh /\ Goes(q, n)
      BY <2>1, <2>6 DEF NewThread, With
    <3> HIDE DEF n
    <3>2. ChecksLeft(n) = 7 /\ ChecksLeft(me) = 8 /\ FirstLook(n)
      BY <2>3, <3>1 DEF ChecksLeft, FirstLook
    <3> QED BY <3>1, <3>2
  <2> QED BY <2>2, <2>4, <2>5, <2>6
<1>6. CASE KeyLookup(q)
  <2>1. me.pc = "key"
    BY <1>6 DEF KeyLookup
  <2>2. CASE Goes(q, Verified(me))
    BY <1>1, <1>3, <2>1, <2>2
  <2>3. CASE Goes(q, [me EXCEPT !.pc = "set"])
    <3> DEFINE n == [me EXCEPT !.pc = "set"]
    <3>1. n.pc = "set" /\ n.refresh = me.refresh
      BY <1>0 DEF Thread
    <3> HIDE DEF n
    <3>2. ChecksLeft(n) = 6 /\ ChecksLeft(me) = 7 /\ FirstLook(n)
      BY <1>0, <2>1, <3>1 DEF ChecksLeft, FirstLook
    <3> QED BY <2>3, <3>2 DEF n
  <2> QED BY <1>6, <2>2, <2>3 DEF KeyLookup
<1>7. CASE SetLookup(q)
  <2> DEFINE pc == IF SetIsFresh THEN "read" ELSE "asking"
             n  == [me EXCEPT !.pc = pc]
  <2>1. me.pc = "set" /\ Goes(q, n) /\ pc \in {"read", "asking"}
    BY <1>7 DEF SetLookup
  <2> HIDE DEF pc
  <2>2. n.pc = pc /\ n.refresh = me.refresh
    BY <1>0 DEF Thread
  <2> HIDE DEF n
  <2>3. ~me.refresh
    BY <1>0, <2>1 DEF FirstLook
  <2>4. ChecksLeft(n) \in {4, 5} /\ ChecksLeft(me) = 6 /\ FirstLook(n)
    BY <2>1, <2>2, <2>3 DEF ChecksLeft, FirstLook
  <2> QED BY <2>1, <2>4
<1>8. CASE SetRead(q)
  BY <1>4, <1>8 DEF SetRead, Uses
<1>9. CASE Answered(q)
  <2> DEFINE n == [me EXCEPT !.pc = "answered", !.got = published]
  <2>1. me.pc = "asking" /\ Goes(q, n)
    BY <1>9 DEF Answered
  <2>2. n.pc = "answered" /\ n.refresh = me.refresh /\ me.refresh \in BOOLEAN
    BY <1>0 DEF Thread
  <2> HIDE DEF n
  <2>3. FirstLook(n)
    BY <2>2 DEF FirstLook
  <2>4. CASE me.refresh
    <3>1. ChecksLeft(n) = 1 /\ ChecksLeft(me) = 2
      BY <2>1, <2>2, <2>4 DEF ChecksLeft
    <3> QED BY <2>1, <2>3, <3>1
  <2>5. CASE ~me.refresh
    <3>1. ChecksLeft(n) = 3 /\ ChecksLeft(me) = 4
      BY <2>1, <2>2, <2>5 DEF ChecksLeft
    <3> QED BY <2>1, <2>3, <3>1
  <2> QED BY <2>2, <2>4, <2>5
<1>10. CASE Stored(q)
  BY <1>4, <1>10 DEF Stored, Uses
<1>11. CASE FetchFails(q)
  BY <1>1, <1>3, <1>11 DEF FetchFails
<1> QED BY <1>5, <1>6, <1>7, <1>8, <1>9, <1>10, <1>11 DEF Verify

\* Whatever keys come and go and however threads overwrite each other's caches,
\* a token is verified or refused after at most 8 steps: the endpoint is asked
\* at most twice for it.
THEOREM VerificationRunsDown ==
    Spec => [](\A q \in Threads : ChecksLeft(th[q]) \in 0 .. 8) /\ [][ChecksFall]_vars
<1>1. Init => FirstLooks
  <2> SUFFICES ASSUME Init PROVE FirstLooks
    OBVIOUS
  <2> DEFINE me0 == NewThread(CHOOSE token \in Token : TRUE, "idle")
  <2>1. me0.pc = "idle" /\ ~me0.refresh
    BY DEF NewThread, With
  <2>2. [me0 EXCEPT !.pc = "asking", !.refresh = TRUE].pc = "asking"
    BY DEF NewThread, With
  <2>3. \A q \in Threads : th[q] = IF q = Startup
                                   THEN [me0 EXCEPT !.pc = "asking", !.refresh = TRUE] ELSE me0
    BY DEF Init
  <2> HIDE DEF me0
  <2> QED BY <2>1, <2>2, <2>3 DEF FirstLooks, FirstLook
<1>2. TypeOK /\ FirstLooks /\ [Next]_vars => FirstLooks' /\ [ChecksFall]_vars
  <2> SUFFICES ASSUME TypeOK, FirstLooks, [Next]_vars PROVE FirstLooks' /\ ChecksFall
    OBVIOUS
  <2>1. CASE UNCHANGED th
    BY <2>1 DEF FirstLooks, FirstLook, ChecksFall
  <2>2. ASSUME NEW q \in Threads, Verify(q) PROVE FirstLooks' /\ ChecksFall
    <3>1. PICK n : Goes(q, n) /\ FirstLook(n) /\ ChecksLeft(n) < ChecksLeft(th[q])
      BY <2>2, StepChecks
    <3>2. ASSUME NEW p \in Threads
          PROVE  /\ FirstLook(th'[p])
                 /\ th'[p] # th[p] => ChecksLeft(th'[p]) < ChecksLeft(th[p])
      <4>1. th'[p] = IF p = q THEN n ELSE th[p]
        BY <3>1 DEF Goes, TypeOK
      <4>2. CASE p = q
        BY <3>1, <4>1, <4>2
      <4>3. CASE p # q
        BY <4>1, <4>3 DEF FirstLooks
      <4> QED BY <4>2, <4>3
    <3> QED BY <3>2 DEF FirstLooks, ChecksFall
  <2>3. (\E k \in Kids : Rotate(k)) \/ Tick \/ UNCHANGED vars => UNCHANGED th
    BY DEF Rotate, Tick, vars
  <2> QED BY <2>1, <2>2, <2>3 DEF Next
<1>3. TypeOK => \A q \in Threads : ChecksLeft(th[q]) \in 0 .. 8
  BY ChecksAreFew DEF TypeOK
<1> QED BY <1>1, <1>2, <1>3, TypesHold, PTL DEF Spec

=============================================================================
