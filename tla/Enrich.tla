------------------------------- MODULE Enrich --------------------------------
(***************************************************************************)
(* Metadata of shared links: GET /enrich and GET /instagram/post.  A       *)
(* request looks the link up in the SQLite cache that all workers share,   *)
(* asks the sources that fit its site (app/services/enrich_dispatcher.py): *)
(* ChocoData or the ladder of Instagram layers (instagram_scraper.py),     *)
(* TikTok's oEmbed, the private scraper service; and caches what it got.   *)
(* POST /enrich/extract asks Groq for the event in a caption               *)
(* (event_extraction.py).                                                  *)
(* What a source answers is its own choice; statuses are the ones the code *)
(* maps the answer to, 500 for an exception nothing maps.                  *)
(***************************************************************************)
EXTENDS Integers, Sequences, FiniteSets

CONSTANTS
    Requests, Workers, Worker,   \* requests, uvicorn processes, who serves which
    Keys, Site,                  \* normalize_enrich_url's keys, the site of each
    Unkeyable,                   \* links it raises for: their port is no port
    MaxAttempts,                 \* chocodata_instagram's _MAX_ATTEMPTS
    Nothing,                     \* None
    MaxFaults                    \* bound: trouble with the cache, restarts

ASSUME EnrichAssumption ==
    /\ Worker \in [Requests -> Workers]
    /\ Site \in [Keys -> {"instagram", "tiktok", "web"}] /\ Unkeyable \subseteq Keys
    /\ Keys # {}
    /\ MaxAttempts \in Nat \ {0} /\ MaxFaults \in Nat
    /\ Nothing \notin [key : Keys, thumbnail : BOOLEAN, by : Requests]

VARIABLES
    settings,   \* what the environment configures
    cache,      \* the rows of enrich_cache
    schema,     \* the database file has the table
    ready,      \* _initialized_paths of each worker
    req,        \* the local variables of each request
    \* History
    asked,      \* the sources each request asked, with their answers
    shared,     \* keys that two requests were at work on at once
    missed,     \* keys whose entry a request failed to read
    faults

vars == <<settings, cache, schema, ready, req, asked, shared, missed, faults>>

Settings == [cacheOn : BOOLEAN,     \* enrich_cache_enabled
             choco   : BOOLEAN,     \* instagram_chocodata_enabled, with a key
             session : BOOLEAN,     \* Instagram user name and session file
             scraper : BOOLEAN,     \* scraper_service_url and scraper_api_key
             groq    : BOOLEAN]     \* groq_api_key

Payload  == [key : Keys, thumbnail : BOOLEAN, by : Requests]
Statuses == {200, 400, 403, 404, 429, 500, 502, 503}

\* ATTEMPTS
Ladder == <<"be:anonymous", "be:authenticated", "scraper:anonymous", "scraper:authenticated">>

Sources == {Ladder[i] : i \in DOMAIN Ladder} \cup {"choco", "overlay", "tiktok", "page",
                                                       "structured", "plain"}

\* An answer: its status, and whether ChocoData's status or code is retryable.
Asked == [to : Sources, status : Statuses, again : BOOLEAN]

Request ==
    [pc      : {"idle", "lookup", "fetch", "choco", "overlay", "ladder", "tiktok", "page",
                "structured", "plain", "save", "ended"},
     op      : {"enrich", "post", "extract"},
     key     : Keys,
     layer   : 0 .. Len(Ladder),            \* 0 is the end of the ladder
     attempt : 1 .. MaxAttempts,
     last    : BOOLEAN,                     \* last_error is set
     result  : Payload \cup {Nothing},
     answer  : Statuses \cup {0}]           \* 0: none yet, or never

TypeOK ==
    /\ settings \in Settings
    /\ cache \in [Keys -> Payload \cup {Nothing}]
    /\ schema \in BOOLEAN
    /\ ready \in [Workers -> BOOLEAN]
    /\ req \in [Requests -> Request]
    /\ asked \in [Requests -> Seq(Asked)]
    /\ shared \subseteq Keys /\ missed \subseteq Keys
    /\ faults \in 0 .. MaxFaults

NewRequest(key) ==
    [pc |-> "idle", op |-> "enrich", key |-> key, layer |-> 0, attempt |-> 1,
     last |-> FALSE, result |-> Nothing, answer |-> 0]

Init ==
    /\ settings \in Settings
    /\ cache = [k \in Keys |-> Nothing]
    /\ schema = FALSE
    /\ ready = [w \in Workers |-> FALSE]
    /\ req = [q \in Requests |-> NewRequest(CHOOSE k \in Keys : TRUE)]
    /\ asked = [q \in Requests |-> <<>>]
    /\ shared = {} /\ missed = {}
    /\ faults = 0

-----------------------------------------------------------------------------
(* The ladder.                                                              *)

Available(layer) ==
    CASE layer = "be:anonymous"     -> TRUE
      [] layer = "be:authenticated" -> settings.session
      [] OTHER                      -> settings.scraper

\* The next layer that is available, 0 if there is none.
NextLayer(i) ==
    LET left == {j \in DOMAIN Ladder : j > i /\ Available(Ladder[j])} IN
    IF left = {} THEN 0 ELSE CHOOSE j \in left : \A l \in left : j <= l

OfScraper(i) == i > 2

\* _fetch_local: a post, or an exception of instaloader; 500 is any other one,
\* as from a session file that cannot be read.
BeStatuses == {200, 404, 403, 429, 502, 500}

\* scraper_client: it passes 429, 404, 403 and 503 on, and makes everything else
\* a 502, but for a successful response whose body is not the metadata.
ScraperStatuses == {200, 404, 403, 429, 502, 503, 500}

\* Mutant: a forbidden answer is one more rate limit.
MovesOnWhenForbidden(i, status) == status \in {403, 429} \/ (OfScraper(i) /\ status = 503)

\* Mutant: the first rate limit is raised.
MovesOnNever(i, status) == OfScraper(i) /\ status = 503

\* The layers' answers that are passed over.
MovesOn(i, status) == status = 429 \/ (OfScraper(i) /\ status = 503)

-----------------------------------------------------------------------------
(* The requests.                                                            *)

UnderWay(q) == req[q].pc \notin {"idle", "ended"}

Goes(q, me) == req' = [req EXCEPT ![q] = me]
Ended(me, status) == [me EXCEPT !.pc = "ended", !.answer = status]
CacheStays == UNCHANGED <<cache, schema, ready>>
Quiet == UNCHANGED <<settings, shared, missed, faults>>

\* What a request for a link, or with a caption, does first.  Refused are an
\* unsafe URL, which get_enrich checks, and a wrong API key, which get_post does;
\* a caption that is blank, or for which no key is configured, has no event.
First ==
    LET links   == {NewRequest(k) : k \in Keys}
        posts   == {[me EXCEPT !.op = "post"] : me \in {l \in links : Site[l.key] = "instagram"}}
        caption == [NewRequest(CHOOSE k \in Keys : TRUE) EXCEPT !.op = "extract"]
    IN {[me EXCEPT !.pc = "lookup"] : me \in links}
       \cup {Ended(me, 400) : me \in links}
       \cup {[me EXCEPT !.pc = "fetch"] : me \in posts} \cup {Ended(me, 403) : me \in posts}
       \cup (IF settings.groq THEN {[caption EXCEPT !.pc = "structured"]} ELSE {})
       \cup {Ended(caption, 200)}

Arrive(q) ==
    /\ req[q].pc = "idle"
    /\ \E me \in First :
        /\ Goes(q, me)
        /\ shared' = IF me.pc = "lookup" /\ \E p \in Requests : UnderWay(p) /\ req[p].op = "enrich"
                                                               /\ req[p].key = me.key
                     THEN shared \cup {me.key} ELSE shared
    /\ CacheStays
    /\ UNCHANGED <<settings, asked, missed, faults>>

\* _init_db creates the table once per worker; afterwards it trusts the file.
Initialised(w) ==
    /\ ready' = [ready EXCEPT ![w] = TRUE]
    /\ schema' = (schema \/ ~ready[w])

\* Mutant: the entry is read and not used.
HitIgnored(me, entry) == [me EXCEPT !.pc = "fetch"]

\* enrich_url after get_cached_enrich returned.
LookedUp(me, entry) ==
    IF entry # Nothing THEN Ended([me EXCEPT !.result = entry], 200)
    ELSE [me EXCEPT !.pc = "fetch"]

HasNoKey(k) == k \in Unkeyable

\* get_cached_enrich.  Without its table the query fails, and that is a miss;
\* the key is computed before the try.
Lookup(q) ==
    /\ req[q].pc = "lookup"
    /\ IF settings.cacheOn /\ HasNoKey(req[q].key) THEN Goes(q, Ended(req[q], 500)) /\ CacheStays
       ELSE IF settings.cacheOn
       THEN /\ Initialised(Worker[q])
            /\ Goes(q, LookedUp(req[q], cache[req[q].key]))
            /\ UNCHANGED cache
       ELSE Goes(q, LookedUp(req[q], Nothing)) /\ CacheStays
    /\ UNCHANGED asked /\ Quiet

\* _enrich_url_uncached, and the choice of get_post_metadata.
Fetch(q) ==
    /\ req[q].pc = "fetch"
    /\ LET me == req[q] IN
       Goes(q, CASE Site[me.key] = "instagram" /\ settings.choco -> [me EXCEPT !.pc = "choco"]
                 [] Site[me.key] = "instagram" /\ ~settings.choco ->
                        [me EXCEPT !.pc = "ladder", !.layer = NextLayer(0)]
                 [] Site[me.key] = "tiktok" -> [me EXCEPT !.pc = "tiktok"]
                 [] Site[me.key] = "web" /\ settings.scraper -> [me EXCEPT !.pc = "page"]
                 [] Site[me.key] = "web" /\ ~settings.scraper -> Ended(me, 502))
    /\ CacheStays /\ UNCHANGED asked /\ Quiet

Hears(q, source, status, again) ==
    asked' = [asked EXCEPT ![q] = Append(@, [to |-> source, status |-> status, again |-> again])]

\* The metadata is there: enrich_url caches it, get_post answers.
Got(q, thumbnail) ==
    LET me == [req[q] EXCEPT !.result = [key |-> req[q].key, thumbnail |-> thumbnail,
                                         by |-> q]]
    IN IF me.op = "enrich" THEN [me EXCEPT !.pc = "save"] ELSE Ended(me, 200)

\* One round of the loop of get_post_metadata over ATTEMPTS.
AskLayer(q) ==
    /\ req[q].pc = "ladder" /\ req[q].layer # 0
    /\ LET me == req[q] IN
       \E status \in (IF OfScraper(me.layer) THEN ScraperStatuses ELSE BeStatuses),
          thumbnail \in BOOLEAN :
        /\ Hears(q, Ladder[me.layer], status, FALSE)
        /\ Goes(q, IF status = 200 THEN Got(q, thumbnail)
                   ELSE IF MovesOn(me.layer, status)
                   THEN [me EXCEPT !.layer = NextLayer(@), !.last = @ \/ status = 429]
                   ELSE Ended(me, status))
    /\ CacheStays /\ Quiet

\* Both errors raised after the loop, last_error and the fallback, are 429s.
LadderExhausted(q) ==
    /\ req[q].pc = "ladder" /\ req[q].layer = 0
    /\ Goes(q, Ended(req[q], 429))
    /\ CacheStays /\ UNCHANGED asked /\ Quiet

\* Mutant: one attempt too many.
TriesAgainTooOften(me) == me.attempt <= MaxAttempts

TriesAgain(me) == me.attempt < MaxAttempts

\* ChocoData's fetch_instagram_post, one attempt: the post, with or without a
\* picture; a timeout or a retryable status or code; anything else.
AskChoco(q) ==
    /\ req[q].pc = "choco"
    /\ LET me == req[q] IN
       \/ \E thumbnail \in BOOLEAN :
            /\ Hears(q, "choco", 200, FALSE)
            /\ Goes(q, IF thumbnail THEN Got(q, TRUE) ELSE [me EXCEPT !.pc = "overlay"])
       \/ \E status \in {429, 502} :
            /\ Hears(q, "choco", status, TRUE)
            /\ Goes(q, IF TriesAgain(me) THEN [me EXCEPT !.attempt = @ + 1]
                       ELSE Ended(me, status))
       \/ \E status \in {404, 502} :
            /\ Hears(q, "choco", status, FALSE)
            /\ Goes(q, Ended(me, status))
    /\ CacheStays /\ Quiet

\* try_instaloader_thumbnail_url: a picture, or none, as when the post cannot be
\* had.  Reading the post's url stands outside its try, and may raise.
AskOverlay(q) ==
    /\ req[q].pc = "overlay"
    /\ \E status \in {200, 502, 500} :
        /\ Hears(q, "overlay", status, FALSE)
        /\ Goes(q, IF status = 500 THEN Ended(req[q], 500) ELSE Got(q, status = 200))
    /\ CacheStays /\ Quiet

\* A site with one source: UpstreamError is 502, and a body the code does not
\* expect raises.
AskOnly(q, source) ==
    /\ req[q].pc = source
    /\ \E status \in {200, 502, 500}, thumbnail \in BOOLEAN :
        /\ Hears(q, source, status, FALSE)
        /\ Goes(q, IF status = 200 THEN Got(q, thumbnail) ELSE Ended(req[q], status))
    /\ CacheStays /\ Quiet

\* enrich_tiktok
AskTikTok(q) == AskOnly(q, "tiktok")

\* fetch_metadata_via_scraper, for any other page
AskPage(q) == AskOnly(q, "page")

FallsBack(source, status) == source = "structured" /\ status = 400

\* extract_event_from_description: 502 is any other error, or an answer without
\* an event in it.  The route answers 200 in any case.
AskGroq(q) ==
    /\ req[q].pc \in {"structured", "plain"}
    /\ \E status \in {200, 400, 502} :
        /\ Hears(q, req[q].pc, status, FALSE)
        /\ Goes(q, IF FallsBack(req[q].pc, status) THEN [req[q] EXCEPT !.pc = "plain"]
                   ELSE Ended(req[q], 200))
    /\ CacheStays /\ Quiet

\* set_cached_enrich: an upsert, if the table is there.
Save(q) ==
    /\ req[q].pc = "save"
    /\ IF settings.cacheOn
       THEN /\ Initialised(Worker[q])
            /\ cache' = IF schema' THEN [cache EXCEPT ![req[q].key] = req[q].result] ELSE cache
       ELSE CacheStays
    /\ Goes(q, Ended(req[q], 200))
    /\ UNCHANGED asked /\ Quiet

-----------------------------------------------------------------------------
(* Trouble with the cache, and restarts.                                    *)

Fault == faults < MaxFaults /\ faults' = faults + 1 /\ UNCHANGED <<settings, shared, asked>>

\* The database is locked, unreadable, or the entry is not what it should be.
ReadFails(q) ==
    /\ Fault
    /\ req[q].pc = "lookup" /\ settings.cacheOn /\ ~HasNoKey(req[q].key)
    /\ Goes(q, [req[q] EXCEPT !.pc = "fetch"])
    /\ missed' = missed \cup {req[q].key}
    /\ CacheStays

\* Mutant: the exception of a failed write is let out.
FailedWriteRaises(me) == Ended(me, 500)

\* The write's exception is logged, and the metadata returned.
AfterFailedWrite(me) == Ended(me, 200)

WriteFails(q) ==
    /\ Fault
    /\ req[q].pc = "save" /\ settings.cacheOn
    /\ Goes(q, AfterFailedWrite(req[q]))
    /\ CacheStays /\ UNCHANGED missed

\* The file is replaced by an empty one under running workers.
LoseFile ==
    /\ Fault
    /\ schema
    /\ schema' = FALSE
    /\ cache' = [k \in Keys |-> Nothing]
    /\ UNCHANGED <<ready, req, missed>>

\* A worker is restarted; the file may be on an ephemeral disk.
Restart(w) ==
    /\ Fault
    /\ ready' = [ready EXCEPT ![w] = FALSE]
    /\ req' = [q \in Requests |-> IF Worker[q] = w /\ UnderWay(q) THEN Ended(req[q], 0)
                                  ELSE req[q]]
    /\ UNCHANGED <<cache, schema, missed>>

-----------------------------------------------------------------------------
Ask(q) ==
    \/ AskLayer(q) \/ LadderExhausted(q) \/ AskChoco(q) \/ AskOverlay(q)
    \/ AskTikTok(q) \/ AskPage(q) \/ AskGroq(q)

Next ==
    \/ \E q \in Requests :
        \/ Arrive(q) \/ Lookup(q) \/ Fetch(q) \/ Ask(q) \/ Save(q)
        \/ ReadFails(q) \/ WriteFails(q)
    \/ LoseFile
    \/ \E w \in Workers : Restart(w)

Spec == Init /\ [][Next]_vars

-----------------------------------------------------------------------------
(* Properties.                                                              *)

\* After this answer another source may be asked: a rate limit, a scraper
\* session that is not available, a retryable error of ChocoData, a post of
\* ChocoData's without a picture, a schema that Groq does not accept.
LeavesOpen(a) ==
    \/ a.to \in {Ladder[1], Ladder[2]} /\ a.status = 429
    \/ a.to \in {Ladder[3], Ladder[4]} /\ a.status \in {429, 503}
    \/ a.to = "choco" /\ (a.again \/ a.status = 200)
    \/ a.to = "structured" /\ a.status = 400

\* The layers that are available, in the order of ATTEMPTS.
Layers ==
    CASE settings.session /\ settings.scraper   -> Ladder
      [] settings.session /\ ~settings.scraper  -> <<Ladder[1], Ladder[2]>>
      [] ~settings.session /\ settings.scraper  -> <<Ladder[1], Ladder[3], Ladder[4]>>
      [] ~settings.session /\ ~settings.scraper -> <<Ladder[1]>>

\* No source is asked after an answer that settles the matter (the post, a
\* post that does not exist or is private, a broken connection), the layers are
\* asked in the order of ATTEMPTS, none that is available left out, and however
\* slow or broken the sources, ChocoData is asked _MAX_ATTEMPTS times and every
\* other source once, at most.
AsksInTurn ==
    \A q \in Requests :
        /\ \A i \in 1 .. Len(asked[q]) - 1 : LeavesOpen(asked[q][i])
        /\ \A i \in DOMAIN asked[q] :
             asked[q][i].to \in {Ladder[j] : j \in DOMAIN Ladder} => asked[q][i].to = Layers[i]
        /\ \A s \in Sources : Cardinality({i \in DOMAIN asked[q] : asked[q][i].to = s})
                                <= IF s = "choco" THEN MaxAttempts ELSE 1

\* A request fails only for a reason: its last answer settles the matter, or
\* nothing is left to ask.  An event is not found only after Groq was asked
\* without the schema it refused.  And the app is told to slow down only if a
\* source said so: the 429 that get_post_metadata has for "unavailable" layers
\* is never given.
FailsOnlyWhenExhausted ==
    \A q \in Requests :
        /\ req[q].pc = "ended" /\ req[q].answer # 0 /\ asked[q] # <<>>
           /\ (req[q].answer # 200 \/ req[q].op = "extract") =>
            LET a == asked[q][Len(asked[q])] IN
            \/ ~LeavesOpen(a)
            \/ a.to = "choco" /\ Len(asked[q]) = MaxAttempts
            \/ a.to \in {Ladder[j] : j \in DOMAIN Ladder} /\ Len(asked[q]) = Len(Layers)
        /\ req[q].answer = 429 => \E i \in DOMAIN asked[q] : asked[q][i].status = 429

\* Trouble with the cache never fails a request: what is answered with an
\* internal error is what a source's body caused, or a link for which there is
\* no key, and only while the cache is on.
CacheNeverFailsRequest ==
    \A q \in Requests : req[q].answer = 500 =>
        \/ asked[q] # <<>> /\ asked[q][Len(asked[q])].status = 500
        \/ asked[q] = <<>> /\ settings.cacheOn /\ req[q].key \in Unkeyable

\* An entry, once cached, is what everybody gets for the link, until the file
\* is lost: it is overwritten only by a request that ran together with another
\* one for the link, or after a read that failed.
CachedMetadataIsStable ==
    [][\A k \in Keys : cache[k] # Nothing /\ cache'[k] \notin {cache[k], Nothing} =>
         k \in shared \cup missed]_vars

=============================================================================
