--------------------------------- MODULE Auth ---------------------------------
(***************************************************************************)
(* Who a request comes from: app/core/auth.py in one worker.  FastAPI runs *)
(* get_current_user in a pool of threads, which share PyJWKClient's two    *)
(* caches: the key set of the last fetch, for _JWKS_CACHE_LIFESPAN_SECONDS,*)
(* and the signing keys that were found, for as long as the worker lives.  *)
(* The lifespan handler (app/main.py) fills the first before it serves.    *)
(* A fetch is three steps: it is sent, the endpoint answers with the keys  *)
(* of that moment, and the answer is stored and used.                      *)
(***************************************************************************)
EXTENDS Integers

CONSTANTS
    Requests, Startup,   \* the threads: of requests, and of the lifespan handler
    Kids,                \* key ids
    Nothing,             \* an empty cache of the key set
    Lifespan,            \* _JWKS_CACHE_LIFESPAN_SECONDS
    MaxNow,              \* bound of the clock
    MaxFaults,           \* bound: fetches that fail
    MaxRotations         \* bound: keys published and withdrawn

Threads == Requests \cup {Startup}
Token   == [alg : {"HS256", "asymmetric", "other"}, kid : Kids,
            claims : {"good", "bad"}]   \* bad: forged, expired, or not for this app
KeySet  == [keys : SUBSET Kids, at : Nat]

ASSUME AuthAssumption ==
    /\ Startup \notin Requests /\ Kids # {}
    /\ Lifespan \in Nat /\ MaxNow \in Nat /\ MaxFaults \in Nat /\ MaxRotations \in Nat
    /\ Nothing \notin KeySet

VARIABLES
    published,   \* the keys at <SUPABASE_URL>/auth/v1/.well-known/jwks.json
    now,         \* time.monotonic()
    set,         \* jwk_set_cache
    signing,     \* the lru_cache of get_signing_key, by key id
    th,          \* the local variables of each thread
    \* History
    fickle,      \* keys that were not published at some moment
    gone,        \* requests during which their key was not published at some moment
    excused,     \* requests that were under way when a fetch failed
    emptied,     \* no key at all was published at some moment
    faults, rotations

vars == <<published, now, set, signing, th, fickle, gone, excused, emptied, faults, rotations>>

endpoint == <<published, fickle, emptied, rotations>>

Thread == [pc      : {"idle", "key", "set", "read", "asking", "answered", "ended"},
           token   : Token,
           refresh : BOOLEAN,        \* get_jwk_set(refresh=True)
           got     : SUBSET Kids,    \* the keys of the answer
           answer  : {0, 200, 401}]  \* 0: none yet

TypeOK ==
    /\ published \subseteq Kids
    /\ now \in 0 .. MaxNow
    /\ set \in KeySet \cup {Nothing}
    /\ signing \subseteq Kids
    /\ th \in [Threads -> Thread]
    /\ fickle \subseteq Kids
    /\ gone \subseteq Requests /\ excused \subseteq Requests
    /\ emptied \in BOOLEAN
    /\ faults \in 0 .. MaxFaults /\ rotations \in 0 .. MaxRotations

With(token, pc, answer) ==
    [pc |-> pc, token |-> token, refresh |-> FALSE, got |-> {}, answer |-> answer]
NewThread(token, pc) == With(token, pc, 0)

\* prefetch_jwks is the first thing a worker does.
Init ==
    /\ published \in SUBSET Kids
    /\ now = 0
    /\ set = Nothing
    /\ signing = {}
    /\ th = [q \in Threads |->
               LET me == NewThread(CHOOSE token \in Token : TRUE, "idle") IN
               IF q = Startup THEN [me EXCEPT !.pc = "asking", !.refresh = TRUE] ELSE me]
    /\ fickle = Kids \ published
    /\ gone = {} /\ excused = {}
    /\ emptied = (published = {})
    /\ faults = 0 /\ rotations = 0

UnderWay(q) == th[q].pc \notin {"idle", "ended"}

Goes(q, me) == th' = [th EXCEPT ![q] = me]
Ended(me, answer) == With(me.token, "ended", answer)

-----------------------------------------------------------------------------
(* get_current_user.                                                        *)

\* jwt.decode with the key, and the test of the subject.
Verified(me) == Ended(me, IF me.token.claims = "good" THEN 200 ELSE 401)

\* Mutant: the exceptions of the key set are let out.
RaisedAsIs(q) == Ended(th[q], 500)

\* Errors of the network, the key set and the key are caught: a request is
\* refused, prefetch_jwks only logs.
Raised(q) == Ended(th[q], IF q = Startup THEN 0 ELSE 401)

\* The algorithm of the header decides; HS256 needs no key of the endpoint.
Start(q) ==
    /\ q \in Requests /\ th[q].pc = "idle" /\ th[Startup].pc = "ended"
    /\ \E token \in Token :
        /\ Goes(q, CASE token.alg = "HS256"      -> Verified(NewThread(token, "ended"))
                     [] token.alg = "asymmetric" -> NewThread(token, "key")
                     [] token.alg = "other"      -> Ended(NewThread(token, "ended"), 401))
        /\ gone' = IF token.kid \in published THEN gone ELSE gone \cup {q}
    /\ UNCHANGED <<endpoint, now, set, signing, excused, faults>>

-----------------------------------------------------------------------------
(* PyJWKClient.                                                             *)

\* get_signing_key of a key id that was found before.
KeyLookup(q) ==
    /\ th[q].pc = "key"
    /\ Goes(q, IF th[q].token.kid \in signing THEN Verified(th[q])
               ELSE [th[q] EXCEPT !.pc = "set"])
    /\ UNCHANGED <<endpoint, now, set, signing, gone, excused, faults>>

\* Mutant: the client is built without cache_jwk_set.
NeverFresh == FALSE

SetIsFresh == set # Nothing /\ now <= set.at + Lifespan

\* JWKSetCache.get: one look at the age, one more at the set.
SetLookup(q) ==
    /\ th[q].pc = "set"
    /\ Goes(q, [th[q] EXCEPT !.pc = IF SetIsFresh THEN "read" ELSE "asking"])
    /\ UNCHANGED <<endpoint, now, set, signing, gone, excused, faults>>

\* Mutant: a key that is missing is not looked for again.
NoSecondLook(q, keys) ==
    IF th[q].token.kid \in keys THEN Verified(th[q]) ELSE Raised(q)

\* match_kid in a key set, which must not be empty; a key that is missing is
\* looked for once more, in a set fetched for it.
Matched(q, keys) ==
    IF keys = {} \/ q = Startup THEN Raised(q)
    ELSE IF th[q].token.kid \in keys THEN Verified(th[q])
    ELSE IF th[q].refresh THEN Raised(q)
    ELSE [th[q] EXCEPT !.pc = "asking", !.refresh = TRUE]

Uses(q, keys) ==
    /\ Goes(q, Matched(q, keys))
    /\ signing' = IF q # Startup /\ th[q].token.kid \in keys
                  THEN signing \cup {th[q].token.kid} ELSE signing

\* A failed fetch may have emptied the cache since the look at its age.
SetRead(q) ==
    /\ th[q].pc = "read"
    /\ Uses(q, IF set = Nothing THEN {} ELSE set.keys)
    /\ UNCHANGED <<endpoint, now, set, gone, excused, faults>>

Answered(q) ==
    /\ th[q].pc = "asking"
    /\ Goes(q, [th[q] EXCEPT !.pc = "answered", !.got = published])
    /\ UNCHANGED <<endpoint, now, set, signing, gone, excused, faults>>

\* fetch_data stores what it got, and its caller uses it.
Stored(q) ==
    /\ th[q].pc = "answered"
    /\ set' = [keys |-> th[q].got, at |-> now]
    /\ Uses(q, th[q].got)
    /\ UNCHANGED <<endpoint, now, gone, excused, faults>>

\* A timeout after _JWKS_TIMEOUT_SECONDS, or any other error of the fetch: it
\* stores that there is no set, and raises.
FetchFails(q) ==
    /\ faults < MaxFaults /\ faults' = faults + 1
    /\ th[q].pc = "asking"
    /\ set' = Nothing
    /\ Goes(q, Raised(q))
    /\ excused' = excused \cup {p \in Requests : UnderWay(p)}
    /\ UNCHANGED <<endpoint, now, signing, gone>>

-----------------------------------------------------------------------------
(* The endpoint, and time.                                                  *)

\* A key is published or withdrawn.
Rotate(k) ==
    /\ rotations < MaxRotations /\ rotations' = rotations + 1
    /\ published' = IF k \in published THEN published \ {k} ELSE published \cup {k}
    /\ fickle' = fickle \cup (Kids \ published')
    /\ emptied' = (emptied \/ published' = {})
    /\ gone' = gone \cup {q \in Requests : UnderWay(q) /\ th[q].token.kid \notin published'}
    /\ UNCHANGED <<now, set, signing, th, excused, faults>>

Tick ==
    /\ now < MaxNow /\ now' = now + 1
    /\ UNCHANGED <<endpoint, set, signing, th, gone, excused, faults>>

Verify(q) ==
    \/ Start(q) \/ KeyLookup(q) \/ SetLookup(q) \/ SetRead(q)
    \/ Answered(q) \/ Stored(q) \/ FetchFails(q)

Next ==
    \/ \E q \in Threads : Verify(q)
    \/ \E k \in Kids : Rotate(k)
    \/ Tick

Spec == Init /\ [][Next]_vars

-----------------------------------------------------------------------------
(* Properties.                                                              *)

\* A token with nothing wrong about it is refused only if a fetch of the keys
\* failed meanwhile: not because its key is newer than the cached set, because
\* another thread stores an older answer, or because the caches run out.  An
\* endpoint without any key is the exception: its empty set is cached, and is
\* no reason to look again.
GoodTokensAreAccepted ==
    \A q \in Requests :
        /\ th[q].answer = 401 /\ th[q].token.claims = "good" /\ th[q].token.alg = "asymmetric"
        /\ q \notin gone /\ ~emptied
        => q \in excused

\* No user waits for the keys that prefetch_jwks has cached ("so the first user
\* request is not the probe"): within the lifespan only a key that was not
\* published all the time, or a failed fetch, makes a request ask the endpoint.
PublishedKeysAreWarm ==
    [][\A q \in Requests : th[q].pc # "asking" /\ th'[q].pc = "asking" =>
         th[q].token.kid \in fickle \/ faults > 0 \/ now > Lifespan]_vars

=============================================================================
