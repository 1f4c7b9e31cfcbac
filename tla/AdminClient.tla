---------------------------- MODULE AdminClient -----------------------------
(***************************************************************************)
(* app/core/supabase.py in one worker process: the lru_cache that makes    *)
(* get_admin_client a singleton, reset_admin_client that closes and drops  *)
(* it, and execute_supabase's retry loop, run by the threads that serve    *)
(* requests.  The cache takes its lock only for its own bookkeeping, so    *)
(* building a client and storing it, and the three statements of a reset,  *)
(* interleave with other threads.                                          *)
(***************************************************************************)
EXTENDS Naturals, FiniteSets

CONSTANTS
    Requests,      \* requests, each served by a thread of its own
    MaxAttempts,   \* _MAX_ATTEMPTS
    MaxCalls,      \* bound: queries of one request
    MaxFaults      \* bound: connections that break by themselves, other errors

ASSUME AdminConstants ==
    /\ IsFiniteSet(Requests)
    /\ MaxAttempts \in Nat \ {0} /\ MaxCalls \in Nat \ {0} /\ MaxFaults \in Nat

NoClient == 0

VARIABLES
    slot,      \* the client in the lru_cache, NoClient when the cache is empty
    made,      \* number of clients built; they are 1 .. made
    closed,    \* clients whose HTTP session was closed
    th,        \* the threads' local variables
    applied,   \* History: executions by the server of the current query
    broken,    \* History: connections that broke by themselves
    retries,   \* History: failed attempts after which there is another
    faults     \* all faults the run has spent

vars == <<slot, made, closed, th, applied, broken, retries, faults>>

-----------------------------------------------------------------------------
PCs == {"idle", "get", "store", "between", "call", "flight", "served", "size",
        "close", "clear", "ended"}

Thread ==
    [pc      : PCs,
     goal    : {"depend", "reset", "retry"},  \* whose get_admin_client() this is
     built   : Nat,                           \* built, not yet stored
     client  : Nat,                           \* the handler's client argument
     cur     : Nat,                           \* current_client
     victim  : Nat,                           \* reset's client
     attempt : 1 .. MaxAttempts,
     calls   : 0 .. MaxCalls,
     answer  : {"none", "ok", "upstream", "raw"}]

TypeOK ==
    /\ made \in Nat
    /\ slot \in 0 .. made
    /\ closed \subseteq 1 .. made
    /\ th \in [Requests -> Thread]
    /\ applied \in [Requests -> 0 .. MaxAttempts]
    /\ broken \in 0 .. faults
    /\ retries \in Nat
    /\ faults \in 0 .. MaxFaults

NewThread ==
    [pc |-> "idle", goal |-> "depend", built |-> NoClient, client |-> NoClient,
     cur |-> NoClient, victim |-> NoClient, attempt |-> 1, calls |-> 0,
     answer |-> "none"]

Init ==
    /\ slot = NoClient
    /\ made = 0
    /\ closed = {}
    /\ th = [q \in Requests |-> NewThread]
    /\ applied = [q \in Requests |-> 0]
    /\ broken = 0
    /\ retries = 0
    /\ faults = 0

Thinks(q, me) == th' = [th EXCEPT ![q] = me]
Keeps == UNCHANGED <<broken, retries, faults>>

\* The request is over and its locals with it; how its last query ended stays.
Ends(me, answer) ==
    [NewThread EXCEPT !.pc = "ended", !.calls = me.calls, !.attempt = me.attempt,
                      !.answer = answer]

-----------------------------------------------------------------------------
(* get_admin_client, for the three places that call it.                     *)

Get(me, goal) == [me EXCEPT !.pc = "get", !.goal = goal]

Received(me, c) ==
    LET got == [me EXCEPT !.built = NoClient, !.goal = "depend"] IN
    CASE me.goal = "depend" -> [got EXCEPT !.pc = "between", !.client = c]
      [] me.goal = "reset"  -> [got EXCEPT !.pc = "close", !.victim = c]
      [] me.goal = "retry"  -> [got EXCEPT !.pc = "call", !.cur = c]

Arrive(q) ==
    /\ th[q].pc = "idle"
    /\ Thinks(q, Get(th[q], "depend"))
    /\ UNCHANGED <<slot, made, closed, applied>> /\ Keeps

Hit(q) ==
    /\ th[q].pc = "get" /\ slot # NoClient
    /\ Thinks(q, Received(th[q], slot))
    /\ UNCHANGED <<slot, made, closed, applied>> /\ Keeps

Build(q) ==
    /\ th[q].pc = "get" /\ slot = NoClient
    /\ made' = made + 1
    /\ Thinks(q, [th[q] EXCEPT !.pc = "store", !.built = made + 1])
    /\ UNCHANGED <<slot, closed, applied>> /\ Keeps

\* A client that another thread stored in the meantime stays in the cache;
\* this thread goes on with its own.
StoreInCache(c) == slot' = IF slot = NoClient THEN c ELSE slot

Store(q) ==
    /\ th[q].pc = "store"
    /\ StoreInCache(th[q].built)
    /\ Thinks(q, Received(th[q], th[q].built))
    /\ UNCHANGED <<made, closed, applied>> /\ Keeps

-----------------------------------------------------------------------------
(* The handler and execute_supabase.                                        *)

\* The handler makes its next query, always with the client it was given.
Execute(q) ==
    /\ th[q].pc = "between" /\ th[q].calls < MaxCalls
    /\ Thinks(q, [th[q] EXCEPT !.pc = "call", !.cur = th[q].client, !.attempt = 1,
                               !.calls = @ + 1, !.answer = "none"])
    /\ applied' = [applied EXCEPT ![q] = 0]
    /\ UNCHANGED <<slot, made, closed>> /\ Keeps

Respond(q) ==
    /\ th[q].pc = "between" /\ th[q].calls > 0
    /\ Thinks(q, Ends(th[q], "ok"))
    /\ UNCHANGED <<slot, made, closed, applied>> /\ Keeps

Issue(q) ==
    /\ th[q].pc = "call" /\ th[q].cur \notin closed
    /\ Thinks(q, [th[q] EXCEPT !.pc = "flight"])
    /\ UNCHANGED <<slot, made, closed, applied>> /\ Keeps

\* A closed httpx client raises RuntimeError, which execute_supabase lets pass.
ClosedClient(q) ==
    /\ th[q].pc = "call" /\ th[q].cur \in closed
    /\ Thinks(q, Ends(th[q], "raw"))
    /\ UNCHANGED <<slot, made, closed, applied>> /\ Keeps

Serve(q) ==
    /\ th[q].pc = "flight"
    /\ applied' = [applied EXCEPT ![q] = @ + 1]
    /\ Thinks(q, [th[q] EXCEPT !.pc = "served"])
    /\ UNCHANGED <<slot, made, closed>> /\ Keeps

Answer(q) ==
    /\ th[q].pc = "served"
    /\ Thinks(q, [th[q] EXCEPT !.pc = "between", !.answer = "ok", !.cur = NoClient])
    /\ UNCHANGED <<slot, made, closed, applied>> /\ Keeps

\* Mutant: the loop makes one attempt too many.
LastAttemptTooLate(me) == me.attempt > MaxAttempts

LastAttempt(me) == me.attempt = MaxAttempts

\* Mutant: the loop falls through to a return of None instead of raising.
FailedReturningNone(me) ==
    IF LastAttempt(me) THEN [me EXCEPT !.pc = "between", !.answer = "ok", !.cur = NoClient]
    ELSE [me EXCEPT !.pc = "size", !.attempt = @ + 1, !.cur = NoClient]

\* The except clause for transport errors, up to the call of reset_admin_client.
Failed(me) ==
    IF LastAttempt(me) THEN Ends(me, "upstream")
    ELSE [me EXCEPT !.pc = "size", !.attempt = @ + 1, !.cur = NoClient]

Fails(q) ==
    /\ Thinks(q, Failed(th[q]))
    /\ retries' = IF LastAttempt(th[q]) THEN retries ELSE retries + 1

\* The connection breaks under a request in flight, served or not.
ConnectionBreaks(q) ==
    /\ th[q].pc \in {"flight", "served"}
    /\ faults < MaxFaults /\ faults' = faults + 1 /\ broken' = broken + 1
    /\ Fails(q)
    /\ UNCHANGED <<slot, made, closed, applied>>

\* Another thread has closed the session this request is in flight on.
ClosedUnderway(q) ==
    /\ th[q].pc \in {"flight", "served"} /\ th[q].cur \in closed
    /\ Fails(q)
    /\ UNCHANGED <<slot, made, closed, applied, broken, faults>>

\* Mutant: API errors are retried like transport errors.
ApiErrorRetried(q) ==
    /\ th[q].pc = "flight"
    /\ faults < MaxFaults /\ faults' = faults + 1
    /\ Fails(q)
    /\ UNCHANGED <<slot, made, closed, applied, broken>>

\* PostgREST refuses the query: UpstreamError at once, no retry, no reset.
ApiError(q) ==
    /\ th[q].pc = "flight"
    /\ faults < MaxFaults /\ faults' = faults + 1
    /\ Thinks(q, Ends(th[q], "upstream"))
    /\ UNCHANGED <<slot, made, closed, applied, broken, retries>>

\* An httpx error that is not in _TRANSPORT_ERRORS (ConnectTimeout before the
\* query is sent, DecodingError after it was executed) is not caught.
UnlistedError(q) ==
    /\ th[q].pc \in {"flight", "served"}
    /\ faults < MaxFaults /\ faults' = faults + 1
    /\ Thinks(q, Ends(th[q], "raw"))
    /\ UNCHANGED <<slot, made, closed, applied, broken, retries>>

-----------------------------------------------------------------------------
(* reset_admin_client, then the get_admin_client() of the retry.            *)

\* Mutant: a reset waits until no other thread is resetting.
CheckSizeAlone(q) ==
    /\ th[q].pc = "size"
    /\ \A p \in Requests \ {q} : th[p].pc \notin {"size", "close", "clear"}
    /\ Thinks(q, Get(th[q], IF slot = NoClient THEN "retry" ELSE "reset"))
    /\ UNCHANGED <<slot, made, closed, applied>> /\ Keeps

CheckSize(q) ==
    /\ th[q].pc = "size"
    /\ Thinks(q, Get(th[q], IF slot = NoClient THEN "retry" ELSE "reset"))
    /\ UNCHANGED <<slot, made, closed, applied>> /\ Keeps

Close(q) ==
    /\ th[q].pc = "close"
    /\ closed' = closed \cup {th[q].victim}
    /\ Thinks(q, [th[q] EXCEPT !.pc = "clear"])
    /\ UNCHANGED <<slot, made, applied>> /\ Keeps

\* Mutant: the reset closes the session and forgets cache_clear().
ClearForgotten(q) ==
    /\ th[q].pc = "clear"
    /\ Thinks(q, Get([th[q] EXCEPT !.victim = NoClient], "retry"))
    /\ UNCHANGED <<slot, made, closed, applied>> /\ Keeps

Clear(q) ==
    /\ th[q].pc = "clear"
    /\ slot' = NoClient
    /\ Thinks(q, Get([th[q] EXCEPT !.victim = NoClient], "retry"))
    /\ UNCHANGED <<made, closed, applied>> /\ Keeps

-----------------------------------------------------------------------------
Work(q) ==
    \/ Hit(q) \/ Build(q) \/ Store(q)
    \/ Execute(q) \/ Respond(q) \/ Issue(q) \/ ClosedClient(q) \/ Serve(q) \/ Answer(q)
    \/ CheckSize(q) \/ Close(q) \/ Clear(q)

Next == \E q \in Requests :
            \/ Arrive(q) \/ Work(q)
            \/ ConnectionBreaks(q) \/ ClosedUnderway(q) \/ ApiError(q) \/ UnlistedError(q)

Spec == Init /\ [][Next]_vars

\* A thread that serves a request keeps running, and an HTTP request returns or
\* times out; that a request arrives is nobody's duty.
FairSpec == Spec /\ \A q \in Requests : WF_vars(Work(q))

-----------------------------------------------------------------------------
(* Properties.                                                              *)

\* The cache holds a closed client only inside a reset, between closing that
\* client and clearing the cache: no dead client stays behind for later
\* requests, whichever resets overlap.
ClosedIsBeingCleared ==
    slot \in closed => \E q \in Requests : th[q].pc = "clear" /\ th[q].victim = slot

\* Sessions are closed only because connections broke, and each failed attempt
\* that is retried closes one at most: API errors and the races between a build
\* and a reset close none.
CloseOnlyAfterBreak ==
    /\ broken = 0 => closed = {}
    /\ Cardinality(closed) <= retries

\* As long as a request has had the process to itself, none of its attempts
\* after a reset finds the fresh client closed.
RetryFindsOpenClient ==
    \A q \in Requests :
        /\ \A p \in Requests \ {q} : th[p].pc = "idle"
        /\ th[q].pc = "call" /\ th[q].attempt > 1
        => th[q].cur \notin closed

\* Every request that arrives is answered, whoever resets the client under it.
EveryRequestEnds == \A q \in Requests : th[q].pc # "idle" ~> th[q].pc = "ended"

\* What a caller may rely on (RemoteCall) is what the threads do.
Phase(me) ==
    CASE me.answer \in {"upstream", "raw"}      -> "failed"
      [] me.answer = "ok"                       -> "ok"
      [] me.answer = "none" /\ me.calls = 0     -> "idle"
      [] me.answer = "none" /\ me.calls > 0     -> "open"

Contract == INSTANCE RemoteCall WITH
                phase <- [q \in Requests |-> Phase(th[q])], applied <- applied

CallsKeepTheContract == Contract!Spec

\* The module's docstring: persistent failures are mapped to UpstreamError
\* (HTTP 502).  So while connections break and nothing else goes wrong, no
\* other exception reaches a caller.
NoRawError == faults = broken => \A q \in Requests : th[q].answer # "raw"

\* The same docstring: it is persistent failures, of every attempt, that
\* become UpstreamError.
UpstreamOnlyIfPersistent ==
    (\E q \in Requests : th[q].answer = "upstream" /\ LastAttempt(th[q]))
    => broken >= MaxAttempts

=============================================================================
