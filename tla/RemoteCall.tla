----------------------------- MODULE RemoteCall -----------------------------
(***************************************************************************)
(* What a caller of execute_supabase (app/core/supabase.py) may rely on,   *)
(* for each request's current query: the server executes it a number of    *)
(* times bounded by the attempts, a normal return means that it executed   *)
(* it at least once, and an exception says nothing of what it executed.    *)
(***************************************************************************)
EXTENDS Naturals

CONSTANTS Requests, MaxAttempts

VARIABLES
    phase,    \* Requests -> {"idle", "open", "ok", "failed"}
    applied   \* Requests -> executions of the current query

rvars == <<phase, applied>>

Init ==
    /\ phase = [q \in Requests |-> "idle"]
    /\ applied = [q \in Requests |-> 0]

Begin(q) ==
    /\ phase[q] \in {"idle", "ok"}
    /\ phase' = [phase EXCEPT ![q] = "open"]
    /\ applied' = [applied EXCEPT ![q] = 0]

Apply(q) ==
    /\ phase[q] = "open"
    /\ applied[q] < MaxAttempts
    /\ applied' = [applied EXCEPT ![q] = @ + 1]
    /\ UNCHANGED phase

Return(q) ==
    /\ phase[q] = "open"
    /\ applied[q] >= 1
    /\ phase' = [phase EXCEPT ![q] = "ok"]
    /\ UNCHANGED applied

Raise(q) ==
    /\ phase[q] = "open"
    /\ phase' = [phase EXCEPT ![q] = "failed"]
    /\ UNCHANGED applied

Next == \E q \in Requests : Begin(q) \/ Apply(q) \/ Return(q) \/ Raise(q)

Spec == Init /\ [][Next]_rvars

=============================================================================
