------------------------------- MODULE Calls --------------------------------
(***************************************************************************)
(* The bookkeeping of execute_supabase (app/core/supabase.py) in the       *)
(* handler of one request, for the modules that model handlers.  A client  *)
(* is a generation of the process's singleton: its session is open until   *)
(* the singleton is reset, whoever resets it (AdminClient has the detail). *)
(***************************************************************************)
EXTENDS Naturals

CONSTANT MaxAttempts   \* _MAX_ATTEMPTS

ASSUME CallsAssumption == MaxAttempts \in Nat \ {0}

\* The part of a handler's local variables that its calls use.
Call == [client  : Nat,                \* the Client the handler was given
         using   : Nat,                \* current_client
         attempt : 1 .. MaxAttempts]

Fresh(cached) == [client |-> cached, using |-> cached, attempt |-> 1]

Open(call, cached) == call.using = cached

\* The next call starts from the client the handler was given.
Returned(call) == [call EXCEPT !.using = call.client, !.attempt = 1]

\* Mutant: the loop counts an attempt and the pause after it.
RetriedCountingTwice(call, fresh) == [call EXCEPT !.using = fresh, !.attempt = @ + 2]

\* A transport error that is not the last: the singleton is replaced.
Retried(call, fresh) == [call EXCEPT !.using = fresh, !.attempt = @ + 1]

LastAttempt(call) == call.attempt = MaxAttempts

=============================================================================
