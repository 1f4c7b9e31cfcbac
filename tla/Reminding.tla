----------------------------- MODULE Reminding ------------------------------
(***************************************************************************)
(* What the delivery rows promise, without the calls that work on them: a  *)
(* key has at most one row at a time; a row, once inserted, is told of in  *)
(* one post or in none; and a row is deleted only after something failed.  *)
(***************************************************************************)
EXTENDS Integers

CONSTANT Keys     \* what a reminder is about: event, author, offset

VARIABLES
    row,      \* the number of the row that stands under a key, 0 if none
    last,     \* the number of rows ever inserted under a key
    told,     \* the messages Expo has taken, each with key and row number
    failed    \* something went wrong at some time

promise == <<row, last, told, failed>>

Init ==
    /\ row = [k \in Keys |-> 0]
    /\ last = [k \in Keys |-> 0]
    /\ told = {}
    /\ failed = FALSE

MayFail == failed' \in BOOLEAN /\ (failed => failed')

Claim(k) ==
    /\ row[k] = 0
    /\ row' = [row EXCEPT ![k] = last[k] + 1]
    /\ last' = [last EXCEPT ![k] = last[k] + 1]
    /\ MayFail /\ UNCHANGED told

\* Messages of rows that were inserted, and that no earlier post was about.
Tell ==
    /\ told \subseteq told'
    /\ \A m \in told' \ told :
        /\ m.key \in Keys /\ m.claim \in 1 .. last[m.key]
        /\ \A n \in told : <<n.key, n.claim>> # <<m.key, m.claim>>
    /\ MayFail /\ UNCHANGED <<row, last>>

Release(k) ==
    /\ failed'
    /\ row' = [row EXCEPT ![k] = 0]
    /\ UNCHANGED <<last, told>>

Next == Tell \/ \E k \in Keys : Claim(k) \/ Release(k)

Spec == Init /\ [][Next]_promise

\* The consequence a user sees: as long as nothing has failed, all messages
\* about a key belong to one row, so that nobody is reminded twice of it.
ToldOnce ==
    ~failed => \A m, n \in told : m.key = n.key => m.claim = n.claim
=============================================================================
