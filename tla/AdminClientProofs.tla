-------------------------- MODULE AdminClientProofs --------------------------
(***************************************************************************)
(* Proofs about AdminClient, for every number of threads, queries,         *)
(* attempts and faults: types, what the cache holds, when sessions are     *)
(* closed, and that the threads implement RemoteCall.                      *)
(***************************************************************************)
EXTENDS AdminClient, FiniteSetTheorems, TLAPS

-----------------------------------------------------------------------------
(* The locals of one thread.                                                *)

\* A query is under way: the handler waits for execute_supabase.
Working(me) ==
    \/ me.pc \in {"call", "flight", "served", "size", "close", "clear"}
    \/ me.pc \in {"get", "store"} /\ me.goal # "depend"

\* The request has not made a query yet, and waits for its client.
Waiting(me) == me.pc = "idle" \/ (me.pc \in {"get", "store"} /\ me.goal = "depend")

\* What a thread has counted, and what it has answered, where it is.
Local(me, n) ==
    /\ Working(me) => me.answer = "none" /\ me.calls > 0
    /\ Working(me) /\ me.pc # "served" => n < me.attempt
    /\ me.pc = "served" => 1 <= n /\ n <= me.attempt
    /\ Waiting(me) => me.answer = "none" /\ me.calls = 0
    /\ me.pc = "idle" => me.goal = "depend"
    /\ me.pc = "between" => me.answer = "ok" \/ (me.answer = "none" /\ me.calls = 0)
    /\ me.pc = "store" => me.built >= 1
    /\ me.pc \in {"close", "clear"} => me.victim >= 1

LocalOK == \A q \in Requests : Local(th[q], applied[q])

\* Every client a thread knows has been built.
Built == \A q \in Requests : th[q].built <= made /\ th[q].victim <= made

Inv0 == TypeOK /\ LocalOK /\ Built

LEMMA NewThreadType == NewThread \in Thread
BY AdminConstants DEF NewThread, Thread, PCs, NoClient

LEMMA EndsFacts ==
    ASSUME NEW me \in Thread, NEW answer \in {"ok", "upstream", "raw"}, NEW n \in Nat
    PROVE  /\ Ends(me, answer) \in Thread
           /\ Local(Ends(me, answer), n)
           /\ Ends(me, answer).built = 0 /\ Ends(me, answer).victim = 0
           /\ Ends(me, answer).pc = "ended" /\ Ends(me, answer).answer = answer
           /\ Ends(me, answer).goal = "depend"
BY AdminConstants DEF Ends, NewThread, Thread, PCs, NoClient, Local, Working, Waiting

LEMMA FailedFacts ==
    ASSUME NEW me \in Thread, NEW n \in Nat, Local(me, n), me.pc \in {"flight", "served"}
    PROVE  /\ Failed(me) \in Thread
           /\ Local(Failed(me), n)
           /\ Failed(me).built <= me.built /\ Failed(me).victim <= me.victim
           /\ \/ Failed(me).pc = "ended" /\ Failed(me).answer = "upstream"
              \/ /\ Failed(me).pc = "size" /\ Failed(me).answer = me.answer
                 /\ Failed(me).calls = me.calls
<1>1. CASE LastAttempt(me)
  BY <1>1, EndsFacts DEF Failed, Thread
<1>2. CASE ~LastAttempt(me)
  <2> DEFINE n1 == [me EXCEPT !.pc = "size", !.attempt = @ + 1, !.cur = NoClient]
  <2>1. Failed(me) = n1
    BY <1>2 DEF Failed
  <2>2. me.attempt \in 1 .. MaxAttempts /\ me.attempt # MaxAttempts
    BY <1>2 DEF Thread, LastAttempt
  <2>3. n1 \in Thread
    <3>1. me.attempt + 1 \in 1 .. MaxAttempts
      BY <2>2, AdminConstants
    <3> QED BY <3>1 DEF Thread, PCs, NoClient
  <2>4. /\ n1.pc = "size" /\ n1.answer = me.answer /\ n1.calls = me.calls
        /\ n1.attempt = me.attempt + 1 /\ n1.built = me.built /\ n1.victim = me.victim
    BY DEF Thread
  <2>5. n <= me.attempt /\ me.answer = "none" /\ me.calls > 0
    BY <2>2, AdminConstants DEF Local, Working, Thread
  <2>6. Local(n1, n)
    <3> HIDE DEF n1
    <3> QED BY <2>2, <2>4, <2>5, AdminConstants DEF Local, Working, Waiting
  <2>7. me.built <= me.built /\ me.victim <= me.victim
    BY DEF Thread
  <2> QED BY <2>1, <2>3, <2>4, <2>6, <2>7
<1> QED BY <1>1, <1>2

LEMMA ReceivedFacts ==
    ASSUME NEW me \in Thread, NEW n \in Nat, Local(me, n), NEW c \in Nat \ {0},
           me.pc \in {"get", "store"}
    PROVE  /\ Received(me, c) \in Thread
           /\ Local(Received(me, c), n)
           /\ Received(me, c).built = 0
           /\ Received(me, c).goal = "depend"
           /\ Received(me, c).answer = me.answer /\ Received(me, c).calls = me.calls
           /\ \/ Received(me, c).victim = me.victim /\ Received(me, c).pc \in {"between", "call"}
              \/ me.goal = "reset" /\ Received(me, c).victim = c /\ Received(me, c).pc = "close"
<1> DEFINE got == Received(me, c)
<1>1. CASE me.goal = "depend"
  <2>1. got = [me EXCEPT !.built = NoClient, !.goal = "depend", !.pc = "between", !.client = c]
    BY <1>1 DEF Received
  <2>2. got \in Thread
    <3>1. "between" \in PCs /\ NoClient \in Nat
      BY DEF PCs, NoClient
    <3> QED BY <2>1, <3>1 DEF Thread
  <2>3. /\ got.built = 0 /\ got.goal = "depend" /\ got.answer = me.answer
        /\ got.calls = me.calls /\ got.victim = me.victim /\ got.pc = "between"
    BY <2>1 DEF Thread, NoClient
  <2>4. me.answer = "none" /\ me.calls = 0
    BY <1>1 DEF Local, Waiting
  <2>5. Local(got, n)
    <3> HIDE DEF got
    <3> QED BY <2>3, <2>4 DEF Local, Working, Waiting
  <2> QED BY <2>2, <2>3, <2>5
<1>2. CASE me.goal = "reset"
  <2>1. got = [me EXCEPT !.built = NoClient, !.goal = "depend", !.pc = "close", !.victim = c]
    BY <1>2 DEF Received
  <2>2. got \in Thread
    <3>1. "close" \in PCs /\ NoClient \in Nat
      BY DEF PCs, NoClient
    <3> QED BY <2>1, <3>1 DEF Thread
  <2>3. /\ got.built = 0 /\ got.goal = "depend" /\ got.answer = me.answer
        /\ got.calls = me.calls /\ got.victim = c /\ got.pc = "close"
        /\ got.attempt = me.attempt
    BY <2>1 DEF Thread, NoClient
  <2>4. me.answer = "none" /\ me.calls > 0 /\ n < me.attempt
    BY <1>2 DEF Local, Working
  <2>5. Local(got, n)
    <3> HIDE DEF got
    <3> QED BY <2>3, <2>4 DEF Local, Working, Waiting
  <2> QED BY <1>2, <2>2, <2>3, <2>5
<1>3. CASE me.goal = "retry"
  <2>1. got = [me EXCEPT !.built = NoClient, !.goal = "depend", !.pc = "call", !.cur = c]
    BY <1>3 DEF Received
  <2>2. got \in Thread
    <3>1. "call" \in PCs /\ NoClient \in Nat
      BY DEF PCs, NoClient
    <3> QED BY <2>1, <3>1 DEF Thread
  <2>3. /\ got.built = 0 /\ got.goal = "depend" /\ got.answer = me.answer
        /\ got.calls = me.calls /\ got.victim = me.victim /\ got.pc = "call"
        /\ got.attempt = me.attempt
    BY <2>1 DEF Thread, NoClient
  <2>4. me.answer = "none" /\ me.calls > 0 /\ n < me.attempt
    BY <1>3 DEF Local, Working
  <2>5. Local(got, n)
    <3> HIDE DEF got
    <3> QED BY <2>3, <2>4 DEF Local, Working, Waiting
  <2> QED BY <2>2, <2>3, <2>5
<1> QED BY <1>1, <1>2, <1>3 DEF Thread

-----------------------------------------------------------------------------
(* One step of a thread.                                                    *)

Step(q) ==
    \/ Arrive(q) \/ Work(q)
    \/ ConnectionBreaks(q) \/ ClosedUnderway(q) \/ ApiError(q) \/ UnlistedError(q)

\* What RemoteCall sees of a step: nothing, or one of its actions.
Seen(q, me, n) ==
    \/ Phase(n) = Phase(me) /\ UNCHANGED applied
    \/ /\ Phase(me) \in {"idle", "ok"} /\ Phase(n) = "open"
       /\ applied' = [applied EXCEPT ![q] = 0]
    \/ /\ Phase(me) = "open" /\ Phase(n) = "open" /\ applied[q] < MaxAttempts
       /\ applied' = [applied EXCEPT ![q] = @ + 1]
    \/ /\ Phase(me) = "open" /\ Phase(n) = "ok" /\ applied[q] >= 1 /\ UNCHANGED applied
    \/ Phase(me) = "open" /\ Phase(n) = "failed" /\ UNCHANGED applied

\* Thread q goes from me to n.
Becomes(q, me, n) ==
    /\ n \in Thread /\ th' = [th EXCEPT ![q] = n]
    /\ Local(n, applied'[q])
    /\ n.built <= made' /\ n.victim <= made'
    /\ Seen(q, me, n)

\* The shared variables keep their types.
SharedOK ==
    /\ made' \in Nat /\ made <= made' /\ slot' \in 0 .. made'
    /\ closed' \subseteq 1 .. made'
    /\ broken' \in 0 .. faults' /\ faults' \in 0 .. MaxFaults
    /\ retries' \in Nat

LEMMA PhaseFacts ==
    ASSUME NEW me \in Thread
    PROVE  /\ me.answer = "raw" => Phase(me) = "failed"
           /\ me.answer = "upstream" => Phase(me) = "failed"
           /\ me.answer = "ok" => Phase(me) = "ok"
           /\ me.answer = "none" /\ me.calls = 0 => Phase(me) = "idle"
           /\ me.answer = "none" /\ me.calls > 0 => Phase(me) = "open"
<1>1. me.answer = "raw" => Phase(me) = "failed"
  BY DEF Phase
<1>2. me.answer = "upstream" => Phase(me) = "failed"
  BY DEF Phase
<1>3. me.answer = "ok" => Phase(me) = "ok"
  BY DEF Phase
<1>4. me.answer = "none" /\ me.calls = 0 => Phase(me) = "idle"
  BY DEF Phase
<1>5. me.answer = "none" /\ me.calls > 0 => Phase(me) = "open"
  BY DEF Phase, Thread
<1> QED BY <1>1, <1>2, <1>3, <1>4, <1>5

LEMMA PhaseOfWorking ==
    ASSUME NEW me \in Thread, NEW n, Local(me, n), Working(me)
    PROVE  Phase(me) = "open"
BY DEF Local, Phase, Thread

LEMMA StepOfThread ==
    ASSUME Inv0, NEW q \in Requests,
           Step(q)
    PROVE  SharedOK /\ \E n \in Thread : Becomes(q, th[q], n)
<1> DEFINE me == th[q]
<1>0. /\ me \in Thread /\ Local(me, applied[q]) /\ applied[q] \in 0 .. MaxAttempts
      /\ me.built <= made /\ me.victim <= made
      /\ made \in Nat /\ slot \in 0 .. made /\ closed \subseteq 1 .. made
      /\ broken \in 0 .. faults /\ faults \in 0 .. MaxFaults /\ retries \in Nat
      /\ applied \in [Requests -> 0 .. MaxAttempts]
  BY DEF Inv0, TypeOK, LocalOK, Built
<1>f. /\ me.pc \in PCs /\ me.goal \in {"depend", "reset", "retry"}
      /\ me.built \in Nat /\ me.client \in Nat /\ me.cur \in Nat /\ me.victim \in Nat
      /\ me.attempt \in 1 .. MaxAttempts /\ me.calls \in 0 .. MaxCalls
      /\ me.answer \in {"none", "ok", "upstream", "raw"}
  BY <1>0 DEF Thread
<1> HIDE DEF me
<1>k. UNCHANGED <<slot, made, closed, broken, retries, faults>> => SharedOK
  BY <1>0 DEF SharedOK
<1>1. CASE Arrive(q)
  <2> DEFINE n == Get(me, "depend")
  <2>1. n \in Thread
    <3>1. "get" \in PCs
      BY DEF PCs
    <3> QED BY <1>0, <3>1 DEF Get, Thread
  <2>2. /\ n.pc = "get" /\ n.goal = "depend" /\ n.answer = me.answer /\ n.calls = me.calls
        /\ n.built = me.built /\ n.victim = me.victim
    BY <1>0 DEF Get, Thread
  <2>3. me.pc = "idle" /\ th' = [th EXCEPT ![q] = n] /\ UNCHANGED <<applied, made>>
    BY <1>1 DEF Arrive, Thinks, me
  <2>4. me.answer = "none" /\ me.calls = 0
    BY <1>0, <2>3 DEF Local, Waiting
  <2> HIDE DEF n
  <2>5. Local(n, applied[q])
    BY <2>2, <2>4 DEF Local, Working, Waiting
  <2>6. Phase(n) = Phase(me)
    BY <2>2 DEF Phase
  <2>7. Becomes(q, me, n)
    BY <1>0, <2>1, <2>2, <2>3, <2>5, <2>6 DEF Becomes, Seen
  <2> QED BY <1>1, <1>k, <2>1, <2>7 DEF Arrive, Keeps, me
<1>2. CASE Hit(q)
  <2> DEFINE n == Received(me, slot)
  <2>1. me.pc = "get" /\ slot # 0 /\ th' = [th EXCEPT ![q] = n] /\ UNCHANGED <<applied, made>>
    BY <1>2 DEF Hit, Thinks, me, NoClient
  <2>2. /\ n \in Thread /\ Local(n, applied[q]) /\ n.built = 0 /\ n.answer = me.answer
        /\ n.calls = me.calls /\ (n.victim = me.victim \/ n.victim = slot)
    BY <1>0, <2>1, ReceivedFacts
  <2> HIDE DEF n
  <2>3. Phase(n) = Phase(me)
    BY <2>2 DEF Phase
  <2>4. Becomes(q, me, n)
    BY <1>0, <2>1, <2>2, <2>3 DEF Becomes, Seen
  <2> QED BY <1>2, <1>k, <2>2, <2>4 DEF Hit, Keeps, me
<1>3. CASE Build(q)
  <2> DEFINE n == [me EXCEPT !.pc = "store", !.built = made + 1]
  <2>1. me.pc = "get" /\ th' = [th EXCEPT ![q] = n] /\ UNCHANGED applied /\ made' = made + 1
    BY <1>3 DEF Build, Thinks, me
  <2>2. n \in Thread
    <3>1. "store" \in PCs /\ made + 1 \in Nat
      BY <1>0 DEF PCs
    <3> QED BY <1>0, <3>1 DEF Thread
  <2>3. /\ n.pc = "store" /\ n.goal = me.goal /\ n.answer = me.answer /\ n.calls = me.calls
        /\ n.built = made + 1 /\ n.victim = me.victim /\ n.attempt = me.attempt
    BY <1>0 DEF Thread
  <2> HIDE DEF n
  <2>4. Local(n, applied[q])
    BY <1>0, <2>1, <2>3 DEF Local, Working, Waiting
  <2>5. Phase(n) = Phase(me)
    BY <2>3 DEF Phase
  <2>6. Becomes(q, me, n)
    BY <1>0, <1>f, <2>1, <2>2, <2>3, <2>4, <2>5 DEF Becomes, Seen
  <2>7. SharedOK
    BY <1>0, <1>3 DEF SharedOK, Build, Keeps
  <2> QED BY <2>2, <2>6, <2>7 DEF me
<1>4. CASE Store(q)
  <2> DEFINE n == Received(me, me.built)
  <2>1. me.pc = "store" /\ th' = [th EXCEPT ![q] = n] /\ UNCHANGED <<applied, made>>
    BY <1>4 DEF Store, Thinks, me
  <2>2. me.built >= 1
    BY <1>0, <2>1 DEF Local
  <2>3. /\ n \in Thread /\ Local(n, applied[q]) /\ n.built = 0 /\ n.answer = me.answer
        /\ n.calls = me.calls /\ (n.victim = me.victim \/ n.victim = me.built)
    BY <1>0, <1>f, <2>1, <2>2, ReceivedFacts
  <2> HIDE DEF n
  <2>4. Phase(n) = Phase(me)
    BY <2>3 DEF Phase
  <2>5. Becomes(q, me, n)
    BY <1>0, <2>1, <2>3, <2>4 DEF Becomes, Seen
  <2>6. slot' \in {slot, me.built} /\ UNCHANGED <<closed, broken, retries, faults>>
    BY <1>4 DEF Store, StoreInCache, Keeps, me
  <2>7. SharedOK
    BY <1>0, <1>f, <2>1, <2>6 DEF SharedOK
  <2> QED BY <2>3, <2>5, <2>7 DEF me
<1>5. CASE Execute(q)
  <2> DEFINE n == [me EXCEPT !.pc = "call", !.cur = me.client, !.attempt = 1,
                            !.calls = @ + 1, !.answer = "none"]
  <2>1. /\ me.pc = "between" /\ me.calls < MaxCalls /\ th' = [th EXCEPT ![q] = n]
        /\ applied' = [applied EXCEPT ![q] = 0] /\ UNCHANGED made
    BY <1>5 DEF Execute, Thinks, me
  <2>2. n \in Thread
    <3>1. "call" \in PCs /\ 1 \in 1 .. MaxAttempts /\ me.calls + 1 \in 0 .. MaxCalls
      BY <1>f, <2>1, AdminConstants DEF PCs
    <3> QED BY <1>0, <1>f, <3>1 DEF Thread
  <2>3. /\ n.pc = "call" /\ n.goal = me.goal /\ n.answer = "none" /\ n.calls = me.calls + 1
        /\ n.built = me.built /\ n.victim = me.victim /\ n.attempt = 1
    BY <1>0 DEF Thread
  <2>4. applied'[q] = 0
    BY <1>0, <2>1
  <2> HIDE DEF n
  <2>5. Local(n, applied'[q])
    BY <1>f, <2>3, <2>4 DEF Local, Working, Waiting
  <2>6. Phase(me) \in {"idle", "ok"} /\ Phase(n) = "open"
    BY <1>0, <1>f, <2>1, <2>3 DEF Phase, Local
  <2>7. Becomes(q, me, n)
    BY <1>0, <2>1, <2>2, <2>3, <2>5, <2>6 DEF Becomes, Seen
  <2> QED BY <1>5, <1>k, <2>2, <2>7 DEF Execute, Keeps, me
<1>6. CASE Respond(q)
  <2> DEFINE n == Ends(me, "ok")
  <2>1. me.pc = "between" /\ me.calls > 0 /\ th' = [th EXCEPT ![q] = n]
        /\ UNCHANGED <<applied, made>>
    BY <1>6 DEF Respond, Thinks, me
  <2>2. /\ n \in Thread /\ Local(n, applied[q]) /\ n.built = 0 /\ n.victim = 0
        /\ n.answer = "ok"
    BY <1>0, EndsFacts
  <2> HIDE DEF n
  <2>3. Phase(me) = "ok" /\ Phase(n) = "ok"
    <3>1. me.answer = "ok"
      BY <1>0, <1>f, <2>1 DEF Local
    <3> QED BY <1>0, <2>2, <3>1, PhaseFacts
  <2>4. Becomes(q, me, n)
    BY <1>0, <2>1, <2>2, <2>3 DEF Becomes, Seen
  <2> QED BY <1>6, <1>k, <2>2, <2>4 DEF Respond, Keeps, me
<1>7. CASE Issue(q)
  <2> DEFINE n == [me EXCEPT !.pc = "flight"]
  <2>1. me.pc = "call" /\ th' = [th EXCEPT ![q] = n] /\ UNCHANGED <<applied, made>>
    BY <1>7 DEF Issue, Thinks, me
  <2>2. n \in Thread
    <3>1. "flight" \in PCs
      BY DEF PCs
    <3> QED BY <1>0, <3>1 DEF Thread
  <2>3. /\ n.pc = "flight" /\ n.goal = me.goal /\ n.answer = me.answer /\ n.calls = me.calls
        /\ n.built = me.built /\ n.victim = me.victim /\ n.attempt = me.attempt
    BY <1>0 DEF Thread
  <2> HIDE DEF n
  <2>4. Local(n, applied[q])
    BY <1>0, <2>1, <2>3 DEF Local, Working, Waiting
  <2>5. Phase(n) = Phase(me)
    BY <2>3 DEF Phase
  <2>6. Becomes(q, me, n)
    BY <1>0, <2>1, <2>2, <2>3, <2>4, <2>5 DEF Becomes, Seen
  <2> QED BY <1>7, <1>k, <2>2, <2>6 DEF Issue, Keeps, me
<1>8. CASE ClosedClient(q)
  <2> DEFINE n == Ends(me, "raw")
  <2>1. me.pc = "call" /\ th' = [th EXCEPT ![q] = n] /\ UNCHANGED <<applied, made>>
    BY <1>8 DEF ClosedClient, Thinks, me
  <2>2. /\ n \in Thread /\ Local(n, applied[q]) /\ n.built = 0 /\ n.victim = 0
        /\ n.answer = "raw"
    BY <1>0, EndsFacts
  <2> HIDE DEF n
  <2>p. Phase(me) = "open"
    <3>1. Working(me)
      BY <2>1 DEF Working
    <3> QED BY <1>0, <3>1, PhaseOfWorking
  <2>3. Phase(me) = "open" /\ Phase(n) = "failed"
    BY <2>2, <2>p, PhaseFacts
  <2>4. Becomes(q, me, n)
    BY <1>0, <2>1, <2>2, <2>3 DEF Becomes, Seen
  <2> QED BY <1>8, <1>k, <2>2, <2>4 DEF ClosedClient, Keeps, me
<1>9. CASE Serve(q)
  <2> DEFINE n == [me EXCEPT !.pc = "served"]
  <2>1. /\ me.pc = "flight" /\ th' = [th EXCEPT ![q] = n]
        /\ applied' = [applied EXCEPT ![q] = @ + 1] /\ UNCHANGED made
    BY <1>9 DEF Serve, Thinks, me
  <2>2. n \in Thread
    <3>1. "served" \in PCs
      BY DEF PCs
    <3> QED BY <1>0, <3>1 DEF Thread
  <2>3. /\ n.pc = "served" /\ n.goal = me.goal /\ n.answer = me.answer /\ n.calls = me.calls
        /\ n.built = me.built /\ n.victim = me.victim /\ n.attempt = me.attempt
    BY <1>0 DEF Thread
  <2>4. applied'[q] = applied[q] + 1
    BY <1>0, <2>1
  <2>5. me.answer = "none" /\ me.calls > 0 /\ applied[q] < me.attempt
    BY <1>0, <2>1 DEF Local, Working
  <2> HIDE DEF n
  <2>6. Local(n, applied'[q])
    BY <1>0, <1>f, <2>3, <2>4, <2>5 DEF Local, Working, Waiting
  <2>7. Phase(me) = "open" /\ Phase(n) = "open" /\ applied[q] < MaxAttempts
    BY <1>0, <1>f, <2>3, <2>5, AdminConstants DEF Phase
  <2>8. Becomes(q, me, n)
    BY <1>0, <2>1, <2>2, <2>3, <2>6, <2>7 DEF Becomes, Seen
  <2> QED BY <1>9, <1>k, <2>2, <2>8 DEF Serve, Keeps, me
<1>10. CASE Answer(q)
  <2> DEFINE n == [me EXCEPT !.pc = "between", !.answer = "ok", !.cur = NoClient]
  <2>1. me.pc = "served" /\ th' = [th EXCEPT ![q] = n] /\ UNCHANGED <<applied, made>>
    BY <1>10 DEF Answer, Thinks, me
  <2>2. n \in Thread
    <3>1. "between" \in PCs /\ NoClient \in Nat
      BY DEF PCs, NoClient
    <3> QED BY <1>0, <3>1 DEF Thread
  <2>3. /\ n.pc = "between" /\ n.goal = me.goal /\ n.answer = "ok" /\ n.calls = me.calls
        /\ n.built = me.built /\ n.victim = me.victim /\ n.attempt = me.attempt
    BY <1>0 DEF Thread
  <2> HIDE DEF n
  <2>4. Local(n, applied[q])
    BY <2>3 DEF Local, Working, Waiting
  <2>5. Phase(me) = "open" /\ Phase(n) = "ok" /\ applied[q] >= 1
    BY <1>0, <2>1, <2>3, PhaseOfWorking DEF Phase, Working, Local
  <2>6. Becomes(q, me, n)
    BY <1>0, <2>1, <2>2, <2>3, <2>4, <2>5 DEF Becomes, Seen
  <2> QED BY <1>10, <1>k, <2>2, <2>6 DEF Answer, Keeps, me
<1>11. CASE CheckSize(q)
  <2> DEFINE n == Get(me, IF slot = NoClient THEN "retry" ELSE "reset")
  <2>1. me.pc = "size" /\ th' = [th EXCEPT ![q] = n] /\ UNCHANGED <<applied, made>>
    BY <1>11 DEF CheckSize, Thinks, me
  <2>2. n \in Thread
    <3>1. "get" \in PCs
      BY DEF PCs
    <3> QED BY <1>0, <3>1 DEF Get, Thread
  <2>3. /\ n.pc = "get" /\ n.goal \in {"retry", "reset"} /\ n.answer = me.answer
        /\ n.calls = me.calls /\ n.built = me.built /\ n.victim = me.victim
        /\ n.attempt = me.attempt
    BY <1>0 DEF Get, Thread
  <2> HIDE DEF n
  <2>4. Local(n, applied[q])
    BY <1>0, <2>1, <2>3 DEF Local, Working, Waiting
  <2>5. Phase(n) = Phase(me)
    BY <2>3 DEF Phase
  <2>6. Becomes(q, me, n)
    BY <1>0, <2>1, <2>2, <2>3, <2>4, <2>5 DEF Becomes, Seen
  <2> QED BY <1>11, <1>k, <2>2, <2>6 DEF CheckSize, Keeps, me
<1>12. CASE Close(q)
  <2> DEFINE n == [me EXCEPT !.pc = "clear"]
  <2>1. me.pc = "close" /\ th' = [th EXCEPT ![q] = n] /\ UNCHANGED <<applied, made>>
    BY <1>12 DEF Close, Thinks, me
  <2>2. n \in Thread
    <3>1. "clear" \in PCs
      BY DEF PCs
    <3> QED BY <1>0, <3>1 DEF Thread
  <2>3. /\ n.pc = "clear" /\ n.goal = me.goal /\ n.answer = me.answer /\ n.calls = me.calls
        /\ n.built = me.built /\ n.victim = me.victim /\ n.attempt = me.attempt
    BY <1>0 DEF Thread
  <2> HIDE DEF n
  <2>4. Local(n, applied[q])
    BY <1>0, <2>1, <2>3 DEF Local, Working, Waiting
  <2>5. Phase(n) = Phase(me)
    BY <2>3 DEF Phase
  <2>6. Becomes(q, me, n)
    BY <1>0, <2>1, <2>2, <2>3, <2>4, <2>5 DEF Becomes, Seen
  <2>7. me.victim \in 1 .. made
    BY <1>0, <1>f, <2>1 DEF Local
  <2>8. closed' = closed \cup {me.victim} /\ UNCHANGED <<slot, made, broken, retries, faults>>
    BY <1>12 DEF Close, Keeps, me
  <2>9. SharedOK
    <3>1. closed \cup {me.victim} \subseteq 1 .. made
      BY <1>0, <2>7
    <3>2. made <= made
      BY <1>0
    <3> QED BY <1>0, <2>8, <3>1, <3>2 DEF SharedOK
  <2> QED BY <2>2, <2>6, <2>9 DEF me
<1>13. CASE Clear(q)
  <2> DEFINE n == Get([me EXCEPT !.victim = NoClient], "retry")
  <2>1. me.pc = "clear" /\ th' = [th EXCEPT ![q] = n] /\ UNCHANGED <<applied, made>>
    BY <1>13 DEF Clear, Thinks, me
  <2>2. n \in Thread
    <3>1. "get" \in PCs /\ NoClient \in Nat
      BY DEF PCs, NoClient
    <3>2. [me EXCEPT !.victim = NoClient] \in Thread
      BY <1>0, <3>1 DEF Thread
    <3> QED BY <3>1, <3>2 DEF Get, Thread
  <2>3. /\ n.pc = "get" /\ n.goal = "retry" /\ n.answer = me.answer
        /\ n.calls = me.calls /\ n.built = me.built /\ n.victim = 0
        /\ n.attempt = me.attempt
    BY <1>0 DEF Get, Thread, NoClient
  <2> HIDE DEF n
  <2>4. Local(n, applied[q])
    BY <1>0, <2>1, <2>3 DEF Local, Working, Waiting
  <2>5. Phase(n) = Phase(me)
    BY <2>3 DEF Phase
  <2>6. Becomes(q, me, n)
    BY <1>0, <2>1, <2>2, <2>3, <2>4, <2>5 DEF Becomes, Seen
  <2>7. SharedOK
    BY <1>0, <1>13 DEF SharedOK, Clear, Keeps, NoClient
  <2> QED BY <2>2, <2>6, <2>7 DEF me
<1>14. CASE ConnectionBreaks(q) \/ ClosedUnderway(q)
  <2> DEFINE n == Failed(me)
  <2>1. /\ me.pc \in {"flight", "served"} /\ th' = [th EXCEPT ![q] = n]
        /\ UNCHANGED <<applied, made>>
    BY <1>14 DEF ConnectionBreaks, ClosedUnderway, Fails, Thinks, me
  <2>2. /\ n \in Thread /\ Local(n, applied[q])
        /\ n.built <= me.built /\ n.victim <= me.victim
        /\ \/ n.pc = "ended" /\ n.answer = "upstream"
           \/ n.pc = "size" /\ n.answer = me.answer /\ n.calls = me.calls
    BY <1>0, <2>1, FailedFacts
  <2> HIDE DEF n
  <2>p. Phase(me) = "open"
    <3>1. Working(me)
      BY <2>1 DEF Working
    <3> QED BY <1>0, <3>1, PhaseOfWorking
  <2>3. Phase(me) = "open" /\ Phase(n) \in {"open", "failed"}
    <3>1. CASE n.pc = "ended" /\ n.answer = "upstream"
      BY <2>2, <2>p, <3>1, PhaseFacts
    <3>2. CASE n.answer = me.answer /\ n.calls = me.calls
      BY <2>p, <3>2 DEF Phase
    <3> QED BY <2>2, <3>1, <3>2
  <2>4. n.built <= made /\ n.victim <= made
    BY <1>0, <1>f, <2>2 DEF Thread
  <2>5. Becomes(q, me, n)
    BY <1>0, <2>1, <2>2, <2>3, <2>4 DEF Becomes, Seen
  <2>6. SharedOK
    <3>1. UNCHANGED <<slot, made, closed>>
      BY <1>14 DEF ConnectionBreaks, ClosedUnderway
    <3>2. \/ UNCHANGED <<broken, faults>>
          \/ faults < MaxFaults /\ faults' = faults + 1 /\ broken' = broken + 1
      BY <1>14 DEF ConnectionBreaks, ClosedUnderway, Keeps
    <3>3. broken' \in 0 .. faults' /\ faults' \in 0 .. MaxFaults
      BY <1>0, <3>2, AdminConstants
    <3>4. retries' \in {retries, retries + 1}
      BY <1>14 DEF ConnectionBreaks, ClosedUnderway, Fails
    <3> QED BY <1>0, <3>1, <3>3, <3>4 DEF SharedOK
  <2> QED BY <2>2, <2>5, <2>6 DEF me
<1>15. CASE ApiError(q) \/ UnlistedError(q)
  <2>0. PICK a \in {"upstream", "raw"} : th' = [th EXCEPT ![q] = Ends(me, a)]
    BY <1>15 DEF ApiError, UnlistedError, Thinks, me
  <2> DEFINE n == Ends(me, a)
  <2>1. /\ me.pc \in {"flight", "served"} /\ th' = [th EXCEPT ![q] = n]
        /\ UNCHANGED <<applied, made>>
    BY <1>15, <2>0 DEF ApiError, UnlistedError, me
  <2>2. /\ n \in Thread /\ Local(n, applied[q]) /\ n.built = 0 /\ n.victim = 0
        /\ n.answer \in {"upstream", "raw"}
    BY <1>0, EndsFacts
  <2> HIDE DEF n
  <2>p. Phase(me) = "open"
    <3>1. Working(me)
      BY <2>1 DEF Working
    <3> QED BY <1>0, <3>1, PhaseOfWorking
  <2>3. Phase(me) = "open" /\ Phase(n) = "failed"
    BY <2>2, <2>p, PhaseFacts
  <2>4. Becomes(q, me, n)
    BY <1>0, <2>1, <2>2, <2>3 DEF Becomes, Seen
  <2>5. SharedOK
    <3>1. /\ UNCHANGED <<slot, made, closed, broken, retries>>
          /\ faults < MaxFaults /\ faults' = faults + 1
      BY <1>15 DEF ApiError, UnlistedError
    <3>2. broken' \in 0 .. faults' /\ faults' \in 0 .. MaxFaults
      BY <1>0, <3>1, AdminConstants
    <3>3. made <= made
      BY <1>0
    <3> QED BY <1>0, <3>1, <3>2, <3>3 DEF SharedOK
  <2> QED BY <2>2, <2>4, <2>5 DEF me
<1> QED
  BY <1>1, <1>2, <1>3, <1>4, <1>5, <1>6, <1>7, <1>8, <1>9, <1>10, <1>11, <1>12, <1>13,
     <1>14, <1>15 DEF Step, Work

-----------------------------------------------------------------------------
(* The type invariant.                                                      *)

LEMMA Inv0Init == Init => Inv0
<1> SUFFICES ASSUME Init PROVE Inv0
  OBVIOUS
<1>1. TypeOK
  <2>1. 0 \in 0 .. MaxAttempts /\ 0 \in 0 .. MaxFaults
    BY AdminConstants
  <2> QED BY <2>1, NewThreadType DEF Init, TypeOK, NoClient
<1>2. Local(NewThread, 0)
  BY DEF Local, NewThread, Working, Waiting, NoClient
<1>3. LocalOK
  BY <1>2 DEF Init, LocalOK
<1>4. Built
  BY DEF Init, Built, NewThread, NoClient
<1> QED BY <1>1, <1>3, <1>4 DEF Inv0

LEMMA AppliedType ==
    ASSUME Inv0, NEW q \in Requests, NEW n \in Thread, Becomes(q, th[q], n)
    PROVE  applied' \in [Requests -> 0 .. MaxAttempts]
<1>1. applied \in [Requests -> 0 .. MaxAttempts]
  BY DEF Inv0, TypeOK
<1>2. CASE UNCHANGED applied
  BY <1>1, <1>2
<1>3. CASE applied' = [applied EXCEPT ![q] = 0]
  BY <1>1, <1>3, AdminConstants
<1>4. CASE applied[q] < MaxAttempts /\ applied' = [applied EXCEPT ![q] = @ + 1]
  <2>1. applied[q] + 1 \in 0 .. MaxAttempts
    BY <1>1, <1>4, AdminConstants
  <2> QED BY <1>1, <1>4, <2>1
<1> QED BY <1>2, <1>3, <1>4 DEF Becomes, Seen

LEMMA Inv0Next == Inv0 /\ [Next]_vars => Inv0'
<1> SUFFICES ASSUME Inv0, [Next]_vars PROVE Inv0'
  OBVIOUS
<1>1. ASSUME NEW q \in Requests,
             Step(q)
      PROVE  Inv0'
  <2>1. SharedOK
    BY <1>1, StepOfThread
  <2>2. PICK n \in Thread : Becomes(q, th[q], n)
    BY <1>1, StepOfThread
  <2>3. th \in [Requests -> Thread] /\ th' = [th EXCEPT ![q] = n]
    BY <2>2 DEF Inv0, TypeOK, Becomes
  <2>4. applied' \in [Requests -> 0 .. MaxAttempts]
    BY <2>2, AppliedType
  <2>5. TypeOK'
    BY <2>1, <2>3, <2>4 DEF TypeOK, SharedOK
  <2>6. ASSUME NEW p \in Requests PROVE Local(th'[p], applied'[p])
    <3>1. CASE p = q
      BY <2>2, <2>3, <3>1 DEF Becomes
    <3>2. CASE p # q
      <4>1. th'[p] = th[p]
        BY <2>3, <3>2
      <4>2. applied \in [Requests -> 0 .. MaxAttempts]
        BY DEF Inv0, TypeOK
      <4>3. applied'[p] = applied[p]
        BY <2>2, <3>2, <4>2 DEF Becomes, Seen
      <4> QED BY <4>1, <4>3 DEF Inv0, LocalOK
    <3> QED BY <3>1, <3>2
  <2>7. ASSUME NEW p \in Requests PROVE th'[p].built <= made' /\ th'[p].victim <= made'
    <3>1. CASE p = q
      BY <2>2, <2>3, <3>1 DEF Becomes
    <3>2. CASE p # q
      <4>1. th'[p] = th[p] /\ th[p].built \in Nat /\ th[p].victim \in Nat
        BY <2>3, <3>2 DEF Thread
      <4>2. th[p].built <= made /\ th[p].victim <= made /\ made \in Nat
        BY DEF Inv0, Built, TypeOK
      <4> QED BY <2>1, <4>1, <4>2 DEF SharedOK
    <3> QED BY <3>1, <3>2
  <2> QED BY <2>5, <2>6, <2>7 DEF Inv0, LocalOK, Built
<1>2. CASE UNCHANGED vars
  BY <1>2 DEF vars, Inv0, TypeOK, LocalOK, Built
<1> QED BY <1>1, <1>2 DEF Next, Step

\* The cache, the threads and what is counted keep their types, whatever
\* resets overlap; in particular no query is executed more than MaxAttempts
\* times (TypeOK bounds `applied`).
THEOREM ClientTypeCorrect == Spec => []TypeOK
<1>1. Inv0 => TypeOK
  BY DEF Inv0
<1> QED BY Inv0Init, Inv0Next, <1>1, PTL DEF Spec

-----------------------------------------------------------------------------
(* The threads implement RemoteCall.                                        *)

phases == [q \in Requests |-> Phase(th[q])]

LEMMA ContractStep ==
    ASSUME Inv0, NEW q \in Requests, NEW n \in Thread, Becomes(q, th[q], n)
    PROVE  [Contract!Next]_(Contract!rvars)
<1>1. th \in [Requests -> Thread] /\ th' = [th EXCEPT ![q] = n]
  BY DEF Inv0, TypeOK, Becomes
<1>2. phases' = [phases EXCEPT ![q] = Phase(n)]
  BY <1>1 DEF phases
<1>3. phases[q] = Phase(th[q]) /\ phases = [phases EXCEPT ![q] = Phase(th[q])]
  BY DEF phases
<1>4. CASE Phase(n) = Phase(th[q]) /\ UNCHANGED applied
  <2>1. phases' = phases
    BY <1>2, <1>3, <1>4
  <2> QED BY <1>4, <2>1 DEF Contract!rvars, phases
<1>5. CASE /\ Phase(th[q]) \in {"idle", "ok"} /\ Phase(n) = "open"
           /\ applied' = [applied EXCEPT ![q] = 0]
  <2>1. Contract!Begin(q)
    BY <1>2, <1>3, <1>5 DEF Contract!Begin, phases
  <2> QED BY <2>1 DEF Contract!Next
<1>6. CASE /\ Phase(th[q]) = "open" /\ Phase(n) = "open" /\ applied[q] < MaxAttempts
           /\ applied' = [applied EXCEPT ![q] = @ + 1]
  <2>1. phases' = phases
    BY <1>2, <1>3, <1>6
  <2>2. Contract!Apply(q)
    BY <1>3, <1>6, <2>1 DEF Contract!Apply, phases
  <2> QED BY <2>2 DEF Contract!Next
<1>7. CASE /\ Phase(th[q]) = "open" /\ Phase(n) = "ok" /\ applied[q] >= 1
           /\ UNCHANGED applied
  <2>1. Contract!Return(q)
    BY <1>2, <1>3, <1>7 DEF Contract!Return, phases
  <2> QED BY <2>1 DEF Contract!Next
<1>8. CASE Phase(th[q]) = "open" /\ Phase(n) = "failed" /\ UNCHANGED applied
  <2>1. Contract!Raise(q)
    BY <1>2, <1>3, <1>8 DEF Contract!Raise, phases
  <2> QED BY <2>1 DEF Contract!Next
<1> QED BY <1>4, <1>5, <1>6, <1>7, <1>8 DEF Becomes, Seen

\* However resets, retries and faults interleave, each query is executed at
\* most MaxAttempts times, a normal return means that it was executed, and
\* after an exception the caller's query is over.
THEOREM ThreadsKeepTheContract == Spec => CallsKeepTheContract
<1>1. Init => Contract!Init
  <2> SUFFICES ASSUME Init PROVE Contract!Init
    OBVIOUS
  <2>1. Phase(NewThread) = "idle"
    BY DEF Phase, NewThread
  <2> QED BY <2>1 DEF Init, Contract!Init
<1>2. Inv0 /\ [Next]_vars => [Contract!Next]_(Contract!rvars)
  <2> SUFFICES ASSUME Inv0, [Next]_vars PROVE [Contract!Next]_(Contract!rvars)
    OBVIOUS
  <2>1. ASSUME NEW q \in Requests,
               Step(q)
        PROVE  [Contract!Next]_(Contract!rvars)
    <3>1. PICK n \in Thread : Becomes(q, th[q], n)
      BY <2>1, StepOfThread
    <3> QED BY <3>1, ContractStep
  <2>2. CASE UNCHANGED vars
    BY <2>2 DEF vars, Contract!rvars
  <2> QED BY <2>1, <2>2 DEF Next, Step
<1> QED BY Inv0Init, Inv0Next, <1>1, <1>2, PTL DEF Spec, Contract!Spec, CallsKeepTheContract

-----------------------------------------------------------------------------
(* What the cache holds.                                                    *)

\* A client that is built and not stored yet is known to its thread alone.
Private ==
    \A q \in Requests : th[q].pc = "store" =>
        /\ th[q].built # slot /\ th[q].built \notin closed
        /\ \A p \in Requests :
             /\ th[p].victim # th[q].built
             /\ p # q /\ th[p].pc = "store" => th[p].built # th[q].built

Inv1 == Private /\ ClosedIsBeingCleared

\* The kinds of steps, as the cache and the sessions see them.
Builds(me, n) ==
    /\ made' = made + 1 /\ UNCHANGED <<slot, closed>>
    /\ me.pc = "get" /\ n.pc = "store" /\ n.built = made + 1 /\ n.victim = me.victim

Stores(me, n) ==
    /\ slot' = (IF slot = 0 THEN me.built ELSE slot) /\ UNCHANGED closed
    /\ me.pc = "store" /\ n.pc \notin {"store", "clear"} /\ n.victim \in {me.victim, me.built}

Hits(me, n) ==
    /\ UNCHANGED <<slot, closed>>
    /\ me.pc = "get" /\ n.pc \notin {"store", "clear"} /\ n.victim \in {me.victim, slot}
    /\ slot # 0

Closes(me, n) ==
    /\ closed' = closed \cup {me.victim} /\ UNCHANGED slot
    /\ me.pc = "close" /\ n.pc = "clear" /\ n.victim = me.victim

Clears(me, n) ==
    /\ slot' = 0 /\ UNCHANGED closed
    /\ me.pc = "clear" /\ n.pc \notin {"store", "clear"} /\ n.victim = 0

Leaves(me, n) ==
    /\ UNCHANGED <<slot, closed>>
    /\ me.pc \notin {"store", "clear"} /\ n.pc \notin {"store", "clear"}
    /\ n.victim \in {0, me.victim}

Kind(me, n) ==
    \/ Builds(me, n) \/ Stores(me, n) \/ Hits(me, n)
    \/ Closes(me, n) \/ Clears(me, n) \/ Leaves(me, n)

LEMMA KindOfThread ==
    ASSUME Inv0, NEW q \in Requests,
           Step(q)
    PROVE  Kind(th[q], th'[q])
<1> DEFINE me == th[q]
<1>0. /\ me \in Thread /\ Local(me, applied[q]) /\ applied[q] \in Nat
      /\ slot \in Nat /\ th \in [Requests -> Thread] /\ made \in Nat
  BY DEF Inv0, TypeOK, LocalOK
<1>f. me.built \in Nat /\ me.victim \in Nat
  BY <1>0 DEF Thread
<1>t. \A n : th' = [th EXCEPT ![q] = n] => th'[q] = n
  BY <1>0
<1> HIDE DEF me
<1>1. CASE Arrive(q)
  <2>1. th'[q] = Get(me, "depend") /\ me.pc = "idle"
    BY <1>1, <1>t DEF Arrive, Thinks, me
  <2>2. th'[q].pc = "get" /\ th'[q].victim = me.victim
    BY <1>0, <2>1 DEF Get, Thread
  <2> QED BY <1>1, <2>1, <2>2 DEF Arrive, Kind, Leaves, me
<1>2. CASE Hit(q)
  <2>1. th'[q] = Received(me, slot) /\ me.pc = "get" /\ slot # 0
    BY <1>2, <1>t DEF Hit, Thinks, me, NoClient
  <2>2. th'[q].pc \in {"between", "call", "close"} /\ th'[q].victim \in {me.victim, slot}
    BY <1>0, <2>1, ReceivedFacts
  <2> QED BY <1>2, <2>1, <2>2 DEF Hit, Kind, Hits, me
<1>3. CASE Build(q)
  <2>1. th'[q] = [me EXCEPT !.pc = "store", !.built = made + 1] /\ me.pc = "get"
    BY <1>3, <1>t DEF Build, Thinks, me
  <2>2. th'[q].pc = "store" /\ th'[q].victim = me.victim /\ th'[q].built = made + 1
    BY <1>0, <2>1 DEF Thread
  <2> QED BY <1>3, <2>1, <2>2 DEF Build, Kind, Builds, me
<1>4. CASE Store(q)
  <2>1. th'[q] = Received(me, me.built) /\ me.pc = "store"
    BY <1>4, <1>t DEF Store, Thinks, me
  <2>2. me.built >= 1
    BY <1>0, <2>1 DEF Local
  <2>3. th'[q].pc \in {"between", "call", "close"} /\ th'[q].victim \in {me.victim, me.built}
    BY <1>0, <1>f, <2>1, <2>2, ReceivedFacts
  <2> QED BY <1>4, <2>1, <2>3 DEF Store, StoreInCache, NoClient, Kind, Stores, me
<1>5. CASE Execute(q)
  <2>1. me.pc = "between" /\ th'[q] = [me EXCEPT !.pc = "call", !.cur = me.client,
                              !.attempt = 1, !.calls = @ + 1, !.answer = "none"]
    BY <1>5, <1>t DEF Execute, Thinks, me
  <2>2. th'[q].pc = "call" /\ th'[q].victim = me.victim
    BY <1>0, <2>1 DEF Thread
  <2> QED BY <1>5, <2>1, <2>2 DEF Execute, Kind, Leaves, me
<1>6. CASE Respond(q) \/ ClosedClient(q) \/ ApiError(q) \/ UnlistedError(q)
  <2>1. PICK a \in {"ok", "raw", "upstream"} : th'[q] = Ends(me, a)
    BY <1>6, <1>t DEF Respond, ClosedClient, ApiError, UnlistedError, Thinks, me
  <2>2. th'[q].pc = "ended" /\ th'[q].victim = 0
    BY <1>0, <2>1, EndsFacts
  <2> QED BY <1>6, <2>2 DEF Respond, ClosedClient, ApiError, UnlistedError, Kind, Leaves, me
<1>7. CASE Issue(q)
  <2>1. th'[q] = [me EXCEPT !.pc = "flight"] /\ me.pc = "call"
    BY <1>7, <1>t DEF Issue, Thinks, me
  <2>2. th'[q].pc = "flight" /\ th'[q].victim = me.victim
    BY <1>0, <2>1 DEF Thread
  <2> QED BY <1>7, <2>1, <2>2 DEF Issue, Kind, Leaves, me
<1>8. CASE Serve(q)
  <2>1. th'[q] = [me EXCEPT !.pc = "served"] /\ me.pc = "flight"
    BY <1>8, <1>t DEF Serve, Thinks, me
  <2>2. th'[q].pc = "served" /\ th'[q].victim = me.victim
    BY <1>0, <2>1 DEF Thread
  <2> QED BY <1>8, <2>1, <2>2 DEF Serve, Kind, Leaves, me
<1>9. CASE Answer(q)
  <2>1. /\ th'[q] = [me EXCEPT !.pc = "between", !.answer = "ok", !.cur = NoClient]
        /\ me.pc = "served"
    BY <1>9, <1>t DEF Answer, Thinks, me
  <2>2. th'[q].pc = "between" /\ th'[q].victim = me.victim
    BY <1>0, <2>1 DEF Thread
  <2> QED BY <1>9, <2>1, <2>2 DEF Answer, Kind, Leaves, me
<1>10. CASE CheckSize(q)
  <2>1. /\ th'[q] = Get(me, IF slot = NoClient THEN "retry" ELSE "reset")
        /\ me.pc = "size"
    BY <1>10, <1>t DEF CheckSize, Thinks, me
  <2>2. th'[q].pc = "get" /\ th'[q].victim = me.victim
    BY <1>0, <2>1 DEF Get, Thread
  <2> QED BY <1>10, <2>1, <2>2 DEF CheckSize, Kind, Leaves, me
<1>11. CASE Close(q)
  <2>1. th'[q] = [me EXCEPT !.pc = "clear"] /\ me.pc = "close"
    BY <1>11, <1>t DEF Close, Thinks, me
  <2>2. th'[q].pc = "clear" /\ th'[q].victim = me.victim
    BY <1>0, <2>1 DEF Thread
  <2> QED BY <1>11, <2>1, <2>2 DEF Close, Kind, Closes, me
<1>12. CASE Clear(q)
  <2>1. th'[q] = Get([me EXCEPT !.victim = NoClient], "retry") /\ me.pc = "clear"
    BY <1>12, <1>t DEF Clear, Thinks, me
  <2>2. th'[q].pc = "get" /\ th'[q].victim = 0
    BY <1>0, <2>1 DEF Get, Thread, NoClient
  <2> QED BY <1>12, <2>1, <2>2 DEF Clear, Kind, Clears, NoClient, me
<1>13. CASE ConnectionBreaks(q) \/ ClosedUnderway(q)
  <2>1. th'[q] = Failed(me) /\ me.pc \in {"flight", "served"}
    BY <1>13, <1>t DEF ConnectionBreaks, ClosedUnderway, Fails, Thinks, me
  <2>2. th'[q].pc \in {"ended", "size"} /\ th'[q].victim \in {0, me.victim}
    <3>1. CASE LastAttempt(me)
      BY <1>0, <2>1, <3>1, EndsFacts DEF Failed
    <3>2. CASE ~LastAttempt(me)
      BY <1>0, <2>1, <3>2 DEF Failed, Thread
    <3> QED BY <3>1, <3>2
  <2> QED BY <1>13, <2>1, <2>2 DEF ConnectionBreaks, ClosedUnderway, Kind, Leaves, me
<1> QED
  BY <1>1, <1>2, <1>3, <1>4, <1>5, <1>6, <1>7, <1>8, <1>9, <1>10, <1>11, <1>12, <1>13 DEF Step, Work, me

LEMMA ClientsKnown ==
    ASSUME Inv0, NEW p \in Requests
    PROVE  /\ th[p].built \in Nat /\ th[p].victim \in Nat
           /\ th[p].built <= made /\ th[p].victim <= made
           /\ th[p].pc = "store" => th[p].built >= 1
           /\ made \in Nat /\ slot \in 0 .. made /\ closed \subseteq 1 .. made
BY DEF Inv0, TypeOK, Thread, LocalOK, Local, Built

LEMMA PrivateStep ==
    ASSUME Inv0, Private, NEW q \in Requests, NEW n \in Thread,
           th' = [th EXCEPT ![q] = n], Kind(th[q], n)
    PROVE  Private'
<1> DEFINE me == th[q]
<1>0. /\ th'[q] = n /\ \A p \in Requests \ {q} : th'[p] = th[p]
  BY DEF Inv0, TypeOK
<1>1. CASE Builds(me, n)
  <2>1. /\ n.built = made + 1 /\ n.victim = me.victim /\ UNCHANGED <<slot, closed>>
        /\ me.pc = "get"
    BY <1>1 DEF Builds
  <2>2. \A p \in Requests : th'[p].victim = th[p].victim
    BY <1>0, <2>1
  <2>3. ASSUME NEW p \in Requests, p # q, th'[p].pc = "store"
        PROVE  /\ th'[p].built # slot' /\ th'[p].built \notin closed'
               /\ \A o \in Requests :
                    /\ th'[o].victim # th'[p].built
                    /\ o # p /\ th'[o].pc = "store" => th'[o].built # th'[p].built
    <3>1. th'[p] = th[p] /\ th[p].pc = "store"
      BY <1>0, <2>3
    <3>2. ASSUME NEW o \in Requests, o # p, th'[o].pc = "store"
          PROVE  th'[o].built # th'[p].built
      <4>1. CASE o = q
        BY <1>0, <2>1, <3>1, <4>1, ClientsKnown
      <4>2. CASE o # q
        BY <1>0, <3>1, <3>2, <4>2 DEF Private
      <4> QED BY <4>1, <4>2
    <3> QED BY <2>1, <2>2, <3>1, <3>2 DEF Private
  <2>4. /\ n.built # slot' /\ n.built \notin closed'
        /\ \A o \in Requests : /\ th'[o].victim # n.built
                               /\ o # q => th'[o].built # n.built
    <3>1. n.built # slot /\ n.built \notin closed
      BY <2>1, ClientsKnown
    <3>2. \A o \in Requests : th[o].victim # n.built /\ th[o].built # n.built
      BY <2>1, ClientsKnown
    <3> QED BY <1>0, <2>1, <2>2, <3>1, <3>2
  <2>5. ASSUME NEW p \in Requests, th'[p].pc = "store"
        PROVE  /\ th'[p].built # slot' /\ th'[p].built \notin closed'
               /\ \A o \in Requests :
                    /\ th'[o].victim # th'[p].built
                    /\ o # p /\ th'[o].pc = "store" => th'[o].built # th'[p].built
    <3>1. CASE p = q
      <4>1. th'[q].built = n.built
        BY <1>0
      <4>2. ASSUME NEW o \in Requests
            PROVE  /\ th'[o].victim # th'[q].built
                   /\ o # q => th'[o].built # th'[q].built
        BY <2>4, <4>1
      <4>3. th'[q].built # slot' /\ th'[q].built \notin closed'
        BY <2>4, <4>1
      <4> QED BY <3>1, <4>2, <4>3
    <3>2. CASE p # q
      BY <2>3, <2>5, <3>2
    <3> QED BY <3>1, <3>2
  <2> QED BY <2>5 DEF Private
<1>2. CASE ~Builds(me, n)
  <2>1. n.pc # "store"
    BY <1>2 DEF Kind, Stores, Hits, Closes, Clears, Leaves
  <2>2. ASSUME NEW p \in Requests, th'[p].pc = "store"
        PROVE  /\ th'[p].built # slot' /\ th'[p].built \notin closed'
               /\ \A o \in Requests :
                    /\ th'[o].victim # th'[p].built
                    /\ o # p /\ th'[o].pc = "store" => th'[o].built # th'[p].built
    <3>1. p # q /\ th'[p] = th[p] /\ th[p].pc = "store"
      BY <1>0, <2>1, <2>2
    <3>2. /\ th[p].built # slot /\ th[p].built \notin closed /\ th[p].built >= 1
          /\ th[p].built # 0 /\ th[p].built # me.victim
          /\ me.pc = "store" => th[p].built # me.built
      BY <3>1, ClientsKnown DEF Private
    <3>3. slot' \in {slot, 0} \/ (me.pc = "store" /\ slot' = me.built)
      BY <1>2 DEF Kind, Stores, Hits, Closes, Clears, Leaves
    <3>4. closed' = closed \/ closed' = closed \cup {me.victim}
      BY <1>2 DEF Kind, Stores, Hits, Closes, Clears, Leaves
    <3>5. n.victim \in {0, me.victim, slot} \/ (me.pc = "store" /\ n.victim = me.built)
      BY <1>2 DEF Kind, Stores, Hits, Closes, Clears, Leaves
    <3>6. th[p].built # slot' /\ th[p].built \notin closed' /\ n.victim # th[p].built
      BY <3>2, <3>3, <3>4, <3>5
    <3>7. ASSUME NEW o \in Requests
          PROVE  /\ th'[o].victim # th[p].built
                 /\ o # p /\ th'[o].pc = "store" => th'[o].built # th[p].built
      <4>1. CASE o = q
        BY <1>0, <2>1, <3>6, <4>1
      <4>2. CASE o # q
        BY <1>0, <3>1, <4>2 DEF Private
      <4> QED BY <4>1, <4>2
    <3> QED BY <3>1, <3>6, <3>7
  <2> QED BY <2>2 DEF Private
<1> QED BY <1>1, <1>2

LEMMA ClearedStep ==
    ASSUME Inv0, Inv1, NEW q \in Requests, NEW n \in Thread,
           th' = [th EXCEPT ![q] = n], Kind(th[q], n)
    PROVE  ClosedIsBeingCleared'
<1> DEFINE me == th[q]
<1>0. /\ th'[q] = n /\ \A p \in Requests \ {q} : th'[p] = th[p]
  BY DEF Inv0, TypeOK
<1> SUFFICES ASSUME slot' \in closed'
             PROVE  \E p \in Requests : th'[p].pc = "clear" /\ th'[p].victim = slot'
  BY DEF ClosedIsBeingCleared
<1>1. CASE Clears(me, n)
  <2>1. slot' = 0 /\ closed' = closed
    BY <1>1 DEF Clears
  <2>2. 0 \notin closed
    BY DEF Inv0, TypeOK
  <2> QED BY <2>1, <2>2
<1>2. CASE Closes(me, n) /\ slot' = me.victim
  BY <1>0, <1>2 DEF Closes
<1>3. CASE Kind(me, n) /\ ~Clears(me, n) /\ ~(Closes(me, n) /\ slot' = me.victim)
  <2>1. slot' \in closed /\ me.pc # "clear"
    <3>1. closed' = closed \/ (Closes(me, n) /\ closed' = closed \cup {me.victim})
      BY <1>3 DEF Kind, Builds, Stores, Hits, Closes, Leaves
    <3>2. me.pc # "clear"
      BY <1>3 DEF Kind, Builds, Stores, Hits, Closes, Leaves
    <3> QED BY <1>3, <3>1, <3>2
  <2>2. slot' = slot
    <3>1. slot' = slot \/ (me.pc = "store" /\ slot' = me.built)
      BY <1>3 DEF Kind, Builds, Stores, Hits, Closes, Leaves
    <3>2. me.pc = "store" => me.built \notin closed
      BY DEF Inv1, Private
    <3> QED BY <2>1, <3>1, <3>2
  <2>3. PICK p \in Requests : th[p].pc = "clear" /\ th[p].victim = slot
    BY <2>1, <2>2 DEF Inv1, ClosedIsBeingCleared
  <2>4. th'[p] = th[p]
    BY <1>0, <2>1, <2>3
  <2> QED BY <2>2, <2>3, <2>4
<1> QED BY <1>1, <1>2, <1>3

LEMMA Inv1Next == Inv0 /\ Inv1 /\ [Next]_vars => Inv1'
<1> SUFFICES ASSUME Inv0, Inv1, [Next]_vars PROVE Inv1'
  OBVIOUS
<1>1. ASSUME NEW q \in Requests,
             Step(q)
      PROVE  Inv1'
  <2>1. PICK n \in Thread : Becomes(q, th[q], n)
    BY <1>1, StepOfThread
  <2>2. th' = [th EXCEPT ![q] = n] /\ th'[q] = n
    BY <2>1 DEF Becomes, Inv0, TypeOK
  <2>3. Kind(th[q], n)
    BY <1>1, <2>2, KindOfThread
  <2> QED BY <2>2, <2>3, PrivateStep, ClearedStep DEF Inv1
<1>2. CASE UNCHANGED vars
  BY <1>2 DEF vars, Inv1, Private, ClosedIsBeingCleared
<1> QED BY <1>1, <1>2 DEF Next, Step

\* However resets, builds and stores overlap, a closed client is in the cache
\* only while the thread that closed it is about to clear the cache.
THEOREM NoDeadClientStays == Spec => []ClosedIsBeingCleared
<1>1. Init => Inv1
  BY DEF Init, Inv1, Private, ClosedIsBeingCleared, NewThread
<1>2. Inv1 => ClosedIsBeingCleared
  BY DEF Inv1
<1> QED BY Inv0Init, Inv0Next, Inv1Next, <1>1, <1>2, PTL DEF Spec

-----------------------------------------------------------------------------
(* Why sessions are closed, and what a retry finds.                         *)

\* Nobody resets.
Calm(me) == me.pc \notin {"size", "close", "clear"} /\ me.goal # "reset"

\* Nobody resets or has, as long as no connection broke.
Unbroken == broken = 0 => closed = {} /\ \A q \in Requests : Calm(th[q])

\* What a step needs to be told of here: it goes on calmly unless a connection
\* broke, it does not make the thread idle, and a retry has its client from the
\* cache or has built it.
Moved(me, n) ==
    /\ n.pc # "idle"
    /\ broken' = 0 /\ closed = {} /\ Calm(me) => closed' = {} /\ Calm(n)
    /\ n.pc = "call" /\ n.attempt > 1 =>
         /\ UNCHANGED closed
         /\ \/ me.pc = "get" /\ slot # 0 /\ n.cur = slot
            \/ me.pc = "store" /\ n.cur = me.built

\* Where a thread goes with the client it was handed.
LEMMA ReceivedGoesOn ==
    ASSUME NEW me \in Thread, NEW c \in Nat
    PROVE  /\ Received(me, c).calls = me.calls /\ Received(me, c).attempt = me.attempt
           /\ \/ me.goal = "depend" /\ Received(me, c).pc = "between"
              \/ me.goal = "reset" /\ Received(me, c).pc = "close"
              \/ me.goal = "retry" /\ Received(me, c).pc = "call"
<1>1. me.goal \in {"depend", "reset", "retry"}
  BY DEF Thread
<1>2. CASE me.goal = "retry"
  BY <1>2 DEF Received, Thread
<1>3. CASE me.goal = "reset"
  BY <1>3 DEF Received, Thread
<1>4. CASE me.goal = "depend"
  BY <1>4 DEF Received, Thread
<1> QED BY <1>1, <1>2, <1>3, <1>4

LEMMA ReceivedCur ==
    ASSUME NEW me \in Thread, NEW c \in Nat
    PROVE  Received(me, c).pc = "call" => Received(me, c).cur = c
<1>1. me.goal \in {"depend", "reset", "retry"}
  BY DEF Thread
<1>2. CASE me.goal = "retry"
  BY <1>2 DEF Received, Thread
<1>3. CASE me.goal = "reset"
  BY <1>3 DEF Received, Thread
<1>4. CASE me.goal = "depend"
  BY <1>4 DEF Received, Thread
<1> QED BY <1>1, <1>2, <1>3, <1>4

LEMMA MovedOfThread ==
    ASSUME Inv0, NEW q \in Requests,
           Step(q)
    PROVE  Moved(th[q], th'[q]) /\ (broken' = 0 => broken = 0)
<1> DEFINE me == th[q]
<1>0. /\ me \in Thread /\ Local(me, applied[q]) /\ applied[q] \in Nat
      /\ slot \in Nat /\ th \in [Requests -> Thread] /\ made \in Nat /\ broken \in Nat
  BY DEF Inv0, TypeOK, LocalOK
<1>f. me.built \in Nat /\ me.attempt \in Nat
  BY <1>0 DEF Thread
<1>t. \A n : th' = [th EXCEPT ![q] = n] => th'[q] = n
  BY <1>0
<1> HIDE DEF me
<1>1. CASE Arrive(q)
  <2>1. th'[q] = Get(me, "depend")
    BY <1>1, <1>t DEF Arrive, Thinks, me
  <2>2. th'[q].pc = "get" /\ th'[q].goal = "depend"
    BY <1>0, <2>1 DEF Get, Thread
  <2> QED BY <1>1, <2>2 DEF Arrive, Keeps, Moved, Calm, me
<1>2. CASE Hit(q) \/ Store(q)
  <2>1. PICK c \in {slot, me.built} :
          /\ th'[q] = Received(me, c) /\ c >= 1
          /\ \/ me.pc = "get" /\ slot # 0 /\ c = slot
             \/ me.pc = "store" /\ c = me.built
    <3>1. CASE Hit(q)
      BY <1>0, <1>t, <3>1 DEF Hit, Thinks, me, NoClient
    <3>2. CASE Store(q)
      BY <1>0, <1>t, <3>2 DEF Store, Thinks, me, Local
    <3> QED BY <1>2, <3>1, <3>2
  <2>2. /\ th'[q].goal = "depend"
        /\ th'[q].pc \in {"between", "call", "close"}
        /\ th'[q].pc = "close" => me.goal = "reset"
    BY <1>0, <1>f, <2>1, ReceivedFacts
  <2>3. th'[q].pc = "call" => th'[q].cur = c
    BY <1>0, <1>f, <2>1, ReceivedCur
  <2> QED BY <1>2, <2>1, <2>2, <2>3 DEF Hit, Store, Keeps, Moved, Calm, me
<1>3. CASE Build(q)
  <2>1. th'[q] = [me EXCEPT !.pc = "store", !.built = made + 1]
    BY <1>3, <1>t DEF Build, Thinks, me
  <2>2. th'[q].pc = "store" /\ th'[q].goal = me.goal
    BY <1>0, <2>1 DEF Thread
  <2> QED BY <1>3, <2>2 DEF Build, Keeps, Moved, Calm, me
<1>4. CASE Execute(q)
  <2>1. th'[q] = [me EXCEPT !.pc = "call", !.cur = me.client,
                            !.attempt = 1, !.calls = @ + 1, !.answer = "none"]
    BY <1>4, <1>t DEF Execute, Thinks, me
  <2>2. th'[q].pc = "call" /\ th'[q].goal = me.goal /\ th'[q].attempt = 1
    BY <1>0, <2>1 DEF Thread
  <2> QED BY <1>4, <2>2 DEF Execute, Keeps, Moved, Calm, me
<1>5. CASE Respond(q) \/ ClosedClient(q) \/ ApiError(q) \/ UnlistedError(q)
  <2>1. PICK a \in {"ok", "raw", "upstream"} : th'[q] = Ends(me, a)
    BY <1>5, <1>t DEF Respond, ClosedClient, ApiError, UnlistedError, Thinks, me
  <2>2. th'[q].pc = "ended" /\ th'[q].goal = "depend"
    BY <1>0, <2>1, EndsFacts
  <2> QED BY <1>5, <2>2 DEF Respond, ClosedClient, ApiError, UnlistedError, Keeps, Moved, Calm, me
<1>6. CASE Issue(q) \/ Serve(q)
  <2>1. PICK pc \in {"flight", "served"} : th'[q] = [me EXCEPT !.pc = pc]
    BY <1>6, <1>t DEF Issue, Serve, Thinks, me
  <2>2. th'[q].pc \in {"flight", "served"} /\ th'[q].goal = me.goal
    BY <1>0, <2>1 DEF Thread
  <2> QED BY <1>6, <2>2 DEF Issue, Serve, Keeps, Moved, Calm, me
<1>7. CASE Answer(q)
  <2>1. th'[q] = [me EXCEPT !.pc = "between", !.answer = "ok", !.cur = NoClient]
    BY <1>7, <1>t DEF Answer, Thinks, me
  <2>2. th'[q].pc = "between" /\ th'[q].goal = me.goal
    BY <1>0, <2>1 DEF Thread
  <2> QED BY <1>7, <2>2 DEF Answer, Keeps, Moved, Calm, me
<1>8. CASE CheckSize(q) \/ Clear(q)
  <2>1. PICK n \in Thread, goal \in {"retry", "reset"} : th'[q] = Get(n, goal)
    <3>1. CASE CheckSize(q)
      BY <1>0, <1>t, <3>1 DEF CheckSize, Thinks, me
    <3>2. CASE Clear(q)
      <4>1. [me EXCEPT !.victim = NoClient] \in Thread
        BY <1>0 DEF Thread, NoClient
      <4> QED BY <1>t, <3>2, <4>1 DEF Clear, Thinks, me
    <3> QED BY <1>8, <3>1, <3>2
  <2>2. th'[q].pc = "get"
    BY <2>1 DEF Get, Thread
  <2>3. ~Calm(me)
    BY <1>8 DEF CheckSize, Clear, Calm, me
  <2> QED BY <1>8, <2>2, <2>3 DEF CheckSize, Clear, Keeps, Moved, me
<1>9. CASE Close(q)
  <2>1. th'[q] = [me EXCEPT !.pc = "clear"]
    BY <1>9, <1>t DEF Close, Thinks, me
  <2>2. th'[q].pc = "clear"
    BY <1>0, <2>1 DEF Thread
  <2>3. ~Calm(me)
    BY <1>9 DEF Close, Calm, me
  <2> QED BY <1>9, <2>2, <2>3 DEF Close, Keeps, Moved, me
<1>10. CASE ConnectionBreaks(q) \/ ClosedUnderway(q)
  <2>1. th'[q] = Failed(me) /\ me.pc \in {"flight", "served"}
    BY <1>10, <1>t DEF ConnectionBreaks, ClosedUnderway, Fails, Thinks, me
  <2>2. th'[q].pc \in {"ended", "size"}
    BY <1>0, <2>1, FailedFacts
  <2>3. broken' = broken + 1 \/ (closed # {} /\ broken' = broken)
    BY <1>10 DEF ConnectionBreaks, ClosedUnderway, Keeps
  <2>4. broken' = 0 => closed # {} /\ broken = 0
    BY <1>0, <2>3
  <2> QED BY <2>2, <2>4 DEF Moved, me
<1> QED
  BY <1>1, <1>2, <1>3, <1>4, <1>5, <1>6, <1>7, <1>8, <1>9, <1>10 DEF Step, Work, me

LEMMA UnbrokenNext == Inv0 /\ Unbroken /\ [Next]_vars => Unbroken'
<1> SUFFICES ASSUME Inv0, Unbroken, [Next]_vars PROVE Unbroken'
  OBVIOUS
<1>1. ASSUME NEW q \in Requests,
             Step(q),
             broken' = 0
      PROVE  closed' = {} /\ \A p \in Requests : Calm(th'[p])
  <2>1. Moved(th[q], th'[q]) /\ broken = 0
    BY <1>1, MovedOfThread
  <2>2. closed = {} /\ \A p \in Requests : Calm(th[p])
    BY <2>1 DEF Unbroken
  <2>3. closed' = {} /\ Calm(th'[q])
    BY <1>1, <2>1, <2>2 DEF Moved
  <2>4. PICK n \in Thread : Becomes(q, th[q], n)
    BY <1>1, StepOfThread
  <2>5. \A p \in Requests \ {q} : th'[p] = th[p]
    BY <2>4 DEF Becomes, Inv0, TypeOK
  <2> QED BY <2>2, <2>3, <2>5
<1>2. CASE UNCHANGED vars
  BY <1>2 DEF vars, Unbroken
<1> QED BY <1>1, <1>2 DEF Next, Step, Unbroken

\* The thread is in a reset that has not closed a session yet.
Owes(me) ==
    \/ me.pc \in {"size", "close"}
    \/ me.pc \in {"get", "store"} /\ me.goal = "reset"

Owing == {q \in Requests : Owes(th[q])}

\* A failed attempt before the last pays for one session, and what is paid for
\* is closed or owed by one thread.
Paid == Cardinality(closed) + Cardinality(Owing) <= retries

\* How a step pays, closes or does neither.
Counted(me, n) ==
    \/ ~Owes(me) /\ retries' = retries + 1 /\ UNCHANGED closed
    \/ /\ Owes(me) /\ ~Owes(n) /\ UNCHANGED retries
       /\ closed' = closed \cup {me.victim}
    \/ (Owes(n) => Owes(me)) /\ UNCHANGED <<retries, closed>>

LEMMA CountedOfThread ==
    ASSUME Inv0, NEW q \in Requests, Step(q)
    PROVE  Counted(th[q], th'[q])
<1> DEFINE me == th[q]
<1>0. me \in Thread /\ slot \in Nat /\ th \in [Requests -> Thread] /\ made \in Nat
  BY DEF Inv0, TypeOK
<1>f. me.built \in Nat
  BY <1>0 DEF Thread
<1>t. \A n : th' = [th EXCEPT ![q] = n] => th'[q] = n
  BY <1>0
<1> HIDE DEF me
<1>1. CASE Arrive(q)
  <2>1. th'[q] = Get(me, "depend")
    BY <1>1, <1>t DEF Arrive, Thinks, me
  <2>2. th'[q].pc = "get" /\ th'[q].goal = "depend"
    BY <1>0, <2>1 DEF Get, Thread
  <2> QED BY <1>1, <2>2 DEF Arrive, Keeps, Counted, Owes, me
<1>2. CASE Hit(q) \/ Store(q)
  <2>1. PICK c \in Nat : th'[q] = Received(me, c) /\ me.pc \in {"get", "store"}
    BY <1>0, <1>2, <1>f, <1>t DEF Hit, Store, Thinks, me
  <2>2. \/ me.goal = "depend" /\ th'[q].pc = "between"
        \/ me.goal = "reset" /\ th'[q].pc = "close"
        \/ me.goal = "retry" /\ th'[q].pc = "call"
    BY <1>0, <2>1, ReceivedGoesOn
  <2> QED BY <1>2, <2>1, <2>2 DEF Hit, Store, Keeps, Counted, Owes, me
<1>3. CASE Build(q)
  <2>1. th'[q] = [me EXCEPT !.pc = "store", !.built = made + 1] /\ me.pc = "get"
    BY <1>3, <1>t DEF Build, Thinks, me
  <2>2. th'[q].pc = "store" /\ th'[q].goal = me.goal
    BY <1>0, <2>1 DEF Thread
  <2> QED BY <1>3, <2>1, <2>2 DEF Build, Keeps, Counted, Owes, me
<1>4. CASE Execute(q)
  <2>1. th'[q] = [me EXCEPT !.pc = "call", !.cur = me.client,
                            !.attempt = 1, !.calls = @ + 1, !.answer = "none"]
    BY <1>4, <1>t DEF Execute, Thinks, me
  <2>2. th'[q].pc = "call"
    BY <1>0, <2>1 DEF Thread
  <2> QED BY <1>4, <2>2 DEF Execute, Keeps, Counted, Owes, me
<1>5. CASE Respond(q) \/ ClosedClient(q) \/ ApiError(q) \/ UnlistedError(q)
  <2>1. PICK a \in {"ok", "raw", "upstream"} : th'[q] = Ends(me, a)
    BY <1>5, <1>t DEF Respond, ClosedClient, ApiError, UnlistedError, Thinks, me
  <2>2. th'[q].pc = "ended"
    BY <1>0, <2>1, EndsFacts
  <2> QED
    BY <1>5, <2>2 DEF Respond, ClosedClient, ApiError, UnlistedError, Keeps, Counted, Owes, me
<1>6. CASE Issue(q) \/ Serve(q)
  <2>1. PICK pc \in {"flight", "served"} : th'[q] = [me EXCEPT !.pc = pc]
    BY <1>6, <1>t DEF Issue, Serve, Thinks, me
  <2>2. th'[q].pc \in {"flight", "served"}
    BY <1>0, <2>1 DEF Thread
  <2> QED BY <1>6, <2>2 DEF Issue, Serve, Keeps, Counted, Owes, me
<1>7. CASE Answer(q)
  <2>1. th'[q] = [me EXCEPT !.pc = "between", !.answer = "ok", !.cur = NoClient]
    BY <1>7, <1>t DEF Answer, Thinks, me
  <2>2. th'[q].pc = "between"
    BY <1>0, <2>1 DEF Thread
  <2> QED BY <1>7, <2>2 DEF Answer, Keeps, Counted, Owes, me
<1>8. CASE CheckSize(q)
  <2>1. Owes(me)
    BY <1>8 DEF CheckSize, Owes, me
  <2> QED BY <1>8, <2>1 DEF CheckSize, Keeps, Counted, me
<1>9. CASE Close(q)
  <2>1. th'[q] = [me EXCEPT !.pc = "clear"] /\ me.pc = "close"
    BY <1>9, <1>t DEF Close, Thinks, me
  <2>2. th'[q].pc = "clear"
    BY <1>0, <2>1 DEF Thread
  <2> QED BY <1>9, <2>1, <2>2 DEF Close, Keeps, Counted, Owes, me
<1>10. CASE Clear(q)
  <2>1. th'[q] = Get([me EXCEPT !.victim = NoClient], "retry")
    BY <1>10, <1>t DEF Clear, Thinks, me
  <2>2. th'[q].pc = "get" /\ th'[q].goal = "retry"
    BY <1>0, <2>1 DEF Get, Thread
  <2> QED BY <1>10, <2>2 DEF Clear, Keeps, Counted, Owes, me
<1>11. CASE ConnectionBreaks(q) \/ ClosedUnderway(q)
  <2>1. /\ th'[q] = Failed(me) /\ me.pc \in {"flight", "served"} /\ UNCHANGED closed
        /\ retries' = IF LastAttempt(me) THEN retries ELSE retries + 1
    BY <1>11, <1>t DEF ConnectionBreaks, ClosedUnderway, Fails, Thinks, me
  <2>2. ~Owes(me)
    BY <2>1 DEF Owes
  <2>3. CASE LastAttempt(me)
    <3>1. th'[q].pc = "ended"
      BY <1>0, <2>1, <2>3, EndsFacts DEF Failed
    <3>2. ~Owes(th'[q])
      BY <3>1 DEF Owes
    <3> QED BY <2>1, <2>3, <3>2 DEF Counted, me
  <2>4. CASE ~LastAttempt(me)
    BY <2>1, <2>2, <2>4 DEF Counted, me
  <2> QED BY <2>3, <2>4
<1> QED
  BY <1>1, <1>2, <1>3, <1>4, <1>5, <1>6, <1>7, <1>8, <1>9, <1>10, <1>11 DEF Step, Work, me

LEMMA OwingFinite == IsFiniteSet(Owing) /\ Cardinality(Owing) \in Nat
<1>1. IsFiniteSet(Owing)
  BY AdminConstants, FS_Subset DEF Owing
<1> QED BY <1>1, FS_CardinalityType

LEMMA ClosedFinite ==
    ASSUME Inv0
    PROVE  IsFiniteSet(closed) /\ Cardinality(closed) \in Nat
<1>1. closed \subseteq 1 .. made /\ made \in Nat
  BY DEF Inv0, TypeOK
<1>2. IsFiniteSet(1 .. made)
  BY <1>1, FS_Interval
<1>3. IsFiniteSet(closed)
  BY <1>1, <1>2, FS_Subset
<1> QED BY <1>3, FS_CardinalityType

LEMMA OneMore ==
    ASSUME NEW S, NEW x, IsFiniteSet(S)
    PROVE  /\ Cardinality(S \cup {x}) \in Nat
           /\ Cardinality(S \cup {x}) <= Cardinality(S) + 1
<1>1. Cardinality(S) \in Nat
  BY FS_CardinalityType
<1>2. Cardinality(S \cup {x}) = IF x \in S THEN Cardinality(S) ELSE Cardinality(S) + 1
  BY FS_AddElement
<1> QED BY <1>1, <1>2

LEMMA PaidNext == Inv0 /\ Paid /\ [Next]_vars => Paid'
<1> SUFFICES ASSUME Inv0, Paid, [Next]_vars PROVE Paid'
  OBVIOUS
<1>0. /\ IsFiniteSet(Owing) /\ Cardinality(Owing) \in Nat
      /\ IsFiniteSet(closed) /\ Cardinality(closed) \in Nat /\ retries \in Nat
  BY OwingFinite, ClosedFinite DEF Inv0, TypeOK
<1>1. ASSUME NEW q \in Requests, Step(q) PROVE Paid'
  <2>1. PICK n \in Thread : Becomes(q, th[q], n)
    BY <1>1, StepOfThread
  <2>2. th'[q] = n /\ \A p \in Requests \ {q} : th'[p] = th[p]
    BY <2>1 DEF Becomes, Inv0, TypeOK
  <2>3. Counted(th[q], n)
    BY <1>1, <2>2, CountedOfThread
  <2>4. CASE ~Owes(th[q]) /\ retries' = retries + 1 /\ UNCHANGED closed
    <3>1. Owing' \in {Owing, Owing \cup {q}}
      BY <2>2, <2>4 DEF Owing
    <3>2. /\ Cardinality(Owing \cup {q}) \in Nat
          /\ Cardinality(Owing \cup {q}) <= Cardinality(Owing) + 1
      BY <1>0, OneMore
    <3>4. Cardinality(Owing') <= Cardinality(Owing) + 1 /\ Cardinality(Owing') \in Nat
      <4>1. CASE Owing' = Owing
        BY <1>0, <4>1
      <4>2. CASE Owing' = Owing \cup {q}
        BY <3>2, <4>2
      <4> QED BY <3>1, <4>1, <4>2
    <3> QED BY <1>0, <2>4, <3>4 DEF Paid
  <2>5. CASE /\ Owes(th[q]) /\ ~Owes(n) /\ UNCHANGED retries
             /\ closed' = closed \cup {th[q].victim}
    <3>1. q \in Owing /\ Owing' = Owing \ {q}
      BY <2>2, <2>5 DEF Owing
    <3>2. Cardinality(Owing') = Cardinality(Owing) - 1
      BY <1>0, <3>1, FS_RemoveElement
    <3>3. /\ Cardinality(closed') <= Cardinality(closed) + 1
          /\ Cardinality(closed') \in Nat
      BY <1>0, <2>5, OneMore
    <3> QED BY <1>0, <2>5, <3>2, <3>3 DEF Paid
  <2>6. CASE (Owes(n) => Owes(th[q])) /\ UNCHANGED <<retries, closed>>
    <3>1. Owing' \subseteq Owing
      BY <2>2, <2>6 DEF Owing
    <3>2. Cardinality(Owing') <= Cardinality(Owing) /\ Cardinality(Owing') \in Nat
      BY <1>0, <3>1, FS_Subset, FS_CardinalityType
    <3> QED BY <1>0, <2>6, <3>2 DEF Paid
  <2> QED BY <2>3, <2>4, <2>5, <2>6 DEF Counted
<1>2. CASE UNCHANGED vars
  BY <1>2 DEF vars, Paid, Owing
<1> QED BY <1>1, <1>2 DEF Next, Step

\* Sessions are closed only because connections broke, and no more of them than
\* attempts failed and are retried: API errors, closed clients and the races of
\* builds and resets close none.
THEOREM CloseNeedsBreak == Spec => []CloseOnlyAfterBreak
<1>1. Init => Unbroken
  BY DEF Init, Unbroken, Calm, NewThread
<1>2. Init => Paid
  <2> SUFFICES ASSUME Init PROVE Paid
    OBVIOUS
  <2>1. Owing = {} /\ closed = {} /\ retries = 0
    BY DEF Init, Owing, Owes, NewThread
  <2>2. Cardinality({}) = 0
    BY FS_EmptySet
  <2> QED BY <2>1, <2>2 DEF Paid
<1>3. Inv0 /\ Unbroken /\ Paid => CloseOnlyAfterBreak
  <2> SUFFICES ASSUME Inv0, Unbroken, Paid PROVE CloseOnlyAfterBreak
    OBVIOUS
  <2>1. Cardinality(closed) <= retries
    BY OwingFinite, ClosedFinite DEF Paid, Inv0, TypeOK
  <2> QED BY <2>1 DEF Unbroken, CloseOnlyAfterBreak
<1> QED BY Inv0Init, Inv0Next, UnbrokenNext, PaidNext, <1>1, <1>2, <1>3, PTL DEF Spec

LEMMA RetryNext ==
    Inv0 /\ Inv1 /\ RetryFindsOpenClient /\ [Next]_vars => RetryFindsOpenClient'
<1> SUFFICES ASSUME Inv0, Inv1, RetryFindsOpenClient, [Next]_vars
             PROVE  RetryFindsOpenClient'
  OBVIOUS
<1>1. ASSUME NEW s \in Requests,
             Step(s),
             NEW q \in Requests, \A p \in Requests \ {q} : th'[p].pc = "idle",
             th'[q].pc = "call", th'[q].attempt > 1
      PROVE  th'[q].cur \notin closed'
  <2>1. Moved(th[s], th'[s])
    BY <1>1, MovedOfThread
  <2>2. s = q
    BY <1>1, <2>1 DEF Moved
  <2>3. PICK n \in Thread : Becomes(q, th[q], n)
    BY <1>1, <2>2, StepOfThread
  <2>4. \A p \in Requests \ {q} : th[p].pc = "idle"
    BY <1>1, <2>3 DEF Becomes, Inv0, TypeOK
  <2>5. UNCHANGED closed
    BY <1>1, <2>1, <2>2 DEF Moved
  <2>6. CASE th[q].pc = "get" /\ th'[q].cur = slot
    BY <2>4, <2>5, <2>6 DEF Inv1, ClosedIsBeingCleared
  <2>7. CASE th[q].pc = "store" /\ th'[q].cur = th[q].built
    BY <2>5, <2>7 DEF Inv1, Private
  <2> QED BY <1>1, <2>1, <2>2, <2>6, <2>7 DEF Moved
<1>2. CASE UNCHANGED vars
  BY <1>2 DEF vars, RetryFindsOpenClient
<1> QED BY <1>1, <1>2 DEF Next, Step, RetryFindsOpenClient

\* A request that has the process to itself never retries on a closed client.
THEOREM RetriesAloneFindOpenClients == Spec => []RetryFindsOpenClient
<1>1. Init => Inv1
  BY DEF Init, Inv1, Private, ClosedIsBeingCleared, NewThread
<1>2. Init => RetryFindsOpenClient
  BY DEF Init, RetryFindsOpenClient, NewThread
<1> QED BY Inv0Init, Inv0Next, Inv1Next, RetryNext, <1>1, <1>2, PTL DEF Spec

-----------------------------------------------------------------------------
(* Requests end: the part of it that does not need fairness.                *)

\* Where in an attempt a thread is, counted from its end: an attempt that
\* breaks goes on to the reset and the client of the next one.
Stage(me) ==
    CASE me.pc = "size"                        -> 11
      [] me.pc = "get" /\ me.goal = "reset"    -> 10
      [] me.pc = "store" /\ me.goal = "reset"  -> 9
      [] me.pc = "close"                       -> 8
      [] me.pc = "clear"                       -> 7
      [] me.pc = "get" /\ me.goal = "retry"    -> 6
      [] me.pc = "store" /\ me.goal = "retry"  -> 5
      [] me.pc \in {"call", "idle"}            -> 4
      [] me.pc = "flight"                      -> 3
      [] me.pc = "get" /\ me.goal = "depend"   -> 3
      [] me.pc = "served"                      -> 2
      [] me.pc = "store" /\ me.goal = "depend" -> 2
      [] me.pc = "between"                     -> 1
      [] me.pc = "ended"                       -> 0

\* The queries and attempts a thread has left, in steps.
CallsLeft(me)    == IF me.pc = "ended" THEN 0 ELSE MaxCalls - me.calls
AttemptsLeft(me) == IF Working(me) THEN MaxAttempts - me.attempt ELSE 0

StepsLeft(me) ==
    11 * MaxAttempts * CallsLeft(me) + 11 * AttemptsLeft(me) + Stage(me)

LEMMA StageFacts ==
    ASSUME NEW me \in Thread
    PROVE  Stage(me) \in 0 .. 11
<1>1. me.pc \in PCs /\ me.goal \in {"depend", "reset", "retry"}
  BY DEF Thread
<1> QED BY <1>1 DEF Stage, PCs

LEMMA LeftFacts ==
    ASSUME NEW me \in Thread
    PROVE  /\ CallsLeft(me) \in Nat /\ AttemptsLeft(me) \in 0 .. MaxAttempts - 1
           /\ StepsLeft(me) \in Nat
<1>1. me.calls \in 0 .. MaxCalls /\ me.attempt \in 1 .. MaxAttempts
  BY DEF Thread
<1>2. CallsLeft(me) \in Nat
  BY <1>1, AdminConstants DEF CallsLeft
<1>3. AttemptsLeft(me) \in 0 .. MaxAttempts - 1
  BY <1>1, AdminConstants DEF AttemptsLeft
<1>4. 11 * MaxAttempts * CallsLeft(me) \in Nat
  BY <1>2, AdminConstants
<1> QED BY <1>2, <1>3, <1>4, StageFacts DEF StepsLeft

\* Three ways to have less to do: a query less, an attempt less or a stage less.
LEMMA FewerSteps ==
    ASSUME NEW me \in Thread, NEW n \in Thread,
           \/ CallsLeft(n) < CallsLeft(me) /\ Stage(n) <= 4 /\ Stage(me) >= 1
           \/ /\ CallsLeft(n) = CallsLeft(me) /\ AttemptsLeft(n) < AttemptsLeft(me)
              /\ Stage(me) >= 1
           \/ /\ CallsLeft(n) <= CallsLeft(me) /\ AttemptsLeft(n) <= AttemptsLeft(me)
              /\ Stage(n) < Stage(me)
    PROVE  StepsLeft(n) < StepsLeft(me)
<1> DEFINE c == CallsLeft(me)
           d == CallsLeft(n)
           a == AttemptsLeft(me)
           b == AttemptsLeft(n)
<1>1. /\ c \in Nat /\ d \in Nat /\ a \in 0 .. MaxAttempts - 1 /\ b \in 0 .. MaxAttempts - 1
      /\ Stage(me) \in 0 .. 11 /\ Stage(n) \in 0 .. 11
  BY LeftFacts, StageFacts
<1>2. /\ StepsLeft(me) = 11 * MaxAttempts * c + 11 * a + Stage(me)
      /\ StepsLeft(n) = 11 * MaxAttempts * d + 11 * b + Stage(n)
  BY DEF StepsLeft
<1>3. d < c => 11 * MaxAttempts * d + 11 * MaxAttempts <= 11 * MaxAttempts * c
  <2>1. SUFFICES ASSUME d < c PROVE MaxAttempts * d + MaxAttempts <= MaxAttempts * c
    BY <1>1, AdminConstants
  <2>2. PICK k \in Nat : c = d + 1 + k
    <3>1. c - d - 1 \in Nat /\ c = d + 1 + (c - d - 1)
      BY <1>1, <2>1
    <3> QED BY <3>1
  <2>3. MaxAttempts * c = MaxAttempts * d + MaxAttempts + MaxAttempts * k
    BY <1>1, <2>2, AdminConstants
  <2>4. MaxAttempts * k \in Nat
    BY <2>2, AdminConstants
  <2> QED BY <1>1, <2>3, <2>4, AdminConstants
<1>4. 11 * MaxAttempts * c \in Nat /\ 11 * MaxAttempts * d \in Nat
  BY <1>1, AdminConstants
<1> HIDE DEF c, d, a, b
<1>5. CASE d < c /\ Stage(n) <= 4 /\ Stage(me) >= 1
  BY <1>1, <1>2, <1>3, <1>4, <1>5, AdminConstants
<1>6. CASE d = c /\ b < a /\ Stage(me) >= 1
  BY <1>1, <1>2, <1>4, <1>6, AdminConstants
<1>7. CASE d <= c /\ b <= a /\ Stage(n) < Stage(me)
  <2>1. 11 * MaxAttempts * d <= 11 * MaxAttempts * c
    BY <1>1, <1>3, <1>4, <1>7, AdminConstants
  <2> QED BY <1>1, <1>2, <1>4, <1>7, <2>1, AdminConstants
<1> QED BY <1>5, <1>6, <1>7 DEF c, d, a, b

\* Every step of a thread leaves it with fewer steps.
LEMMA RunsDown ==
    ASSUME Inv0, NEW q \in Requests,
           Step(q)
    PROVE  StepsLeft(th'[q]) < StepsLeft(th[q])
<1> DEFINE me == th[q]
           n  == th'[q]
<1>0. /\ me \in Thread /\ Local(me, applied[q]) /\ applied[q] \in Nat
      /\ th \in [Requests -> Thread] /\ slot \in Nat
  BY DEF Inv0, TypeOK, LocalOK
<1>n. n \in Thread
  <2>1. PICK m \in Thread : Becomes(q, th[q], m)
    BY StepOfThread
  <2> QED BY <1>0, <2>1 DEF Becomes
<1>t. \A m : th' = [th EXCEPT ![q] = m] => n = m
  BY <1>0
<1>f. /\ me.built \in Nat /\ me.attempt \in 1 .. MaxAttempts /\ me.calls \in 0 .. MaxCalls
      /\ me.pc \in PCs /\ me.goal \in {"depend", "reset", "retry"}
  BY <1>0 DEF Thread
<1>l. /\ CallsLeft(me) \in Nat /\ AttemptsLeft(me) \in Nat
      /\ CallsLeft(n) \in Nat /\ AttemptsLeft(n) \in Nat
  BY <1>0, <1>n, LeftFacts
<1>q. ASSUME n.calls = me.calls, me.pc # "ended",
             ~Working(n) \/ (Working(me) /\ n.attempt = me.attempt), Stage(n) < Stage(me)
      PROVE  StepsLeft(n) < StepsLeft(me)
  <2>1. CallsLeft(n) <= CallsLeft(me)
    BY <1>f, <1>l, <1>q, AdminConstants DEF CallsLeft
  <2>2. AttemptsLeft(n) <= AttemptsLeft(me)
    BY <1>f, <1>l, <1>q, AdminConstants DEF AttemptsLeft
  <2> QED BY <1>0, <1>n, <1>q, <2>1, <2>2, FewerSteps
<1> SUFFICES StepsLeft(n) < StepsLeft(me)
  OBVIOUS
<1> HIDE DEF me, n
<1>1. CASE Arrive(q)
  <2>1. n = Get(me, "depend") /\ me.pc = "idle"
    BY <1>1, <1>t DEF Arrive, Thinks, me
  <2>2. n.pc = "get" /\ n.goal = "depend" /\ n.calls = me.calls
    BY <1>0, <2>1 DEF Get, Thread
  <2> QED BY <1>q, <2>1, <2>2 DEF Stage, Working
<1>2. CASE Hit(q) \/ Store(q)
  <2>1. PICK c \in Nat : n = Received(me, c) /\ me.pc \in {"get", "store"}
    BY <1>0, <1>2, <1>f, <1>t DEF Hit, Store, Thinks, me
  <2>2. /\ n.calls = me.calls /\ n.attempt = me.attempt
        /\ \/ me.goal = "depend" /\ n.pc = "between"
           \/ me.goal = "reset" /\ n.pc = "close"
           \/ me.goal = "retry" /\ n.pc = "call"
    BY <1>0, <2>1, ReceivedGoesOn
  <2> QED BY <1>q, <2>1, <2>2 DEF Stage, Working
<1>3. CASE Build(q)
  <2>1. n = [me EXCEPT !.pc = "store", !.built = made + 1] /\ me.pc = "get"
    BY <1>3, <1>t DEF Build, Thinks, me
  <2>2. n.pc = "store" /\ n.goal = me.goal /\ n.calls = me.calls /\ n.attempt = me.attempt
    BY <1>0, <2>1 DEF Thread
  <2> QED BY <1>f, <1>q, <2>1, <2>2 DEF Stage, Working
<1>4. CASE Execute(q)
  <2>1. /\ n = [me EXCEPT !.pc = "call", !.cur = me.client, !.attempt = 1,
                          !.calls = @ + 1, !.answer = "none"]
        /\ me.pc = "between"
    BY <1>4, <1>t DEF Execute, Thinks, me
  <2>2. n.pc = "call" /\ n.calls = me.calls + 1
    BY <1>0, <2>1 DEF Thread
  <2>3. CallsLeft(n) < CallsLeft(me)
    BY <1>f, <2>1, <2>2, AdminConstants DEF CallsLeft
  <2>4. Stage(n) = 4 /\ Stage(me) = 1
    BY <2>1, <2>2 DEF Stage
  <2> QED BY <1>0, <1>n, <2>3, <2>4, FewerSteps
<1>5. CASE Respond(q) \/ ClosedClient(q) \/ ApiError(q) \/ UnlistedError(q)
  <2>1. PICK a \in {"ok", "raw", "upstream"} :
          n = Ends(me, a) /\ me.pc \in {"between", "call", "flight", "served"}
    BY <1>5, <1>t DEF Respond, ClosedClient, ApiError, UnlistedError, Thinks, me
  <2>2. n.pc = "ended" /\ n.calls = me.calls
    BY <1>0, <2>1 DEF Ends, NewThread, Thread
  <2> QED BY <1>q, <2>1, <2>2 DEF Stage, Working
<1>6. CASE Issue(q)
  <2>1. n = [me EXCEPT !.pc = "flight"] /\ me.pc = "call"
    BY <1>6, <1>t DEF Issue, Thinks, me
  <2>2. n.pc = "flight" /\ n.calls = me.calls /\ n.attempt = me.attempt
    BY <1>0, <2>1 DEF Thread
  <2> QED BY <1>q, <2>1, <2>2 DEF Stage, Working
<1>7. CASE Serve(q)
  <2>1. n = [me EXCEPT !.pc = "served"] /\ me.pc = "flight"
    BY <1>7, <1>t DEF Serve, Thinks, me
  <2>2. n.pc = "served" /\ n.calls = me.calls /\ n.attempt = me.attempt
    BY <1>0, <2>1 DEF Thread
  <2> QED BY <1>q, <2>1, <2>2 DEF Stage, Working
<1>8. CASE Answer(q)
  <2>1. n = [me EXCEPT !.pc = "between", !.answer = "ok", !.cur = NoClient] /\ me.pc = "served"
    BY <1>8, <1>t DEF Answer, Thinks, me
  <2>2. n.pc = "between" /\ n.calls = me.calls
    BY <1>0, <2>1 DEF Thread
  <2> QED BY <1>q, <2>1, <2>2 DEF Stage, Working
<1>9. CASE CheckSize(q)
  <2>1. PICK goal \in {"retry", "reset"} : n = Get(me, goal) /\ me.pc = "size"
    BY <1>9, <1>t DEF CheckSize, Thinks, me
  <2>2. n.pc = "get" /\ n.goal = goal /\ n.calls = me.calls /\ n.attempt = me.attempt
    BY <1>0, <2>1 DEF Get, Thread
  <2> QED BY <1>q, <2>1, <2>2 DEF Stage, Working
<1>10. CASE Close(q)
  <2>1. n = [me EXCEPT !.pc = "clear"] /\ me.pc = "close"
    BY <1>10, <1>t DEF Close, Thinks, me
  <2>2. n.pc = "clear" /\ n.calls = me.calls /\ n.attempt = me.attempt
    BY <1>0, <2>1 DEF Thread
  <2> QED BY <1>q, <2>1, <2>2 DEF Stage, Working
<1>11. CASE Clear(q)
  <2>1. n = Get([me EXCEPT !.victim = NoClient], "retry") /\ me.pc = "clear"
    BY <1>11, <1>t DEF Clear, Thinks, me
  <2>2. n.pc = "get" /\ n.goal = "retry" /\ n.calls = me.calls /\ n.attempt = me.attempt
    BY <1>0, <2>1 DEF Get, Thread
  <2> QED BY <1>q, <2>1, <2>2 DEF Stage, Working
<1>12. CASE ConnectionBreaks(q) \/ ClosedUnderway(q)
  <2>1. n = Failed(me) /\ me.pc \in {"flight", "served"}
    BY <1>12, <1>t DEF ConnectionBreaks, ClosedUnderway, Fails, Thinks, me
  <2>2. CASE LastAttempt(me)
    <3>1. n.pc = "ended" /\ n.calls = me.calls
      BY <1>0, <2>1, <2>2 DEF Failed, Ends, NewThread, Thread
    <3> QED BY <1>q, <2>1, <3>1 DEF Stage, Working
  <2>3. CASE ~LastAttempt(me)
    <3>1. n = [me EXCEPT !.pc = "size", !.attempt = @ + 1, !.cur = NoClient]
      BY <2>1, <2>3 DEF Failed
    <3>2. n.pc = "size" /\ n.calls = me.calls /\ n.attempt = me.attempt + 1
      BY <1>0, <3>1 DEF Thread
    <3>3. CallsLeft(n) = CallsLeft(me) /\ AttemptsLeft(n) < AttemptsLeft(me)
      BY <1>f, <2>1, <3>2, AdminConstants DEF CallsLeft, AttemptsLeft, Working
    <3>4. Stage(me) >= 1
      BY <2>1 DEF Stage
    <3> QED BY <1>0, <1>n, <3>3, <3>4, FewerSteps
  <2> QED BY <2>2, <2>3
<1> QED
  BY <1>1, <1>2, <1>3, <1>4, <1>5, <1>6, <1>7, <1>8, <1>9, <1>10, <1>11, <1>12 DEF Step, Work

\* A thread is never in an endless loop of retries and resets, whatever the
\* other threads close under it: each of its steps leaves it with fewer, a
\* natural number of them, and the steps of others leave it as it is.  A new
\* request has 11 * MaxAttempts * MaxCalls + 4 steps at most.
THEOREM RequestsRunDown ==
    Spec => [][\A q \in Requests :
                 /\ StepsLeft(th[q]) \in Nat
                 /\ th'[q] # th[q] => StepsLeft(th'[q]) < StepsLeft(th[q])]_vars
<1>1. Inv0 /\ [Next]_vars
      => [\A q \in Requests :
            /\ StepsLeft(th[q]) \in Nat
            /\ th'[q] # th[q] => StepsLeft(th'[q]) < StepsLeft(th[q])]_vars
  <2> SUFFICES ASSUME Inv0, Next, NEW q \in Requests
               PROVE  /\ StepsLeft(th[q]) \in Nat
                      /\ th'[q] # th[q] => StepsLeft(th'[q]) < StepsLeft(th[q])
    OBVIOUS
  <2>1. th \in [Requests -> Thread]
    BY DEF Inv0, TypeOK
  <2>2. PICK p \in Requests :
          Step(p)
    BY DEF Next, Step
  <2>3. PICK n \in Thread : th' = [th EXCEPT ![p] = n]
    BY <2>2, StepOfThread DEF Becomes
  <2>4. CASE p = q
    BY <2>1, <2>2, <2>4, RunsDown, LeftFacts
  <2>5. CASE p # q
    BY <2>1, <2>3, <2>5, LeftFacts
  <2> QED BY <2>4, <2>5
<1> QED BY Inv0Init, Inv0Next, <1>1, PTL DEF Spec

=============================================================================
