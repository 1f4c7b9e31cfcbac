------------------------ MODULE ReminderSafetyProofs ------------------------
(***************************************************************************)
(* Proofs of ReminderDispatch's safety properties.  Every step a run takes *)
(* is one of the kinds below; each property has an invariant that every    *)
(* kind of step keeps.                                                     *)
(***************************************************************************)
EXTENDS ReminderDispatchProofs

-----------------------------------------------------------------------------
(* The kinds of step a run takes, from locals me to locals n.               *)

Reading == {"idle", "pages", "zones", "tokens"}

\* What decides which rows are due stays.
SameReads(n, me) ==
    n.rows = me.rows /\ n.zones = me.zones /\ n.start = me.start /\ n.toks = me.toks

\* It starts or reads: the loop begins with every due row, or the run is done.
Reads(me, n) ==
    /\ me.pc \in Reading
    /\ n.pending = {} /\ n.claimed = {} /\ n.todo = {}
    /\ \/ n.pc \in {"pages", "zones", "tokens"} /\ n.why = "none"
       \/ n.pc = "claim" /\ n.why = "none" /\ n.due = DueRows(n)
       \/ n.pc = "ended" /\ n.why = "done" /\ DueRows(n) = {}
    /\ n.pc = "claim" => \A t \in Tokens : n.toks[t] = owner[t]
    /\ UNCHANGED <<ledger, handed, faults>>

\* It claims a row.
Takes(r, me, n) ==
    /\ me.pc = "claim"
    /\ \E row \in me.due :
        /\ Insert(r, Key(row))
        /\ me.attempt > 1 => row = me.item
        /\ n.pending = me.pending \cup Messages(me, row, claims[Key(row)] + 1)
        /\ n.claimed = me.claimed \cup {row}
        /\ n.due = me.due \ {row}
        /\ \E m \in n.pending : m.key = Key(row) /\ m.claim = claims[Key(row)] + 1
    /\ SameReads(n, me)
    /\ n.pc \in {"claim", "send"} /\ n.why = "none"
    /\ UNCHANGED <<handed, faults>>

\* The batch is over; the loop goes on or the run is done.
Finishes(me, n) ==
    /\ n.pending = {} /\ n.claimed = {} /\ n.due = me.due
    /\ SameReads(n, me)
    /\ \/ n.pc = "claim" /\ n.why = "none"
       \/ n.pc = "ended" /\ n.why = "done" /\ n.due = {}

Posts(me, n) ==
    /\ me.pc = "send"
    /\ handed' = handed \cup me.pending
    /\ \/ Finishes(me, n)
       \/ /\ n.pc = "stale" /\ n.why = "none" /\ n.due = me.due
          /\ n.pending = me.pending /\ n.claimed = me.claimed /\ SameReads(n, me)
    /\ UNCHANGED <<ledger, faults>>

Cleans(me, n) ==
    /\ me.pc = "stale"
    /\ \/ Finishes(me, n)
       \/ /\ n.pc = "stale" /\ n.why = "none" /\ n.due = me.due
          /\ n.pending = me.pending /\ n.claimed = me.claimed /\ SameReads(n, me)
    /\ UNCHANGED <<ledger, handed, faults>>

Releases(me, n) ==
    /\ me.pc = "release"
    /\ \E row \in me.claimed :
        Delete(Key(row)) /\ n.claimed = me.claimed \ {row}
    /\ n.pending = me.pending
    /\ \/ n.pc = "release" /\ n.why = "none"
       \/ n.pc = "ended" /\ n.why = "unsent" /\ n.claimed = {}
    /\ UNCHANGED <<handed, faults>>

\* Its locals stay, but for where it is: an exception ends it, or flush()
\* catches one, or a query is retried.
Moves(r, me, n) ==
    /\ SameWork(n, me)
    /\ \/ n.pc = "ended" /\ n.why \notin {"none", "done", "unsent"}
       \/ faults' # 0 /\ n.pc = "release" /\ n.why = "none" /\ me.pc \in {"send", "stale"}
       \/ n.pc = me.pc /\ n.why = "none" /\ me.pc \in Calls
    /\ \/ UNCHANGED <<ledger, handed>>
       \/ me.pc = "send" /\ n.pc \in {"release", "ended"} /\ UNCHANGED ledger
          /\ handed' = handed \cup me.pending
       \/ /\ faults' # 0 /\ me.pc = "release" /\ UNCHANGED handed
          /\ \E row \in me.claimed : Delete(Key(row))
       \/ /\ faults' # 0 /\ me.pc = "claim" /\ UNCHANGED handed
          /\ \E row \in me.due : /\ Insert(r, Key(row))
                                 /\ n.pc = "claim" => n.attempt > 1 /\ n.item = row
    /\ me.attempt > 1 /\ n.pc = "claim" => n.attempt > 1 /\ n.item = me.item
    /\ faults' = 0 => faults = 0

StepKind(r, me, n) ==
    \/ Reads(me, n) \/ Takes(r, me, n) \/ Posts(me, n) \/ Cleans(me, n)
    \/ Releases(me, n) \/ Moves(r, me, n)

\* Every step a run takes is of one of the kinds.
RunStep(r) == Start(r) \/ Work(r) \/ RunFault(r)

LEMMA KindOfStart ==
    ASSUME Inv0, NEW r \in Runs, Start(r)
    PROVE  \E n \in RunState : run' = [run EXCEPT ![r] = n] /\ StepKind(r, run[r], n)
<1>1. PICK n \in RunState :
        /\ run' = [run EXCEPT ![r] = n]
        /\ n.pc = "pages" /\ n.why = "none" /\ n.attempt = 1
        /\ n.due = {} /\ n.pending = {} /\ n.claimed = {} /\ n.todo = {}
  BY StartFacts DEF Inv0
<1>2. Reads(run[r], n)
  BY <1>1 DEF Reads, Reading, Start
<1> QED BY <1>1, <1>2 DEF StepKind

LEMMA KindOfReads ==
    ASSUME Inv0, NEW r \in Runs, FetchPage(r) \/ FetchZones(r) \/ FetchTokens(r)
    PROVE  \E n \in RunState : run' = [run EXCEPT ![r] = n] /\ Reads(run[r], n)
<1> DEFINE me == run[r]
<1>1. TypeOK /\ me \in RunState /\ me.pc \in {"pages", "zones", "tokens"}
  BY DEF Inv0, TypeOK, FetchPage, FetchZones, FetchTokens
<1>2. /\ me.pending = {} /\ me.claimed = {} /\ me.due = {} /\ me.todo = {}
      /\ me.why = "none"
  BY <1>1 DEF Inv0, LocalOK, Local, FreshOK
<1>3. UNCHANGED <<ledger, handed, faults>>
  BY DEF FetchPage, FetchZones, FetchTokens
<1>4. CASE FetchPage(r)
  <2>1. PICK read \in SUBSET {e \in Events : events[e].reminder # NoReminder} :
          \/ run' = [run EXCEPT ![r] = Returned(GotPage(me, read), "pages")]
          \/ run' = [run EXCEPT ![r] = Returned(GotPage(me, read), "zones")]
          \/ /\ run' = [run EXCEPT ![r] = Ended(GotPage(me, read), "done")]
             /\ GotPage(me, read).rows = {}
    BY <1>4 DEF FetchPage
  <2> DEFINE got == GotPage(me, read)
  <2>2. /\ got \in RunState
        /\ got.pending = {} /\ got.claimed = {} /\ got.due = {} /\ got.todo = {}
        /\ got.why = "none" /\ got.pc = me.pc
    BY <1>1, <1>2, <2>1, GotPageFacts
  <2> HIDE DEF got
  <2>3. ASSUME NEW pc \in {"pages", "zones"}
        PROVE  Returned(got, pc) \in RunState /\ Reads(me, Returned(got, pc))
    <3>1. /\ SameWork(Returned(got, pc), got)
          /\ Returned(got, pc).pc = pc
          /\ Returned(got, pc).why = got.why
      BY <2>2, ReturnedFacts DEF Phases
    <3>2. Returned(got, pc) \in RunState
      BY <2>2, LocalsType DEF Phases, Reasons
    <3> QED BY <1>1, <1>3, <2>2, <3>1, <3>2 DEF Reads, Reading, SameWork
  <2>4. ASSUME got.rows = {}
        PROVE  Ended(got, "done") \in RunState /\ Reads(me, Ended(got, "done"))
    <3>1. /\ SameWork(Ended(got, "done"), got)
          /\ Ended(got, "done").pc = "ended" /\ Ended(got, "done").why = "done"
          /\ Ended(got, "done") \in RunState
      BY <2>2, EndedFacts, LocalsType DEF Phases, Reasons
    <3>2. DueRows(Ended(got, "done")) = {}
      BY <2>4, <3>1 DEF DueRows, SameWork
    <3> QED BY <1>1, <1>3, <2>2, <3>1, <3>2 DEF Reads, Reading, SameWork
  <2> QED BY <2>1, <2>3, <2>4 DEF got
<1>5. CASE FetchZones(r)
  <2> DEFINE got == [me EXCEPT !.zones = zone]
  <2>1. got \in RunState
    BY <1>1 DEF RunState, TypeOK
  <2>2. /\ got.pending = {} /\ got.claimed = {} /\ got.due = {} /\ got.todo = {}
        /\ got.why = "none"
    BY <1>1, <1>2 DEF RunState
  <2>3. run' = [run EXCEPT ![r] = Returned(got, "tokens")]
    BY <1>5 DEF FetchZones
  <2> HIDE DEF got
  <2>4. /\ SameWork(Returned(got, "tokens"), got)
        /\ Returned(got, "tokens").pc = "tokens"
        /\ Returned(got, "tokens").why = got.why
        /\ Returned(got, "tokens").attempt = 1
        /\ Returned(got, "tokens") \in RunState
    BY <2>1, ReturnedFacts, LocalsType DEF Phases, Reasons
  <2>5. Reads(me, Returned(got, "tokens"))
    BY <1>1, <1>3, <2>2, <2>4 DEF Reads, Reading, SameWork
  <2> QED BY <2>3, <2>4, <2>5
<1>6. CASE FetchTokens(r)
  <2> DEFINE got == [me EXCEPT !.toks = owner]
             loop == [got EXCEPT !.due = DueRows(got)]
  <2>1. got \in RunState
    BY <1>1 DEF RunState, TypeOK
  <2>2. /\ got.pending = {} /\ got.claimed = {} /\ got.todo = {} /\ got.why = "none"
        /\ got.toks = owner /\ got.attempt = me.attempt
    BY <1>1, <1>2 DEF RunState
  <2>3. DueRows(got) \subseteq Row
    BY <2>1 DEF DueRows, RunState
  <2>4. /\ loop \in RunState
        /\ loop.due = DueRows(got) /\ SameReads(loop, got)
        /\ loop.pending = {} /\ loop.claimed = {} /\ loop.todo = {} /\ loop.why = "none"
    <3> HIDE DEF got
    <3> QED BY <2>1, <2>2, <2>3 DEF RunState, SameReads
  <2>5. run' = [run EXCEPT ![r] = Resume(loop)]
    BY <1>6 DEF FetchTokens
  <2> HIDE DEF loop, got
  <2>6. /\ SameWork(Resume(loop), loop)
        /\ Resume(loop).pc \in {"claim", "send", "ended"}
        /\ Resume(loop).pc = "claim" <=> loop.due # {}
        /\ Resume(loop).pc = "ended" <=> loop.due = {} /\ loop.pending = {}
        /\ Resume(loop).pc = "ended" => Resume(loop).why = "done"
        /\ Resume(loop).pc # "ended" => /\ Resume(loop).why = loop.why
                                        /\ Resume(loop).attempt = 1
        /\ Resume(loop) \in RunState
    BY <2>4, ResumeFacts, LocalsType DEF Phases, Reasons
  <2>7. DueRows(Resume(loop)) = DueRows(got)
    BY <2>4, <2>6 DEF DueRows, SameWork, SameReads
  <2>8. Reads(me, Resume(loop))
    BY <1>1, <1>3, <2>2, <2>4, <2>6, <2>7 DEF Reads, Reading, SameWork, SameReads
  <2> QED BY <2>5, <2>6, <2>8
<1> QED BY <1>4, <1>5, <1>6

LEMMA KindOfClaim ==
    ASSUME Inv0, NEW r \in Runs, Claim(r)
    PROVE  \E n \in RunState : run' = [run EXCEPT ![r] = n] /\ Takes(r, run[r], n)
<1> DEFINE me == run[r]
<1>1. TypeOK /\ ItemsOK /\ me \in RunState /\ Local(me) /\ me.pc = "claim"
  BY DEF Inv0, TypeOK, Claim, LocalOK, Local, ItemsOK
<1>2. PICK row \in Items(r) :
        /\ Insert(r, Key(row))
        /\ run' = [run EXCEPT ![r] = Claimed(me, row, claims[Key(row)] + 1)]
  BY DEF Claim
<1> DEFINE id == claims[Key(row)] + 1
           n == Claimed(me, row, id)
<1>3. row \in me.due /\ row \in Row /\ Key(row) \in Keys
  BY <1>1, ItemsType, KeyType
<1>4. me.attempt > 1 => row = me.item
  BY <1>1 DEF Items
<1>5. id \in Nat
  BY <1>1, <1>3 DEF TypeOK
<1>6. TokensOf(me.toks, Author[row.event]) # {}
  BY <1>1, <1>3 DEF Local, DueOK
<1> HIDE DEF id
<1>7. n \in RunState
  BY <1>1, <1>3, <1>5, ClaimedType
<1>8. /\ n.rows = me.rows /\ n.zones = me.zones /\ n.start = me.start
      /\ n.toks = me.toks
      /\ n.due = me.due \ {row} /\ n.claimed = me.claimed \cup {row}
      /\ n.pending = me.pending \cup Messages(me, row, id)
      /\ n.pc \in {"claim", "send"}
      /\ n.why = me.why /\ n.attempt = 1
      /\ \E m \in n.pending : m.key = Key(row) /\ m.claim = id
  <2>1. me \in RunState /\ row \in Row
    BY <1>1, <1>3
  <2> QED BY <2>1, <1>5, <1>6, ClaimedFacts, SMTT(60)
<1>9. me.why = "none"
  BY <1>1 DEF Local, FreshOK
<1>10. UNCHANGED <<handed, faults>>
  BY DEF Claim
<1> HIDE DEF n
<1>11. /\ Insert(r, Key(row))
       /\ me.attempt > 1 => row = me.item
       /\ n.pending = me.pending \cup Messages(me, row, claims[Key(row)] + 1)
       /\ n.claimed = me.claimed \cup {row}
       /\ n.due = me.due \ {row}
       /\ \E m \in n.pending : m.key = Key(row) /\ m.claim = claims[Key(row)] + 1
  BY <1>2, <1>4, <1>8 DEF id
<1>12. Takes(r, me, n)
  BY <1>1, <1>3, <1>8, <1>9, <1>10, <1>11 DEF Takes, SameReads
<1> QED BY <1>2, <1>7, <1>12 DEF n, id

LEMMA FlushedFinishes ==
    ASSUME NEW me, NEW got \in RunState,
           got.why = "none", got.due = me.due, SameReads(got, me)
    PROVE  Flushed(got) \in RunState /\ Finishes(me, Flushed(got))
<1> DEFINE n == Flushed(got)
<1>1. n \in RunState
  BY LocalsType DEF Phases, Reasons
<1>2. /\ n.rows = got.rows /\ n.zones = got.zones /\ n.start = got.start
      /\ n.toks = got.toks /\ n.due = got.due
      /\ n.pending = {} /\ n.claimed = {}
      /\ n.pc \in {"claim", "ended"}
      /\ n.pc = "claim" <=> got.due # {}
      /\ n.pc = "ended" => n.why = "done"
      /\ n.pc = "claim" => n.why = got.why
  BY FlushedFacts
<1> HIDE DEF n
<1>3. Finishes(me, n)
  BY <1>2 DEF Finishes, SameReads
<1> QED BY <1>1, <1>3 DEF n

LEMMA KindOfSend ==
    ASSUME Inv0, NEW r \in Runs, Send(r)
    PROVE  \E n \in RunState : run' = [run EXCEPT ![r] = n] /\ Posts(run[r], n)
<1> DEFINE me == run[r]
<1>1. me \in RunState /\ me.pc = "send" /\ me.why = "none"
  BY DEF Inv0, TypeOK, Send, LocalOK, Local, FreshOK
<1>2. handed' = handed \cup me.pending /\ UNCHANGED <<ledger, faults>>
  BY DEF Send
<1>3. PICK bad \in SUBSET me.pending :
        run' = [run EXCEPT ![r] = IF bad = {} THEN Flushed(me)
                                  ELSE Returned([me EXCEPT !.todo = bad], "stale")]
  BY DEF Send
<1>4. Flushed(me) \in RunState /\ Posts(me, Flushed(me))
  <2>1. SameReads(me, me)
    BY DEF SameReads
  <2> QED BY <1>1, <1>2, <2>1, FlushedFinishes DEF Posts
<1> DEFINE got == [me EXCEPT !.todo = bad]
           n == Returned(got, "stale")
<1>5. /\ got \in RunState /\ got.why = "none" /\ got.due = me.due
      /\ got.pending = me.pending /\ got.claimed = me.claimed /\ SameReads(got, me)
  <2>1. bad \subseteq Message
    BY <1>1, <1>3 DEF RunState
  <2> QED BY <1>1, <2>1 DEF RunState, SameReads
<1> HIDE DEF got
<1>6. SameWork(n, got) /\ n.pc = "stale" /\ n.why = got.why
  BY <1>5, ReturnedFacts DEF Phases
<1>7. n \in RunState
  BY <1>5, LocalsType DEF Phases, Reasons
<1> HIDE DEF n
<1>8. Posts(me, n)
  BY <1>1, <1>2, <1>5, <1>6 DEF Posts, SameWork, SameReads
<1> QED BY <1>3, <1>4, <1>7, <1>8 DEF got, n

LEMMA KindOfStale ==
    ASSUME Inv0, NEW r \in Runs, DeleteStaleToken(r)
    PROVE  \E n \in RunState : run' = [run EXCEPT ![r] = n] /\ Cleans(run[r], n)
<1> DEFINE me == run[r]
<1>1. me \in RunState /\ me.pc = "stale" /\ me.why = "none"
  BY DEF Inv0, TypeOK, DeleteStaleToken, LocalOK, Local, FreshOK
<1>2. UNCHANGED <<ledger, handed, faults>>
  BY DEF DeleteStaleToken
<1>3. PICK m \in Items(r) :
        run' = [run EXCEPT ![r] =
                     IF [me EXCEPT !.todo = @ \ {m}].todo = {}
                     THEN Flushed([me EXCEPT !.todo = @ \ {m}])
                     ELSE Returned([me EXCEPT !.todo = @ \ {m}], "stale")]
  BY DEF DeleteStaleToken
<1> DEFINE got == [me EXCEPT !.todo = @ \ {m}]
           n == Returned(got, "stale")
<1>4. /\ got \in RunState /\ got.why = "none" /\ got.due = me.due
      /\ got.pending = me.pending /\ got.claimed = me.claimed /\ SameReads(got, me)
  BY <1>1 DEF RunState, SameReads
<1> HIDE DEF got
<1>5. Flushed(got) \in RunState /\ Cleans(me, Flushed(got))
  BY <1>1, <1>2, <1>4, FlushedFinishes DEF Cleans
<1>6. SameWork(n, got) /\ n.pc = "stale" /\ n.why = got.why
  BY <1>4, ReturnedFacts DEF Phases
<1>7. n \in RunState
  BY <1>4, LocalsType DEF Phases, Reasons
<1> HIDE DEF n
<1>8. Cleans(me, n)
  BY <1>1, <1>2, <1>4, <1>6 DEF Cleans, SameWork, SameReads
<1> QED BY <1>3, <1>5, <1>7, <1>8 DEF got, n

LEMMA KindOfRelease ==
    ASSUME Inv0, NEW r \in Runs, Release(r)
    PROVE  \E n \in RunState : run' = [run EXCEPT ![r] = n] /\ Releases(run[r], n)
<1> DEFINE me == run[r]
<1>1. TypeOK /\ ItemsOK /\ me \in RunState /\ me.pc = "release" /\ me.why = "none"
  BY DEF Inv0, TypeOK, Release, LocalOK, Local, FreshOK, ItemsOK
<1>2. UNCHANGED <<handed, faults>>
  BY DEF Release
<1>3. PICK row \in Items(r) :
        /\ Delete(Key(row))
        /\ run' = [run EXCEPT ![r] =
                     IF [me EXCEPT !.claimed = @ \ {row}].claimed = {}
                     THEN Ended([me EXCEPT !.claimed = @ \ {row}], "unsent")
                     ELSE Returned([me EXCEPT !.claimed = @ \ {row}], "release")]
  BY DEF Release
<1> DEFINE got == [me EXCEPT !.claimed = @ \ {row}]
<1>4. row \in me.claimed
  BY <1>1, ItemsType
<1>5. /\ got \in RunState /\ got.why = "none" /\ got.pending = me.pending
      /\ got.claimed = me.claimed \ {row}
  BY <1>1 DEF RunState
<1> HIDE DEF got
<1>6. /\ SameWork(Returned(got, "release"), got)
      /\ Returned(got, "release").pc = "release"
      /\ Returned(got, "release").why = got.why
  BY <1>5, ReturnedFacts DEF Phases
<1>7. Returned(got, "release") \in RunState /\ Ended(got, "unsent") \in RunState
  BY <1>5, LocalsType DEF Phases, Reasons
<1>8. /\ SameWork(Ended(got, "unsent"), got)
      /\ Ended(got, "unsent").pc = "ended" /\ Ended(got, "unsent").why = "unsent"
  BY <1>5, EndedFacts DEF Reasons
<1>9. Releases(me, Returned(got, "release"))
  BY <1>1, <1>2, <1>3, <1>4, <1>5, <1>6 DEF Releases, SameWork
<1>10. got.claimed = {} => Releases(me, Ended(got, "unsent"))
  BY <1>1, <1>2, <1>3, <1>4, <1>5, <1>8 DEF Releases, SameWork
<1> QED BY <1>3, <1>7, <1>9, <1>10 DEF got

\* An exception: it leaves the run, or flush() catches it.
LEMMA MovesRaised ==
    ASSUME Inv0, NEW r \in Runs, run[r].pc \in Calls,
           NEW why \in Reasons \ {"none", "done", "unsent"},
           UNCHANGED <<ledger, handed>>
    PROVE  /\ Ended(run[r], why) \in RunState /\ Upstream(run[r], why) \in RunState
           /\ faults' = faults => Moves(r, run[r], Ended(run[r], why))
           /\ faults' = faults /\ run[r].pc # "stale"
                => Moves(r, run[r], Upstream(run[r], why))
           /\ faults' = faults + 1 => /\ Moves(r, run[r], Ended(run[r], why))
                                      /\ Moves(r, run[r], Upstream(run[r], why))
<1> DEFINE me == run[r]
           e == Ended(me, why)
           u == Upstream(me, why)
<1>1. me \in RunState /\ me.why = "none" /\ faults \in Nat
  BY ConstantsAssumption DEF Inv0, TypeOK, LocalOK, Local, FreshOK, Calls
<1>2. e \in RunState /\ u \in RunState
  BY <1>1, LocalsType DEF Phases
<1>3. SameWork(e, me) /\ e.pc = "ended" /\ e.why = why
  BY <1>1, EndedFacts
<1>4. /\ SameWork(u, me)
      /\ me.pc = "stale" => u.pc = "release" /\ u.why = "none"
      /\ me.pc # "stale" => u.pc = "ended" /\ u.why = why
  BY <1>1, UpstreamFacts
<1> HIDE DEF e, u
<1>5. faults' \in {faults, faults + 1} => Moves(r, me, e)
  BY <1>1, <1>3 DEF Moves
<1>6. faults' = faults /\ me.pc # "stale" => Moves(r, me, u)
  BY <1>1, <1>4 DEF Moves
<1>7. faults' = faults + 1 => Moves(r, me, u)
  BY <1>1, <1>4 DEF Moves
<1> QED BY <1>2, <1>5, <1>6, <1>7 DEF e, u

LEMMA KindOfSendFails ==
    ASSUME Inv0, NEW r \in Runs, SendFails(r)
    PROVE  \E n \in RunState : run' = [run EXCEPT ![r] = n] /\ Moves(r, run[r], n)
<1> DEFINE me == run[r]
           n == Returned(me, "release")
           e == Ended(me, "raw")
<1>1. /\ me \in RunState /\ me.pc = "send" /\ me.why = "none"
      /\ faults \in Nat /\ faults' = faults + 1
  BY ConstantsAssumption DEF Inv0, TypeOK, SendFails, LocalOK, Local, FreshOK, Fault
<1>2. /\ run' = [run EXCEPT ![r] = n] \/ run' = [run EXCEPT ![r] = e]
      /\ UNCHANGED ledger
      /\ handed' = handed \/ handed' = handed \cup me.pending
  BY DEF SendFails
<1>3. /\ SameWork(n, me) /\ n.pc = "release" /\ n.why = me.why
      /\ SameWork(e, me) /\ e.pc = "ended" /\ e.why = "raw"
  BY <1>1, ReturnedFacts, EndedFacts DEF Phases, Reasons
<1>4. n \in RunState /\ e \in RunState
  BY <1>1, LocalsType DEF Phases, Reasons
<1> HIDE DEF n, e
<1>5. Moves(r, me, n) /\ Moves(r, me, e)
  BY <1>1, <1>2, <1>3 DEF Moves
<1> QED BY <1>2, <1>4, <1>5

LEMMA KindOfTransportError ==
    ASSUME Inv0, NEW r \in Runs, TransportError(r)
    PROVE  \E n \in RunState : run' = [run EXCEPT ![r] = n] /\ Moves(r, run[r], n)
<1> DEFINE me == run[r]
           fresh == cached[Process[r]] + 1
<1>1. /\ TypeOK /\ LocalOK /\ ItemsOK /\ me \in RunState /\ me.pc \in Calls
      /\ me.why = "none" /\ faults \in Nat /\ faults' = faults + 1 /\ fresh \in Nat
  BY ConstantsAssumption
  DEF Inv0, TypeOK, TransportError, LocalOK, Local, FreshOK, ItemsOK, Fault, Calls
<1>2. PICK item \in Items(r) :
        /\ \/ item # NoItem /\ Committed(r, item)
           \/ UNCHANGED <<owner, ledger>>
        /\ IF LastAttempt(me) THEN run' = [run EXCEPT ![r] = Upstream(me, "exhausted")]
           ELSE run' = [run EXCEPT ![r] = Retried(me, fresh, item)]
  BY DEF TransportError
<1>3. UNCHANGED handed
  BY DEF TransportError
<1>4. /\ me.pc = "claim" => item \in me.due
      /\ me.pc = "release" => item \in me.claimed
      /\ me.pc \in {"pages", "zones", "tokens"} => item = NoItem
  BY <1>1, ItemsType
<1>5. me.attempt > 1 => item = me.item
  BY <1>1 DEF Items
\* What the attempt had written when the connection was lost.
<1>6. \/ UNCHANGED ledger
      \/ me.pc = "release" /\ item \in me.claimed /\ Delete(Key(item))
      \/ me.pc = "claim" /\ item \in me.due /\ Insert(r, Key(item))
  BY <1>1, <1>2, <1>4 DEF Committed, Calls
<1>7. CASE LastAttempt(me)
  <2> DEFINE n == Upstream(me, "exhausted")
  <2>1. /\ SameWork(n, me) /\ n \in RunState
        /\ me.pc = "stale" => n.pc = "release" /\ n.why = "none"
        /\ me.pc # "stale" => n.pc = "ended" /\ n.why = "exhausted"
    BY <1>1, UpstreamFacts, LocalsType DEF Phases, Reasons
  <2> HIDE DEF n
  <2>2. Moves(r, me, n)
    BY <1>1, <1>3, <1>6, <2>1 DEF Moves
  <2> QED BY <1>2, <1>7, <2>1, <2>2 DEF n
<1>8. CASE ~LastAttempt(me)
  <2> DEFINE n == Retried(me, fresh, item)
  <2> HIDE DEF fresh
  <2>1. /\ SameWork(n, me) /\ n.pc = me.pc /\ n.why = "none"
    BY <1>1, <1>8, RetriedLocal
  <2>2. n.attempt > 1 /\ n.item = item /\ n \in RunState
    <3>1. me.attempt \in 1 .. MaxAttempts /\ me.attempt + 1 \in 1 .. MaxAttempts
      BY <1>1, <1>8, ConstantsAssumption DEF RunState, LastAttempt
    <3>2. item \in Row \cup Message \cup {NoItem}
      BY <1>1, ItemsType
    <3>3. n.attempt = me.attempt + 1 /\ n.item = item /\ n \in RunState
      BY <1>1, <3>1, <3>2 DEF Retried, RunState
    <3> QED BY <3>1, <3>3
  <2> HIDE DEF n
  <2>3. Moves(r, me, n)
    BY <1>1, <1>3, <1>5, <1>6, <2>1, <2>2 DEF Moves
  <2> QED BY <1>2, <1>8, <2>2, <2>3 DEF n
<1> QED BY <1>7, <1>8

LEMMA KindOfStep ==
    ASSUME Inv0, NEW r \in Runs, RunStep(r)
    PROVE  \E n \in RunState : run' = [run EXCEPT ![r] = n] /\ StepKind(r, run[r], n)
<1>1. CASE FetchPage(r) \/ FetchZones(r) \/ FetchTokens(r)
  BY <1>1, KindOfReads DEF StepKind
<1>2. CASE ClaimRefused(r)
  BY <1>2, MovesRaised DEF ClaimRefused, StepKind, Calls, Reasons
<1>3. CASE ClosedClient(r)
  BY <1>3, MovesRaised DEF ClosedClient, StepKind, Reasons
<1>4. CASE ApiError(r)
  BY <1>4, MovesRaised DEF ApiError, Fault, StepKind, Reasons
<1>5. CASE UnlistedError(r)
  BY <1>5, MovesRaised DEF UnlistedError, Fault, StepKind, Reasons
<1> QED BY <1>1, <1>2, <1>3, <1>4, <1>5, KindOfStart, KindOfClaim, KindOfSend,
           KindOfStale, KindOfRelease, KindOfSendFails, KindOfTransportError
        DEF RunStep, Work, RunFault, StepKind

-----------------------------------------------------------------------------
(* The steps of the rest of the system: they leave the ledger and what Expo  *)
(* took alone, and do nothing to a run but crash it.                         *)

Crashed(r) ==
    /\ run[r].pc \notin {"idle", "ended"}
    /\ SameWork(run'[r], run[r])
    /\ run'[r].pc = "ended" /\ run'[r].why = "crashed"

Elsewhere ==
    /\ UNCHANGED <<ledger, handed>>
    /\ \A r \in Runs : run'[r] = run[r] \/ Crashed(r)
    /\ faults' = 0 => faults = 0

LEMMA KindOfElsewhere ==
    ASSUME Inv0,
           \/ Environment
           \/ \E p \in Processes : OtherReset(p) \/ Crash(p)
           \/ UNCHANGED vars
    PROVE  Elsewhere
<1>1. faults \in Nat /\ \A r \in Runs : run[r] \in RunState
  BY ConstantsAssumption DEF Inv0, TypeOK
<1>2. Environment => UNCHANGED <<ledger, handed, run, faults>>
  BY DEF Environment, Tick, EditEvent, SetZone, RegisterToken, UnregisterToken, Edit
<1>3. \A p \in Processes : OtherReset(p) =>
        UNCHANGED <<ledger, handed, run>> /\ faults' = faults + 1
  BY DEF OtherReset, Fault
<1>4. ASSUME NEW p \in Processes, Crash(p) PROVE Elsewhere
  <2>1. UNCHANGED <<ledger, handed>> /\ faults' = faults + 1
    BY <1>4 DEF Crash, Fault
  <2>2. ASSUME NEW r \in Runs PROVE run'[r] = run[r] \/ Crashed(r)
    <3>1. run'[r] = run[r] \/ (Active(r) /\ run'[r] = Ended(run[r], "crashed"))
      BY <1>4 DEF Crash
    <3> QED BY <1>1, <3>1, EndedFacts DEF Crashed, Active, Reasons
  <2> QED BY <1>1, <2>1, <2>2 DEF Elsewhere
<1>5. UNCHANGED vars => UNCHANGED <<ledger, handed, run, faults>>
  BY DEF vars
<1> QED BY <1>1, <1>2, <1>3, <1>4, <1>5 DEF Elsewhere

\* A step of the system is one of a run or one from elsewhere.
LEMMA StepCases ==
    ASSUME Inv0, [Next]_vars
    PROVE  \/ Elsewhere
           \/ \E r \in Runs : \E n \in RunState :
                run' = [run EXCEPT ![r] = n] /\ StepKind(r, run[r], n)
<1>1. CASE \E r \in Runs : RunStep(r)
  BY <1>1, KindOfStep
<1>2. CASE ~ \E r \in Runs : RunStep(r)
  <2>1. \/ Environment
        \/ \E p \in Processes : OtherReset(p) \/ Crash(p)
        \/ UNCHANGED vars
    BY <1>2 DEF Next, RunStep
  <2> QED BY <2>1, KindOfElsewhere
<1> QED BY <1>1, <1>2

-----------------------------------------------------------------------------
(* No message twice.                                                        *)

\* A message carries the id of a row that was inserted under its key.
Numbered ==
    /\ \A m \in handed : m.claim <= claims[m.key]
    /\ \A r \in Runs : \A m \in run[r].pending : m.claim <= claims[m.key]

Inv1 == Numbered /\ NoMessageTwice

LEMMA Inv1Next == Inv0 /\ Inv0' /\ Inv1 /\ [Next]_vars => Inv1'
<1> SUFFICES ASSUME Inv0, Inv0', Inv1, [Next]_vars PROVE Inv1'
  OBVIOUS
<1>0. /\ claims \in [Keys -> Nat] /\ handed \subseteq Message
      /\ \A r \in Runs : run[r].pending \subseteq Message
      /\ \A m \in Message : m.key \in Keys /\ m.claim \in Nat
  BY DEF Inv0, TypeOK, RunState, Message
<1>1. CASE Elsewhere
  <2>1. UNCHANGED <<claims, handed>>
    BY <1>1 DEF Elsewhere, ledger
  <2>2. \A r \in Runs : /\ run'[r].pending = run[r].pending
                        /\ run'[r].pc \in {"claim", "send"} => run'[r] = run[r]
    BY <1>1 DEF Elsewhere, Crashed, SameWork
  <2>3. Numbered'
    BY <2>1, <2>2 DEF Inv1, Numbered
  <2>4. NoMessageTwice'
    BY <2>1, <2>2 DEF Inv1, NoMessageTwice, Unsent
  <2> QED BY <2>3, <2>4 DEF Inv1
<1>2. ASSUME NEW r \in Runs, NEW n \in RunState,
             run' = [run EXCEPT ![r] = n], StepKind(r, run[r], n)
      PROVE  Inv1'
  <2> DEFINE me == run[r]
  <2>1. run'[r] = n /\ \A s \in Runs \ {r} : run'[s] = run[s]
    BY <1>2 DEF Inv0, TypeOK
  \* A batch that does not grow, and is posted at most once.
  <2>2. ASSUME \A k \in Keys : claims'[k] \in Nat /\ claims[k] <= claims'[k],
               \/ handed' = handed
               \/ Unsent(r) /\ handed' = handed \cup me.pending,
               n.pending = {} \/ n.pending = me.pending,
               Unsent(r)' => n.pending = {} \/ (Unsent(r) /\ handed' = handed)
        PROVE  Inv1'
    <3>1. Numbered'
      BY <1>0, <2>1, <2>2 DEF Inv1, Numbered
    <3>2. ASSUME NEW s \in Runs, Unsent(s)'
          PROVE  run'[s].pending \cap handed' = {}
      BY <2>1, <2>2, <3>2 DEF Inv1, NoMessageTwice, Unsent
    <3>3. ASSUME NEW s \in Runs, NEW t \in Runs, s # t, Unsent(s)', Unsent(t)'
          PROVE  run'[s].pending \cap run'[t].pending = {}
      BY <2>1, <2>2, <3>3 DEF Inv1, NoMessageTwice, Unsent
    <3> QED BY <3>1, <3>2, <3>3 DEF Inv1, NoMessageTwice
  <2>3. UNCHANGED claims \/ (\E k \in Keys : claims' = [claims EXCEPT ![k] = claims[k] + 1])
        => \A k \in Keys : claims'[k] \in Nat /\ claims[k] <= claims'[k]
    BY <1>0
  <2>4. \A row \in me.due \cup me.claimed : Key(row) \in Keys
    BY KeyType DEF Inv0, TypeOK, RunState
  <2>5. CASE Reads(me, n)
    BY <2>2, <2>3, <2>5 DEF Reads, ledger
  <2>6. CASE Posts(me, n)
    <3>1. Unsent(r)' => n.pending = {}
      BY <2>1, <2>6 DEF Posts, Finishes, Unsent
    <3> QED BY <2>2, <2>3, <2>6, <3>1 DEF Posts, Finishes, Unsent, ledger
  <2>7. CASE Cleans(me, n)
    <3>1. Unsent(r)' => n.pending = {}
      BY <2>1, <2>7 DEF Cleans, Finishes, Unsent
    <3> QED BY <2>2, <2>3, <2>7, <3>1 DEF Cleans, Finishes, ledger
  <2>8. CASE Releases(me, n)
    <3>1. ~Unsent(r)'
      BY <2>1, <2>8 DEF Releases, Unsent
    <3> QED BY <2>2, <2>3, <2>8, <3>1 DEF Releases, Delete
  <2>9. CASE Moves(r, me, n)
    <3>1. UNCHANGED claims \/ \E k \in Keys : claims' = [claims EXCEPT ![k] = claims[k] + 1]
      BY <2>4, <2>9 DEF Moves, ledger, Delete, Insert
    <3>2. Unsent(r)' => Unsent(r) /\ handed' = handed
      BY <2>1, <2>9 DEF Moves, Unsent
    <3>3. n.pending = me.pending
      BY <2>9 DEF Moves, SameWork
    <3>4. handed' = handed \/ (Unsent(r) /\ handed' = handed \cup me.pending)
      BY <2>9 DEF Moves, Unsent
    <3> QED BY <2>2, <2>3, <3>1, <3>2, <3>3, <3>4
  <2>10. CASE Takes(r, me, n)
    <3>1. PICK row \in me.due :
            /\ Insert(r, Key(row))
            /\ n.pending = me.pending \cup Messages(me, row, claims[Key(row)] + 1)
      BY <2>10 DEF Takes
    <3> DEFINE k == Key(row)
               new == Messages(me, row, claims[k] + 1)
    <3>2. k \in Keys /\ claims' = [claims EXCEPT ![k] = claims[k] + 1]
      BY <2>4, <3>1 DEF Insert
    <3>3. \A m \in new : m.key = k /\ m.claim = claims[k] + 1
      BY DEF Messages
    <3>4. UNCHANGED handed /\ Unsent(r)
      BY <2>10 DEF Takes, Unsent
    <3>5. n.pending = me.pending \cup new
      BY <3>1
    <3> HIDE DEF new, k
    <3>6. \A j \in Keys : claims'[j] \in Nat /\ claims[j] <= claims'[j]
      BY <2>3, <3>2
    <3>7. claims'[k] = claims[k] + 1
      BY <1>0, <3>2
    \* The id is new: no message anywhere carries it.
    <3>8. /\ new \cap handed = {}
          /\ \A s \in Runs : new \cap run[s].pending = {}
      BY <1>0, <3>2, <3>3 DEF Inv1, Numbered
    <3>9. Numbered'
      <4>1. \A m \in handed' : m.claim <= claims'[m.key]
        BY <1>0, <3>4, <3>6 DEF Inv1, Numbered
      <4>2. \A m \in n.pending : m.claim <= claims'[m.key]
        <5>1. \A m \in new : m.claim <= claims'[m.key]
          BY <1>0, <3>2, <3>3, <3>7
        <5>2. \A m \in me.pending : m.claim <= claims'[m.key]
          BY <1>0, <3>6 DEF Inv1, Numbered
        <5> QED BY <3>5, <5>1, <5>2
      <4>3. \A s \in Runs \ {r} : \A m \in run[s].pending : m.claim <= claims'[m.key]
        BY <1>0, <3>6 DEF Inv1, Numbered
      <4> QED BY <2>1, <4>1, <4>2, <4>3 DEF Numbered
    <3>10. ASSUME NEW s \in Runs, Unsent(s)'
           PROVE  run'[s].pending \cap handed' = {}
      BY <2>1, <3>4, <3>5, <3>8, <3>10 DEF Inv1, NoMessageTwice, Unsent
    <3>11. ASSUME NEW s \in Runs, NEW t \in Runs, s # t, Unsent(s)', Unsent(t)'
           PROVE  run'[s].pending \cap run'[t].pending = {}
      BY <2>1, <3>4, <3>5, <3>8, <3>11 DEF Inv1, NoMessageTwice, Unsent
    <3> QED BY <3>9, <3>10, <3>11 DEF Inv1, NoMessageTwice
  <2> QED BY <1>2, <2>5, <2>6, <2>7, <2>8, <2>9, <2>10 DEF StepKind
<1> QED BY <1>1, <1>2, StepCases

\* However runs overlap, fail, retry and release, a delivery row stands for at
\* most one attempt to notify.
THEOREM NoMessageTwiceHolds == Spec => []NoMessageTwice
<1>1. Init => Inv1
  BY DEF Init, Inv1, Numbered, NoMessageTwice, Idle
<1>2. Inv1 => NoMessageTwice
  BY DEF Inv1
<1> QED BY Inv0Init, Inv0Next, Inv1Next, <1>1, <1>2, PTL DEF Spec

-----------------------------------------------------------------------------
(* No orphan behind a settled run.                                          *)

\* Why the row of key k that run r made is not, or will not be, an orphan:
\* Expo has a message for it; a retry is about to meet it, and to fail; its
\* message is in the batch; flush() is about to delete it; or the run died.
Told(k)       == \E m \in handed : m.key = k /\ m.claim = deliveries[k]
Retrying(r,k) == run[r].pc = "claim" /\ run[r].attempt > 1 /\ Key(run[r].item) = k
Batching(r,k) == /\ Unsent(r)
                 /\ \E row \in run[r].claimed : Key(row) = k
                 /\ \E m \in run[r].pending : m.key = k /\ m.claim = deliveries[k]
Undoing(r,k)  == run[r].pc = "release" /\ \E row \in run[r].claimed : Key(row) = k
Dead(r)       == run[r].pc = "ended" /\ run[r].why \notin {"done", "unsent"}

Accounted ==
    \A k \in Keys : \A r \in Runs : deliveries[k] # 0 /\ maker[k] = r =>
        Told(k) \/ Retrying(r, k) \/ Batching(r, k) \/ Undoing(r, k) \/ Dead(r)

LEMMA AccountedNext == Inv0 /\ Inv0' /\ Accounted /\ [Next]_vars => Accounted'
<1> SUFFICES ASSUME Inv0, Inv0', Accounted, [Next]_vars,
                    NEW k \in Keys, NEW q \in Runs, deliveries'[k] # 0, maker'[k] = q
             PROVE  \/ Told(k)' \/ Retrying(q, k)' \/ Batching(q, k)'
                    \/ Undoing(q, k)' \/ Dead(q)'
  BY DEF Accounted
<1>0. /\ claims \in [Keys -> Nat] /\ deliveries \in [Keys -> Nat]
      /\ maker \in [Keys -> Runs \cup {NoItem}]
      /\ \A r \in Runs : run[r] \in RunState /\ run[r].due \subseteq Row
                         /\ run[r].claimed \subseteq Row
  BY DEF Inv0, TypeOK, RunState
\* A row that was there before was accounted for.
<1>1. ASSUME deliveries'[k] = deliveries[k], maker'[k] = maker[k]
      PROVE  Told(k) \/ Retrying(q, k) \/ Batching(q, k) \/ Undoing(q, k) \/ Dead(q)
  BY <1>1 DEF Accounted
<1>2. ASSUME deliveries'[k] = deliveries[k], handed \subseteq handed', Told(k)
      PROVE  Told(k)'
  BY <1>2 DEF Told
<1>3. CASE Elsewhere
  <2>1. deliveries'[k] = deliveries[k] /\ maker'[k] = maker[k] /\ handed' = handed
    BY <1>3 DEF Elsewhere, ledger
  <2>2. CASE run'[q] = run[q]
    BY <1>1, <1>2, <2>1, <2>2 DEF Retrying, Batching, Undoing, Dead, Unsent
  <2>3. CASE Crashed(q)
    BY <2>3 DEF Crashed, Dead
  <2> QED BY <1>3, <2>2, <2>3 DEF Elsewhere
<1>4. ASSUME NEW r \in Runs, NEW n \in RunState,
             run' = [run EXCEPT ![r] = n], StepKind(r, run[r], n)
      PROVE  Told(k)' \/ Retrying(q, k)' \/ Batching(q, k)' \/ Undoing(q, k)' \/ Dead(q)'
  <2> DEFINE me == run[r]
  <2>1. run'[r] = n /\ \A s \in Runs \ {r} : run'[s] = run[s]
    BY <1>4 DEF Inv0, TypeOK
  <2>2. handed \subseteq handed'
    BY <1>4 DEF StepKind, Reads, Takes, Posts, Cleans, Releases, Moves
  \* Another run's step either leaves the row or replaces it by its own.
  <2>3. ASSUME deliveries'[k] = deliveries[k], maker'[k] = maker[k], q # r
        PROVE  Told(k)' \/ Retrying(q, k)' \/ Batching(q, k)' \/ Undoing(q, k)' \/ Dead(q)'
    <3>1. run'[q] = run[q]
      BY <2>1, <2>3
    <3> QED BY <1>1, <1>2, <2>2, <2>3, <3>1 DEF Retrying, Batching, Undoing, Dead, Unsent
  <2>4. ASSUME NEW row \in me.due \cup me.claimed,
               Insert(r, Key(row)) \/ Delete(Key(row))
        PROVE  \/ deliveries'[k] = deliveries[k] /\ maker'[k] = maker[k] /\ Key(row) # k
               \/ Key(row) = k /\ Insert(r, k) /\ q = r /\ deliveries'[k] = claims[k] + 1
    <3>1. Key(row) \in Keys
      BY <1>0, KeyType
    <3>2. CASE Key(row) # k
      BY <1>0, <2>4, <3>1, <3>2 DEF Insert, Delete
    <3>3. CASE Key(row) = k
      BY <1>0, <2>4, <3>1, <3>3 DEF Insert, Delete
    <3> QED BY <3>2, <3>3
  <2>5. UNCHANGED ledger => deliveries'[k] = deliveries[k] /\ maker'[k] = maker[k]
    BY DEF ledger
  <2>6. CASE Reads(me, n)
    <3>1. ~Retrying(r, k) /\ ~Batching(r, k) /\ ~Undoing(r, k) /\ ~Dead(r)
      BY <2>6 DEF Reads, Reading, Retrying, Batching, Undoing, Dead, Unsent
    <3>2. UNCHANGED ledger
      BY <2>6 DEF Reads
    <3> QED BY <1>1, <1>2, <2>2, <2>3, <2>5, <3>1, <3>2
  <2>7. CASE Takes(r, me, n)
    <3>1. PICK row \in me.due :
            /\ Insert(r, Key(row))
            /\ me.attempt > 1 => row = me.item
            /\ n.claimed = me.claimed \cup {row}
            /\ n.pending = me.pending \cup Messages(me, row, claims[Key(row)] + 1)
            /\ \E m \in n.pending : m.key = Key(row) /\ m.claim = claims[Key(row)] + 1
      BY <2>7 DEF Takes
    <3>2. me.pc = "claim" /\ n.pc \in {"claim", "send"}
      BY <2>7 DEF Takes
    <3>3. CASE Key(row) = k
      <4>1. q = r /\ deliveries'[k] = claims[k] + 1
        BY <2>4, <3>1, <3>3
      <4>2. Batching(r, k)'
        BY <2>1, <3>1, <3>2, <3>3, <4>1 DEF Batching, Unsent
      <4> QED BY <4>1, <4>2
    <3>4. CASE Key(row) # k
      <4>1. deliveries'[k] = deliveries[k] /\ maker'[k] = maker[k]
        BY <2>4, <3>1, <3>4
      <4>2. ~Retrying(r, k) /\ ~Undoing(r, k) /\ ~Dead(r)
        BY <3>1, <3>2, <3>4 DEF Retrying, Undoing, Dead
      <4>3. Batching(r, k) => Batching(r, k)'
        BY <2>1, <3>1, <3>2, <4>1 DEF Batching, Unsent
      <4> QED BY <1>1, <1>2, <2>2, <2>3, <4>1, <4>2, <4>3
    <3> QED BY <3>3, <3>4
  <2>8. CASE Posts(me, n)
    <3>1. UNCHANGED ledger /\ handed' = handed \cup me.pending /\ me.pc = "send"
      BY <2>8 DEF Posts
    <3>2. deliveries'[k] = deliveries[k] /\ maker'[k] = maker[k]
      BY <2>5, <3>1
    <3>3. ~Retrying(r, k) /\ ~Undoing(r, k) /\ ~Dead(r)
      BY <3>1 DEF Retrying, Undoing, Dead
    <3>4. Batching(r, k) => Told(k)'
      BY <3>1, <3>2 DEF Batching, Told
    <3> QED BY <1>1, <1>2, <2>2, <2>3, <3>2, <3>3, <3>4
  <2>9. CASE Cleans(me, n)
    <3>1. UNCHANGED ledger /\ me.pc = "stale"
      BY <2>9 DEF Cleans
    <3>2. ~Retrying(r, k) /\ ~Batching(r, k) /\ ~Undoing(r, k) /\ ~Dead(r)
      BY <3>1 DEF Retrying, Batching, Undoing, Dead, Unsent
    <3> QED BY <1>1, <1>2, <2>2, <2>3, <2>5, <3>1, <3>2
  <2>10. CASE Releases(me, n)
    <3>1. PICK row \in me.claimed : Delete(Key(row)) /\ n.claimed = me.claimed \ {row}
      BY <2>10 DEF Releases
    <3>2. /\ me.pc = "release"
          /\ n.pc = "release" \/ n.claimed = {}
      BY <2>10 DEF Releases
    <3>3. /\ deliveries'[k] = deliveries[k] /\ maker'[k] = maker[k]
          /\ Key(row) # k
      BY <1>0, <2>4, <3>1 DEF Delete
    <3>4. ~Retrying(r, k) /\ ~Batching(r, k) /\ ~Dead(r)
      BY <3>2 DEF Retrying, Batching, Dead, Unsent
    <3>5. Undoing(r, k) => Undoing(r, k)'
      BY <2>1, <3>1, <3>2, <3>3 DEF Undoing
    <3> QED BY <1>1, <1>2, <2>2, <2>3, <3>3, <3>4, <3>5
  <2>11. CASE Moves(r, me, n)
    <3>1. SameWork(n, me)
      BY <2>11 DEF Moves
    <3>2. CASE n.pc = "ended"
      <4>1. Dead(r)'
        BY <2>1, <2>11, <3>2 DEF Moves, Dead
      <4>2. q # r => deliveries'[k] = deliveries[k] /\ maker'[k] = maker[k]
        BY <2>4, <2>5, <2>11 DEF Moves
      <4> QED BY <2>3, <4>1, <4>2
    <3>3. CASE n.pc # "ended"
      <4>1. ~Dead(r)
        BY <2>11, <3>3 DEF Moves, Dead, Calls
      <4>2. ASSUME NEW row \in me.due, Insert(r, Key(row)), me.pc = "claim",
                   n.pc = "claim" => n.attempt > 1 /\ n.item = row
            PROVE  Told(k)' \/ Retrying(q, k)' \/ Batching(q, k)'
                   \/ Undoing(q, k)' \/ Dead(q)'
        <5>1. n.pc = "claim"
          BY <2>11, <3>3, <4>2 DEF Moves
        <5>2. CASE Key(row) = k
          BY <2>1, <2>4, <4>2, <5>1, <5>2 DEF Retrying
        <5>3. CASE Key(row) # k
          <6>1. deliveries'[k] = deliveries[k] /\ maker'[k] = maker[k]
            BY <2>4, <4>2, <5>3
          <6>2. Retrying(r, k) => Retrying(r, k)'
            BY <2>1, <2>11, <5>1 DEF Retrying, Moves
          <6>3. Batching(r, k) => Batching(r, k)'
            BY <2>1, <3>1, <4>2, <5>1, <6>1 DEF Batching, Unsent, SameWork
          <6>4. ~Undoing(r, k)
            BY <4>2 DEF Undoing
          <6> QED BY <1>1, <1>2, <2>2, <2>3, <4>1, <6>1, <6>2, <6>3, <6>4
        <5> QED BY <5>2, <5>3
      <4>3. ASSUME UNCHANGED ledger \/ \E row \in me.claimed : Delete(Key(row))
            PROVE  Told(k)' \/ Retrying(q, k)' \/ Batching(q, k)'
                   \/ Undoing(q, k)' \/ Dead(q)'
        <5>1. deliveries'[k] = deliveries[k] /\ maker'[k] = maker[k]
          BY <1>0, <2>4, <2>5, <4>3 DEF Delete
        <5>2. Retrying(r, k) => Retrying(r, k)'
          BY <2>1, <2>11, <3>3 DEF Retrying, Moves
        <5>3. Batching(r, k) => Batching(r, k)' \/ Undoing(r, k)'
          BY <2>1, <2>11, <3>1, <3>3, <5>1 DEF Batching, Undoing, Unsent, SameWork, Moves
        <5>4. Undoing(r, k) => Undoing(r, k)'
          BY <2>1, <2>11, <3>1, <3>3 DEF Undoing, SameWork, Moves
        <5> QED BY <1>1, <1>2, <2>2, <2>3, <4>1, <5>1, <5>2, <5>3, <5>4
      <4> QED BY <2>11, <4>2, <4>3 DEF Moves
    <3> QED BY <3>2, <3>3
  <2> QED BY <1>4, <2>6, <2>7, <2>8, <2>9, <2>10, <2>11 DEF StepKind
<1> QED BY <1>3, <1>4, StepCases

\* A run that returned normally, or released its batch and re-raised, leaves no
\* row of its own that Expo never got a message for.
THEOREM NoOrphanBehindSettledRuns == Spec => []SettledRunsLeaveNoOrphan
<1>1. Init => Accounted
  BY DEF Init, Accounted
<1>2. Accounted /\ Inv0 => SettledRunsLeaveNoOrphan
  <2> SUFFICES ASSUME Accounted, Inv0, NEW k \in Keys, NEW r \in Runs,
                      deliveries[k] # 0, maker[k] = r, run[r].why \in {"done", "unsent"}
               PROVE  Told(k)
    BY DEF SettledRunsLeaveNoOrphan, Told
  <2>1. run[r].pc = "ended"
    BY DEF Inv0, LocalOK, Local, FreshOK
  <2> QED BY <2>1 DEF Accounted, Retrying, Batching, Undoing, Dead, Unsent
<1> QED BY Inv0Init, Inv0Next, AccountedNext, <1>1, <1>2, PTL DEF Spec

-----------------------------------------------------------------------------
(* A run that returned normally was complete.                               *)

\* The rows a run read as due and has walked: each device of the author has a
\* message among those in `sent`.
Served(me, row, sent) ==
    \A t \in TokensOf(me.toks, Author[row.event]) :
        \E m \in sent : m.key = Key(row) /\ m.to = t

\* From the loop on, a due row is still to be walked, or served by Expo's
\* messages and the batch; after the post, by Expo's alone.
Complete(me, sent) ==
    /\ me.pc \in {"claim", "send", "stale"} =>
         \A row \in DueRows(me) : row \in me.due \/ Served(me, row, sent \cup me.pending)
    /\ me.pc = "stale" => me.pending \subseteq sent
    /\ me.why = "done" => \A row \in DueRows(me) : Served(me, row, sent)

AllComplete == \A r \in Runs : Complete(run[r], handed)

LEMMA ServedMore ==
    ASSUME NEW me, NEW n, NEW row, NEW sent, NEW more,
           SameReads(n, me), sent \subseteq more, Served(me, row, sent)
    PROVE  Served(n, row, more)
BY DEF Served, SameReads

LEMMA SameDue ==
    ASSUME NEW me, NEW n, SameReads(n, me)
    PROVE  DueRows(n) = DueRows(me)
BY DEF DueRows, SameReads

\* The batch is over and all of it was handed.
LEMMA FinishesComplete ==
    ASSUME NEW me, NEW n, Finishes(me, n), handed \subseteq handed',
           me.pending \subseteq handed',
           \A row \in DueRows(me) : row \in me.due \/ Served(me, row, handed \cup me.pending)
    PROVE  Complete(n, handed')
<1>1. SameReads(n, me) /\ n.pending = {} /\ n.due = me.due
  BY DEF Finishes
<1>2. DueRows(n) = DueRows(me) /\ handed \cup me.pending \subseteq handed'
  BY <1>1, SameDue
<1>3. \A row \in DueRows(n) : row \in n.due \/ Served(n, row, handed')
  BY <1>1, <1>2, ServedMore
<1>4. \A row \in DueRows(n) : Served(n, row, handed') =>
        Served(n, row, handed' \cup n.pending)
  BY DEF Served
<1>5. n.pc # "stale" /\ (n.why = "done" => n.due = {})
  BY DEF Finishes
<1> QED BY <1>3, <1>4, <1>5 DEF Complete

LEMMA CompleteNext == Inv0 /\ Inv0' /\ AllComplete /\ [Next]_vars => AllComplete'
<1> SUFFICES ASSUME Inv0, Inv0', AllComplete, [Next]_vars PROVE AllComplete'
  OBVIOUS
\* What Expo took it keeps, and what a run read it keeps.
<1>1. ASSUME NEW me, NEW n, Complete(me, handed), handed \subseteq handed', SameReads(n, me),
             n.due = me.due, n.pending = me.pending, n.pc = me.pc, n.why = me.why
      PROVE  Complete(n, handed')
  <2>1. DueRows(n) = DueRows(me)
    BY <1>1, SameDue
  <2>2. \A row : Served(me, row, handed) => Served(n, row, handed')
    BY <1>1, ServedMore
  <2>3. \A row : Served(me, row, handed \cup me.pending) =>
                 Served(n, row, handed' \cup n.pending)
    BY <1>1, ServedMore
  <2> QED BY <1>1, <2>1, <2>2, <2>3 DEF Complete
<1>2. CASE Elsewhere
  <2>1. UNCHANGED handed
    BY <1>2 DEF Elsewhere
  <2>2. ASSUME NEW r \in Runs PROVE Complete(run'[r], handed')
    <3>1. CASE run'[r] = run[r]
      BY <1>1, <2>1, <3>1 DEF AllComplete, SameReads
    <3>2. CASE Crashed(r)
      BY <3>2 DEF Crashed, Complete
    <3> QED BY <1>2, <3>1, <3>2 DEF Elsewhere
  <2> QED BY <2>2 DEF AllComplete, Complete
<1>3. ASSUME NEW r \in Runs, NEW n \in RunState,
             run' = [run EXCEPT ![r] = n], StepKind(r, run[r], n)
      PROVE  AllComplete'
  <2> DEFINE me == run[r]
  <2>1. run'[r] = n /\ \A s \in Runs \ {r} : run'[s] = run[s]
    BY <1>3 DEF Inv0, TypeOK
  <2>2. handed \subseteq handed'
    BY <1>3 DEF StepKind, Reads, Takes, Posts, Cleans, Releases, Moves
  <2>3. SUFFICES Complete(n, handed')
    <3>1. \A s \in Runs \ {r} : Complete(run[s], handed')
      BY <1>1, <2>2 DEF AllComplete, SameReads
    <3> QED BY <2>1, <2>3, <3>1 DEF AllComplete, Complete
  <2>4. Complete(me, handed) /\ me.why \in Reasons
    BY DEF AllComplete, Inv0, TypeOK, RunState
  <2>5. CASE Reads(me, n)
    BY <2>5 DEF Reads, Complete, DueRows
  <2>6. CASE Takes(r, me, n)
    <3>1. PICK row \in me.due :
            /\ n.due = me.due \ {row}
            /\ n.pending = me.pending \cup Messages(me, row, claims[Key(row)] + 1)
      BY <2>6 DEF Takes
    <3>2. SameReads(n, me) /\ n.pc \in {"claim", "send"} /\ n.why = "none" /\ me.pc = "claim"
      BY <2>6 DEF Takes
    <3>3. DueRows(n) = DueRows(me)
      BY <3>2, SameDue
    <3>4. Served(n, row, handed' \cup n.pending)
      <4>1. \A t \in TokensOf(me.toks, Author[row.event]) :
              \E m \in Messages(me, row, claims[Key(row)] + 1) : m.key = Key(row) /\ m.to = t
        <5>1. TAKE t \in TokensOf(me.toks, Author[row.event])
        <5> DEFINE m == [key |-> Key(row), claim |-> claims[Key(row)] + 1, to |-> t]
        <5>2. m \in Messages(me, row, claims[Key(row)] + 1)
          BY DEF Messages
        <5> QED BY <5>2
      <4> QED BY <3>1, <3>2, <4>1 DEF Served, SameReads
    <3>5. handed \cup me.pending \subseteq handed' \cup n.pending
      BY <2>2, <3>1
    <3>6. \A other \in DueRows(me) : Served(me, other, handed \cup me.pending)
             => Served(n, other, handed' \cup n.pending)
      BY <3>2, <3>5, ServedMore
    <3>7. \A other \in DueRows(n) : other \in n.due \/ Served(n, other, handed' \cup n.pending)
      BY <2>4, <3>1, <3>2, <3>3, <3>4, <3>6 DEF Complete
    <3> QED BY <3>2, <3>7 DEF Complete
  <2>7. CASE Posts(me, n)
    <3>1. /\ me.pending \subseteq handed'
          /\ \A row \in DueRows(me) : row \in me.due \/ Served(me, row, handed \cup me.pending)
      BY <2>4, <2>7 DEF Posts, Complete
    <3>2. CASE Finishes(me, n)
      BY <2>2, <3>1, <3>2, FinishesComplete
    <3>3. CASE ~Finishes(me, n)
      <4>1. /\ n.pc = "stale" /\ n.why = "none" /\ n.due = me.due
            /\ n.pending = me.pending /\ SameReads(n, me)
        BY <2>7, <3>3 DEF Posts
      <4>2. DueRows(n) = DueRows(me)
        BY <4>1, SameDue
      <4>3. \A row : Served(me, row, handed \cup me.pending) =>
                     Served(n, row, handed' \cup n.pending)
        BY <2>2, <4>1, ServedMore
      <4> QED BY <3>1, <4>1, <4>2, <4>3 DEF Complete
    <3> QED BY <3>2, <3>3
  <2>8. CASE Cleans(me, n)
    <3>1. /\ me.pending \subseteq handed /\ me.pc = "stale"
          /\ \A row \in DueRows(me) : row \in me.due \/ Served(me, row, handed \cup me.pending)
      BY <2>4, <2>8 DEF Cleans, Complete
    <3>2. CASE Finishes(me, n)
      BY <2>2, <3>1, <3>2, FinishesComplete
    <3>3. CASE ~Finishes(me, n)
      <4>1. /\ n.pc = "stale" /\ n.why = "none" /\ n.due = me.due
            /\ n.pending = me.pending /\ SameReads(n, me)
        BY <2>8, <3>3 DEF Cleans
      <4>2. me.why = "none"
        BY <3>1 DEF Inv0, LocalOK, Local, FreshOK
      <4> QED BY <1>1, <2>2, <2>4, <3>1, <4>1, <4>2
    <3> QED BY <3>2, <3>3
  <2>9. CASE Releases(me, n)
    BY <2>9 DEF Releases, Complete
  <2>10. CASE Moves(r, me, n)
    <3>1. SameReads(n, me) /\ n.due = me.due /\ n.pending = me.pending
      BY <2>10 DEF Moves, SameWork, SameReads
    <3>2. CASE n.pc = me.pc /\ n.why = "none" /\ me.pc \in Calls
      <4>1. me.why = "none"
        BY <3>2 DEF Inv0, LocalOK, Local, FreshOK, Calls
      <4> QED BY <1>1, <2>2, <2>4, <3>1, <3>2, <4>1
    <3>3. CASE ~(n.pc = me.pc /\ n.why = "none" /\ me.pc \in Calls)
      BY <2>10, <3>3 DEF Moves, Complete
    <3> QED BY <3>2, <3>3
  <2> QED BY <1>3, <2>5, <2>6, <2>7, <2>8, <2>9, <2>10 DEF StepKind
<1> QED BY <1>2, <1>3, StepCases

\* A run that returned normally had Expo take a message for every event it
\* read as due and every device it read of the event's author.
THEOREM DoneRunsAreComplete == Spec => []DoneRunsHandedEverything
<1>1. Init => AllComplete
  <2>1. Complete(Idle, handed)
    BY DEF Complete, Idle
  <2> QED BY <2>1 DEF Init, AllComplete
<1>2. AllComplete => DoneRunsHandedEverything
  BY DEF AllComplete, Complete, Served, DoneRunsHandedEverything
<1> QED BY Inv0Init, Inv0Next, CompleteNext, <1>1, <1>2, PTL DEF Spec

\* No reminder that was read falls between two calls that are at most a window
\* apart, the first of which returned normally.
THEOREM NoGapHolds == Spec => []NoGapBetweenCalls
<1>1. Inv0 /\ DoneRunsHandedEverything => NoGapBetweenCalls
  <2> SUFFICES ASSUME Inv0, DoneRunsHandedEverything, NEW r \in Runs, NEW s \in Runs,
                      run[r].why = "done", run[s].start <= run[r].start + Window,
                      NEW row \in run[r].rows, row.at # None,
                      RemindAt(row, run[r].zones) \in run[r].start .. run[s].start - 1,
                      NEW t \in TokensOf(run[r].toks, Author[row.event])
               PROVE  \E m \in handed : m.key = Key(row) /\ m.to = t
    BY DEF NoGapBetweenCalls
  <2>1. run[r].start \in Nat /\ run[s].start \in Nat /\ Window \in Nat
    BY ConstantsAssumption DEF Inv0, TypeOK, RunState
  <2>2. ReminderIsDue(RemindAt(row, run[r].zones), run[r].start, Window)
    BY <2>1, NoneFallsBetween
  <2>3. row \in DueRows(run[r])
    BY <2>2 DEF DueRows
  <2> QED BY <2>3 DEF DoneRunsHandedEverything
<1> QED BY Inv0Init, Inv0Next, DoneRunsAreComplete, <1>1, PTL DEF Spec

-----------------------------------------------------------------------------
(* Once, if nothing fails.                                                  *)

\* Without faults no row is ever deleted, so that a key has one row at most,
\* and no batch is released.
Faultless ==
    /\ \A k \in Keys : deliveries[k] = claims[k] /\ claims[k] <= 1
    /\ \A r \in Runs : run[r].pc # "release"

Positive ==
    /\ \A m \in handed : m.claim >= 1
    /\ \A r \in Runs : \A m \in run[r].pending : m.claim >= 1

Inv2 == Positive /\ (faults = 0 => Faultless)

LEMMA Inv2Next == Inv0 /\ Inv0' /\ Inv2 /\ [Next]_vars => Inv2'
<1> SUFFICES ASSUME Inv0, Inv0', Inv2, [Next]_vars PROVE Inv2'
  OBVIOUS
<1>0. /\ claims \in [Keys -> Nat] /\ deliveries \in [Keys -> Nat]
      /\ \A r \in Runs : run[r].due \subseteq Row
  BY DEF Inv0, TypeOK, RunState
<1>1. CASE Elsewhere
  <2>1. UNCHANGED <<claims, deliveries, handed>> /\ (faults' = 0 => faults = 0)
    BY <1>1 DEF Elsewhere, ledger
  <2>2. \A r \in Runs : /\ run'[r].pending = run[r].pending
                        /\ run'[r].pc = "release" => run[r].pc = "release"
    BY <1>1 DEF Elsewhere, Crashed, SameWork
  <2> QED BY <2>1, <2>2 DEF Inv2, Positive, Faultless
<1>2. ASSUME NEW r \in Runs, NEW n \in RunState,
             run' = [run EXCEPT ![r] = n], StepKind(r, run[r], n)
      PROVE  Inv2'
  <2> DEFINE me == run[r]
  <2>1. run'[r] = n /\ \A s \in Runs \ {r} : run'[s] = run[s]
    BY <1>2 DEF Inv0, TypeOK
  <2>2. \A row \in me.due : Key(row) \in Keys
    BY <1>0, KeyType
  <2>3. Positive'
    <3>1. \A m \in n.pending : m.claim >= 1
      <4>1. CASE Takes(r, me, n)
        <5>1. PICK row \in me.due :
                n.pending = me.pending \cup Messages(me, row, claims[Key(row)] + 1)
          BY <4>1 DEF Takes
        <5>2. claims[Key(row)] + 1 >= 1
          BY <1>0, <2>2
        <5>3. \A m \in Messages(me, row, claims[Key(row)] + 1) : m.claim >= 1
          BY <5>2 DEF Messages
        <5> QED BY <5>1, <5>3 DEF Inv2, Positive
      <4>2. CASE ~Takes(r, me, n)
        <5>1. n.pending = {} \/ n.pending = me.pending
          BY <1>2, <4>2 DEF StepKind, Reads, Posts, Cleans, Finishes, Releases, Moves, SameWork
        <5> QED BY <5>1 DEF Inv2, Positive
      <4> QED BY <4>1, <4>2
    <3>2. handed' = handed \/ handed' = handed \cup me.pending
      BY <1>2 DEF StepKind, Reads, Takes, Posts, Cleans, Releases, Moves
    <3> QED BY <2>1, <3>1, <3>2 DEF Inv2, Positive
  <2>4. ASSUME faults' = 0 PROVE Faultless'
    <3>1. faults = 0
      BY <1>2, <2>4 DEF StepKind, Reads, Takes, Posts, Cleans, Releases, Moves
    <3>2. Faultless
      BY <3>1 DEF Inv2
    <3>3. n.pc # "release"
      BY <1>2, <2>4, <3>2
      DEF Faultless, StepKind, Reads, Takes, Posts, Cleans, Finishes, Releases, Moves, Calls
    <3>4. UNCHANGED ledger \/ \E k \in Keys : Insert(r, k)
      <4>1. ~Releases(me, n)
        BY <3>2 DEF Faultless, Releases
      <4>2. CASE Takes(r, me, n)
        BY <2>2, <4>2 DEF Takes
      <4>3. CASE ~Takes(r, me, n)
        BY <1>2, <2>4, <4>1, <4>3 DEF StepKind, Reads, Posts, Cleans, Moves
      <4> QED BY <4>2, <4>3
    <3>5. \A k \in Keys : deliveries'[k] = claims'[k] /\ claims'[k] <= 1
      BY <1>0, <3>2, <3>4 DEF Faultless, Insert, ledger
    <3> QED BY <2>1, <3>2, <3>3, <3>5 DEF Faultless
  <2> QED BY <2>3, <2>4 DEF Inv2
<1> QED BY <1>1, <1>2, StepCases

\* As long as nothing fails, however many runs overlap and whatever is edited
\* meanwhile, a device gets a reminder at most once.
THEOREM OnceIfNothingFails == Spec => []OnceWithoutFaults
<1>1. Init => Inv1 /\ Inv2
  BY DEF Init, Inv1, Numbered, NoMessageTwice, Inv2, Positive, Faultless, Idle
<1>2. Inv0 /\ Inv1 /\ Inv2 => OnceWithoutFaults
  <2> SUFFICES ASSUME Inv0, Inv1, Inv2, faults = 0, NEW m \in handed, NEW n \in handed,
                      m.key = n.key, m.to = n.to
               PROVE  m = n
    BY DEF OnceWithoutFaults
  <2>1. m \in Message /\ n \in Message
    BY DEF Inv0, TypeOK
  <2>2. m.key \in Keys /\ m.claim \in Nat /\ n.claim \in Nat
    BY <2>1 DEF Message
  <2>3. claims[m.key] <= 1 /\ claims[m.key] \in Nat
    BY <2>2 DEF Inv0, TypeOK, Inv2, Faultless
  <2>4. m.claim = 1 /\ n.claim = 1
    BY <2>2, <2>3 DEF Inv1, Numbered, Inv2, Positive
  <2> QED BY <2>1, <2>4 DEF Message
<1> QED BY Inv0Init, Inv0Next, Inv1Next, Inv2Next, <1>1, <1>2, PTL DEF Spec

-----------------------------------------------------------------------------
(* Only the author's own devices.                                           *)

\* While a run goes on it sees every registration; the tokens it read and the
\* messages it made are of registrations it saw.
Seen(r) ==
    /\ Active(r) => \A t \in Tokens : owner[t] # NoUser => <<t, owner[t]>> \in seen[r]
    /\ run[r].pc \in {"claim", "send", "stale"} =>
         \A t \in Tokens : run[r].toks[t] # NoUser => <<t, run[r].toks[t]>> \in seen[r]
    /\ \A m \in run[r].pending : <<m.to, Author[m.key[1]]>> \in seen[r]

AllSeen == \A r \in Runs : Seen(r)

LEMMA SeenOfStep ==
    ASSUME Inv0, Inv0', AllSeen, NEW r \in Runs, RunStep(r)
    PROVE  AllSeen'
<1> DEFINE me == run[r]
<1>1. PICK n \in RunState : run' = [run EXCEPT ![r] = n] /\ StepKind(r, me, n)
  BY KindOfStep
<1>2. run'[r] = n /\ \A s \in Runs \ {r} : run'[s] = run[s]
  BY <1>1 DEF Inv0, TypeOK
<1>3. /\ owner \in [Tokens -> Users \cup {NoUser}]
      /\ seen \in [Runs -> SUBSET (Tokens \X Users)]
  BY DEF Inv0, TypeOK
\* A run only ever deletes tokens.
<1>4. \A t \in Tokens : owner'[t] # NoUser => owner'[t] = owner[t]
  <2>1. CASE \E t : DeleteToken(t)
    <3>1. PICK d : owner' = [owner EXCEPT ![d] = NoUser]
      BY <2>1 DEF DeleteToken
    <3>2. \A t \in Tokens : owner'[t] = IF t = d THEN NoUser ELSE owner[t]
      BY <1>3, <3>1
    <3> QED BY <3>2
  <2>2. CASE ~(\E t : DeleteToken(t))
    <3>1. ASSUME NEW item, Committed(r, item), run[r].pc \in Calls,
                 run[r].pc \notin {"pages", "zones", "tokens"}
          PROVE  UNCHANGED owner
      BY <2>2, <3>1 DEF Committed, Calls
    <3>2. TransportError(r) => UNCHANGED owner
      <4>1. SUFFICES ASSUME TransportError(r) PROVE UNCHANGED owner
        OBVIOUS
      <4>2. PICK item \in Items(r) : \/ item # NoItem /\ Committed(r, item)
                                     \/ UNCHANGED <<owner, ledger>>
        BY <4>1 DEF TransportError
      <4>3. me.pc \in {"pages", "zones", "tokens"} => item = NoItem
        BY <4>1, ItemsType DEF Inv0, LocalOK, Local, ItemsOK, TransportError
      <4> QED BY <3>1, <4>1, <4>2, <4>3 DEF TransportError
    <3>3. RunStep(r) /\ ~TransportError(r) => UNCHANGED owner
      BY <2>2 DEF RunStep, Start, Work, RunFault, FetchPage, FetchZones, FetchTokens, Claim,
         ClaimRefused, Send, DeleteStaleToken, Release, ClosedClient, ApiError,
         UnlistedError, SendFails
    <3> QED BY <3>2, <3>3
  <2> QED BY <2>1, <2>2
<1>5. CASE Start(r)
  <2>1. /\ seen' = [seen EXCEPT ![r] = {tu \in Tokens \X Users : owner[tu[1]] = tu[2]}]
        /\ me.pc = "idle" /\ owner' = owner
    BY <1>5 DEF Start
  <2>2. PICK x \in RunState : /\ run' = [run EXCEPT ![r] = x]
                              /\ x.pc = "pages" /\ x.pending = {}
    BY <1>5, StartFacts DEF Inv0
  <2>3. n.pending = {} /\ n.pc = "pages"
    BY <1>2, <2>2 DEF Inv0, TypeOK
  <2>4. Seen(r)'
    BY <1>2, <1>3, <2>1, <2>3 DEF Seen
  <2>5. \A s \in Runs \ {r} : Seen(s)'
    BY <1>2, <1>3, <2>1 DEF AllSeen, Seen, Active
  <2> QED BY <2>4, <2>5 DEF AllSeen
<1>6. CASE ~Start(r)
  <2>1. seen' = seen /\ Active(r)
    BY <1>6 DEF RunStep, Work, RunFault, FetchPage, FetchZones, FetchTokens, Claim,
       ClaimRefused, Send, DeleteStaleToken, Release, ClosedClient, TransportError,
       ApiError, UnlistedError, SendFails, Active, Calls
  <2>2. \A t \in Tokens : owner'[t] # NoUser => <<t, owner'[t]>> \in seen'[r]
    BY <1>4, <2>1 DEF AllSeen, Seen
  <2>3. n.pc \in {"claim", "send", "stale"} =>
          \A t \in Tokens : n.toks[t] # NoUser => <<t, n.toks[t]>> \in seen'[r]
    <3>1. CASE Reads(me, n)
      BY <2>1, <3>1 DEF Reads, AllSeen, Seen
    <3>2. CASE n.toks = me.toks /\ me.pc \in {"claim", "send", "stale"}
      BY <2>1, <3>2 DEF AllSeen, Seen
    <3> QED BY <1>1, <3>1, <3>2
            DEF StepKind, Takes, Posts, Cleans, Finishes, Releases, Moves, SameReads, SameWork
  <2>4. \A m \in n.pending : <<m.to, Author[m.key[1]]>> \in seen'[r]
    <3>1. CASE Takes(r, me, n)
      <4>1. PICK row \in me.due :
              n.pending = me.pending \cup Messages(me, row, claims[Key(row)] + 1)
        BY <3>1 DEF Takes
      <4>2. row \in Row /\ Author[row.event] \in Users
        <5>1. row \in Row
          BY DEF Inv0, TypeOK, RunState
        <5> QED BY <5>1, ConstantsAssumption DEF Row
      <4>3. ASSUME NEW m \in Messages(me, row, claims[Key(row)] + 1)
            PROVE  <<m.to, Author[m.key[1]]>> \in seen'[r]
        <5>1. PICK t \in TokensOf(me.toks, Author[row.event]) :
                m = [key |-> Key(row), claim |-> claims[Key(row)] + 1, to |-> t]
          BY DEF Messages
        <5>2. m.to = t /\ m.key[1] = row.event
          BY <5>1 DEF Key
        <5>3. t \in Tokens /\ me.toks[t] = Author[row.event] /\ me.toks[t] # NoUser
          BY <4>2, ConstantsAssumption DEF TokensOf
        <5>4. <<t, me.toks[t]>> \in seen[r]
          BY <3>1, <5>3 DEF Takes, AllSeen, Seen
        <5> QED BY <2>1, <5>2, <5>3, <5>4
      <4> QED BY <2>1, <4>1, <4>3 DEF AllSeen, Seen
    <3>2. CASE ~Takes(r, me, n)
      <4>1. n.pending = {} \/ n.pending = me.pending
        BY <1>1, <3>2 DEF StepKind, Reads, Posts, Cleans, Finishes, Releases, Moves, SameWork
      <4> QED BY <2>1, <4>1 DEF AllSeen, Seen
    <3> QED BY <3>1, <3>2
  <2>5. Seen(r)'
    BY <1>2, <2>2, <2>3, <2>4 DEF Seen
  <2>6. \A s \in Runs \ {r} : Seen(s)'
    BY <1>2, <1>4, <2>1 DEF AllSeen, Seen, Active
  <2> QED BY <2>5, <2>6 DEF AllSeen
<1> QED BY <1>5, <1>6

LEMMA SeenOfOthers ==
    ASSUME Inv0, AllSeen,
           \/ Environment
           \/ \E p \in Processes : OtherReset(p) \/ Crash(p)
           \/ UNCHANGED vars
    PROVE  AllSeen'
<1>1. /\ owner \in [Tokens -> Users \cup {NoUser}]
      /\ seen \in [Runs -> SUBSET (Tokens \X Users)]
      /\ \A r \in Runs : run[r] \in RunState
  BY DEF Inv0, TypeOK
<1>2. CASE UNCHANGED <<owner, seen, run>>
  BY <1>2 DEF AllSeen, Seen, Active
<1>3. ASSUME NEW t \in Tokens, NEW u \in Users, RegisterToken(t, u) PROVE AllSeen'
  <2>1. /\ UNCHANGED run
        /\ owner' = [owner EXCEPT ![t] = u]
        /\ seen' = [r \in Runs |-> IF Active(r) THEN seen[r] \cup {<<t, u>>} ELSE seen[r]]
    BY <1>3 DEF RegisterToken, Edit
  <2>2. ASSUME NEW r \in Runs PROVE Seen(r)'
    <3>1. seen[r] \subseteq seen'[r] /\ (Active(r) => <<t, u>> \in seen'[r])
      BY <2>1
    <3>2. run'[r] = run[r] /\ (Active(r)' <=> Active(r))
      BY <2>1 DEF Active
    <3>3. \A x \in Tokens : owner'[x] = IF x = t THEN u ELSE owner[x]
      BY <1>1, <2>1
    <3> QED BY <3>1, <3>2, <3>3 DEF AllSeen, Seen
  <2> QED BY <2>2 DEF AllSeen
<1>4. ASSUME NEW t \in Tokens, UnregisterToken(t) PROVE AllSeen'
  <2>1. UNCHANGED <<run, seen>> /\ owner' = [owner EXCEPT ![t] = NoUser]
    BY <1>4 DEF UnregisterToken, Edit
  <2> QED BY <1>1, <2>1 DEF AllSeen, Seen, Active
<1>5. ASSUME NEW p \in Processes, Crash(p) PROVE AllSeen'
  <2>1. UNCHANGED <<owner, seen>>
    BY <1>5 DEF Crash
  <2>2. ASSUME NEW r \in Runs PROVE Seen(r)'
    <3>1. run'[r] = run[r] \/ (Active(r) /\ run'[r] = Ended(run[r], "crashed"))
      BY <1>5 DEF Crash
    <3>2. CASE run'[r] = run[r]
      BY <2>1, <3>2 DEF AllSeen, Seen, Active
    <3>3. CASE run'[r] = Ended(run[r], "crashed")
      <4>1. run'[r].pc = "ended" /\ run'[r].pending = run[r].pending
        BY <1>1, <3>3, EndedFacts DEF SameWork, Reasons
      <4> QED BY <2>1, <4>1 DEF AllSeen, Seen, Active
    <3> QED BY <3>1, <3>2, <3>3
  <2> QED BY <2>2 DEF AllSeen
<1>6. \/ UNCHANGED <<owner, seen, run>>
      \/ \E t \in Tokens, u \in Users : RegisterToken(t, u)
      \/ \E t \in Tokens : UnregisterToken(t)
      \/ \E p \in Processes : Crash(p)
  BY DEF Environment, Tick, EditEvent, SetZone, Edit, OtherReset, vars, tables
<1> QED BY <1>2, <1>3, <1>4, <1>5, <1>6

LEMMA SeenNext == Inv0 /\ Inv0' /\ AllSeen /\ [Next]_vars => AllSeen'
<1> SUFFICES ASSUME Inv0, Inv0', AllSeen, [Next]_vars PROVE AllSeen'
  OBVIOUS
<1>1. CASE \E r \in Runs : RunStep(r)
  BY <1>1, SeenOfStep
<1>2. CASE ~ \E r \in Runs : RunStep(r)
  <2>1. \/ Environment
        \/ \E p \in Processes : OtherReset(p) \/ Crash(p)
        \/ UNCHANGED vars
    BY <1>2 DEF Next, RunStep
  <2> QED BY <2>1, SeenOfOthers
<1> QED BY <1>1, <1>2

\* A message goes only to a device that was registered for the event's author
\* at some moment of the run, however often devices change hands meanwhile.
THEOREM OnlyOwnDevicesHolds == Spec => []OnlyOwnDevices
<1>1. Init => AllSeen
  BY DEF Init, AllSeen, Seen, Active, Idle
<1>2. AllSeen => OnlyOwnDevices
  BY DEF AllSeen, Seen, OnlyOwnDevices
<1> QED BY Inv0Init, Inv0Next, SeenNext, <1>1, <1>2, PTL DEF Spec

-----------------------------------------------------------------------------
(* ReminderDispatch implements Reminding: overlapping, failing and dying     *)
(* calls keep the promise of the delivery rows.                              *)


\* Two messages are about the same row.
SameRow(m, n) == <<m.key, m.claim>> = <<n.key, n.claim>>

Apart(S, T) == \A m \in S, n \in T : ~SameRow(m, n)

\* The rows of a batch still to be posted are in no other batch, and Expo has
\* not heard of them.
Fresh ==
    /\ \A r \in Runs : Unsent(r) => Apart(run[r].pending, handed)
    /\ \A r, s \in Runs : r # s /\ Unsent(r) /\ Unsent(s)
                          => Apart(run[r].pending, run[s].pending)

LEMMA FreshNext == Inv0 /\ Inv0' /\ Inv1 /\ Fresh /\ [Next]_vars => Fresh'
<1> SUFFICES ASSUME Inv0, Inv0', Inv1, Fresh, [Next]_vars PROVE Fresh'
  OBVIOUS
<1>0. /\ claims \in [Keys -> Nat] /\ handed \subseteq Message
      /\ \A r \in Runs : run[r].pending \subseteq Message
      /\ \A m \in Message : m.key \in Keys /\ m.claim \in Nat
  BY DEF Inv0, TypeOK, RunState, Message
<1>1. CASE Elsewhere
  <2>1. handed' = handed
    BY <1>1 DEF Elsewhere
  <2>2. \A r \in Runs : Unsent(r)' => Unsent(r) /\ run'[r].pending = run[r].pending
    BY <1>1 DEF Elsewhere, Crashed, Unsent
  <2> QED BY <2>1, <2>2 DEF Fresh
<1>2. ASSUME NEW r \in Runs, NEW n \in RunState,
             run' = [run EXCEPT ![r] = n], StepKind(r, run[r], n)
      PROVE  Fresh'
  <2> DEFINE me == run[r]
  <2>1. run'[r] = n /\ \A s \in Runs \ {r} : run'[s] = run[s]
    BY <1>2 DEF Inv0, TypeOK
  \* A batch that does not grow, and is posted at most once.
  <2>2. ASSUME \/ handed' = handed
               \/ Unsent(r) /\ handed' = handed \cup me.pending,
               Unsent(r)' => \/ n.pending = {}
                             \/ n.pending = me.pending /\ Unsent(r) /\ handed' = handed
        PROVE  Fresh'
    <3>1. ASSUME NEW s \in Runs, Unsent(s)' PROVE Apart(run'[s].pending, handed')
      BY <2>1, <2>2, <3>1 DEF Fresh, Apart, Unsent, SameRow
    <3>2. ASSUME NEW s \in Runs, NEW t \in Runs, s # t, Unsent(s)', Unsent(t)'
          PROVE  Apart(run'[s].pending, run'[t].pending)
      BY <2>1, <2>2, <3>2 DEF Fresh, Apart, Unsent
    <3> QED BY <3>1, <3>2 DEF Fresh
  <2>3. CASE ~Takes(r, me, n)
    <3>1. \/ handed' = handed
          \/ Unsent(r) /\ handed' = handed \cup me.pending
      BY <1>2, <2>3 DEF StepKind, Reads, Posts, Cleans, Releases, Moves, Unsent
    <3>2. Unsent(r)' => \/ n.pending = {}
                        \/ n.pending = me.pending /\ Unsent(r) /\ handed' = handed
      BY <1>2, <2>1, <2>3
      DEF StepKind, Reads, Posts, Cleans, Finishes, Releases, Moves, SameWork, Unsent
    <3> QED BY <2>2, <3>1, <3>2
  <2>4. CASE Takes(r, me, n)
    <3>1. PICK row \in me.due :
            /\ Insert(r, Key(row))
            /\ n.pending = me.pending \cup Messages(me, row, claims[Key(row)] + 1)
      BY <2>4 DEF Takes
    <3> DEFINE k == Key(row)
               new == Messages(me, row, claims[k] + 1)
    <3>2. k \in Keys
      BY KeyType DEF Inv0, TypeOK, RunState
    <3>3. \A m \in new : m.key = k /\ m.claim = claims[k] + 1
      BY DEF Messages
    <3>4. UNCHANGED handed /\ Unsent(r)
      BY <2>4 DEF Takes, Unsent
    <3>5. n.pending = me.pending \cup new
      BY <3>1
    <3> HIDE DEF new, k
    \* The row's number is new.
    <3>6. Apart(new, handed) /\ \A s \in Runs : Apart(new, run[s].pending)
      BY <1>0, <3>2, <3>3 DEF Inv1, Numbered, Apart, SameRow
    <3>7. ASSUME NEW s \in Runs, Unsent(s)' PROVE Apart(run'[s].pending, handed')
      BY <2>1, <3>4, <3>5, <3>6, <3>7 DEF Fresh, Apart, Unsent
    <3>8. ASSUME NEW s \in Runs, NEW t \in Runs, s # t, Unsent(s)', Unsent(t)'
          PROVE  Apart(run'[s].pending, run'[t].pending)
      BY <2>1, <3>4, <3>5, <3>6, <3>8 DEF Fresh, Apart, Unsent, SameRow
    <3> QED BY <3>7, <3>8 DEF Fresh
  <2> QED BY <2>3, <2>4
<1> QED BY <1>1, <1>2, StepCases

-----------------------------------------------------------------------------
(* The steps.                                                               *)

\* Which step of Reminding each kind of step is.
LEMMA StepKeepsPromise ==
    Inv0 /\ Inv0' /\ Inv1 /\ Inv2 /\ Fresh /\ [Next]_vars
    => [Promise!Next]_(Promise!promise)
<1> SUFFICES ASSUME Inv0, Inv0', Inv1, Inv2, Fresh, [Next]_vars
             PROVE  [Promise!Next]_(Promise!promise)
  OBVIOUS
<1>0. /\ claims \in [Keys -> Nat] /\ deliveries \in [Keys -> Nat]
      /\ handed \subseteq Message
      /\ faults \in Nat /\ faults' \in Nat
      /\ \A r \in Runs : run[r].pending \subseteq Message
      /\ \A m \in Message : m.key \in Keys /\ m.claim \in Nat
  BY ConstantsAssumption DEF Inv0, TypeOK, RunState, Message
<1>1. ASSUME faults' = 0 => faults = 0 PROVE Promise!MayFail
  BY <1>0, <1>1 DEF Promise!MayFail
<1>2. ASSUME UNCHANGED <<ledger, handed>>, faults' = 0 => faults = 0 PROVE Promise!Next
  BY <1>1, <1>2 DEF Promise!Next, Promise!Tell, ledger
<1>3. ASSUME NEW r \in Runs, NEW k \in Keys, Insert(r, k), UNCHANGED handed,
             faults' = 0 => faults = 0
      PROVE  Promise!Next
  BY <1>1, <1>3 DEF Promise!Next, Promise!Claim, Insert
<1>4. ASSUME NEW k \in Keys, Delete(k), UNCHANGED handed, faults' # 0 PROVE Promise!Next
  <2>1. (faults > 0)'
    BY <1>0, <1>4
  <2>2. deliveries' = [deliveries EXCEPT ![k] = 0] /\ UNCHANGED <<claims, handed>>
    BY <1>4 DEF Delete
  <2>3. Promise!Release(k)
    BY <2>1, <2>2 DEF Promise!Release
  <2> QED BY <2>3 DEF Promise!Next
\* What a run posts are messages of rows it inserted and told nobody of.
<1>5. ASSUME NEW r \in Runs, run[r].pc = "send", handed' = handed \cup run[r].pending,
             UNCHANGED ledger, faults' = 0 => faults = 0
      PROVE  Promise!Next
  <2>1. ASSUME NEW m \in handed' \ handed
        PROVE  /\ m.key \in Keys /\ m.claim \in 1 .. claims[m.key]
               /\ \A n \in handed : <<n.key, n.claim>> # <<m.key, m.claim>>
    <3>1. m \in run[r].pending /\ Unsent(r)
      BY <1>5 DEF Unsent
    <3>2. m.key \in Keys /\ m.claim \in Nat /\ claims[m.key] \in Nat
      BY <1>0, <3>1
    <3>3. m.claim >= 1 /\ m.claim <= claims[m.key]
      BY <3>1 DEF Inv1, Numbered, Inv2, Positive
    <3>4. \A n \in handed : <<n.key, n.claim>> # <<m.key, m.claim>>
      BY <3>1 DEF Fresh, Apart, SameRow
    <3> QED BY <3>2, <3>3, <3>4
  <2> QED BY <1>1, <1>5, <2>1 DEF Promise!Next, Promise!Tell, ledger
<1>6. CASE Elsewhere
  BY <1>2, <1>6 DEF Elsewhere
<1>7. ASSUME NEW r \in Runs, NEW n \in RunState,
             run' = [run EXCEPT ![r] = n], StepKind(r, run[r], n)
      PROVE  Promise!Next
  <2> DEFINE me == run[r]
  <2>1. \A row \in me.due \cup me.claimed : Key(row) \in Keys
    BY KeyType DEF Inv0, TypeOK, RunState
  <2>2. CASE Reads(me, n)
    BY <1>2, <2>2 DEF Reads
  <2>3. CASE Takes(r, me, n)
    BY <1>3, <2>1, <2>3 DEF Takes
  <2>4. CASE Posts(me, n)
    BY <1>5, <2>4 DEF Posts
  <2>5. CASE Cleans(me, n)
    BY <1>2, <2>5 DEF Cleans
  <2>6. CASE Releases(me, n)
    <3>1. faults' # 0
      BY <2>6 DEF Releases, Inv2, Faultless
    <3> QED BY <1>4, <2>1, <2>6, <3>1 DEF Releases
  <2>7. CASE Moves(r, me, n)
    <3>1. faults' = 0 => faults = 0
      BY <2>7 DEF Moves
    <3>2. CASE UNCHANGED <<ledger, handed>>
      BY <1>2, <3>1, <3>2
    <3>3. CASE me.pc = "send" /\ UNCHANGED ledger /\ handed' = handed \cup me.pending
      BY <1>5, <3>1, <3>3
    <3>4. CASE faults' # 0 /\ UNCHANGED handed /\ \E row \in me.claimed : Delete(Key(row))
      BY <1>4, <2>1, <3>4
    <3>5. CASE UNCHANGED handed /\ \E row \in me.due : Insert(r, Key(row))
      BY <1>3, <2>1, <3>1, <3>5
    <3> QED BY <2>7, <3>2, <3>3, <3>4, <3>5 DEF Moves
  <2> QED BY <1>7, <2>2, <2>3, <2>4, <2>5, <2>6, <2>7 DEF StepKind
<1> QED BY <1>6, <1>7, StepCases

\* The delivery rows keep their promise, for any number of calls, workers,
\* events, devices and faults: ReminderDispatch implements Reminding.
THEOREM RemindersKeepThePromise == Spec => RemindsAsPromised
<1>1. Init => Inv1 /\ Inv2 /\ Fresh
  BY DEF Init, Inv1, Numbered, NoMessageTwice, Inv2, Positive, Faultless, Idle,
         Fresh, Apart, Unsent
<1>2. Init => Promise!Init
  BY DEF Init, Promise!Init
<1> QED
  BY Inv0Init, Inv0Next, Inv1Next, Inv2Next, FreshNext, StepKeepsPromise, <1>1, <1>2, PTL
  DEF Spec, RemindsAsPromised, Promise!Spec

-----------------------------------------------------------------------------
(* What the promise is good for.                                            *)

\* As long as nothing failed no row is deleted, so a key has one row at most.
Single ==
    /\ claims \in [Keys -> Nat] /\ deliveries = claims
    /\ \A k \in Keys : claims[k] <= 1
    /\ \A m \in handed : m.key \in Keys /\ m.claim = 1

\* Who keeps the promise reminds nobody twice of a key as long as nothing
\* fails, whatever else it does.
THEOREM PromiseMeansOnce == Promise!Spec => []Promise!ToldOnce
<1> DEFINE Inv == faults > 0 \/ Single
<1>1. Promise!Init => Inv
  BY DEF Promise!Init, Single
<1>2. ASSUME Inv, [Promise!Next]_(Promise!promise) PROVE Inv'
  <2>1. CASE (faults > 0)'
    BY <2>1
  <2>2. CASE ~(faults > 0)'
    <3>1. CASE UNCHANGED Promise!promise
      BY <1>2, <2>2, <3>1 DEF Promise!promise, Single
    <3>2. CASE Promise!Tell
      <4>1. Single /\ UNCHANGED <<deliveries, claims>>
        BY <1>2, <2>2, <3>2 DEF Promise!Tell, Promise!MayFail
      <4>2. \A m \in handed' : m \in handed \/ (m.key \in Keys /\ m.claim \in 1 .. claims[m.key])
        BY <3>2 DEF Promise!Tell
      <4>3. \A k \in Keys : claims[k] \in Nat /\ claims[k] <= 1
        BY <4>1 DEF Single
      <4>4. \A m \in handed' : m.key \in Keys /\ m.claim = 1
        BY <4>1, <4>2, <4>3 DEF Single
      <4> QED BY <4>1, <4>4 DEF Single
    <3>3. ASSUME NEW k \in Keys, Promise!Claim(k) PROVE Inv'
      <4>1. Single
        BY <1>2, <2>2, <3>3 DEF Promise!Claim, Promise!MayFail
      <4>2. /\ claims[k] = 0 /\ handed' = handed
            /\ claims' = [claims EXCEPT ![k] = 1] /\ deliveries' = claims'
        BY <3>3, <4>1 DEF Promise!Claim, Single
      <4> QED BY <4>1, <4>2 DEF Single
    <3>4. ASSUME NEW k \in Keys, Promise!Release(k) PROVE Inv'
      BY <2>2, <3>4 DEF Promise!Release
    <3> QED BY <1>2, <3>1, <3>2, <3>3, <3>4 DEF Promise!Next
  <2> QED BY <2>1, <2>2
<1>3. Inv => Promise!ToldOnce
  BY DEF Promise!ToldOnce, Single
<1> QED BY <1>1, <1>2, <1>3, PTL DEF Promise!Spec

=============================================================================
