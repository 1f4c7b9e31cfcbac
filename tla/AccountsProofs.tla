---------------------------- MODULE AccountsProofs ----------------------------
(***************************************************************************)
(* The properties of Accounts for any users, tokens, names and requests,   *)
(* any number of attempts and any number of faults.                        *)
(***************************************************************************)
EXTENDS Accounts, TLAPS

USE AccountsAssumption, CallsAssumption

-----------------------------------------------------------------------------
(* Types.                                                                   *)

LEMMA FreshType == ASSUME NEW fresh \in Nat PROVE Fresh(fresh) \in Call
BY DEF Fresh, Call

LEMMA CallTypes ==
    ASSUME NEW call \in Call, NEW fresh \in Nat
    PROVE  /\ Returned(call) \in Call
           /\ ~LastAttempt(call) => Retried(call, fresh) \in Call
<1>1. Returned(call) \in Call
  <2>1. call.client \in Nat /\ 1 \in 1 .. MaxAttempts
    BY DEF Call
  <2> QED BY <2>1 DEF Returned, Call
<1>2. ASSUME ~LastAttempt(call) PROVE Retried(call, fresh) \in Call
  <2>1. call.attempt + 1 \in 1 .. MaxAttempts
    BY <1>2 DEF LastAttempt, Call
  <2> QED BY <2>1 DEF Retried, Call
<1> QED BY <1>1, <1>2

Answers == {"none", "ok", "invalid", "conflict", "notfound", "upstream", "raw"}

LEMMA Endings ==
    ASSUME NEW me \in Request, NEW answer \in Answers
    PROVE  LET new == Ended(me, answer) IN
           /\ new \in Request /\ new.pc = "ended" /\ new.answer = answer
           /\ new.op = me.op /\ new.user = me.user /\ new.token = me.token
           /\ new.other = me.other /\ new.name = me.name /\ new.zone = me.zone
BY DEF Ended, Request, Answers

LEMMA GoingsOn ==
    ASSUME NEW me \in Request, NEW pc \in {"zone", "select", "write"}
    PROVE  LET new == GoesOn(me, pc) IN
           /\ new \in Request /\ new.pc = pc /\ new.answer = me.answer
           /\ new.op = me.op /\ new.user = me.user /\ new.token = me.token
           /\ new.other = me.other /\ new.name = me.name /\ new.row = me.row
           /\ new.call = Returned(me.call)
<1>1. Returned(me.call) \in Call
  <2>1. me.call \in Call
    BY DEF Request
  <2> QED BY <2>1, CallTypes
<1> QED BY <1>1 DEF GoesOn, Request

LEMMA Retries ==
    ASSUME NEW me \in Request, NEW call \in Call
    PROVE  LET new == [me EXCEPT !.call = call] IN
           /\ new \in Request /\ new.pc = me.pc /\ new.answer = me.answer
           /\ new.op = me.op /\ new.user = me.user /\ new.token = me.token
           /\ new.other = me.other /\ new.name = me.name /\ new.row = me.row
           /\ new.call = call
BY DEF Request

\* What a request under way carries.
Carries(me) ==
    /\ me.pc # "ended" => me.answer = "none"
    /\ me.pc \in {"zone", "select", "write"} =>
        /\ me.user \in Users
        /\ me.op \in {"register", "unregister", "follow", "unfollow", "me", "profile"}
        /\ me.op \in {"register", "unregister"} => me.token \in Tokens
        /\ me.op \in {"follow", "unfollow"} => me.other \in Users
        /\ me.pc = "zone" => me.op = "register"
        /\ me.pc = "select" => me.op \in {"register", "follow", "me"}

\* A request that starts.
Begins(me) ==
    /\ me \in Request /\ Carries(me)
    /\ me.pc \in {"zone", "select", "write", "ended"}
    /\ me.pc = "write" => me.op \notin {"register", "follow"}
    /\ me.pc = "ended" => \/ me.answer = "invalid"
                          \/ me.answer = "raw" /\ me.zone = "malformed"
    /\ me.pc # "ended" => me.call = Fresh(cached)

LEMMA NewTypes == NewRequest \in Request /\ NewRequest.answer = "none" /\ NewRequest.pc = "idle"
<1>1. Fresh(0) \in Call
  BY FreshType
<1> QED BY <1>1 DEF NewRequest, Request, Ops, Zones

LEMMA StartsBegin ==
    ASSUME cached \in Nat, NEW u \in Users, NEW z \in Zones, NEW me \in Starts(u, z)
    PROVE  Begins(me)
<1> DEFINE new         == [NewRequest EXCEPT !.user = u, !.call = Fresh(cached)]
           registers   == {[new EXCEPT !.op = "register", !.token = t, !.zone = z] : t \in Tokens}
           unregisters == {[new EXCEPT !.op = "unregister", !.token = t] : t \in Tokens}
           follows     == {[new EXCEPT !.op = "follow", !.other = v] : v \in Users}
           unfollows   == {[new EXCEPT !.op = "unfollow", !.other = v] : v \in Users}
           profiles    == {[new EXCEPT !.op = "profile", !.name = n] :
                              n \in Names \cup {NoName, Same}}
           selects == {f \in follows : f.other # u} \cup {[new EXCEPT !.op = "me"]}
           writes  == unregisters \cup unfollows \cup profiles
           refused == registers \cup unregisters \cup {f \in follows : f.other = u}
\* A request before its first query.
           Draft(r, ops) == /\ r \in Request /\ r.user = u /\ r.call = Fresh(cached)
                            /\ r.answer = "none" /\ r.op \in ops
                            /\ r.op \in {"register", "unregister"} => r.token \in Tokens
                            /\ r.op \in {"follow", "unfollow"} => r.other \in Users
<1>1. Fresh(cached) \in Call
  BY FreshType
<1>2. new \in Request /\ new.user = u /\ new.call = Fresh(cached) /\ new.answer = "none"
  BY <1>1, NewTypes DEF Request
<1>3. \/ me \in {Resolved(r) : r \in registers}
      \/ me \in {[r EXCEPT !.pc = "select"] : r \in selects}
      \/ me \in {[r EXCEPT !.pc = "write"] : r \in writes}
      \/ me \in {Ended(r, "invalid") : r \in refused}
  BY DEF Starts
<1> HIDE DEF new
<1>4. /\ \A r \in registers : Draft(r, {"register"})
      /\ \A r \in unregisters : Draft(r, {"unregister"})
      /\ \A r \in follows : Draft(r, {"follow"})
      /\ \A r \in unfollows : Draft(r, {"unfollow"})
      /\ \A r \in profiles : Draft(r, {"profile"})
      /\ Draft([new EXCEPT !.op = "me"], {"me"})
  <2>1. \A t \in Tokens : Draft([new EXCEPT !.op = "register", !.token = t, !.zone = z], {"register"})
    BY <1>2 DEF Request, Ops
  <2>2. \A t \in Tokens : Draft([new EXCEPT !.op = "unregister", !.token = t], {"unregister"})
    BY <1>2 DEF Request, Ops
  <2>3. \A v \in Users : Draft([new EXCEPT !.op = "follow", !.other = v], {"follow"})
    BY <1>2 DEF Request, Ops
  <2>4. \A v \in Users : Draft([new EXCEPT !.op = "unfollow", !.other = v], {"unfollow"})
    BY <1>2 DEF Request, Ops
  <2>5. \A n \in Names \cup {NoName, Same} : Draft([new EXCEPT !.op = "profile", !.name = n], {"profile"})
    BY <1>2 DEF Request, Ops
  <2>6. Draft([new EXCEPT !.op = "me"], {"me"})
    BY <1>2 DEF Request, Ops
  <2> HIDE DEF Draft
  <2>7. \A r \in registers : Draft(r, {"register"})
    BY <2>1
  <2>8. \A r \in unregisters : Draft(r, {"unregister"})
    BY <2>2
  <2>9. \A r \in follows : Draft(r, {"follow"})
    BY <2>3
  <2>10. \A r \in unfollows : Draft(r, {"unfollow"})
    BY <2>4
  <2>11. \A r \in profiles : Draft(r, {"profile"})
    BY <2>5
  <2> QED BY <2>6, <2>7, <2>8, <2>9, <2>10, <2>11
<1> HIDE DEF registers, unregisters, follows, unfollows, profiles
<1>5. /\ \A r \in registers : Draft(r, {"register"})
      /\ \A r \in selects : Draft(r, {"follow", "me"})
      /\ \A r \in writes : Draft(r, {"unregister", "unfollow", "profile"})
      /\ \A r \in refused : r \in Request
  <2>1. \A r \in registers : Draft(r, {"register"})
    BY <1>4
  <2>2. \A r \in selects : Draft(r, {"follow", "me"})
    BY <1>4
  <2>3. \A r \in writes : Draft(r, {"unregister", "unfollow", "profile"})
    BY <1>4
  <2>4. \A r \in refused : r \in Request
    BY <1>4
  <2> QED BY <2>1, <2>2, <2>3, <2>4
<1> HIDE DEF selects, writes, refused
<1>6. CASE me \in {Resolved(r) : r \in registers}
  <2>1. PICK r \in registers : me = Resolved(r)
    BY <1>6
  <2>2. Draft(r, {"register"}) /\ r.zone \in Zones
    BY <1>5, <2>1 DEF Request
  <2>3. CASE r.zone = "absent"
    <3>1. me = [r EXCEPT !.pc = "select"]
      BY <2>1, <2>3 DEF Resolved
    <3> QED BY <2>2, <3>1 DEF Begins, Carries, Request
  <2>4. CASE r.zone = "known"
    <3>1. me = [r EXCEPT !.pc = "zone"]
      BY <2>1, <2>4 DEF Resolved
    <3> QED BY <2>2, <3>1 DEF Begins, Carries, Request
  <2>5. CASE r.zone = "unknown"
    <3>1. me = Ended(r, "invalid")
      BY <2>1, <2>5 DEF Resolved
    <3> QED BY <2>2, <3>1, Endings DEF Begins, Carries, Answers
  <2>6. CASE r.zone = "malformed"
    <3>1. me = Ended(r, "raw")
      BY <2>1, <2>6 DEF Resolved
    <3> QED BY <2>2, <2>6, <3>1, Endings DEF Begins, Carries, Answers
  <2> QED BY <2>2, <2>3, <2>4, <2>5, <2>6 DEF Zones
<1>7. CASE me \in {[r EXCEPT !.pc = "select"] : r \in selects}
  BY <1>5, <1>7 DEF Begins, Carries, Request
<1>8. CASE me \in {[r EXCEPT !.pc = "write"] : r \in writes}
  BY <1>5, <1>8 DEF Begins, Carries, Request
<1>9. CASE me \in {Ended(r, "invalid") : r \in refused}
  BY <1>5, <1>9, Endings DEF Begins, Carries, Answers
<1> QED BY <1>3, <1>6, <1>7, <1>8, <1>9

LEMMA Moves ==
    ASSUME TypeOK, NEW q \in Requests, NEW me, Goes(q, me)
    PROVE  /\ req'[q] = me
           /\ \A p \in Requests : p # q => req'[p] = req[p]
           /\ me \in Request => req' \in [Requests -> Request]
BY DEF Goes, TypeOK

LEMMA Started ==
    ASSUME TypeOK, NEW q \in Requests, Start(q)
    PROVE  \E me : Begins(me) /\ Goes(q, me)
BY StartsBegin DEF Start, TypeOK

-----------------------------------------------------------------------------
(* The tables.                                                              *)

WorkInv == \A q \in Requests : Carries(req[q])

BaseInv == TypeOK /\ WorkInv

Tables ==
    /\ token \in [Tokens -> [id : 0 .. ids, user : Users \cup {NoUser}]]
    /\ ids \in Nat
    /\ follow \subseteq Users \X Users
    /\ name \in [Users -> Names \cup {NoName, NoProfile}]
    /\ zoned \subseteq Users

\* A write: the types of the tables, and whose rows it touches.
LEMMA Effects ==
    ASSUME BaseInv, NEW me \in Request, Carries(me), me.pc = "write", Effect(me)
    PROVE  /\ Tables'
           /\ \A t \in Tokens : token'[t] # token[t] =>
                /\ me.token = t
                /\ \/ me.op = "register"
                   \/ me.op = "unregister" /\ token[t].user = me.user
           /\ \A u \in Users : name[u] \in Names /\ name'[u] # name[u] =>
                me.op = "profile" /\ me.user = u
<1>0. /\ Tables /\ me.user \in Users /\ me.row \in Nat
      /\ me.op \in {"register", "unregister", "follow", "unfollow", "me", "profile"}
      /\ me.name \in Names \cup {NoName, Same}
  BY DEF BaseInv, TypeOK, Tables, Carries, Request
<1>1. CASE me.op = "register"
  <2>1. me.token \in Tokens /\ StoreToken(me)
    BY <1>1 DEF Carries, Effect
  <2>2. UNCHANGED <<follow, name, zoned>> /\ ids' \in Nat /\ ids <= ids'
    BY <1>0, <2>1 DEF StoreToken, Tables
  <2>3. CASE me.row = 0
    <3>1. /\ ids' = ids + 1
          /\ token' = [token EXCEPT ![me.token] = [id |-> ids + 1, user |-> me.user]]
      BY <2>1, <2>3 DEF StoreToken
    <3>2. [id |-> ids + 1, user |-> me.user] \in [id : 0 .. ids', user : Users \cup {NoUser}]
      BY <1>0, <3>1 DEF Tables
    <3>3. \A t \in Tokens : token[t] \in [id : 0 .. ids', user : Users \cup {NoUser}]
      BY <1>0, <3>1 DEF Tables
    <3>4. token' \in [Tokens -> [id : 0 .. ids', user : Users \cup {NoUser}]]
      BY <1>0, <3>1, <3>2, <3>3 DEF Tables
    <3> QED BY <1>0, <1>1, <2>1, <2>2, <3>1, <3>4 DEF Tables
  <2>4. CASE me.row # 0 /\ RowStands(me)
    <3>1. ids' = ids /\ token' = [token EXCEPT ![me.token].user = me.user]
      BY <2>1, <2>4 DEF StoreToken
    <3>2. [token[me.token] EXCEPT !.user = me.user] \in [id : 0 .. ids, user : Users \cup {NoUser}]
      BY <1>0, <2>1 DEF Tables
    <3>3. token' \in [Tokens -> [id : 0 .. ids, user : Users \cup {NoUser}]]
      BY <1>0, <2>1, <3>1, <3>2 DEF Tables
    <3> QED BY <1>0, <1>1, <2>1, <2>2, <3>1, <3>3 DEF Tables
  <2>5. CASE me.row # 0 /\ ~RowStands(me)
    BY <1>0, <1>1, <2>1, <2>2, <2>5 DEF StoreToken, Tables
  <2> QED BY <2>3, <2>4, <2>5
<1>2. CASE me.op = "unregister"
  <2>1. me.token \in Tokens /\ RemoveToken(me)
    BY <1>2 DEF Carries, Effect
  <2>2. UNCHANGED <<ids, follow, name, zoned>>
    BY <2>1 DEF RemoveToken
  <2>3. NoTokenRow \in [id : 0 .. ids, user : Users \cup {NoUser}]
    BY <1>0 DEF NoTokenRow, Tables
  <2>4. CASE token[me.token].user = me.user
    <3>1. token' = [token EXCEPT ![me.token] = NoTokenRow]
      BY <2>1, <2>4 DEF RemoveToken
    <3> QED BY <1>0, <1>2, <2>2, <2>3, <2>4, <3>1 DEF Tables
  <2>5. CASE token[me.token].user # me.user
    BY <1>0, <2>1, <2>2, <2>5 DEF RemoveToken, Tables
  <2> QED BY <2>4, <2>5
<1>3. CASE me.op \in {"follow", "unfollow"}
  <2>1. me.other \in Users /\ SetFollow(me)
    BY <1>3 DEF Carries, Effect
  <2> QED BY <1>0, <2>1 DEF SetFollow, Tables
<1>4. CASE me.op \in {"me", "profile"}
  <2>1. UpsertProfile(me)
    BY <1>4 DEF Effect
  <2>2. UNCHANGED <<token, ids, follow, zoned>> /\ name' = [name EXCEPT ![me.user] = NameAfter(me)]
    BY <2>1 DEF UpsertProfile
  <2>3. NameAfter(me) \in Names \cup {NoName, NoProfile}
    BY <1>0 DEF NameAfter, Tables
  <2>4. me.op = "me" /\ name[me.user] \in Names => NameAfter(me) = name[me.user]
    BY DEF NameAfter
  <2> QED BY <1>0, <1>4, <2>2, <2>3, <2>4 DEF Tables
<1> QED BY <1>0, <1>1, <1>2, <1>3, <1>4

\* A step of one request's own, with whatever it does to the tables.
LEMMA OwnStep ==
    ASSUME BaseInv, NEW q \in Requests, NEW me \in Request, Goes(q, me), Carries(me),
           Tables', cached' \in Nat, faults' \in 0 .. MaxFaults, Observe
    PROVE  BaseInv'
<1>1. /\ req' \in [Requests -> Request]
      /\ req'[q] = me /\ \A p \in Requests : p # q => req'[p] = req[p]
  BY Moves DEF BaseInv
<1>2. /\ held' \subseteq Requests /\ rivalled' \subseteq Requests
      /\ struck' \subseteq Requests /\ raced' \subseteq Requests
  BY DEF BaseInv, TypeOK, Observe
<1>3. TypeOK'
  BY <1>1, <1>2 DEF TypeOK, Tables
<1>4. \A p \in Requests : Carries(req'[p])
  BY <1>1 DEF BaseInv, WorkInv
<1> QED BY <1>3, <1>4 DEF BaseInv, WorkInv, Carries

LEMMA EndedCarries ==
    ASSUME NEW me \in Request, NEW answer \in Answers
    PROVE  Ended(me, answer) \in Request /\ Carries(Ended(me, answer))
BY Endings DEF Carries

LEMMA ErrorAnswers == \A me \in Request, unique \in BOOLEAN : ErrorAnswer(me, unique) \in Answers
BY DEF ErrorAnswer, Answers

LEMMA Answereds == \A me : Answered(me) \in {"upstream", "notfound", "ok"}
BY DEF Answered

LEMMA Selecteds ==
    ASSUME BaseInv, NEW q \in Requests, req[q].pc = "select"
    PROVE  LET me == req[q]  new == Selected(me) IN
           /\ new \in Request /\ new.pc \in {"write", "ended"}
           /\ new.op = me.op /\ new.user = me.user /\ new.token = me.token
           /\ new.other = me.other /\ new.name = me.name
           /\ new.pc = "write" =>
                /\ new.call = Returned(me.call) /\ new.answer = me.answer
                /\ me.op = "register" => new.row = token[me.token].id
                /\ me.op = "follow" => <<me.user, me.other>> \notin follow
           /\ new.pc = "ended" =>
                \/ me.op = "follow" /\ new.answer = "conflict" /\ <<me.user, me.other>> \in follow
                \/ me.op = "me" /\ new.answer = "ok" /\ name[me.user] # NoProfile
<1> DEFINE me == req[q]
<1>0. me \in Request /\ Carries(me) /\ me.op \in {"register", "follow", "me"}
  BY DEF BaseInv, TypeOK, WorkInv, Carries
<1>1. CASE me.op = "register"
  <2> DEFINE row == token[me.token].id
             read == [me EXCEPT !.row = row]
  <2>1. Selected(me) = GoesOn(read, "write")
    BY <1>1 DEF Selected
  <2>2. row \in Nat
    BY <1>0, <1>1 DEF BaseInv, TypeOK, Carries
  <2> HIDE DEF me, row
  <2>3. /\ read \in Request /\ read.op = me.op /\ read.user = me.user /\ read.token = me.token
        /\ read.other = me.other /\ read.name = me.name /\ read.row = row
        /\ read.call = me.call /\ read.answer = me.answer
    BY <1>0, <2>2 DEF Request
  <2> HIDE DEF read
  <2> QED BY <1>1, <2>1, <2>3, GoingsOn DEF row, me
<1>2. CASE me.op = "follow"
  <2>1. CASE <<me.user, me.other>> \in follow
    <3>1. Selected(me) = Ended(me, "conflict")
      BY <1>2, <2>1 DEF Selected
    <3> QED BY <1>0, <1>2, <2>1, <3>1, Endings DEF Answers
  <2>2. CASE <<me.user, me.other>> \notin follow
    <3>1. Selected(me) = GoesOn(me, "write")
      BY <1>2, <2>2 DEF Selected
    <3> QED BY <1>0, <1>2, <2>2, <3>1, GoingsOn
  <2> QED BY <2>1, <2>2
<1>3. CASE me.op = "me"
  <2>1. CASE name[me.user] # NoProfile
    <3>1. Selected(me) = Ended(me, "ok")
      BY <1>3, <2>1 DEF Selected
    <3> QED BY <1>0, <1>3, <2>1, <3>1, Endings DEF Answers
  <2>2. CASE name[me.user] = NoProfile
    <3>1. Selected(me) = GoesOn(me, "write")
      BY <1>3, <2>2 DEF Selected
    <3> QED BY <1>0, <1>3, <2>2, <3>1, GoingsOn
  <2> QED BY <2>1, <2>2
<1> QED BY <1>0, <1>1, <1>2, <1>3

LEMMA FaultCounted == ASSUME TypeOK, Fault PROVE faults' \in 0 .. MaxFaults /\ faults' # 0
BY DEF TypeOK, Fault

\* A retry leaves a request as it is but for its client and its attempts.
LEMMA RetryCarries ==
    ASSUME BaseInv, NEW q \in Requests, ~LastAttempt(req[q].call)
    PROVE  LET me == [req[q] EXCEPT !.call = Retried(@, cached + 1)] IN
           /\ me \in Request /\ Carries(me)
           /\ me # req[q]
           /\ me.pc = req[q].pc /\ me.answer = req[q].answer /\ me.op = req[q].op
           /\ me.user = req[q].user /\ me.token = req[q].token /\ me.other = req[q].other
           /\ me.name = req[q].name /\ me.row = req[q].row
<1> DEFINE call == Retried(req[q].call, cached + 1)
<1>1. req[q] \in Request /\ req[q].call \in Call /\ cached + 1 \in Nat /\ Carries(req[q])
  BY DEF BaseInv, TypeOK, WorkInv, Request
<1>2. call \in Call /\ call # req[q].call
  <2>1. call.attempt = req[q].call.attempt + 1 /\ req[q].call.attempt \in Nat
    BY <1>1 DEF Retried, Call
  <2> QED BY <1>1, <2>1, CallTypes
<1> HIDE DEF call
<1> DEFINE me == [req[q] EXCEPT !.call = call]
<1>3. /\ me \in Request /\ me.call = call
      /\ me.pc = req[q].pc /\ me.answer = req[q].answer /\ me.op = req[q].op
      /\ me.user = req[q].user /\ me.token = req[q].token /\ me.other = req[q].other
      /\ me.name = req[q].name /\ me.row = req[q].row
  BY <1>1, <1>2, Retries
<1> HIDE DEF me
<1>4. Carries(me) /\ me # req[q]
  BY <1>1, <1>2, <1>3 DEF Carries
<1> QED BY <1>3, <1>4 DEF me, call

\* What the reads before a write leave of a request.
LEMMA SelectedCarries ==
    ASSUME BaseInv, NEW q \in Requests, req[q].pc = "select"
    PROVE  Selected(req[q]) \in Request /\ Carries(Selected(req[q]))
<1> DEFINE me == req[q]  new == Selected(me)
<1>1. me \in Request /\ Carries(me) /\ me.pc = "select"
  BY DEF BaseInv, TypeOK, WorkInv
<1>2. /\ new \in Request /\ new.pc \in {"write", "ended"}
      /\ new.op = me.op /\ new.user = me.user /\ new.token = me.token /\ new.other = me.other
      /\ new.pc = "write" => new.answer = me.answer
  BY Selecteds
<1> HIDE DEF me, new
<1>3. Carries(new)
  BY <1>1, <1>2 DEF Carries
<1> QED BY <1>2, <1>3 DEF me, new

LEMMA BaseStep == BaseInv /\ [Next]_vars => BaseInv'
<1> SUFFICES ASSUME BaseInv, [Next]_vars PROVE BaseInv'
  OBVIOUS
<1>0. /\ TypeOK /\ WorkInv /\ Tables
      /\ \A q \in Requests : req[q] \in Request /\ Carries(req[q])
  BY DEF BaseInv, TypeOK, WorkInv, Tables
<1>1. CASE UNCHANGED vars
  BY <1>0, <1>1 DEF vars, tables, BaseInv, TypeOK, WorkInv, Carries
<1>E. ASSUME Observe, NEW q \in Requests, NEW answer \in Answers, Goes(q, Ended(req[q], answer)),
             Tables', cached' \in Nat, faults' \in 0 .. MaxFaults
      PROVE  BaseInv'
  BY <1>0, <1>E, EndedCarries, OwnStep
<1>U. UNCHANGED tables => Tables'
  BY <1>0 DEF tables, Tables
<1>K. UNCHANGED <<cached, faults>> =>
        cached' \in Nat /\ faults' \in 0 .. MaxFaults
  BY <1>0 DEF TypeOK
<1>2. ASSUME Observe, NEW q \in Requests, Start(q) PROVE BaseInv'
  <2>1. PICK me : Begins(me) /\ Goes(q, me)
    BY <1>0, <1>2, Started
  <2>2. UNCHANGED <<tables, cached, faults>>
    BY <1>0, <1>2 DEF Start, TypeOK
  <2>3. me \in Request /\ Carries(me)
    BY <2>1 DEF Begins
  <2> QED BY <1>0, <1>2, <1>U, <2>1, <2>2, <2>3, OwnStep DEF TypeOK
<1>3. ASSUME Observe, NEW q \in Requests, Zone(q) PROVE BaseInv'
  <2>1. /\ Goes(q, GoesOn(req[q], "select")) /\ req[q].pc = "zone"
        /\ UNCHANGED <<token, ids, follow, name, cached, faults>>
    BY <1>3 DEF Zone
  <2>2. Tables'
    BY <1>0, <1>3, <2>1 DEF Zone, Tables, Carries
  <2>3. GoesOn(req[q], "select") \in Request /\ Carries(GoesOn(req[q], "select"))
    BY <1>0, <2>1, GoingsOn DEF Carries
  <2> QED BY <1>0, <1>3, <1>K, <2>1, <2>2, <2>3, OwnStep
<1>4. ASSUME Observe, NEW q \in Requests, Select(q) PROVE BaseInv'
  <2>1. /\ Goes(q, Selected(req[q])) /\ req[q].pc = "select"
        /\ UNCHANGED <<tables, cached, faults>>
    BY <1>4 DEF Select
  <2>2. Selected(req[q]) \in Request /\ Carries(Selected(req[q]))
    BY <2>1, SelectedCarries
  <2> QED BY <1>4, <1>K, <1>U, <2>1, <2>2, OwnStep
<1>5. ASSUME Observe, NEW q \in Requests, Write(q) PROVE BaseInv'
  <2>1. /\ Goes(q, Ended(req[q], Answered(req[q]))) /\ req[q].pc = "write" /\ Effect(req[q])
        /\ UNCHANGED <<cached, faults>>
    BY <1>5 DEF Write
  <2>2. Tables'
    BY <1>0, <2>1, Effects
  <2> QED BY <1>5, <1>E, <1>K, <2>1, <2>2, Answereds DEF Answers
<1>6. ASSUME Observe, NEW q \in Requests, WriteRefused(q) PROVE BaseInv'
  BY <1>0, <1>6, <1>E, <1>K, <1>U, ErrorAnswers DEF WriteRefused
<1>7. ASSUME Observe, NEW q \in Requests, ClosedClient(q) PROVE BaseInv'
  BY <1>7, <1>E, <1>K, <1>U DEF ClosedClient, Answers
<1>8. ASSUME Observe, NEW q \in Requests, TransportError(q) PROVE BaseInv'
  <2>1. faults' \in 0 .. MaxFaults
    BY <1>0, <1>8, FaultCounted DEF TransportError, Fault, TypeOK
  <2>2. Tables'
    <3>1. CASE req[q].pc = "write" /\ Effect(req[q])
      BY <1>0, <3>1, Effects
    <3> QED BY <1>8, <1>U, <3>1 DEF TransportError, ExecutedOrNot
  <2>3. CASE LastAttempt(req[q].call)
    BY <1>0, <1>8, <1>E, <2>1, <2>2, <2>3 DEF TransportError, Answers, TypeOK
  <2>4. CASE ~LastAttempt(req[q].call)
    <3>1. Goes(q, [req[q] EXCEPT !.call = Retried(@, cached + 1)]) /\ cached' \in Nat
      BY <1>0, <1>8, <2>4 DEF TransportError, TypeOK
    <3> QED BY <1>8, <2>1, <2>2, <2>4, <3>1, RetryCarries, OwnStep
  <2> QED BY <2>3, <2>4
<1>9. ASSUME Observe, NEW q \in Requests, ApiError(q) PROVE BaseInv'
  <2>1. /\ faults' \in 0 .. MaxFaults /\ cached' \in Nat
        /\ UNCHANGED tables /\ Goes(q, Ended(req[q], ErrorAnswer(req[q], FALSE)))
    BY <1>0, <1>9, FaultCounted DEF ApiError, Fault, TypeOK
  <2>2. ErrorAnswer(req[q], FALSE) \in Answers
    BY <1>0, ErrorAnswers
  <2> QED BY <1>9, <1>E, <1>U, <2>1, <2>2
<1>O. Observe => /\ held' \subseteq Requests /\ rivalled' \subseteq Requests
                 /\ struck' \subseteq Requests /\ raced' \subseteq Requests
  BY <1>0 DEF Observe, TypeOK
<1>10. ASSUME Observe, NEW t \in Tokens, DropToken(t) PROVE BaseInv'
  <2>1. NoTokenRow \in [id : 0 .. ids, user : Users \cup {NoUser}]
    BY <1>0 DEF NoTokenRow, Tables
  <2>2. token' \in [Tokens -> [id : 0 .. ids, user : Users \cup {NoUser}]]
    BY <1>0, <1>10, <2>1 DEF DropToken, Tables
  <2>3. TypeOK'
    BY <1>0, <1>10, <1>O, <2>2 DEF DropToken, TypeOK
  <2> QED BY <1>0, <1>10, <2>3 DEF DropToken, BaseInv, WorkInv, Carries
<1>11. CASE Observe /\ OtherReset
  <2>1. faults' \in 0 .. MaxFaults
    BY <1>0, <1>11, FaultCounted DEF OtherReset
  <2>2. TypeOK'
    BY <1>0, <1>11, <1>O, <2>1 DEF OtherReset, Fault, tables, TypeOK
  <2> QED BY <1>0, <1>11, <2>2 DEF OtherReset, BaseInv, WorkInv, Carries
<1>12. ASSUME Observe, NEW q \in Requests, UnlistedError(q) PROVE BaseInv'
  <2>1. /\ faults' \in 0 .. MaxFaults /\ cached' \in Nat
        /\ Goes(q, Ended(req[q], "raw"))
    BY <1>0, <1>12, FaultCounted DEF UnlistedError, TypeOK
  <2>2. Tables'
    <3>1. CASE req[q].pc = "write" /\ Effect(req[q])
      BY <1>0, <3>1, Effects
    <3> QED BY <1>12, <1>U, <3>1 DEF UnlistedError, ExecutedOrNot
  <2> QED BY <1>12, <1>E, <2>1, <2>2 DEF Answers
<1> QED BY <1>1, <1>2, <1>3, <1>4, <1>5, <1>6, <1>7, <1>8, <1>9, <1>10, <1>11, <1>12 DEF Next, Step

LEMMA InitBase == Init => BaseInv
<1> SUFFICES ASSUME Init PROVE BaseInv
  OBVIOUS
<1>1. NoTokenRow \in [id : 0 .. 1, user : Users \cup {NoUser}]
  BY DEF NoTokenRow
<1>2. token \in [Tokens -> [id : 0 .. 1, user : Users \cup {NoUser}]]
  BY <1>1 DEF Init
<1>3. TypeOK
  <2> HIDE DEF NewRequest
  <2> QED BY <1>2, NewTypes DEF Init, TypeOK
<1>4. WorkInv
  BY NewTypes DEF Init, WorkInv, Carries
<1> QED BY <1>3, <1>4 DEF BaseInv

\* Types are kept, and a request under way carries what its queries need.
THEOREM TypesHold == Spec => []TypeOK
<1>1. BaseInv => TypeOK
  BY DEF BaseInv
<1> QED BY <1>1, InitBase, BaseStep, PTL DEF Spec

-----------------------------------------------------------------------------
(* DevicesKeepTheirUser and NamesSurvive: only writes change the tables, and *)
(* an attempt whose answer is lost is a write, too.                         *)

\* The steps that can change the tables, with the request that takes them.
LEMMA TableSteps ==
    ASSUME BaseInv, [Next]_vars
    PROVE  \/ UNCHANGED <<token, ids, follow, name>>
           \/ \E q \in Requests : /\ req[q].pc = "write" /\ Effect(req[q]) /\ req'[q] # req[q]
                                  /\ Write(q) \/ TransportError(q) \/ UnlistedError(q)
           \/ \E t \in Tokens : DropToken(t)
<1>0. TypeOK /\ \A q \in Requests : req[q] \in Request
  BY DEF BaseInv, TypeOK
<1>1. CASE UNCHANGED vars
  BY <1>1 DEF vars, tables
<1>2. ASSUME NEW q \in Requests, Write(q) PROVE req[q].pc = "write" /\ Effect(req[q]) /\ req'[q] # req[q]
  <2>1. req'[q] = Ended(req[q], Answered(req[q]))
    BY <1>0, <1>2, Moves DEF Write
  <2>2. req'[q].pc = "ended"
    BY <1>0, <2>1, Endings, Answereds DEF Answers
  <2> QED BY <1>2, <2>2 DEF Write
<1>3. ASSUME NEW q \in Requests, TransportError(q), ~UNCHANGED tables
      PROVE req[q].pc = "write" /\ Effect(req[q]) /\ req'[q] # req[q]
  <2>1. req[q].pc = "write" /\ Effect(req[q])
    BY <1>3 DEF TransportError, ExecutedOrNot
  <2>2. CASE LastAttempt(req[q].call)
    <3>1. req'[q] = Ended(req[q], "upstream")
      BY <1>0, <1>3, <2>2, Moves DEF TransportError
    <3>2. req'[q].pc = "ended"
      BY <1>0, <3>1, Endings DEF Answers
    <3> QED BY <2>1, <3>2
  <2>3. CASE ~LastAttempt(req[q].call)
    <3>1. req'[q] = [req[q] EXCEPT !.call = Retried(@, cached + 1)]
      BY <1>0, <1>3, <2>3, Moves DEF TransportError
    <3> QED BY <2>1, <2>3, <3>1, RetryCarries
  <2> QED BY <2>2, <2>3
<1>4. ASSUME NEW q \in Requests, UnlistedError(q), ~UNCHANGED tables
      PROVE req[q].pc = "write" /\ Effect(req[q]) /\ req'[q] # req[q]
  <2>1. req[q].pc = "write" /\ Effect(req[q])
    BY <1>4 DEF UnlistedError, ExecutedOrNot
  <2>2. req'[q] = Ended(req[q], "raw")
    BY <1>0, <1>4, Moves DEF UnlistedError
  <2>3. req'[q].pc = "ended"
    BY <1>0, <2>2, Endings DEF Answers
  <2> QED BY <2>1, <2>3
<1> QED BY <1>1, <1>2, <1>3, <1>4
        DEF Next, Step, tables, Start, Zone, Select, WriteRefused, ClosedClient, ApiError, UnlistedError, OtherReset

LEMMA DevicesStep ==
    ASSUME BaseInv, [Next]_vars, NEW t \in Tokens, NEW u \in Users,
           token[t].user = u, token'[t].user # u
    PROVE  \/ req' = req
           \/ \E q \in Requests : /\ req'[q] # req[q]
                                  /\ req[q].pc = "write" /\ req[q].token = t
                                  /\ (req[q].op = "register" \/ req[q].user = u)
<1>1. ASSUME NEW q \in Requests, req[q].pc = "write", Effect(req[q]), req'[q] # req[q]
      PROVE  /\ req'[q] # req[q] /\ req[q].pc = "write" /\ req[q].token = t
             /\ (req[q].op = "register" \/ req[q].user = u)
  <2>1. req[q] \in Request /\ Carries(req[q])
    BY DEF BaseInv, TypeOK, WorkInv
  <2> QED BY <1>1, <2>1, Effects
<1> QED BY <1>1, TableSteps DEF DropToken

\* A user loses a device only by a request of somebody who registers it, by an
\* own one, or because Expo no longer knows it: a late logout cannot take it.
THEOREM DevicesAreKept == Spec => DevicesKeepTheirUser
<1>1. BaseInv /\ [Next]_vars =>
        [\A t \in Tokens, u \in Users : token[t].user = u /\ token'[t].user # u =>
           \/ req' = req
           \/ \E q \in Requests : /\ req'[q] # req[q]
                                  /\ req[q].pc = "write" /\ req[q].token = t
                                  /\ (req[q].op = "register" \/ req[q].user = u)]_vars
  BY DevicesStep
<1> QED BY <1>1, InitBase, BaseStep, PTL DEF Spec, DevicesKeepTheirUser

LEMMA NamesStep ==
    ASSUME BaseInv, [Next]_vars, NEW u \in Users, name[u] \in Names, name'[u] # name[u]
    PROVE  \E q \in Requests : /\ req'[q] # req[q] /\ req[q].pc = "write"
                               /\ req[q].op = "profile" /\ req[q].user = u
<1>1. ASSUME NEW q \in Requests, req[q].pc = "write", Effect(req[q]), req'[q] # req[q]
      PROVE  /\ req'[q] # req[q] /\ req[q].pc = "write"
             /\ req[q].op = "profile" /\ req[q].user = u
  <2>1. req[q] \in Request /\ Carries(req[q])
    BY DEF BaseInv, TypeOK, WorkInv
  <2> QED BY <1>1, <2>1, Effects
<1> QED BY <1>1, TableSteps DEF DropToken

\* A user name goes only by its owner's PATCH: the row that GET /me inserts
\* late, or inserts again after a lost answer, keeps what is there.
THEOREM NamesAreKept == Spec => NamesSurvive
<1>1. BaseInv /\ [Next]_vars =>
        [\A u \in Users : name[u] \in Names /\ name'[u] # name[u] =>
           \E q \in Requests : /\ req'[q] # req[q] /\ req[q].pc = "write"
                               /\ req[q].op = "profile" /\ req[q].user = u]_vars
  BY NamesStep
<1> QED BY <1>1, InitBase, BaseStep, PTL DEF Spec, NamesSurvive

-----------------------------------------------------------------------------
(* AnswersWereTrue: the step that answers a request also makes, or finds,    *)
(* what the answer says.                                                    *)

\* What has to be so for a request to be answered as it is.
Justified(me, tok, fol, nam) ==
    /\ (\/ me.answer \in {"ok", "notfound"}
        \/ me.answer = "conflict" /\ me.op = "follow") => Purpose(me, tok, fol, nam)
    /\ me.answer = "conflict" /\ me.op = "profile" => Rival(me, nam)

LEMMA SamePurpose ==
    ASSUME NEW me, NEW new, NEW tok, NEW fol, NEW nam,
           new.op = me.op, new.user = me.user, new.token = me.token,
           new.other = me.other, new.name = me.name
    PROVE  /\ Purpose(new, tok, fol, nam) <=> Purpose(me, tok, fol, nam)
           /\ Rival(new, nam) <=> Rival(me, nam)
BY DEF Purpose, Rival

\* A write that was not refused serves its purpose, or says that it did not.
LEMMA WritesServe ==
    ASSUME BaseInv, NEW q \in Requests, req[q].pc = "write", ~Refused(req[q]), Effect(req[q]),
           Answered(req[q]) # "upstream"
    PROVE  Purpose(req[q], token', follow', name')
<1> DEFINE me == req[q]
<1>0. /\ Tables /\ me.user \in Users /\ me.row \in Nat
      /\ me.op \in {"register", "unregister", "follow", "unfollow", "me", "profile"}
      /\ me.op \in {"register", "unregister"} => me.token \in Tokens
      /\ me.name \in Names \cup {NoName, Same}
  BY DEF BaseInv, TypeOK, Tables, WorkInv, Carries, Request
<1>1. CASE me.op = "register"
  <2>1. StoreToken(me) /\ (me.row = 0 \/ RowStands(me))
    BY <1>1 DEF Effect, Answered
  <2>2. CASE me.row = 0
    <3>1. token' = [token EXCEPT ![me.token] = [id |-> ids + 1, user |-> me.user]]
      BY <2>1, <2>2 DEF StoreToken
    <3>2. token'[me.token] = [id |-> ids + 1, user |-> me.user]
      BY <1>0, <1>1, <3>1 DEF Tables
    <3> QED BY <1>1, <3>2 DEF Purpose
  <2>3. CASE me.row # 0 /\ RowStands(me)
    <3>1. token' = [token EXCEPT ![me.token].user = me.user]
      BY <2>1, <2>3 DEF StoreToken
    <3>2. token'[me.token].user = me.user
      BY <1>0, <1>1, <3>1 DEF Tables
    <3> QED BY <1>1, <3>2 DEF Purpose
  <2> QED BY <2>1, <2>2, <2>3
<1>2. CASE me.op = "unregister"
  <2>1. RemoveToken(me)
    BY <1>2 DEF Effect
  <2>2. token'[me.token].user # me.user
    BY <1>0, <1>2, <2>1 DEF RemoveToken, NoTokenRow, Tables
  <2> QED BY <1>2, <2>2 DEF Purpose
<1>3. CASE me.op \in {"follow", "unfollow"}
  <2>1. SetFollow(me)
    BY <1>3 DEF Effect
  <2> QED BY <1>3, <2>1 DEF SetFollow, Purpose
<1>4. CASE me.op \in {"me", "profile"}
  <2>1. UpsertProfile(me)
    BY <1>4 DEF Effect
  <2>2. name'[me.user] = NameAfter(me)
    BY <1>0, <2>1 DEF UpsertProfile, Tables
  <2>3. NameAfter(me) # NoProfile /\ (me.op = "profile" /\ me.name # Same => NameAfter(me) = me.name)
    BY <1>0, <1>4 DEF NameAfter
  <2> QED BY <1>4, <2>2, <2>3 DEF Purpose
<1> QED BY <1>0, <1>1, <1>2, <1>3, <1>4

LEMMA AnswersStep == BaseInv /\ AnswersWereTrue /\ [Next]_vars => AnswersWereTrue'
<1> SUFFICES ASSUME BaseInv, AnswersWereTrue, [Next]_vars, NEW p \in Requests
             PROVE  /\ (\/ req'[p].answer \in {"ok", "notfound"}
                        \/ req'[p].answer = "conflict" /\ req'[p].op = "follow") => p \in held'
                    /\ req'[p].answer = "conflict" /\ req'[p].op = "profile" => p \in rivalled'
  BY DEF AnswersWereTrue
<1> DEFINE Goal == /\ (\/ req'[p].answer \in {"ok", "notfound"}
                       \/ req'[p].answer = "conflict" /\ req'[p].op = "follow") => p \in held'
                   /\ req'[p].answer = "conflict" /\ req'[p].op = "profile" => p \in rivalled'
<1>0. /\ TypeOK /\ WorkInv /\ \A q \in Requests : req[q] \in Request /\ Carries(req[q])
  BY DEF BaseInv, TypeOK, WorkInv
<1>S. ASSUME req'[p] = req[p], held \subseteq held', rivalled \subseteq rivalled' PROVE Goal
  BY <1>S DEF AnswersWereTrue
<1>O. Observe => held \subseteq held' /\ rivalled \subseteq rivalled'
  BY DEF Observe
<1>M. ASSUME Observe, NEW q \in Requests, NEW me, Goes(q, me), req[q].pc # "ended",
             Justified(me, token', follow', name')
      PROVE  Goal
  <2>1. CASE p # q
    BY <1>0, <1>M, <1>O, <1>S, <2>1, Moves
  <2>2. CASE p = q
    <3>1. req'[p] = me
      BY <1>0, <1>M, <2>2, Moves
    <3>2. Purpose(me, token', follow', name') => p \in held'
      BY <1>M, <2>2, <3>1 DEF Observe
    <3>3. me.op = "profile" /\ Rival(me, name') => p \in rivalled'
      BY <1>M, <2>2, <3>1 DEF Observe
    <3> QED BY <1>M, <3>1, <3>2, <3>3 DEF Justified
  <2> QED BY <2>1, <2>2
<1>N. ASSUME Observe, NEW q \in Requests, NEW me, Goes(q, me), req[q].pc # "ended",
             me.answer \in {"none", "invalid", "upstream", "raw"}
      PROVE  Goal
  BY <1>M, <1>N DEF Justified
<1>1. CASE UNCHANGED vars
  BY <1>1, <1>S DEF vars
<1>2. ASSUME Observe, NEW q \in Requests, Start(q) PROVE Goal
  <2>1. PICK me : Begins(me) /\ Goes(q, me)
    BY <1>0, <1>2, Started
  <2> QED BY <1>2, <1>N, <2>1 DEF Begins, Carries, Start
<1>3. ASSUME Observe, NEW q \in Requests, Zone(q) PROVE Goal
  BY <1>0, <1>3, <1>N, GoingsOn DEF Zone, Carries
<1>4. ASSUME Observe, NEW q \in Requests, Select(q) PROVE Goal
  <2>1. /\ Goes(q, Selected(req[q])) /\ req[q].pc = "select"
        /\ UNCHANGED <<token, follow, name>>
    BY <1>4 DEF Select, tables
  <2> DEFINE me == req[q]  new == Selected(me)
  <2>2. CASE new.pc = "write"
    <3>1. new.answer = "none"
      <4>1. me.answer = "none"
        BY <1>0, <2>1 DEF Carries
      <4>2. new.answer = me.answer
        BY <2>1, <2>2, Selecteds
      <4> QED BY <4>1, <4>2
    <3> QED BY <1>4, <1>N, <2>1, <3>1
  <2>3. CASE new.pc = "ended"
    <3>1. /\ new.op = me.op /\ new.user = me.user /\ new.token = me.token
          /\ new.other = me.other /\ new.name = me.name
          /\ \/ me.op = "follow" /\ new.answer = "conflict" /\ <<me.user, me.other>> \in follow
             \/ me.op = "me" /\ new.answer = "ok" /\ name[me.user] # NoProfile
      BY <2>1, <2>3, Selecteds
    <3> HIDE DEF new
    <3>2. Purpose(new, token, follow, name)
      BY <3>1 DEF Purpose
    <3>3. Justified(new, token', follow', name')
      BY <2>1, <3>1, <3>2 DEF Justified
    <3> QED BY <1>4, <1>M, <2>1, <3>3 DEF new
  <2> QED BY <2>1, <2>2, <2>3, Selecteds
<1>5. ASSUME Observe, NEW q \in Requests, Write(q) PROVE Goal
  <2> DEFINE me == req[q]  new == Ended(me, Answered(me))
  <2>1. Goes(q, new) /\ me.pc = "write" /\ Effect(me) /\ ~Refused(me)
    BY <1>5 DEF Write
  <2>2. /\ new.answer = Answered(me) /\ new.op = me.op /\ new.user = me.user
        /\ new.token = me.token /\ new.other = me.other /\ new.name = me.name
    BY <1>0, Answereds, Endings DEF Answers
  <2> HIDE DEF new
  <2>3. CASE Answered(me) = "upstream"
    BY <1>5, <1>N, <2>1, <2>2, <2>3
  <2>4. CASE Answered(me) # "upstream"
    <3>1. Purpose(me, token', follow', name')
      BY <2>1, <2>4, WritesServe
    <3>2. Purpose(new, token', follow', name')
      BY <2>2, <3>1, SamePurpose
    <3>3. new.answer # "conflict"
      BY <2>2, Answereds
    <3>4. Justified(new, token', follow', name')
      BY <3>2, <3>3 DEF Justified
    <3> QED BY <1>5, <1>M, <2>1, <3>4
  <2> QED BY <2>3, <2>4
<1>6. ASSUME Observe, NEW q \in Requests, WriteRefused(q) PROVE Goal
  <2> DEFINE me == req[q]  new == Ended(me, ErrorAnswer(me, TRUE))
  <2>1. /\ Goes(q, new) /\ me.pc = "write" /\ Refused(me)
        /\ UNCHANGED <<token, follow, name>>
    BY <1>6 DEF WriteRefused, tables
  <2>2. /\ new.answer = ErrorAnswer(me, TRUE) /\ new.op = me.op /\ new.user = me.user
        /\ new.token = me.token /\ new.other = me.other /\ new.name = me.name
    BY <1>0, ErrorAnswers, Endings
  <2> HIDE DEF new
  <2>3. CASE me.op = "profile"
    <3>1. Rival(me, name')
      BY <2>1, <2>3 DEF Refused, Taken, Rival
    <3>2. new.answer = "conflict" /\ Rival(new, name')
      BY <2>2, <2>3, <3>1, SamePurpose DEF ErrorAnswer
    <3>3. Justified(new, token', follow', name')
      BY <2>2, <2>3, <3>2 DEF Justified
    <3> QED BY <1>6, <1>M, <2>1, <3>3
  <2>4. CASE me.op # "profile"
    BY <1>6, <1>N, <2>1, <2>2, <2>4 DEF ErrorAnswer
  <2> QED BY <2>3, <2>4
<1>7. ASSUME Observe, NEW q \in Requests, ClosedClient(q) PROVE Goal
  BY <1>0, <1>7, <1>N, Endings DEF ClosedClient, UnderWay, Answers
<1>8. ASSUME Observe, NEW q \in Requests, TransportError(q) PROVE Goal
  <2>1. CASE LastAttempt(req[q].call)
    BY <1>0, <1>8, <1>N, <2>1, Endings DEF TransportError, UnderWay, Answers
  <2>2. CASE ~LastAttempt(req[q].call)
    <3>1. Goes(q, [req[q] EXCEPT !.call = Retried(@, cached + 1)]) /\ req[q].pc # "ended"
      BY <1>8, <2>2 DEF TransportError, UnderWay
    <3>2. [req[q] EXCEPT !.call = Retried(@, cached + 1)].answer = "none"
      BY <1>0, <2>2, <3>1, RetryCarries DEF Carries
    <3> QED BY <1>8, <1>N, <3>1, <3>2
  <2> QED BY <2>1, <2>2
<1>9. ASSUME Observe, NEW q \in Requests, ApiError(q) PROVE Goal
  <2>1. Goes(q, Ended(req[q], "upstream")) /\ req[q].pc # "ended"
    BY <1>9 DEF ApiError, UnderWay, ErrorAnswer
  <2> QED BY <1>0, <1>9, <1>N, <2>1, Endings DEF Answers
<1>10. ASSUME Observe, OtherReset \/ \E t \in Tokens : DropToken(t) PROVE Goal
  BY <1>10, <1>O, <1>S DEF OtherReset, DropToken
<1>11. ASSUME Observe, NEW q \in Requests, UnlistedError(q) PROVE Goal
  <2>1. Goes(q, Ended(req[q], "raw")) /\ req[q].pc # "ended"
    BY <1>11 DEF UnlistedError, UnderWay
  <2> QED BY <1>0, <1>11, <1>N, <2>1, Endings DEF Answers
<1> QED BY <1>1, <1>2, <1>3, <1>4, <1>5, <1>6, <1>7, <1>8, <1>9, <1>10, <1>11 DEF Next, Step

\* However often a request was retried and whoever wrote meanwhile, what it is
\* told was true at some moment between its arrival and its answer.
THEOREM AnswersAreTrue == Spec => []AnswersWereTrue
<1>1. Init => AnswersWereTrue
  BY NewTypes DEF Init, AnswersWereTrue
<1> QED BY <1>1, InitBase, BaseStep, AnswersStep, PTL DEF Spec

-----------------------------------------------------------------------------
(* ErrorsHaveACause: a request that nothing struck keeps its client, and     *)
(* while nobody raced it the row that it looked for stays as it found it.   *)

OpenInv ==
    \A q \in Requests : UnderWay(q) /\ q \notin struck =>
        req[q].call.client = cached /\ req[q].call.using = cached

SeenInv ==
    \A q \in Requests : req[q].pc = "write" /\ q \notin struck \cup raced =>
        /\ req[q].op = "register" => req[q].row = token[req[q].token].id
        /\ req[q].op = "follow" => <<req[q].user, req[q].other>> \notin follow

CauseInv == BaseInv /\ OpenInv /\ SeenInv /\ ErrorsHaveACause

\* One case for each way in which a step can touch a request.
LEMMA Turns ==
    ASSUME BaseInv, [Next]_vars, NEW p \in Requests
    PROVE  \/ req'[p] = req[p]
           \/ Start(p) /\ \E me : Begins(me) /\ req'[p] = me
           \/ Zone(p) /\ req'[p] = GoesOn(req[p], "select")
           \/ Select(p) /\ req'[p] = Selected(req[p])
           \/ Write(p) /\ req'[p] = Ended(req[p], Answered(req[p]))
           \/ WriteRefused(p) /\ req'[p] = Ended(req[p], ErrorAnswer(req[p], TRUE))
           \/ ClosedClient(p) /\ req'[p] = Ended(req[p], "raw")
           \/ (TransportError(p) \/ ApiError(p) \/ UnlistedError(p)) /\ UnderWay(p)
<1>0. TypeOK
  BY DEF BaseInv
<1>1. ASSUME NEW q \in Requests, NEW me, Goes(q, me) PROVE req'[p] = IF p = q THEN me ELSE req[p]
  BY <1>0, <1>1, Moves
<1>2. ASSUME NEW q \in Requests, Start(q)
      PROVE req'[p] = req[p] \/ (q = p /\ \E me : Begins(me) /\ req'[p] = me)
  BY <1>0, <1>1, <1>2, Started
<1>3. ASSUME NEW q \in Requests, TransportError(q) \/ ApiError(q) \/ UnlistedError(q)
      PROVE req'[p] = req[p] \/ (q = p /\ UnderWay(p))
  BY <1>1, <1>3 DEF TransportError, ApiError, UnlistedError
<1>4. ASSUME NEW q \in Requests,
             Zone(q) \/ Select(q) \/ Write(q) \/ WriteRefused(q) \/ ClosedClient(q)
      PROVE \/ req'[p] = req[p]
            \/ Zone(p) /\ req'[p] = GoesOn(req[p], "select")
            \/ Select(p) /\ req'[p] = Selected(req[p])
            \/ Write(p) /\ req'[p] = Ended(req[p], Answered(req[p]))
            \/ WriteRefused(p) /\ req'[p] = Ended(req[p], ErrorAnswer(req[p], TRUE))
            \/ ClosedClient(p) /\ req'[p] = Ended(req[p], "raw")
  <2>1. CASE Zone(q)
    <3>1. Goes(q, GoesOn(req[q], "select"))
      BY <2>1 DEF Zone
    <3> QED BY <1>1, <2>1, <3>1
  <2>2. CASE Select(q)
    <3>1. Goes(q, Selected(req[q]))
      BY <2>2 DEF Select
    <3> QED BY <1>1, <2>2, <3>1
  <2>3. CASE Write(q)
    <3>1. Goes(q, Ended(req[q], Answered(req[q])))
      BY <2>3 DEF Write
    <3> QED BY <1>1, <2>3, <3>1
  <2>4. CASE WriteRefused(q)
    <3>1. Goes(q, Ended(req[q], ErrorAnswer(req[q], TRUE)))
      BY <2>4 DEF WriteRefused
    <3> QED BY <1>1, <2>4, <3>1
  <2>5. CASE ClosedClient(q)
    <3>1. Goes(q, Ended(req[q], "raw"))
      BY <2>5 DEF ClosedClient
    <3> QED BY <1>1, <2>5, <3>1
  <2> QED BY <1>4, <2>1, <2>2, <2>3, <2>4, <2>5
<1>5. CASE UNCHANGED vars \/ OtherReset \/ \E t \in Tokens : DropToken(t)
  BY <1>5 DEF vars, OtherReset, DropToken
<1> QED BY <1>2, <1>3, <1>4, <1>5 DEF Next, Step

LEMMA HistoryGrows ==
    ASSUME [Next]_vars
    PROVE  struck \subseteq struck' /\ raced \subseteq raced'
BY DEF Next, Observe, vars

\* A faulty step strikes the request that takes it.
LEMMA FaultsStrike ==
    ASSUME BaseInv, [Next]_vars, NEW p \in Requests,
           TransportError(p) \/ ApiError(p) \/ UnlistedError(p)
    PROVE  p \in struck'
<1>0. req[p] \in Request /\ TypeOK /\ faults \in Nat
  BY DEF BaseInv, TypeOK
<1>1. UnderWay(p) /\ faults' = faults + 1
  BY DEF TransportError, ApiError, UnlistedError, Fault
<1>2. faults' # faults
  BY <1>0, <1>1
<1>3. ASSUME NEW answer \in Answers, Goes(p, Ended(req[p], answer)) PROVE req'[p] # req[p]
  <2>1. req'[p].pc = "ended"
    BY <1>0, <1>3, Endings, Moves
  <2> QED BY <1>1, <2>1 DEF UnderWay
<1>4. req'[p] # req[p]
  <2>1. CASE TransportError(p) /\ LastAttempt(req[p].call)
    BY <1>3, <2>1 DEF TransportError, Answers
  <2>2. CASE TransportError(p) /\ ~LastAttempt(req[p].call)
    <3>1. req'[p] = [req[p] EXCEPT !.call = Retried(@, cached + 1)]
      BY <1>0, <2>2, Moves DEF TransportError
    <3> QED BY <2>2, <3>1, RetryCarries
  <2>3. CASE ApiError(p)
    <3>1. ErrorAnswer(req[p], FALSE) \in Answers
      BY <1>0, ErrorAnswers
    <3> QED BY <1>3, <2>3, <3>1 DEF ApiError
  <2>4. CASE UnlistedError(p)
    BY <1>3, <2>4 DEF UnlistedError, Answers
  <2> QED BY <2>1, <2>2, <2>3, <2>4
<1>5. Observe
  BY <1>2 DEF Next, vars
<1> QED BY <1>1, <1>2, <1>4, <1>5 DEF Observe

\* While nothing strikes a request under way, the client stays.
LEMMA ClientStays ==
    ASSUME [Next]_vars, NEW p \in Requests, UnderWay(p), p \notin struck'
    PROVE  UNCHANGED cached
BY DEF Next, Observe, vars

LEMMA OpenStep == BaseInv /\ OpenInv /\ [Next]_vars => OpenInv'
<1> SUFFICES ASSUME BaseInv, OpenInv, [Next]_vars,
                    NEW p \in Requests, UnderWay(p)', p \notin struck'
             PROVE  req'[p].call.client = cached' /\ req'[p].call.using = cached'
  BY DEF OpenInv
<1>0. /\ req[p] \in Request /\ req[p].call \in Call /\ req'[p].pc # "ended" /\ p \notin struck
  BY HistoryGrows DEF BaseInv, TypeOK, UnderWay, Request
<1>1. CASE req'[p] = req[p]
  <2>1. UnderWay(p)
    BY <1>1 DEF UnderWay
  <2>2. UNCHANGED cached
    BY <2>1, ClientStays
  <2> QED BY <1>0, <1>1, <2>1, <2>2 DEF OpenInv
<1>2. ASSUME NEW me, Begins(me), Start(p), req'[p] = me
      PROVE req'[p].call.client = cached' /\ req'[p].call.using = cached'
  BY <1>0, <1>2 DEF Begins, Fresh, Start
<1>3. ASSUME UnderWay(p), req'[p].call = Returned(req[p].call)
      PROVE req'[p].call.client = cached' /\ req'[p].call.using = cached'
  <2>1. UNCHANGED cached
    BY <1>3, ClientStays
  <2> QED BY <1>0, <1>3, <2>1 DEF Returned, Call, OpenInv
<1>4. CASE Zone(p) /\ req'[p] = GoesOn(req[p], "select")
  BY <1>0, <1>3, <1>4, GoingsOn DEF Zone, UnderWay
<1>5. CASE Select(p) /\ req'[p] = Selected(req[p])
  <2>1. req[p].pc = "select"
    BY <1>5 DEF Select
  <2>2. req'[p].pc = "write"
    BY <1>0, <1>5, <2>1, Selecteds
  <2>3. req'[p].call = Returned(req[p].call)
    BY <1>5, <2>1, <2>2, Selecteds
  <2> QED BY <1>3, <2>1, <2>3 DEF UnderWay
<1>6. \A answer \in Answers : Ended(req[p], answer).pc = "ended"
  BY <1>0, Endings
<1> QED BY <1>0, <1>1, <1>2, <1>4, <1>5, <1>6, Turns, FaultsStrike, ErrorAnswers, Answereds
        DEF Answers

\* A request that waits to write and is not raced keeps the row it looked for.
LEMMA RowStays ==
    ASSUME [Next]_vars, NEW p \in Requests, UnderWay(p), req'[p] = req[p], p \notin raced'
    PROVE  /\ req[p].op = "register" => token'[req[p].token].id = token[req[p].token].id
           /\ req[p].op = "follow" =>
                (<<req[p].user, req[p].other>> \in follow' <=> <<req[p].user, req[p].other>> \in follow)
<1>1. CASE UNCHANGED vars
  BY <1>1 DEF vars, tables
<1>2. CASE Observe
  <2>1. ~RowChanges(req[p])
    BY <1>2 DEF Observe
  <2> QED BY <2>1 DEF RowChanges
<1> QED BY <1>1, <1>2 DEF Next

LEMMA SeenStep == BaseInv /\ SeenInv /\ [Next]_vars => SeenInv'
<1> SUFFICES ASSUME BaseInv, SeenInv, [Next]_vars, NEW p \in Requests,
                    p \notin struck', p \notin raced', req'[p].pc = "write"
             PROVE  /\ req'[p].op = "register" => req'[p].row = token'[req'[p].token].id
                    /\ req'[p].op = "follow" => <<req'[p].user, req'[p].other>> \notin follow'
  BY DEF SeenInv
<1>0. p \notin struck /\ p \notin raced /\ req[p] \in Request
  BY HistoryGrows DEF BaseInv, TypeOK
<1>1. CASE req'[p] = req[p]
  <2>1. UnderWay(p)
    BY <1>1 DEF UnderWay
  <2> QED BY <1>0, <1>1, <2>1, RowStays DEF SeenInv
<1>2. ASSUME NEW me, Begins(me), req'[p] = me PROVE req'[p].op \notin {"register", "follow"}
  BY <1>2 DEF Begins
<1>3. CASE Select(p) /\ req'[p] = Selected(req[p])
  <2>1. req[p].pc = "select" /\ UNCHANGED <<token, follow>>
    BY <1>3 DEF Select, tables
  <2>2. /\ req'[p].op = req[p].op /\ req'[p].user = req[p].user
        /\ req'[p].token = req[p].token /\ req'[p].other = req[p].other
        /\ req[p].op = "register" => req'[p].row = token[req[p].token].id
        /\ req[p].op = "follow" => <<req[p].user, req[p].other>> \notin follow
    BY <1>3, <2>1, Selecteds
  <2> QED BY <2>1, <2>2
<1>4. CASE Zone(p) /\ req'[p] = GoesOn(req[p], "select")
  BY <1>0, <1>4, GoingsOn
<1>5. \A answer \in Answers : Ended(req[p], answer).pc = "ended"
  BY <1>0, Endings
<1> QED BY <1>0, <1>1, <1>2, <1>3, <1>4, <1>5, Turns, FaultsStrike, ErrorAnswers, Answereds
        DEF Answers

LEMMA ErrorsStep ==
    ASSUME BaseInv, OpenInv, SeenInv, ErrorsHaveACause, [Next]_vars
    PROVE  ErrorsHaveACause'
<1> SUFFICES ASSUME NEW p \in Requests, p \notin struck',
                    \/ req'[p].answer = "upstream" /\ p \notin raced'
                    \/ req'[p].answer = "raw" /\ req'[p].zone # "malformed"
             PROVE  FALSE
  BY DEF ErrorsHaveACause
<1>0. /\ p \notin struck /\ (p \notin raced' => p \notin raced)
      /\ req[p] \in Request /\ Carries(req[p])
      /\ \A answer \in Answers : Ended(req[p], answer).answer = answer
  BY HistoryGrows, Endings DEF BaseInv, TypeOK, WorkInv
<1>1. CASE req'[p] = req[p]
  BY <1>0, <1>1 DEF ErrorsHaveACause
<1>2. ASSUME NEW me, Begins(me), req'[p] = me PROVE FALSE
  BY <1>2 DEF Begins, Carries
<1>3. CASE Zone(p) /\ req'[p] = GoesOn(req[p], "select")
  BY <1>0, <1>3, GoingsOn DEF Carries, Zone
<1>4. CASE Select(p) /\ req'[p] = Selected(req[p])
  <2>1. req[p].pc = "select" /\ req[p].answer = "none"
    BY <1>0, <1>4 DEF Select, Carries
  <2> QED BY <1>4, <2>1, Selecteds
<1>5. CASE Write(p) /\ req'[p] = Ended(req[p], Answered(req[p]))
  <2>1. Answered(req[p]) = "upstream" /\ req[p].pc = "write"
    BY <1>0, <1>5, Answereds DEF Answers, Write
  <2>2. req[p].op = "register" /\ req[p].row # 0 /\ ~RowStands(req[p])
    BY <2>1 DEF Answered
  <2> QED BY <1>0, <1>5, <2>1, <2>2 DEF SeenInv, RowStands, Answers
<1>6. CASE WriteRefused(p) /\ req'[p] = Ended(req[p], ErrorAnswer(req[p], TRUE))
  <2>1. /\ ErrorAnswer(req[p], TRUE) = "upstream" /\ req'[p].answer = "upstream"
        /\ req[p].pc = "write" /\ Refused(req[p])
    BY <1>0, <1>6, ErrorAnswers DEF ErrorAnswer, Answers, WriteRefused
  <2>2. req[p].op # "profile"
    BY <2>1 DEF ErrorAnswer
  <2> QED BY <1>0, <2>1, <2>2 DEF SeenInv, Refused
<1>7. CASE ClosedClient(p) /\ req'[p] = Ended(req[p], "raw")
  BY <1>0, <1>7 DEF ClosedClient, OpenInv, Open
<1> QED BY <1>1, <1>2, <1>3, <1>4, <1>5, <1>6, <1>7, Turns, FaultsStrike

\* Whoever else is under way, nobody is answered 502 whose attempts did not
\* fail, whose client was not reset and whose row nobody added or removed
\* meanwhile; nor 500, but for a time zone that is no zone name.
THEOREM ErrorsAreCaused == Spec => []ErrorsHaveACause
<1>1. Init => CauseInv
  <2>1. Init => OpenInv /\ SeenInv /\ ErrorsHaveACause
    BY NewTypes DEF Init, OpenInv, SeenInv, ErrorsHaveACause, UnderWay
  <2> QED BY <2>1, InitBase DEF CauseInv
<1>2. CauseInv /\ [Next]_vars => CauseInv'
  BY BaseStep, OpenStep, SeenStep, ErrorsStep DEF CauseInv
<1>3. CauseInv => ErrorsHaveACause
  BY DEF CauseInv
<1> QED BY <1>1, <1>2, <1>3, PTL DEF Spec

-----------------------------------------------------------------------------
(* Requests end: the part of it that does not need fairness.                *)

AttemptsLeft(me) == MaxAttempts - me.call.attempt + 1

\* The attempts of the query at work and of those behind it.
StepsLeft(me) ==
    CASE me.pc = "idle"   -> 3 * MaxAttempts + 1
      [] me.pc = "zone"   -> AttemptsLeft(me) + 2 * MaxAttempts
      [] me.pc = "select" -> AttemptsLeft(me) + MaxAttempts
      [] me.pc = "write"  -> AttemptsLeft(me)
      [] me.pc = "ended"  -> 0

LEMMA StepsAre ==
    ASSUME NEW me \in Request
    PROVE  /\ StepsLeft(me) \in 0 .. 3 * MaxAttempts + 1
           /\ AttemptsLeft(me) \in 1 .. MaxAttempts
           /\ me.pc = "idle"   => StepsLeft(me) = 3 * MaxAttempts + 1
           /\ me.pc = "zone"   => StepsLeft(me) \in 2 * MaxAttempts + 1 .. 3 * MaxAttempts
           /\ me.pc = "select" => StepsLeft(me) \in MaxAttempts + 1 .. 2 * MaxAttempts
           /\ me.pc = "write"  => StepsLeft(me) \in 1 .. MaxAttempts
           /\ me.pc = "ended"  => StepsLeft(me) = 0
<1>1. me.pc \in {"idle", "zone", "select", "write", "ended"} /\ MaxAttempts \in Nat \ {0}
  BY DEF Request
<1>2. AttemptsLeft(me) \in 1 .. MaxAttempts
  BY DEF AttemptsLeft, Request, Call
<1> HIDE DEF AttemptsLeft
<1>3. /\ me.pc = "idle"   => StepsLeft(me) = 3 * MaxAttempts + 1
      /\ me.pc = "zone"   => StepsLeft(me) = AttemptsLeft(me) + 2 * MaxAttempts
      /\ me.pc = "select" => StepsLeft(me) = AttemptsLeft(me) + MaxAttempts
      /\ me.pc = "write"  => StepsLeft(me) = AttemptsLeft(me)
      /\ me.pc = "ended"  => StepsLeft(me) = 0
  BY DEF StepsLeft
<1> HIDE DEF StepsLeft
<1> QED BY <1>1, <1>2, <1>3

\* One retry less.
LEMMA RetryShortens ==
    ASSUME BaseInv, NEW q \in Requests, UnderWay(q), ~LastAttempt(req[q].call)
    PROVE  StepsLeft([req[q] EXCEPT !.call = Retried(@, cached + 1)]) < StepsLeft(req[q])
<1> DEFINE me   == req[q]
           call == Retried(me.call, cached + 1)
           new  == [me EXCEPT !.call = call]
<1>1. me \in Request /\ cached + 1 \in Nat /\ me.pc \in {"zone", "select", "write"}
  BY DEF BaseInv, TypeOK, UnderWay
<1>2. me.call \in Call /\ call \in Call
  BY <1>1, CallTypes DEF Request
<1>3. call.attempt = me.call.attempt + 1
  BY <1>2 DEF Retried, Call
<1> HIDE DEF call, me
<1>4. new \in Request /\ new.call = call /\ new.pc = me.pc
  BY <1>1, <1>2, Retries
<1> HIDE DEF new
<1>5. AttemptsLeft(new) = AttemptsLeft(me) - 1
  <2>1. me.call.attempt \in Nat /\ MaxAttempts \in Nat
    BY <1>2 DEF Call
  <2> QED BY <1>3, <1>4, <2>1 DEF AttemptsLeft
<1>6. AttemptsLeft(me) \in 1 .. MaxAttempts /\ MaxAttempts \in Nat
  BY <1>1, StepsAre
<1> HIDE DEF AttemptsLeft
<1>7. \E n \in Nat : StepsLeft(new) = AttemptsLeft(new) + n /\ StepsLeft(me) = AttemptsLeft(me) + n
  <2>1. CASE me.pc = "zone"
    BY <1>4, <1>6, <2>1 DEF StepsLeft
  <2>2. CASE me.pc = "select"
    BY <1>4, <1>6, <2>2 DEF StepsLeft
  <2>3. CASE me.pc = "write"
    <3>1. StepsLeft(new) = AttemptsLeft(new) /\ StepsLeft(me) = AttemptsLeft(me)
      BY <1>4, <2>3 DEF StepsLeft
    <3> QED BY <1>5, <1>6, <3>1
  <2> QED BY <1>1, <2>1, <2>2, <2>3 DEF me
<1>8. StepsLeft(new) < StepsLeft(me)
  BY <1>5, <1>6, <1>7
<1> QED BY <1>8 DEF new, call, me

Shorter(q) == \E me \in Request : Goes(q, me) /\ StepsLeft(me) < StepsLeft(req[q])

LEMMA EndShortens ==
    ASSUME BaseInv, NEW q \in Requests, UnderWay(q), NEW answer \in Answers,
           Goes(q, Ended(req[q], answer))
    PROVE  Shorter(q)
<1>1. req[q] \in Request /\ req[q].pc \in {"zone", "select", "write"} /\ MaxAttempts \in Nat
  BY DEF BaseInv, TypeOK, UnderWay
<1>2. Ended(req[q], answer) \in Request /\ Ended(req[q], answer).pc = "ended"
  BY <1>1, Endings
<1>3. StepsLeft(Ended(req[q], answer)) < StepsLeft(req[q])
  BY <1>1, <1>2, StepsAre
<1> QED BY <1>2, <1>3 DEF Shorter

LEMMA StepShortens ==
    ASSUME BaseInv, NEW q \in Requests,
           \/ Start(q) \/ Zone(q) \/ Select(q) \/ Write(q) \/ WriteRefused(q)
           \/ ClosedClient(q) \/ TransportError(q) \/ ApiError(q) \/ UnlistedError(q)
    PROVE  Shorter(q)
<1>0. TypeOK /\ req[q] \in Request /\ MaxAttempts \in Nat
  BY DEF BaseInv, TypeOK
<1>1. CASE Start(q)
  <2>1. PICK me : Begins(me) /\ Goes(q, me)
    BY <1>0, <1>1, Started
  <2>2. /\ me \in Request /\ me.pc \in {"zone", "select", "write", "ended"}
        /\ req[q].pc = "idle"
    BY <1>1, <2>1 DEF Begins, Start
  <2>3. StepsLeft(me) < StepsLeft(req[q])
    BY <1>0, <2>2, StepsAre
  <2> QED BY <2>1, <2>2, <2>3 DEF Shorter
<1>2. CASE Zone(q)
  <2>1. Goes(q, GoesOn(req[q], "select")) /\ req[q].pc = "zone"
    BY <1>2 DEF Zone
  <2>2. GoesOn(req[q], "select") \in Request /\ GoesOn(req[q], "select").pc = "select"
    BY <1>0, GoingsOn
  <2>3. StepsLeft(GoesOn(req[q], "select")) < StepsLeft(req[q])
    BY <1>0, <2>1, <2>2, StepsAre
  <2> QED BY <2>1, <2>2, <2>3 DEF Shorter
<1>3. CASE Select(q)
  <2>1. Goes(q, Selected(req[q])) /\ req[q].pc = "select"
    BY <1>3 DEF Select
  <2>2. Selected(req[q]) \in Request /\ Selected(req[q]).pc \in {"write", "ended"}
    BY <2>1, Selecteds
  <2>3. StepsLeft(Selected(req[q])) < StepsLeft(req[q])
    BY <1>0, <2>1, <2>2, StepsAre
  <2> QED BY <2>1, <2>2, <2>3 DEF Shorter
<1>4. CASE Write(q) \/ WriteRefused(q)
  <2>1. UnderWay(q)
    BY <1>4 DEF Write, WriteRefused, UnderWay
  <2>2. Answered(req[q]) \in Answers /\ ErrorAnswer(req[q], TRUE) \in Answers
    BY <1>0, Answereds, ErrorAnswers DEF Answers
  <2> QED BY <1>4, <2>1, <2>2, EndShortens DEF Write, WriteRefused
<1>5. CASE ClosedClient(q)
  BY <1>5, EndShortens DEF ClosedClient, Answers
<1>6. CASE ApiError(q)
  <2>1. ErrorAnswer(req[q], FALSE) \in Answers
    BY <1>0, ErrorAnswers
  <2> QED BY <1>6, <2>1, EndShortens DEF ApiError
<1>7. CASE TransportError(q)
  <2>1. CASE LastAttempt(req[q].call)
    BY <1>7, <2>1, EndShortens DEF TransportError, Answers
  <2>2. CASE ~LastAttempt(req[q].call)
    <3>1. Goes(q, [req[q] EXCEPT !.call = Retried(@, cached + 1)]) /\ UnderWay(q)
      BY <1>7, <2>2 DEF TransportError
    <3> QED BY <2>2, <3>1, RetryShortens, RetryCarries DEF Shorter
  <2> QED BY <2>1, <2>2
<1>8. CASE UnlistedError(q)
  BY <1>8, EndShortens DEF UnlistedError, Answers
<1> QED BY <1>1, <1>2, <1>3, <1>4, <1>5, <1>6, <1>7, <1>8

\* A step leaves each request as it is, or with fewer steps to do.
StepsRunOut ==
    \A q \in Requests :
        /\ StepsLeft(req[q]) \in 0 .. 3 * MaxAttempts + 1
        /\ req'[q] # req[q] => StepsLeft(req'[q]) < StepsLeft(req[q])

\* Whatever connections break and whoever writes or resets the client meanwhile,
\* a request is over after 3 * MaxAttempts + 1 steps at most.
THEOREM RequestsRunOut == Spec => [][StepsRunOut]_vars
<1>1. ASSUME BaseInv, Next
      PROVE  StepsRunOut
  <2>1. TypeOK /\ \A q \in Requests : req[q] \in Request
    BY <1>1 DEF BaseInv, TypeOK
  <2>2. \A q \in Requests : StepsLeft(req[q]) \in 0 .. 3 * MaxAttempts + 1
    BY <2>1, StepsAre
  <2>3. ASSUME NEW p \in Requests, Shorter(p)
        PROVE  StepsRunOut
    BY <2>1, <2>2, <2>3, Moves DEF Shorter, StepsRunOut
  <2>4. ASSUME NEW t \in Tokens, DropToken(t)
        PROVE  StepsRunOut
    BY <2>2, <2>4 DEF DropToken, StepsRunOut
  <2>5. CASE OtherReset
    BY <2>2, <2>5 DEF OtherReset, StepsRunOut
  <2> QED BY <1>1, <2>3, <2>4, <2>5, StepShortens DEF Next, Step
<1>2. BaseInv /\ [Next]_vars => [StepsRunOut]_vars
  BY <1>1
<1> QED BY <1>2, InitBase, BaseStep, PTL DEF Spec

=============================================================================
