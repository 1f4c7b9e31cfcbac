-------------------------- MODULE EventImagesProofs --------------------------
(***************************************************************************)
(* The properties of EventImages for any users, events, URLs, objects and  *)
(* requests, any number of attempts and any number of faults.              *)
(***************************************************************************)
EXTENDS EventImages, TLAPS

USE ImagesAssumption, CallsAssumption

-----------------------------------------------------------------------------
(* Types.                                                                   *)

LEMMA FreshType == ASSUME NEW fresh \in Nat PROVE Fresh(fresh) \in Call
BY DEF Fresh, Call

LEMMA CallTypes ==
    ASSUME NEW call \in Call, NEW fresh \in Nat
    PROVE  /\ Returned(call) \in Call
           /\ ~LastAttempt(call) => Retried(call, fresh) \in Call
<1>1. Returned(call) \in Call
  <2>1. call.client \in Nat /\ 1 \in 1 .. MaxAttempts
    BY DEF Call
  <2> QED BY <2>1 DEF Returned, Call
<1>2. ASSUME ~LastAttempt(call) PROVE Retried(call, fresh) \in Call
  <2>1. call.attempt + 1 \in 1 .. MaxAttempts
    BY <1>2 DEF LastAttempt, Call
  <2> QED BY <2>1 DEF Retried, Call
<1> QED BY <1>1, <1>2

Answers == {"none", "ok", "invalid", "notfound", "forbidden", "upstream", "raw"}

LEMMA RequestTypes ==
    ASSUME NEW me \in Request
    PROVE  /\ \A answer \in Answers : Ended(me, answer) \in Request
           /\ \A pc \in {"read", "write", "remove"} : GoesOn(me, pc) \in Request
           /\ \A url \in Urls \cup {NoUrl} : [me EXCEPT !.prev = url] \in Request
           /\ \A call \in Call : [me EXCEPT !.call = call] \in Request
<1>1. me.call \in Call
  BY DEF Request
<1>2. \A answer \in Answers : Ended(me, answer) \in Request
  BY DEF Ended, Request, Answers
<1>3. \A pc \in {"read", "write", "remove"} : GoesOn(me, pc) \in Request
  BY <1>1, CallTypes DEF GoesOn, Request
<1>4. \A url \in Urls \cup {NoUrl} : [me EXCEPT !.prev = url] \in Request
  BY DEF Request
<1>5. \A call \in Call : [me EXCEPT !.call = call] \in Request
  BY DEF Request
<1> QED BY <1>2, <1>3, <1>4, <1>5

LEMMA NewTypes == NewRequest \in Request /\ NewRequest.answer = "none"
<1>1. Fresh(0) \in Call
  BY FreshType
<1> QED BY <1>1 DEF NewRequest, Request

\* A request that starts: its operation, and what it carries.
Begins(me) ==
    /\ me \in Request
    /\ \/ me.pc = "write" /\ me.op = "create" /\ me.url # Same
       \/ me.pc = "read" /\ me.op \in {"update", "delete"} /\ me.event \in Events
    /\ me.user \in Users
    /\ me.call = Fresh(cached)
    /\ me.answer = "none"

LEMMA Started ==
    ASSUME TypeOK, NEW q \in Requests, Start(q)
    PROVE  \E me : Begins(me) /\ Goes(q, me)
<1>1. Fresh(cached) \in Call
  BY FreshType DEF TypeOK
<1>2. PICK u \in Users, body \in Urls \cup {NoUrl, Same}, e \in Events :
        LET me == [NewRequest EXCEPT !.user = u, !.call = Fresh(cached)] IN
        \/ /\ body # Same
           /\ Goes(q, [me EXCEPT !.pc = "write", !.op = "create", !.url = body])
        \/ Goes(q, [me EXCEPT !.pc = "read", !.op = "update", !.event = e, !.url = body])
        \/ Goes(q, [me EXCEPT !.pc = "read", !.op = "delete", !.event = e])
  BY DEF Start
<1> DEFINE me == [NewRequest EXCEPT !.user = u, !.call = Fresh(cached)]
<1>3. /\ me \in Request /\ me.user = u /\ me.call = Fresh(cached) /\ me.answer = "none"
  <2>1. NewRequest \in Request /\ NewRequest.answer = "none"
    BY NewTypes
  <2> HIDE DEF NewRequest
  <2>2. me \in Request /\ me.user = u /\ me.call = Fresh(cached) /\ me.answer = "none"
    BY <1>1, <2>1 DEF Request
  <2> QED BY <2>2
<1>4. CASE body # Same /\ Goes(q, [me EXCEPT !.pc = "write", !.op = "create", !.url = body])
  <2>1. Begins([me EXCEPT !.pc = "write", !.op = "create", !.url = body])
    <3> HIDE DEF me
    <3> QED BY <1>3, <1>4 DEF Begins, Request
  <2> QED BY <1>4, <2>1
<1>5. CASE Goes(q, [me EXCEPT !.pc = "read", !.op = "update", !.event = e, !.url = body])
  <2>1. Begins([me EXCEPT !.pc = "read", !.op = "update", !.event = e, !.url = body])
    <3> HIDE DEF me
    <3> QED BY <1>3 DEF Begins, Request
  <2> QED BY <1>5, <2>1
<1>6. CASE Goes(q, [me EXCEPT !.pc = "read", !.op = "delete", !.event = e])
  <2>1. Begins([me EXCEPT !.pc = "read", !.op = "delete", !.event = e])
    <3> HIDE DEF me
    <3> QED BY <1>3 DEF Begins, Request
  <2> QED BY <1>6, <2>1
<1> QED BY <1>2, <1>4, <1>5, <1>6

LEMMA Moves ==
    ASSUME TypeOK, NEW q \in Requests, NEW me, Goes(q, me)
    PROVE  /\ req'[q] = me
           /\ \A p \in Requests : p # q => req'[p] = req[p]
           /\ me \in Request => req' \in [Requests -> Request]
BY DEF Goes, TypeOK

LEMMA Endings ==
    ASSUME NEW me \in Request, NEW answer
    PROVE  /\ Ended(me, answer).pc = "ended" /\ Ended(me, answer).user = me.user
           /\ Ended(me, answer).prev = me.prev
BY DEF Ended, Request

\* The check on the row that was read, and what it leaves for the write.
LEMMA Checks ==
    ASSUME NEW me \in Request, NEW row \in Row \cup {NoRow}
    PROVE  LET new == Checked(me, row) IN
           /\ new \in Request
           /\ new.pc \in {"ended", "write"}
           /\ new.op = me.op /\ new.user = me.user /\ new.event = me.event /\ new.url = me.url
           /\ new.pc = "write" => /\ row # NoRow /\ row.author = me.user
                                  /\ new.prev = row.image /\ new.call = Returned(me.call)
<1>1. CASE row = NoRow
  <2>1. Ended(me, "notfound") \in Request
    BY RequestTypes DEF Answers
  <2> QED BY <1>1, <2>1 DEF Checked, Ended, Request
<1>2. CASE row # NoRow /\ row.author # me.user
  <2>1. Ended(me, "forbidden") \in Request
    BY RequestTypes DEF Answers
  <2> QED BY <1>2, <2>1 DEF Checked, Ended, Request
<1>3. CASE row # NoRow /\ row.author = me.user
  <2> DEFINE new == [me EXCEPT !.prev = row.image]
  <2>1. new \in Request /\ row.image \in Urls \cup {NoUrl}
    BY <1>3, RequestTypes DEF Row
  <2>2. /\ new.prev = row.image /\ new.op = me.op /\ new.user = me.user
        /\ new.event = me.event /\ new.url = me.url /\ new.call = me.call
    BY DEF Request
  <2>3. Checked(me, row) = GoesOn(new, "write")
    BY <1>3 DEF Checked
  <2> HIDE DEF new
  <2>4. GoesOn(new, "write") \in Request
    BY <2>1, RequestTypes
  <2> QED BY <1>3, <2>1, <2>2, <2>3, <2>4 DEF GoesOn, Request
<1> QED BY <1>1, <1>2, <1>3

LEMMA Writings ==
    ASSUME NEW me \in Request
    PROVE  LET new == Written(me) IN
           /\ new \in Request
           /\ new.pc \in {"ended", "remove"}
           /\ new.op = me.op /\ new.user = me.user /\ new.event = me.event
           /\ new.url = me.url /\ new.prev = me.prev
           /\ new.pc = "remove" <=> Drops(me) /\ OwnedPath(me.prev, me.user) # NoObject
           /\ new.pc = "remove" => new.call = Returned(me.call)
<1>1. Ended(me, "ok") \in Request /\ GoesOn(me, "remove") \in Request
  BY RequestTypes DEF Answers
<1>2. CASE Drops(me) /\ OwnedPath(me.prev, me.user) # NoObject
  BY <1>1, <1>2 DEF Written, GoesOn, Request
<1>3. CASE ~(Drops(me) /\ OwnedPath(me.prev, me.user) # NoObject)
  BY <1>1, <1>3 DEF Written, Ended, Request
<1> QED BY <1>2, <1>3

\* A path is that of an object in the user's folder.
LEMMA Paths ==
    ASSUME NEW url \in Urls \cup {NoUrl}, NEW user \in Users
    PROVE  /\ Object(url) \in Objects \cup {NoObject}
           /\ Object(NoUrl) = NoObject
           /\ OwnedPath(url, user) # NoObject =>
                /\ OwnedPath(url, user) = Object(url)
                /\ OwnedPath(url, user) \in Objects /\ Folder[OwnedPath(url, user)] = user
BY DEF Object, OwnedPath

LEMMA OwnImages ==
    ASSUME NEW row \in Row, NEW o
    PROVE  o \in OwnImage(row) <=> o \in Objects /\ o = OwnedPath(row.image, row.author)
BY DEF OwnImage, OwnedPath, Object, Row

-----------------------------------------------------------------------------
(* What each request under way carries, and the types of the tables.        *)

Carries(me) ==
    me.pc \in {"read", "write", "remove"} =>
        /\ me.user \in Users
        /\ \/ me.op \in {"update", "delete"} /\ me.event \in Events
           \/ me.op = "create" /\ me.pc = "write" /\ me.url # Same
        /\ me.pc = "remove" => Drops(me) /\ OwnedPath(me.prev, me.user) # NoObject

WorkInv == \A q \in Requests : Carries(req[q])

BornInv == \A e \in Events : rows[e] # NoRow => e \in born

BaseInv == TypeOK /\ WorkInv /\ BornInv

\* Everything the tables can undergo when a write is executed.
LEMMA Effects ==
    ASSUME BaseInv, NEW q \in Requests, req[q].pc = "write", Effect(q)
    PROVE  /\ rows' \in [Events -> Row \cup {NoRow}]
           /\ born' \subseteq Events /\ born \subseteq born'
           /\ attached \subseteq attached' /\ attached' \subseteq Objects
           /\ \A e \in Events : rows'[e] # NoRow => e \in born'
           /\ \A o \in attached' : o \notin attached =>
                \E e \in Events : o \in OwnImage(rows'[e])
           /\ \A e \in Events : rows'[e] # rows[e] =>
                \/ req[q].op = "create" /\ e \notin born /\ rows[e] = NoRow
                \/ /\ req[q].op = "update" /\ e = req[q].event /\ req[q].url # Same
                   /\ rows[e] # NoRow /\ rows[e].author = req[q].user
                   /\ rows'[e] # NoRow /\ rows'[e].author = req[q].user
                   /\ rows'[e].image = req[q].url
                \/ req[q].op = "delete" /\ e = req[q].event /\ rows'[e] = NoRow
           /\ req[q].op = "delete" => rows'[req[q].event] = NoRow
           /\ req[q].op = "update" /\ rows[req[q].event] # NoRow
                /\ rows[req[q].event].author = req[q].user /\ req[q].url # Same =>
                   rows'[req[q].event].image = req[q].url
           /\ req[q].op = "update" /\ rows[req[q].event] # NoRow =>
                   rows'[req[q].event] # NoRow
<1> DEFINE me == req[q]
<1>1. /\ me \in Request /\ me.user \in Users
      /\ rows \in [Events -> Row \cup {NoRow}] /\ born \subseteq Events /\ attached \subseteq Objects
      /\ \A e \in Events : rows[e] # NoRow => e \in born
      /\ \/ me.op \in {"update", "delete"} /\ me.event \in Events
         \/ me.op = "create" /\ me.url # Same
  BY DEF BaseInv, TypeOK, WorkInv, BornInv, Carries
<1>2. \A row \in Row : OwnImage(row) \subseteq Objects
  BY DEF OwnImage
<1>3. CASE Insert(q)
  <2>1. PICK e \in Events \ born :
          LET row == [author |-> me.user, image |-> me.url] IN
          /\ born' = born \cup {e}
          /\ rows' = [rows EXCEPT ![e] = row]
          /\ attached' = attached \cup OwnImage(row)
    BY <1>3 DEF Insert
  <2> DEFINE row == [author |-> me.user, image |-> me.url]
  <2>2. me.op = "create" /\ me.url # Same /\ row \in Row /\ row # NoRow
    BY <1>1, <1>3 DEF Insert, Request, Row
  <2>3. /\ rows' \in [Events -> Row \cup {NoRow}] /\ rows'[e] = row /\ rows[e] = NoRow
        /\ \A f \in Events : f # e => rows'[f] = rows[f]
    BY <1>1, <2>1, <2>2
  <2> HIDE DEF me, row
  <2> QED BY <1>1, <1>2, <2>1, <2>2, <2>3 DEF me, row
<1>4. CASE Update(q)
  <2> DEFINE e == me.event
             new == IF me.url = Same THEN rows[e] ELSE [rows[e] EXCEPT !.image = me.url]
  <2>1. me.op = "update" /\ e \in Events /\ born' = born
    BY <1>1, <1>4 DEF Update
  <2>2. CASE rows[e] # NoRow /\ rows[e].author = me.user
    <3>1. rows' = [rows EXCEPT ![e] = new] /\ attached' = attached \cup OwnImage(new)
      BY <1>4, <2>2 DEF Update
    <3>2. rows[e] \in Row
      BY <1>1, <2>1, <2>2
    <3>3. /\ new \in Row /\ new # NoRow /\ new.author = me.user
          /\ me.url # Same => new.image = me.url
          /\ me.url = Same => new = rows[e]
      BY <1>1, <2>1, <2>2, <3>2 DEF Row, Request
    <3> HIDE DEF me, e, new
    <3>4. /\ rows' \in [Events -> Row \cup {NoRow}] /\ rows'[e] = new
          /\ \A f \in Events : f # e => rows'[f] = rows[f]
      BY <1>1, <2>1, <3>1, <3>3
    <3> QED BY <1>1, <1>2, <2>1, <2>2, <3>1, <3>3, <3>4 DEF me, e
  <2>3. CASE ~(rows[e] # NoRow /\ rows[e].author = me.user)
    <3>1. rows' = rows /\ attached' = attached
      BY <1>4, <2>3 DEF Update
    <3> QED BY <1>1, <2>1, <2>3, <3>1
  <2> QED BY <2>2, <2>3
<1>5. CASE Delete(q)
  <2>1. /\ me.op = "delete" /\ me.event \in Events /\ born' = born /\ attached' = attached
        /\ rows' = [rows EXCEPT ![me.event] = NoRow]
    BY <1>1, <1>5 DEF Delete
  <2>2. /\ rows' \in [Events -> Row \cup {NoRow}] /\ rows'[me.event] = NoRow
        /\ \A f \in Events : f # me.event => rows'[f] = rows[f]
    BY <1>1, <2>1
  <2> QED BY <1>1, <2>1, <2>2
<1> QED BY <1>3, <1>4, <1>5 DEF Effect

\* A step of one request's own, with whatever it does to the tables.
LEMMA OwnStep ==
    ASSUME BaseInv, NEW q \in Requests, NEW me \in Request, Goes(q, me), Carries(me),
           rows' \in [Events -> Row \cup {NoRow}], stored' \subseteq Objects, cached' \in Nat,
           born' \subseteq Events, attached' \subseteq Objects, met' \subseteq Requests,
           faults' \in 0 .. MaxFaults, \A e \in Events : rows'[e] # NoRow => e \in born'
    PROVE  BaseInv'
<1>1. /\ req' \in [Requests -> Request]
      /\ req'[q] = me /\ \A p \in Requests : p # q => req'[p] = req[p]
  BY Moves DEF BaseInv
<1>2. TypeOK'
  BY <1>1 DEF TypeOK
<1>3. ASSUME NEW p \in Requests PROVE Carries(req[p])'
  <2>1. Carries(req'[p])
    BY <1>1 DEF BaseInv, WorkInv
  <2> QED BY <2>1 DEF Carries, Drops, OwnedPath, Object
<1> QED BY <1>2, <1>3 DEF BaseInv, WorkInv, BornInv

LEMMA EndedCarries ==
    ASSUME NEW me \in Request, NEW answer \in Answers
    PROVE  Ended(me, answer) \in Request /\ Carries(Ended(me, answer))
BY RequestTypes, Endings DEF Carries

LEMMA FaultCounted == ASSUME TypeOK, Fault PROVE faults' \in 0 .. MaxFaults
BY DEF TypeOK, Fault

LEMMA BaseStep == BaseInv /\ [Next]_vars => BaseInv'
<1> SUFFICES ASSUME BaseInv, [Next]_vars PROVE BaseInv'
  OBVIOUS
<1>0. TypeOK /\ WorkInv /\ \A q \in Requests : req[q] \in Request
  BY DEF BaseInv, TypeOK
<1>S. \A e \in Events : rows[e] # NoRow => e \in born
  BY DEF BaseInv, BornInv
<1>1. CASE UNCHANGED vars
  BY <1>1 DEF vars, BaseInv, TypeOK, WorkInv, BornInv, Carries, Drops, OwnedPath, Object
<1>2. ASSUME NEW q \in Requests, Start(q) PROVE BaseInv'
  <2>1. PICK me : Begins(me) /\ Goes(q, me)
    BY <1>0, <1>2, Started
  <2>2. me \in Request /\ Carries(me)
    BY <2>1 DEF Begins, Carries
  <2>3. UNCHANGED <<rows, stored, cached, born, attached, faults>> /\ met' \subseteq Requests
    BY <1>0, <1>2 DEF Start, TypeOK
  <2> QED BY <1>0, <1>S, <2>1, <2>2, <2>3, OwnStep DEF TypeOK
<1>3. ASSUME NEW q \in Requests, Read(q) PROVE BaseInv'
  <2> DEFINE row == IF req[q].event = NoEvent THEN NoRow ELSE rows[req[q].event]
             me  == Checked(req[q], row)
  <2>1. Carries(req[q]) /\ req[q].pc = "read"
    BY <1>0, <1>3 DEF Read, WorkInv
  <2>2. row \in Row \cup {NoRow}
    BY <1>0, <2>1 DEF Carries, TypeOK
  <2>3. Goes(q, me) /\ UNCHANGED <<rows, stored, cached, born, attached, met, faults>>
    BY <1>3 DEF Read
  <2> HIDE DEF row
  <2>4. me \in Request /\ Carries(me)
    BY <1>0, <2>1, <2>2, Checks DEF Carries
  <2> HIDE DEF me
  <2> QED BY <1>0, <1>S, <2>3, <2>4, OwnStep DEF TypeOK
<1>4. ASSUME NEW q \in Requests, Write(q) PROVE BaseInv'
  <2> DEFINE me == IF req[q].op = "update" /\ rows[req[q].event] = NoRow
                   THEN Ended(req[q], "upstream") ELSE Written(req[q])
  <2>1. /\ Carries(req[q]) /\ req[q].pc = "write" /\ Effect(q) /\ Goes(q, me)
        /\ UNCHANGED <<stored, cached, met, faults>>
    BY <1>0, <1>4 DEF Write, WorkInv
  <2>2. Written(req[q]) \in Request /\ Carries(Written(req[q]))
    BY <1>0, <2>1, Writings DEF Carries, Drops
  <2>3. Ended(req[q], "upstream") \in Request /\ Carries(Ended(req[q], "upstream"))
    BY <1>0, EndedCarries DEF Answers
  <2>4. me \in Request /\ Carries(me)
    BY <2>2, <2>3
  <2> HIDE DEF me
  <2> QED BY <1>0, <2>1, <2>4, OwnStep, Effects DEF TypeOK
<1>5. ASSUME NEW q \in Requests, Remove(q) PROVE BaseInv'
  <2>1. /\ Goes(q, Ended(req[q], "ok")) /\ stored' \subseteq stored
        /\ UNCHANGED <<rows, cached, born, attached, met, faults>>
    BY <1>5 DEF Remove
  <2>2. Ended(req[q], "ok") \in Request /\ Carries(Ended(req[q], "ok"))
    BY <1>0, EndedCarries DEF Answers
  <2> QED BY <1>0, <1>S, <2>1, <2>2, OwnStep DEF TypeOK
<1>6. ASSUME NEW q \in Requests, ClosedClient(q) \/ EmptyPatch(q) PROVE BaseInv'
  <2>1. PICK a \in {"raw", "invalid"} :
          /\ Goes(q, Ended(req[q], a))
          /\ UNCHANGED <<rows, stored, cached, born, attached, met, faults>>
    BY <1>6 DEF ClosedClient, EmptyPatch
  <2>2. Ended(req[q], a) \in Request /\ Carries(Ended(req[q], a))
    BY <1>0, EndedCarries DEF Answers
  <2> QED BY <1>0, <1>S, <2>1, <2>2, OwnStep DEF TypeOK
<1>x. ASSUME NEW q \in Requests, ExecutedOrNot(q)
      PROVE /\ rows' \in [Events -> Row \cup {NoRow}] /\ born' \subseteq Events
            /\ attached' \subseteq Objects /\ \A e \in Events : rows'[e] # NoRow => e \in born'
  <2>1. CASE req[q].pc = "write" /\ Effect(q)
    BY <2>1, Effects
  <2>2. CASE UNCHANGED <<rows, attached, born>>
    BY <1>0, <1>S, <2>2 DEF TypeOK
  <2> QED BY <1>x, <2>1, <2>2 DEF ExecutedOrNot
<1>7. ASSUME NEW q \in Requests, TransportError(q) PROVE BaseInv'
  <2>1. faults' \in 0 .. MaxFaults /\ met' \subseteq Requests /\ stored' \subseteq Objects
    BY <1>0, <1>7, FaultCounted DEF TransportError, Fault, TypeOK
  <2>2. /\ rows' \in [Events -> Row \cup {NoRow}] /\ born' \subseteq Events
        /\ attached' \subseteq Objects /\ \A e \in Events : rows'[e] # NoRow => e \in born'
    BY <1>7, <1>x DEF TransportError
  <2>3. CASE LastAttempt(req[q].call)
    <3>1. Goes(q, Ended(req[q], "upstream")) /\ cached' \in Nat
      BY <1>0, <1>7, <2>3 DEF TransportError, TypeOK
    <3>2. Ended(req[q], "upstream") \in Request /\ Carries(Ended(req[q], "upstream"))
      BY <1>0, EndedCarries DEF Answers
    <3> QED BY <2>1, <2>2, <3>1, <3>2, OwnStep
  <2>4. CASE ~LastAttempt(req[q].call)
    <3> DEFINE call == Retried(req[q].call, cached + 1)
               me   == [req[q] EXCEPT !.call = call]
    <3>1. Goes(q, me) /\ cached' \in Nat
      BY <1>0, <1>7, <2>4 DEF TransportError, TypeOK
    <3>2. call \in Call
      BY <1>0, <2>4, CallTypes DEF Request, TypeOK
    <3> HIDE DEF call
    <3>3. /\ me \in Request /\ me.pc = req[q].pc /\ me.op = req[q].op /\ me.user = req[q].user
          /\ me.event = req[q].event /\ me.url = req[q].url /\ me.prev = req[q].prev
      BY <1>0, <3>2 DEF Request
    <3>4. Carries(me)
      <4> HIDE DEF me
      <4> QED BY <1>0, <3>3 DEF WorkInv, Carries, Drops
    <3> HIDE DEF me
    <3> QED BY <2>1, <2>2, <3>1, <3>3, <3>4, OwnStep
  <2> QED BY <2>3, <2>4
<1>8. ASSUME NEW q \in Requests, StorageFails(q) PROVE BaseInv'
  <2>1. /\ Goes(q, Ended(req[q], "ok")) /\ faults' \in 0 .. MaxFaults
        /\ UNCHANGED <<rows, stored, cached, born, attached, met>>
    BY <1>0, <1>8, FaultCounted DEF StorageFails, Fault
  <2>2. Ended(req[q], "ok") \in Request /\ Carries(Ended(req[q], "ok"))
    BY <1>0, EndedCarries DEF Answers
  <2> QED BY <1>0, <1>S, <2>1, <2>2, OwnStep DEF TypeOK
<1>11. ASSUME NEW q \in Requests, ApiError(q) \/ UnlistedError(q) PROVE BaseInv'
  <2>1. PICK a \in {"upstream", "raw"} : Goes(q, Ended(req[q], a))
    BY <1>11 DEF ApiError, UnlistedError
  <2>2. Ended(req[q], a) \in Request /\ Carries(Ended(req[q], a))
    BY <1>0, EndedCarries DEF Answers
  <2>3. ExecutedOrNot(q) /\ UNCHANGED <<stored, cached, met>> /\ faults' \in 0 .. MaxFaults
    BY <1>0, <1>11, FaultCounted DEF ApiError, UnlistedError, ExecutedOrNot, Fault
  <2> QED BY <1>0, <1>x, <2>1, <2>2, <2>3, OwnStep DEF TypeOK
<1>9. CASE OtherReset
  <2>1. faults' \in 0 .. MaxFaults
    BY <1>0, <1>9, FaultCounted DEF OtherReset
  <2>2. TypeOK'
    BY <1>0, <1>9, <2>1 DEF OtherReset, Fault, TypeOK
  <2> QED BY <1>0, <1>S, <1>9, <2>2
          DEF OtherReset, BaseInv, WorkInv, BornInv, Carries, Drops, OwnedPath, Object
<1>10. CASE Crash
  <2>1. faults' \in 0 .. MaxFaults
    BY <1>0, <1>10, FaultCounted DEF Crash
  <2>2. ASSUME NEW q \in Requests PROVE req'[q] \in Request /\ Carries(req'[q])
    <3>1. req'[q] = IF UnderWay(q) THEN Ended(req[q], "none") ELSE req[q]
      BY <1>10 DEF Crash
    <3>2. Ended(req[q], "none") \in Request /\ Carries(Ended(req[q], "none"))
      BY <1>0, EndedCarries DEF Answers
    <3> QED BY <1>0, <3>1, <3>2 DEF WorkInv
  <2>3. TypeOK'
    <3>1. req' \in [Requests -> Request]
      BY <1>10, <2>2 DEF Crash
    <3> QED BY <1>0, <1>10, <2>1, <3>1 DEF Crash, Fault, TypeOK
  <2>4. WorkInv'
    BY <2>2 DEF WorkInv, Carries, Drops, OwnedPath, Object
  <2> QED BY <1>S, <1>10, <2>3, <2>4 DEF Crash, BaseInv, BornInv
<1> QED BY <1>1, <1>2, <1>3, <1>4, <1>5, <1>6, <1>7, <1>8, <1>9, <1>10, <1>11 DEF Next

LEMMA InitBase == Init => BaseInv
<1> SUFFICES ASSUME Init PROVE BaseInv
  OBVIOUS
<1>1. NewRequest \in Request /\ NewRequest.pc = "idle"
  BY NewTypes DEF NewRequest
<1>2. attached \subseteq Objects
  BY DEF Init, OwnImage
<1>3. TypeOK
  <2> HIDE DEF NewRequest
  <2> QED BY <1>1, <1>2 DEF Init, TypeOK
<1>4. WorkInv
  BY <1>1 DEF Init, WorkInv, Carries
<1> QED BY <1>3, <1>4 DEF Init, BaseInv, BornInv

\* Types are kept, and whatever a request under way needs is there.
THEOREM TypesHold == Spec => []TypeOK
<1>1. BaseInv => TypeOK
  BY DEF BaseInv
<1> QED BY <1>1, InitBase, BaseStep, PTL DEF Spec

-----------------------------------------------------------------------------
(* OnlyAuthorWrites: the check on the row that was read stays good, because *)
(* no write changes an author and ids are never used again.                *)

AuthorInv ==
    \A q \in Requests : req[q].pc = "write" /\ req[q].op \in {"update", "delete"} =>
        LET e == req[q].event IN
        e \in born /\ (rows[e] # NoRow => rows[e].author = req[q].user)

\* What a write may do to the row of an event that exists.
LEMMA WritesKeepAuthors ==
    ASSUME BaseInv, NEW q \in Requests, req[q].pc = "write", Effect(q),
           NEW e \in born, rows'[e] # NoRow
    PROVE  rows[e] # NoRow /\ rows'[e].author = rows[e].author
<1>1. e \in Events
  BY DEF BaseInv, TypeOK
<1> QED BY <1>1, Effects

\* How the steps move a request to its write: it has just been checked, or it
\* was there already.
LEMMA ArrivesAtWrite ==
    ASSUME BaseInv, [Next]_vars, NEW p \in Requests, req'[p].pc = "write"
    PROVE  \/ req'[p].op = "create"
           \/ /\ Read(p) /\ req'[p].event = req[p].event /\ req[p].event \in Events
              /\ rows[req[p].event] # NoRow
              /\ rows[req[p].event].author = req'[p].user
              /\ req'[p].prev = rows[req[p].event].image
              /\ req'[p].call = Returned(req[p].call)
           \/ /\ req[p].pc = "write" /\ req'[p].op = req[p].op
              /\ req'[p].event = req[p].event /\ req'[p].user = req[p].user
              /\ req'[p].url = req[p].url /\ req'[p].prev = req[p].prev
<1>0. TypeOK /\ req[p] \in Request /\ Carries(req[p])
  BY DEF BaseInv, TypeOK, WorkInv
<1> DEFINE Same2 == /\ req[p].pc = "write" /\ req'[p].op = req[p].op
                    /\ req'[p].event = req[p].event /\ req'[p].user = req[p].user
                    /\ req'[p].url = req[p].url /\ req'[p].prev = req[p].prev
<1>M. ASSUME NEW q \in Requests, NEW me \in Request, Goes(q, me), me.pc # "write" PROVE Same2
  BY <1>0, <1>M, Moves
<1>E. ASSUME NEW q \in Requests, NEW answer \in Answers, Goes(q, Ended(req[q], answer)) PROVE Same2
  <2>1. req[q] \in Request
    BY <1>0 DEF TypeOK
  <2> QED BY <1>E, <1>M, <2>1, RequestTypes, Endings
<1>1. CASE UNCHANGED vars
  BY <1>1 DEF vars
<1>2. ASSUME NEW q \in Requests, Start(q) PROVE req'[p].op = "create" \/ Same2
  <2>1. PICK me : Begins(me) /\ Goes(q, me)
    BY <1>0, <1>2, Started
  <2> QED BY <1>0, <1>M, <2>1, Moves DEF Begins
<1>3. ASSUME NEW q \in Requests, Read(q)
      PROVE \/ Same2
            \/ /\ Read(p) /\ req'[p].event = req[p].event /\ req[p].event \in Events
               /\ rows[req[p].event] # NoRow
               /\ rows[req[p].event].author = req'[p].user
               /\ req'[p].prev = rows[req[p].event].image
               /\ req'[p].call = Returned(req[p].call)
  <2>0. Goes(q, Checked(req[q], IF req[q].event = NoEvent THEN NoRow ELSE rows[req[q].event]))
    BY <1>3 DEF Read
  <2>1. CASE p # q
    BY <1>0, <2>0, <2>1, Moves
  <2>2. CASE p = q
    <3> DEFINE row == IF req[p].event = NoEvent THEN NoRow ELSE rows[req[p].event]
    <3>1. req[p].pc = "read" /\ req[p].event \in Events
      BY <1>0, <1>3, <2>2 DEF Read, Carries
    <3>2. row = rows[req[p].event] /\ row \in Row \cup {NoRow}
      BY <1>0, <3>1 DEF TypeOK
    <3>3. req'[p] = Checked(req[p], row)
      BY <1>0, <2>0, <2>2, Moves
    <3> HIDE DEF row
    <3> DEFINE new == Checked(req[p], row)
    <3>4. /\ new.op = req[p].op /\ new.user = req[p].user /\ new.event = req[p].event
          /\ new.pc = "write" => /\ row # NoRow /\ row.author = req[p].user
                                 /\ new.prev = row.image /\ new.call = Returned(req[p].call)
      BY <1>0, <3>2, Checks
    <3> HIDE DEF new
    <3>5. new = req'[p]
      BY <3>3 DEF new
    <3> QED BY <1>3, <2>2, <3>1, <3>2, <3>4, <3>5
  <2> QED BY <2>1, <2>2
<1>4. ASSUME NEW q \in Requests, Write(q) PROVE Same2
  <2>1. \/ Goes(q, Ended(req[q], "upstream")) \/ Goes(q, Written(req[q]))
    BY <1>4 DEF Write
  <2>2. req[q] \in Request
    BY <1>0 DEF TypeOK
  <2> QED BY <1>E, <1>M, <2>1, <2>2, Writings DEF Answers
<1>5. ASSUME NEW q \in Requests, Remove(q) \/ ClosedClient(q) \/ EmptyPatch(q) \/ ApiError(q)
                                 \/ UnlistedError(q) \/ StorageFails(q) PROVE Same2
  BY <1>5, <1>E DEF Remove, ClosedClient, EmptyPatch, ApiError, UnlistedError,
                                             StorageFails, Answers
<1>6. ASSUME NEW q \in Requests, TransportError(q) PROVE Same2
  <2>1. CASE LastAttempt(req[q].call)
    BY <1>6, <1>E, <2>1 DEF TransportError, Answers
  <2>2. CASE ~LastAttempt(req[q].call)
    <3> DEFINE call == Retried(req[q].call, cached + 1)
    <3>1. Goes(q, [req[q] EXCEPT !.call = call])
      BY <1>6, <2>2 DEF TransportError
    <3>2. req[q] \in Request
      BY <1>0 DEF TypeOK
    <3> HIDE DEF call
    <3>3. CASE p = q
      <4>1. req'[p] = [req[p] EXCEPT !.call = call]
        BY <1>0, <3>1, <3>3, Moves
      <4> QED BY <1>0, <4>1 DEF Request
    <3>4. CASE p # q
      BY <1>0, <3>1, <3>4, Moves
    <3> QED BY <3>3, <3>4
  <2> QED BY <2>1, <2>2
<1>7. CASE OtherReset
  BY <1>7 DEF OtherReset
<1>8. CASE Crash
  <2>1. req'[p] = IF UnderWay(p) THEN Ended(req[p], "none") ELSE req[p]
    BY <1>8 DEF Crash
  <2> QED BY <1>0, <2>1, Endings
<1> QED BY <1>1, <1>2, <1>3, <1>4, <1>5, <1>6, <1>7, <1>8 DEF Next

\* The tables change by writes and removals only.
LEMMA TableSteps ==
    ASSUME [Next]_vars
    PROVE  \/ UNCHANGED <<rows, born, attached>>
           \/ \E q \in Requests : req[q].pc = "write" /\ Effect(q)
BY DEF Next, vars, Start, Read, Write, Remove, ClosedClient, EmptyPatch, TransportError, ExecutedOrNot,
       ApiError, UnlistedError, StorageFails,
       OtherReset, Crash

LEMMA AuthorStep == BaseInv /\ AuthorInv /\ [Next]_vars => AuthorInv'
<1> SUFFICES ASSUME BaseInv, AuthorInv, [Next]_vars,
                    NEW p \in Requests, req'[p].pc = "write", req'[p].op \in {"update", "delete"}
             PROVE  LET e == req'[p].event IN
                    e \in born' /\ (rows'[e] # NoRow => rows'[e].author = req'[p].user)
  BY DEF AuthorInv
<1> DEFINE e == req'[p].event
<1>1. e \in born /\ (rows[e] # NoRow => rows[e].author = req'[p].user)
  BY ArrivesAtWrite DEF AuthorInv, BaseInv, BornInv
<1>2. CASE UNCHANGED <<rows, born, attached>>
  BY <1>1, <1>2
<1>3. ASSUME NEW q \in Requests, req[q].pc = "write", Effect(q) PROVE e \in born' /\ (rows'[e] # NoRow => rows'[e].author = req'[p].user)
  BY <1>1, <1>3, Effects, WritesKeepAuthors
<1> QED BY <1>2, <1>3, TableSteps

LEMMA AuthorsWrite ==
    ASSUME BaseInv, AuthorInv, [Next]_vars, NEW e \in Events, rows[e] # NoRow, rows'[e] # rows[e]
    PROVE  \E q \in Requests : /\ req[q].pc = "write" /\ req[q].event = e
                               /\ req[q].user = rows[e].author
<1>1. PICK q \in Requests : req[q].pc = "write" /\ Effect(q)
  BY TableSteps
<1>2. req[q].op \in {"update", "delete"} /\ e = req[q].event
  BY <1>1, Effects
<1> QED BY <1>1, <1>2 DEF AuthorInv

\* For every interleaving, retry and crash: an event is changed or deleted by
\* its author's requests only, although delete_event deletes by id alone.
THEOREM OnlyAuthorsWrite == Spec => OnlyAuthorWrites
<1>1. Init => BaseInv /\ AuthorInv
  <2>1. Init => AuthorInv
    BY DEF Init, AuthorInv, NewRequest
  <2> QED BY <2>1, InitBase
<1>2. BaseInv /\ AuthorInv /\ [Next]_vars => (BaseInv /\ AuthorInv)'
  BY BaseStep, AuthorStep
<1>3. BaseInv /\ AuthorInv /\ [Next]_vars =>
        [\A e \in Events : rows[e] # NoRow /\ rows'[e] # rows[e] =>
           \E q \in Requests : /\ req[q].pc = "write" /\ req[q].event = e
                               /\ req[q].user = rows[e].author]_vars
  BY AuthorsWrite
<1> QED BY <1>1, <1>2, <1>3, PTL DEF Spec, OnlyAuthorWrites

-----------------------------------------------------------------------------
(* OthersObjectsStay: who removed an object is a request that has ended.     *)

Removed(o) == \E q \in Requests : /\ req[q].pc = "ended" /\ req[q].user = Folder[o]
                                  /\ OwnedPath(req[q].prev, req[q].user) = o

StoredInv == \A o \in Objects \ stored : Removed(o)

LEMMA EndedStay ==
    ASSUME BaseInv, [Next]_vars, NEW p \in Requests, req[p].pc = "ended"
    PROVE  req'[p] = req[p]
<1>0. TypeOK
  BY DEF BaseInv
<1>1. ASSUME NEW q \in Requests, NEW me, Goes(q, me), req[q].pc # "ended" PROVE req'[p] = req[p]
  BY <1>0, <1>1, Moves
<1>2. ASSUME NEW q \in Requests, Start(q) PROVE req'[p] = req[p]
  <2>1. PICK me : Begins(me) /\ Goes(q, me)
    BY <1>0, <1>2, Started
  <2> QED BY <1>1, <1>2, <2>1 DEF Start
<1>3. ASSUME NEW q \in Requests, Read(q) \/ Write(q) \/ Remove(q) \/ ClosedClient(q) \/ EmptyPatch(q)
                                 \/ TransportError(q) \/ ApiError(q) \/ UnlistedError(q)
                                 \/ StorageFails(q)
      PROVE req'[p] = req[p]
  BY <1>1, <1>3 DEF Read, Write, Remove, ClosedClient, EmptyPatch, TransportError, ExecutedOrNot,
       ApiError, UnlistedError, StorageFails
<1>4. CASE Crash
  BY <1>4 DEF Crash, UnderWay
<1>5. CASE OtherReset \/ UNCHANGED vars
  BY <1>5 DEF OtherReset, vars
<1> QED BY <1>2, <1>3, <1>4, <1>5 DEF Next

\* Objects leave the bucket by removals only.
LEMMA Removals ==
    ASSUME [Next]_vars, stored' # stored
    PROVE  \E q \in Requests : Remove(q) /\ stored' = stored \ {OwnedPath(req[q].prev, req[q].user)}
BY DEF Next, vars, Start, Read, Write, Remove, ClosedClient, EmptyPatch, TransportError, ExecutedOrNot,
       ApiError, UnlistedError, StorageFails,
       OtherReset, Crash

LEMMA StoredStep == BaseInv /\ StoredInv /\ [Next]_vars => StoredInv'
<1> SUFFICES ASSUME BaseInv, StoredInv, [Next]_vars, NEW o \in Objects \ stored'
             PROVE  Removed(o)'
  BY DEF StoredInv
<1>1. CASE o \notin stored
  <2>1. PICK q \in Requests : /\ req[q].pc = "ended" /\ req[q].user = Folder[o]
                              /\ OwnedPath(req[q].prev, req[q].user) = o
    BY <1>1 DEF StoredInv, Removed
  <2>2. req'[q] = req[q]
    BY <2>1, EndedStay
  <2> QED BY <2>1, <2>2 DEF Removed, OwnedPath, Object
<1>2. CASE o \in stored
  <2>1. PICK q \in Requests : /\ Remove(q)
                              /\ stored' = stored \ {OwnedPath(req[q].prev, req[q].user)}
    BY <1>2, Removals
  <2>2. /\ o = OwnedPath(req[q].prev, req[q].user)
        /\ req[q] \in Request /\ req[q].user \in Users
    BY <1>2, <2>1 DEF BaseInv, TypeOK, WorkInv, Carries, Remove
  <2>3. req[q].user = Folder[o]
    <3>1. req[q].prev \in Urls \cup {NoUrl} /\ o # NoObject
      BY <2>2 DEF Request
    <3> QED BY <2>2, <3>1, Paths
  <2>4. req'[q] = Ended(req[q], "ok")
    BY <2>1, Moves DEF Remove, BaseInv
  <2>5. req'[q].pc = "ended" /\ req'[q].user = req[q].user /\ req'[q].prev = req[q].prev
    BY <2>2, <2>4, Endings
  <2> QED BY <2>2, <2>3, <2>5 DEF Removed, OwnedPath, Object
<1> QED BY <1>1, <1>2

\* An object of a user disappears through that user's requests only, whatever
\* events of others point to it.
THEOREM OthersObjectsAreKept == Spec => []OthersObjectsStay
<1>1. Init => BaseInv /\ StoredInv
  <2>1. Init => StoredInv
    BY DEF Init, StoredInv
  <2> QED BY <2>1, InitBase
<1>2. BaseInv /\ StoredInv /\ [Next]_vars => (BaseInv /\ StoredInv)'
  BY BaseStep, StoredStep
<1>3. StoredInv => OthersObjectsStay
  BY DEF StoredInv, Removed, OthersObjectsStay
<1> QED BY <1>1, <1>2, <1>3, PTL DEF Spec

-----------------------------------------------------------------------------
(* RemovedImageIsUnused: a request that met no other one knows what its     *)
(* write has left of the event.                                             *)

AloneInv == \A p, q \in Requests : p # q /\ UnderWay(p) /\ UnderWay(q) => p \in met

SoleInv ==
    \A q \in Requests : req[q].pc = "remove" /\ q \notin met =>
        LET e == req[q].event IN
        /\ req[q].op = "delete" => rows[e] = NoRow
        /\ req[q].op = "update" => rows[e] = NoRow \/ rows[e].image = req[q].url

LEMMA MetGrows ==
    ASSUME BaseInv, [Next]_vars
    PROVE  /\ met \subseteq met'
           /\ \/ UNCHANGED met
              \/ \E q \in Requests : Start(q)
BY DEF Next, vars, Start, Read, Write, Remove, ClosedClient, EmptyPatch, TransportError, ExecutedOrNot,
       ApiError, UnlistedError, StorageFails,
       OtherReset, Crash, Fault

\* Only its start sets a request under way.
LEMMA GetsUnderWay ==
    ASSUME BaseInv, [Next]_vars, NEW p \in Requests, UnderWay(p)'
    PROVE  UnderWay(p) \/ Start(p)
<1>0. TypeOK
  BY DEF BaseInv
<1>1. ASSUME NEW q \in Requests, NEW me, Goes(q, me), UnderWay(q) PROVE UnderWay(p)
  BY <1>0, <1>1, Moves DEF UnderWay
<1>2. ASSUME NEW q \in Requests, Start(q) PROVE UnderWay(p) \/ Start(p)
  <2>1. PICK me : Begins(me) /\ Goes(q, me)
    BY <1>0, <1>2, Started
  <2> QED BY <1>0, <1>2, <2>1, Moves DEF UnderWay
<1>3. ASSUME NEW q \in Requests, Read(q) \/ Write(q) \/ Remove(q) \/ ClosedClient(q)
                                 \/ TransportError(q) \/ ApiError(q) \/ UnlistedError(q)
                                 \/ StorageFails(q)
      PROVE UnderWay(p)
  BY <1>1, <1>3 DEF Read, Write, Remove, ClosedClient, TransportError, ApiError, UnlistedError,
                    StorageFails, UnderWay
<1>6. ASSUME NEW q \in Requests, EmptyPatch(q) PROVE UnderWay(p)
  <2>1. Goes(q, Ended(req[q], "invalid")) /\ req[q] \in Request
    BY <1>0, <1>6 DEF EmptyPatch, TypeOK
  <2> QED BY <1>0, <2>1, Moves, Endings DEF UnderWay
<1>4. CASE Crash
  <2>1. req'[p] = IF UnderWay(p) THEN Ended(req[p], "none") ELSE req[p]
    BY <1>4 DEF Crash
  <2> QED BY <1>0, <2>1, Endings DEF UnderWay, TypeOK
<1>5. CASE OtherReset \/ UNCHANGED vars
  BY <1>5 DEF OtherReset, vars, UnderWay
<1> QED BY <1>2, <1>3, <1>4, <1>5, <1>6 DEF Next

LEMMA AloneStep == BaseInv /\ AloneInv /\ [Next]_vars => AloneInv'
<1> SUFFICES ASSUME BaseInv, AloneInv, [Next]_vars,
                    NEW p \in Requests, NEW q \in Requests,
                    p # q, UnderWay(p)', UnderWay(q)'
             PROVE  p \in met'
  BY DEF AloneInv
<1>1. CASE UnderWay(p) /\ UnderWay(q)
  BY <1>1, MetGrows DEF AloneInv
<1>2. ASSUME NEW r \in Requests, Start(r), r \in {p, q} PROVE p \in met'
  <2>0. TypeOK
    BY DEF BaseInv
  <2>1. PICK me : Begins(me) /\ Goes(r, me)
    BY <2>0, <1>2, Started
  <2>2. \A o \in {p, q} \ {r} : UnderWay(o)
    BY <2>0, <2>1, Moves DEF UnderWay
  <2> QED BY <1>2, <2>2 DEF Start
<1> QED BY <1>1, <1>2, GetsUnderWay

\* How a request comes to its removal.
LEMMA ArrivesAtRemove ==
    ASSUME BaseInv, [Next]_vars, NEW p \in Requests, req'[p].pc = "remove"
    PROVE  \/ req[p].pc = "remove" /\ req'[p] = req[p]
           \/ /\ Write(p) /\ req'[p] = Written(req[p])
              /\ req[p].op = "update" => rows[req[p].event] # NoRow
<1>0. TypeOK /\ \A q \in Requests : req[q] \in Request
  BY DEF BaseInv, TypeOK
<1>M. ASSUME NEW q \in Requests, NEW me \in Request, Goes(q, me), me.pc # "remove"
      PROVE req[p].pc = "remove" /\ req'[p] = req[p]
  BY <1>0, <1>M, Moves
<1>E. ASSUME NEW q \in Requests, NEW answer \in Answers, Goes(q, Ended(req[q], answer))
      PROVE req[p].pc = "remove" /\ req'[p] = req[p]
  BY <1>0, <1>E, <1>M, RequestTypes, Endings
<1>1. CASE UNCHANGED vars \/ OtherReset
  BY <1>1 DEF vars, OtherReset
<1>2. ASSUME NEW q \in Requests, Start(q) PROVE req[p].pc = "remove" /\ req'[p] = req[p]
  <2>1. PICK me : Begins(me) /\ Goes(q, me)
    BY <1>0, <1>2, Started
  <2> QED BY <1>M, <2>1 DEF Begins
<1>3. ASSUME NEW q \in Requests, Read(q) PROVE req[p].pc = "remove" /\ req'[p] = req[p]
  <2> DEFINE row == IF req[q].event = NoEvent THEN NoRow ELSE rows[req[q].event]
  <2>1. Goes(q, Checked(req[q], row)) /\ row \in Row \cup {NoRow}
    BY <1>0, <1>3 DEF Read, TypeOK, BaseInv, WorkInv, Carries
  <2> HIDE DEF row
  <2> QED BY <1>0, <1>M, <2>1, Checks
<1>4. ASSUME NEW q \in Requests, Write(q)
      PROVE \/ req[p].pc = "remove" /\ req'[p] = req[p]
            \/ /\ Write(p) /\ req'[p] = Written(req[p])
               /\ req[p].op = "update" => rows[req[p].event] # NoRow
  <2>1. CASE req[q].op = "update" /\ rows[req[q].event] = NoRow
    BY <1>4, <1>E, <2>1 DEF Write, Answers
  <2>2. CASE ~(req[q].op = "update" /\ rows[req[q].event] = NoRow)
    BY <1>0, <1>4, <2>2, Moves DEF Write
  <2> QED BY <2>1, <2>2
<1>5. ASSUME NEW q \in Requests, Remove(q) \/ ClosedClient(q) \/ EmptyPatch(q) \/ ApiError(q)
                                 \/ UnlistedError(q) \/ StorageFails(q)
      PROVE req[p].pc = "remove" /\ req'[p] = req[p]
  BY <1>5, <1>E DEF Remove, ClosedClient, EmptyPatch, ApiError, UnlistedError,
                                             StorageFails, Answers
<1>6. ASSUME NEW q \in Requests, TransportError(q) PROVE req[p].pc = "remove" /\ req'[p] = req[p]
  <2>1. CASE LastAttempt(req[q].call)
    BY <1>6, <1>E, <2>1 DEF TransportError, Answers
  <2>2. CASE ~LastAttempt(req[q].call)
    <3> DEFINE call == Retried(req[q].call, cached + 1)
    <3>1. /\ Goes(q, [req[q] EXCEPT !.call = call])
          /\ req[q].pc \in {"read", "write"}
      BY <1>6, <2>2 DEF TransportError
    <3>2. call \in Call
      BY <1>0, <2>2, CallTypes DEF Request, TypeOK
    <3> HIDE DEF call
    <3>3. [req[q] EXCEPT !.call = call] \in Request /\ [req[q] EXCEPT !.call = call].pc # "remove"
      BY <1>0, <3>1, <3>2 DEF Request
    <3> QED BY <1>M, <3>1, <3>3
  <2> QED BY <2>1, <2>2
<1>7. CASE Crash
  <2>1. req'[p] = IF UnderWay(p) THEN Ended(req[p], "none") ELSE req[p]
    BY <1>7 DEF Crash
  <2> QED BY <1>0, <2>1, Endings DEF UnderWay
<1> QED BY <1>1, <1>2, <1>3, <1>4, <1>5, <1>6, <1>7 DEF Next

\* While a request under way has met no other one, only its own write changes
\* the tables.
LEMMA NobodyElseWrites ==
    ASSUME BaseInv, AloneInv, [Next]_vars, NEW p \in Requests, UnderWay(p), p \notin met
    PROVE  UNCHANGED <<rows, born, attached>> \/ (req[p].pc = "write" /\ Effect(p))
<1>1. ASSUME NEW q \in Requests, req[q].pc = "write", Effect(q) PROVE q = p
  BY <1>1 DEF AloneInv, UnderWay
<1> QED BY <1>1, TableSteps

LEMMA SoleStep == BaseInv /\ AuthorInv /\ AloneInv /\ SoleInv /\ [Next]_vars => SoleInv'
<1> SUFFICES ASSUME BaseInv, AuthorInv, AloneInv, SoleInv, [Next]_vars,
                    NEW p \in Requests, req'[p].pc = "remove", p \notin met'
             PROVE  LET e == req'[p].event IN
                    /\ req'[p].op = "delete" => rows'[e] = NoRow
                    /\ req'[p].op = "update" => rows'[e] = NoRow \/ rows'[e].image = req'[p].url
  BY DEF SoleInv
<1>1. p \notin met
  BY MetGrows
<1>2. CASE req[p].pc = "remove" /\ req'[p] = req[p]
  <2>1. UNCHANGED rows
    BY <1>1, <1>2, NobodyElseWrites DEF UnderWay
  <2> QED BY <1>1, <1>2, <2>1 DEF SoleInv
<1>3. CASE /\ Write(p) /\ req'[p] = Written(req[p])
           /\ req[p].op = "update" => rows[req[p].event] # NoRow
  <2>1. req[p] \in Request /\ req[p].pc = "write" /\ Effect(p)
    BY <1>3 DEF Write, BaseInv, TypeOK
  <2>2. /\ req'[p].op = req[p].op /\ req'[p].event = req[p].event /\ req'[p].url = req[p].url
        /\ Drops(req[p])
    BY <1>3, <2>1, Writings
  <2>3. CASE req[p].op = "delete"
    BY <2>1, <2>2, <2>3, Effects
  <2>4. CASE req[p].op = "update"
    <3>1. rows[req[p].event] # NoRow /\ rows[req[p].event].author = req[p].user
      BY <1>3, <2>1, <2>4 DEF AuthorInv
    <3>2. req[p].url # Same
      BY <2>2, <2>4 DEF Drops
    <3> QED BY <2>1, <2>2, <2>4, <3>1, <3>2, Effects
  <2> QED BY <2>2, <2>3, <2>4
<1> QED BY <1>2, <1>3, ArrivesAtRemove

LEMMA RemovalsAreRight ==
    ASSUME BaseInv, SoleInv, [Next]_vars,
           NEW o \in stored \ stored', NEW e \in Events, o \in OwnImage(rows[e])
    PROVE  \E q \in Requests :
             /\ req[q].pc = "remove" /\ Object(req[q].prev) = o
             /\ \/ q \in met
                \/ req[q].event # e
                \/ req[q].url # req[q].prev /\ Object(req[q].url) = o
<1>1. PICK q \in Requests : /\ Remove(q)
                            /\ stored' = stored \ {OwnedPath(req[q].prev, req[q].user)}
  BY Removals
<1>2. /\ o = OwnedPath(req[q].prev, req[q].user) /\ o \in Objects /\ o # NoObject
      /\ req[q].pc = "remove" /\ req[q] \in Request /\ Carries(req[q])
  BY <1>1 DEF Remove, BaseInv, TypeOK, WorkInv
<1>3. Object(req[q].prev) = o
  BY <1>2, Paths DEF Carries, Request
<1>4. ASSUME q \notin met, req[q].event = e PROVE req[q].url # req[q].prev /\ Object(req[q].url) = o
  <2>1. rows[e] # NoRow /\ rows[e] \in Row
    BY DEF OwnImage, BaseInv, TypeOK
  <2>2. req[q].op = "update" /\ rows[e].image = req[q].url
    BY <1>2, <1>4, <2>1 DEF SoleInv, Carries, Drops
  <2>3. req[q].url # req[q].prev
    BY <1>2, <2>2 DEF Carries, Drops
  <2>4. Object(rows[e].image) = o
    BY <2>1 DEF OwnImage
  <2> QED BY <2>2, <2>3, <2>4
<1> QED BY <1>2, <1>3, <1>4

ImagesInv == BaseInv /\ AuthorInv /\ AloneInv /\ SoleInv

LEMMA InitImages == Init => ImagesInv
<1>1. Init => AuthorInv /\ AloneInv /\ SoleInv
  BY DEF Init, AuthorInv, AloneInv, SoleInv, NewRequest, UnderWay
<1> QED BY <1>1, InitBase DEF ImagesInv

LEMMA ImagesStep == ImagesInv /\ [Next]_vars => ImagesInv'
BY BaseStep, AuthorStep, AloneStep, SoleStep DEF ImagesInv

\* An object that an event of its owner still shows is removed only by a
\* request that met others, for another event, or through another URL.
THEOREM RemovedImagesAreUnused == Spec => RemovedImageIsUnused
<1>1. ImagesInv /\ [Next]_vars =>
        [\A o \in stored \ stored', e \in Events :
           o \in OwnImage(rows[e]) =>
             \E q \in Requests :
               /\ req[q].pc = "remove" /\ Object(req[q].prev) = o
               /\ \/ q \in met
                  \/ req[q].event # e
                  \/ req[q].url # req[q].prev /\ Object(req[q].url) = o]_vars
  BY RemovalsAreRight DEF ImagesInv
<1> QED BY <1>1, InitImages, ImagesStep, PTL DEF Spec, RemovedImageIsUnused

-----------------------------------------------------------------------------
(* NoOrphanObject: as long as nothing fails and no two requests meet, the    *)
(* client of a request stays the process's, and what it read stays true.    *)

OpenInv ==
    faults = 0 => \A q \in Requests : UnderWay(q) =>
        req[q].call.client = cached /\ req[q].call.using = cached

PrevInv ==
    faults = 0 => \A q \in Requests :
        q \notin met /\ req[q].pc = "write" /\ req[q].op \in {"update", "delete"} =>
            /\ rows[req[q].event] # NoRow
            /\ rows[req[q].event].image = req[q].prev

LEMMA FaultsCount == ASSUME BaseInv, Fault PROVE faults' # 0
BY DEF Fault, BaseInv, TypeOK

\* The steps that are left when nothing fails.
LEMMA WithoutFaults ==
    ASSUME BaseInv, [Next]_vars, faults' = 0
    PROVE  /\ faults = 0 /\ UNCHANGED cached
           /\ \/ UNCHANGED vars
              \/ \E q \in Requests :
                    Start(q) \/ EmptyPatch(q) \/ Read(q) \/ Write(q) \/ Remove(q) \/ ClosedClient(q)
<1>1. ~Fault
  BY FaultsCount
<1> QED BY <1>1 DEF Next, vars, Start, Read, Write, Remove, ClosedClient, EmptyPatch, TransportError,
                    ApiError, UnlistedError, StorageFails, OtherReset, Crash

LEMMA OpenStep == BaseInv /\ OpenInv /\ [Next]_vars => OpenInv'
<1> SUFFICES ASSUME BaseInv, OpenInv, [Next]_vars, faults' = 0,
                    NEW p \in Requests, UnderWay(p)'
             PROVE  req'[p].call.client = cached /\ req'[p].call.using = cached
  BY WithoutFaults DEF OpenInv
<1>0. /\ TypeOK /\ faults = 0 /\ \A q \in Requests : req[q] \in Request
      /\ req[p].call \in Call /\ req'[p].pc \in {"read", "write", "remove"}
  BY WithoutFaults DEF BaseInv, TypeOK, UnderWay, Request
<1>1. ASSUME NEW q \in Requests, NEW me, Goes(q, me), p # q
      PROVE req'[p].call.client = cached /\ req'[p].call.using = cached
  BY <1>0, <1>1, Moves DEF OpenInv, UnderWay
<1>2. ASSUME Start(p) PROVE req'[p].call.client = cached /\ req'[p].call.using = cached
  BY <1>0, <1>2, Started, Moves DEF Begins, Fresh
<1>3. ASSUME UnderWay(p), req'[p].call = Returned(req[p].call)
      PROVE req'[p].call.client = cached /\ req'[p].call.using = cached
  BY <1>0, <1>3 DEF Returned, Call, OpenInv
<1>4. ASSUME Read(p) PROVE req'[p].call = Returned(req[p].call)
  <2> DEFINE row == IF req[p].event = NoEvent THEN NoRow ELSE rows[req[p].event]
  <2>1. Goes(p, Checked(req[p], row)) /\ row \in Row \cup {NoRow}
    BY <1>0, <1>4 DEF Read, TypeOK, BaseInv, WorkInv, Carries
  <2> HIDE DEF row
  <2> QED BY <1>0, <2>1, Moves, Checks
<1>5. ASSUME Write(p) PROVE req'[p].call = Returned(req[p].call)
  <2>1. \/ req'[p] = Ended(req[p], "upstream") \/ req'[p] = Written(req[p])
    BY <1>0, <1>5, Moves DEF Write
  <2> QED BY <1>0, <2>1, Endings, Writings
<1>6. ASSUME Remove(p) \/ ClosedClient(p) \/ EmptyPatch(p) PROVE FALSE
  <2>1. PICK a \in {"ok", "raw", "invalid"} : req'[p] = Ended(req[p], a)
    BY <1>0, <1>6, Moves DEF Remove, ClosedClient, EmptyPatch
  <2> QED BY <1>0, <2>1, Endings
<1>7. CASE UNCHANGED vars
  BY <1>0, <1>7 DEF vars, OpenInv, UnderWay
<1>8. ASSUME NEW q \in Requests, p # q,
             Start(q) \/ EmptyPatch(q) \/ Read(q) \/ Write(q) \/ Remove(q) \/ ClosedClient(q)
      PROVE req'[p].call.client = cached /\ req'[p].call.using = cached
  BY <1>0, <1>1, <1>8, Started DEF EmptyPatch, Read, Write, Remove, ClosedClient
<1> QED BY <1>2, <1>3, <1>4, <1>5, <1>6, <1>7, <1>8, WithoutFaults
        DEF Read, Write, UnderWay

LEMMA PrevStep == BaseInv /\ AloneInv /\ PrevInv /\ [Next]_vars => PrevInv'
<1> SUFFICES ASSUME BaseInv, AloneInv, PrevInv, [Next]_vars, faults' = 0,
                    NEW p \in Requests, p \notin met, req'[p].pc = "write",
                    req'[p].op \in {"update", "delete"}
             PROVE  /\ rows'[req'[p].event] # NoRow
                    /\ rows'[req'[p].event].image = req'[p].prev
  BY MetGrows DEF PrevInv
<1>0. TypeOK /\ faults = 0
  BY WithoutFaults DEF BaseInv
<1>1. CASE /\ Read(p) /\ req'[p].event = req[p].event /\ rows[req[p].event] # NoRow
           /\ req'[p].prev = rows[req[p].event].image
  BY <1>1 DEF Read
<1>2. CASE /\ req[p].pc = "write" /\ req'[p].op = req[p].op /\ req'[p].event = req[p].event
           /\ req'[p].prev = req[p].prev
  <2>1. UNCHANGED rows
    <3>1. CASE UNCHANGED vars
      BY <3>1 DEF vars
    <3>2. ASSUME NEW q \in Requests, Write(q) PROVE FALSE
      <4>1. q = p
        BY <1>2, <3>2 DEF AloneInv, UnderWay, Write
      <4>2. req'[p] = Ended(req[p], "upstream") \/ req'[p] = Written(req[p])
        BY <1>0, <3>2, <4>1, Moves DEF Write
      <4> QED BY <1>0, <4>2, Endings, Writings DEF TypeOK
    <3> QED BY <3>1, <3>2, WithoutFaults DEF Start, EmptyPatch, Read, Remove, ClosedClient
  <2> QED BY <1>0, <1>2, <2>1 DEF PrevInv
<1> QED BY <1>1, <1>2, ArrivesAtWrite

LEMMA OrphanStep ==
    ASSUME ImagesInv, OpenInv, PrevInv, NoOrphanObject, [Next]_vars
    PROVE  NoOrphanObject'
<1> SUFFICES ASSUME faults' = 0, met' = {}, NEW o \in attached' \cap stored'
             PROVE  \/ \E e \in Events : o \in OwnImage(rows'[e])
                    \/ \E q \in Requests : req'[q].pc = "remove" /\ Object(req'[q].prev) = o
  BY DEF NoOrphanObject, OwnImage, Object
<1>0. /\ BaseInv /\ TypeOK /\ faults = 0 /\ met = {} /\ o \in stored
      /\ \A q \in Requests : req[q] \in Request /\ Carries(req[q])
  <2>1. BaseInv /\ TypeOK /\ WorkInv
    BY DEF ImagesInv, BaseInv
  <2>2. o \in stored
    BY Removals
  <2> QED BY <2>1, <2>2, MetGrows, WithoutFaults DEF TypeOK, WorkInv
<1>1. \A p, q \in Requests : UnderWay(p) /\ UnderWay(q) => p = q
  BY <1>0 DEF ImagesInv, AloneInv
<1>2. CASE UNCHANGED <<rows, attached>>
  <2>1. CASE \E e \in Events : o \in OwnImage(rows[e])
    BY <1>2, <2>1
  <2>2. ASSUME NEW p \in Requests, req[p].pc = "remove", Object(req[p].prev) = o
        PROVE req'[p] = req[p]
    <3>1. ASSUME NEW q \in Requests, Remove(q) PROVE FALSE
      <4>1. q = p
        BY <1>1, <2>2, <3>1 DEF Remove, UnderWay
      <4>2. stored' = stored \ {OwnedPath(req[p].prev, req[p].user)}
        BY <1>0, <3>1, <4>1 DEF Remove, OpenInv, Open, UnderWay
      <4>3. OwnedPath(req[p].prev, req[p].user) = o
        BY <1>0, <2>2, Paths DEF Carries, Request
      <4> QED BY <4>2, <4>3
    <3>2. ASSUME NEW q \in Requests, Start(q) \/ EmptyPatch(q) \/ Read(q) \/ Write(q) \/ ClosedClient(q)
          PROVE req'[p] = req[p]
      <4>1. p # q
        BY <2>2, <3>2 DEF Start, EmptyPatch, Read, Write, ClosedClient
      <4> QED BY <1>0, <3>2, <4>1, Started, Moves DEF EmptyPatch, Read, Write, ClosedClient
    <3>3. CASE UNCHANGED vars
      BY <3>3 DEF vars
    <3> QED BY <1>0, <3>1, <3>2, <3>3, WithoutFaults
  <2> QED BY <1>0, <1>2, <2>1, <2>2 DEF NoOrphanObject
<1>3. ASSUME NEW q \in Requests, Write(q)
      PROVE  \/ \E e \in Events : o \in OwnImage(rows'[e])
             \/ \E p \in Requests : req'[p].pc = "remove" /\ Object(req'[p].prev) = o
  <2>0. Effect(q) /\ req[q].pc = "write" /\ UnderWay(q) /\ q \notin met
    BY <1>0, <1>3 DEF Write, UnderWay
  <2>1. CASE o \notin attached
    BY <1>0, <2>0, <2>1, Effects
  <2>2. CASE o \in attached
    <3>1. PICK e \in Events : o \in OwnImage(rows[e])
      <4>1. ASSUME NEW p \in Requests, req[p].pc = "remove" PROVE FALSE
        BY <1>1, <2>0, <4>1 DEF UnderWay
      <4> QED BY <1>0, <2>2, <4>1 DEF NoOrphanObject
    <3>2. /\ rows[e] # NoRow /\ rows[e] \in Row /\ o \in Objects
          /\ o = Object(rows[e].image) /\ Folder[o] = rows[e].author
      BY <1>0, <3>1 DEF OwnImage, TypeOK
    <3>3. CASE rows'[e] = rows[e]
      BY <3>1, <3>3
    <3>4. CASE rows'[e] # rows[e]
      <4>1. req[q].op \in {"update", "delete"} /\ e = req[q].event
        BY <1>0, <2>0, <3>2, <3>4, Effects
      <4>2. rows[e].image = req[q].prev /\ rows[e].author = req[q].user
        BY <1>0, <2>0, <3>2, <4>1 DEF PrevInv, ImagesInv, AuthorInv
      <4>3. OwnedPath(req[q].prev, req[q].user) = o /\ o # NoObject /\ req[q].prev # NoUrl
        BY <3>2, <4>2 DEF OwnedPath, Object
      <4>4. CASE Drops(req[q])
        <5>1. Goes(q, Written(req[q]))
          BY <1>3, <3>2, <4>1 DEF Write
        <5>2. req'[q] = Written(req[q])
          BY <1>0, <5>1, Moves
        <5>3. req'[q].pc = "remove" /\ req'[q].prev = req[q].prev
          BY <1>0, <4>3, <4>4, <5>2, Writings
        <5> QED BY <3>2, <4>2, <5>3
      <4>5. CASE ~Drops(req[q])
        <5>1. req[q].op = "update" /\ (req[q].url = Same \/ req[q].url = req[q].prev)
          BY <4>1, <4>3, <4>5 DEF Drops
        <5>2. /\ rows'[e] # NoRow /\ rows'[e].image = rows[e].image
              /\ rows'[e].author = rows[e].author
          BY <1>0, <2>0, <3>2, <3>4, <4>1, <4>2, <5>1, Effects
        <5> QED BY <3>2, <5>2 DEF OwnImage
      <4> QED BY <4>4, <4>5
    <3> QED BY <3>3, <3>4
  <2> QED BY <2>1, <2>2
<1> QED BY <1>0, <1>2, <1>3, WithoutFaults DEF vars, Start, EmptyPatch, Read, Remove, ClosedClient

\* One request at a time and nothing failing: no object is left behind by the
\* events that showed it.
THEOREM NoOrphans == Spec => []NoOrphanObject
<1> DEFINE I == ImagesInv /\ OpenInv /\ PrevInv /\ NoOrphanObject
<1>1. Init => I
  <2>1. Init => OpenInv /\ PrevInv /\ NoOrphanObject
    BY DEF Init, OpenInv, PrevInv, NoOrphanObject, NewRequest, UnderWay
  <2> QED BY <2>1, InitImages
<1>2. I /\ [Next]_vars => I'
  BY ImagesStep, OpenStep, PrevStep, OrphanStep DEF ImagesInv
<1>3. I => NoOrphanObject
  OBVIOUS
<1> QED BY <1>1, <1>2, <1>3, PTL DEF Spec

-----------------------------------------------------------------------------
(* Requests end: the part of it that does not need fairness.                *)

AttemptsLeft(me) == MaxAttempts - me.call.attempt + 1

\* The attempts of the query at work and of those behind it, and the removal.
StepsLeft(me) ==
    CASE me.pc = "idle"   -> 2 * MaxAttempts + 2
      [] me.pc = "read"   -> AttemptsLeft(me) + MaxAttempts + 1
      [] me.pc = "write"  -> AttemptsLeft(me) + 1
      [] me.pc = "remove" -> 1
      [] me.pc = "ended"  -> 0

LEMMA StepsAre ==
    ASSUME NEW me \in Request
    PROVE  /\ StepsLeft(me) \in 0 .. 2 * MaxAttempts + 2
           /\ AttemptsLeft(me) \in 1 .. MaxAttempts
           /\ me.pc = "idle"   => StepsLeft(me) = 2 * MaxAttempts + 2
           /\ me.pc = "read"   => StepsLeft(me) \in MaxAttempts + 2 .. 2 * MaxAttempts + 1
           /\ me.pc = "write"  => StepsLeft(me) \in 2 .. MaxAttempts + 1
           /\ me.pc = "remove" => StepsLeft(me) = 1
           /\ me.pc = "ended"  => StepsLeft(me) = 0
<1>1. me.pc \in {"idle", "read", "write", "remove", "ended"} /\ MaxAttempts \in Nat \ {0}
  BY DEF Request
<1>2. AttemptsLeft(me) \in 1 .. MaxAttempts
  BY DEF AttemptsLeft, Request, Call
<1> HIDE DEF AttemptsLeft
<1>3. /\ me.pc = "idle"   => StepsLeft(me) = 2 * MaxAttempts + 2
      /\ me.pc = "read"   => StepsLeft(me) = AttemptsLeft(me) + MaxAttempts + 1
      /\ me.pc = "write"  => StepsLeft(me) = AttemptsLeft(me) + 1
      /\ me.pc = "remove" => StepsLeft(me) = 1
      /\ me.pc = "ended"  => StepsLeft(me) = 0
  BY DEF StepsLeft
<1> HIDE DEF StepsLeft
<1> QED BY <1>1, <1>2, <1>3

\* One retry less.
LEMMA RetryShortens ==
    ASSUME NEW me \in Request, me.pc \in {"read", "write"}, ~LastAttempt(me.call), NEW fresh \in Nat
    PROVE  LET new == [me EXCEPT !.call = Retried(@, fresh)] IN
           new \in Request /\ StepsLeft(new) < StepsLeft(me)
<1> DEFINE call == Retried(me.call, fresh)
           new  == [me EXCEPT !.call = call]
<1>1. me.call \in Call /\ call \in Call
  BY CallTypes DEF Request
<1>2. call.attempt = me.call.attempt + 1
  BY <1>1 DEF Retried, Call
<1> HIDE DEF call
<1>3. new \in Request /\ new.call = call /\ new.pc = me.pc
  <2>1. new \in Request
    BY <1>1, RequestTypes
  <2> QED BY <2>1 DEF Request
<1> HIDE DEF new
<1>4. AttemptsLeft(new) = AttemptsLeft(me) - 1
  <2>1. me.call.attempt \in Nat /\ MaxAttempts \in Nat
    BY <1>1 DEF Call
  <2> QED BY <1>2, <1>3, <2>1 DEF AttemptsLeft
<1>5. AttemptsLeft(me) \in 1 .. MaxAttempts /\ MaxAttempts \in Nat
  BY StepsAre
<1>6. StepsLeft(new) < StepsLeft(me)
  <2> HIDE DEF AttemptsLeft
  <2>1. CASE me.pc = "read"
    <3>1. /\ StepsLeft(new) = AttemptsLeft(new) + MaxAttempts + 1
          /\ StepsLeft(me) = AttemptsLeft(me) + MaxAttempts + 1
      BY <1>3, <2>1 DEF StepsLeft
    <3> QED BY <1>4, <1>5, <3>1
  <2>2. CASE me.pc = "write"
    <3>1. StepsLeft(new) = AttemptsLeft(new) + 1 /\ StepsLeft(me) = AttemptsLeft(me) + 1
      BY <1>3, <2>2 DEF StepsLeft
    <3> QED BY <1>4, <1>5, <3>1
  <2> QED BY <2>1, <2>2
<1> QED BY <1>3, <1>6 DEF new, call

Shorter(q) == \E me \in Request : Goes(q, me) /\ StepsLeft(me) < StepsLeft(req[q])

LEMMA EndShortens ==
    ASSUME BaseInv, NEW q \in Requests, req[q].pc # "ended", NEW answer \in Answers,
           Goes(q, Ended(req[q], answer))
    PROVE  Shorter(q)
<1>1. req[q] \in Request /\ req[q].pc \in {"idle", "read", "write", "remove"}
  BY DEF BaseInv, TypeOK, Request
<1>2. Ended(req[q], answer) \in Request /\ Ended(req[q], answer).pc = "ended"
  BY <1>1, RequestTypes, Endings
<1>3. StepsLeft(Ended(req[q], answer)) < StepsLeft(req[q])
  BY <1>1, <1>2, StepsAre
<1> QED BY <1>2, <1>3 DEF Shorter

LEMMA StepShortens ==
    ASSUME BaseInv, NEW q \in Requests,
           \/ Start(q) \/ EmptyPatch(q) \/ Read(q) \/ Write(q) \/ Remove(q) \/ ClosedClient(q)
           \/ TransportError(q) \/ ApiError(q) \/ UnlistedError(q) \/ StorageFails(q)
    PROVE  Shorter(q)
<1>0. TypeOK /\ WorkInv /\ req[q] \in Request /\ Carries(req[q]) /\ MaxAttempts \in Nat
  BY DEF BaseInv, TypeOK, WorkInv
<1>1. CASE Start(q)
  <2>1. PICK me : Begins(me) /\ Goes(q, me)
    BY <1>0, <1>1, Started
  <2>2. me \in Request /\ me.pc \in {"read", "write"} /\ req[q].pc = "idle"
    BY <1>1, <2>1 DEF Begins, Start
  <2>3. StepsLeft(me) < StepsLeft(req[q])
    BY <1>0, <2>2, StepsAre
  <2> QED BY <2>1, <2>2, <2>3 DEF Shorter
<1>2. CASE Read(q)
  <2> DEFINE row == IF req[q].event = NoEvent THEN NoRow ELSE rows[req[q].event]
             me  == Checked(req[q], row)
  <2>1. req[q].pc = "read" /\ Goes(q, me)
    BY <1>2 DEF Read
  <2>2. row \in Row \cup {NoRow}
    BY <1>0, <2>1 DEF Carries, TypeOK
  <2> HIDE DEF row
  <2>3. me \in Request /\ me.pc \in {"ended", "write"}
    BY <1>0, <2>2, Checks
  <2> HIDE DEF me
  <2>4. StepsLeft(me) < StepsLeft(req[q])
    BY <1>0, <2>1, <2>3, StepsAre
  <2> QED BY <2>1, <2>3, <2>4 DEF Shorter
<1>3. CASE Write(q)
  <2>1. /\ req[q].pc = "write"
        /\ Goes(q, Ended(req[q], "upstream")) \/ Goes(q, Written(req[q]))
    BY <1>3 DEF Write
  <2>2. CASE Goes(q, Written(req[q]))
    <3>1. Written(req[q]) \in Request /\ Written(req[q]).pc \in {"ended", "remove"}
      BY <1>0, Writings
    <3>2. StepsLeft(Written(req[q])) < StepsLeft(req[q])
      BY <1>0, <2>1, <3>1, StepsAre
    <3> QED BY <2>2, <3>1, <3>2 DEF Shorter
  <2> QED BY <2>1, <2>2, EndShortens DEF Answers
<1>4. CASE Remove(q) \/ ClosedClient(q) \/ EmptyPatch(q) \/ ApiError(q)
                                 \/ UnlistedError(q) \/ StorageFails(q)
  BY <1>4, EndShortens DEF Remove, ClosedClient, EmptyPatch, ApiError, UnlistedError,
                                             StorageFails, Answers
<1>5. CASE TransportError(q)
  <2>1. CASE LastAttempt(req[q].call)
    BY <1>5, <2>1, EndShortens DEF TransportError, Answers
  <2>2. CASE ~LastAttempt(req[q].call)
    <3>1. /\ Goes(q, [req[q] EXCEPT !.call = Retried(@, cached + 1)])
          /\ req[q].pc \in {"read", "write"} /\ cached + 1 \in Nat
      BY <1>0, <1>5, <2>2 DEF TransportError, TypeOK
    <3> QED BY <1>0, <2>2, <3>1, RetryShortens DEF Shorter
  <2> QED BY <2>1, <2>2
<1> QED BY <1>1, <1>2, <1>3, <1>4, <1>5

\* A step leaves each request as it is, or with fewer steps to do.
StepsRunOut ==
    \A q \in Requests :
        /\ StepsLeft(req[q]) \in 0 .. 2 * MaxAttempts + 2
        /\ req'[q] # req[q] => StepsLeft(req'[q]) < StepsLeft(req[q])

\* Whatever connections break and whoever resets the client meanwhile, a create,
\* an update or a delete is over after 2 * MaxAttempts + 2 steps at most.
THEOREM RequestsRunOut == Spec => [][StepsRunOut]_vars
<1>1. ASSUME BaseInv, Next
      PROVE  StepsRunOut
  <2>1. TypeOK /\ \A q \in Requests : req[q] \in Request
    BY <1>1 DEF BaseInv, TypeOK
  <2>2. \A q \in Requests : StepsLeft(req[q]) \in 0 .. 2 * MaxAttempts + 2
    BY <2>1, StepsAre
  <2>3. ASSUME NEW p \in Requests, Shorter(p)
        PROVE  StepsRunOut
    BY <2>1, <2>2, <2>3, Moves DEF Shorter, StepsRunOut
  <2>4. CASE OtherReset
    BY <2>2, <2>4 DEF OtherReset, StepsRunOut
  <2>5. CASE Crash
    <3>1. ASSUME NEW q \in Requests, UnderWay(q)
          PROVE  StepsLeft(Ended(req[q], "none")) < StepsLeft(req[q])
      <4>1. /\ Ended(req[q], "none") \in Request /\ Ended(req[q], "none").pc = "ended"
            /\ req[q].pc \in {"read", "write", "remove"} /\ MaxAttempts \in Nat
        BY <2>1, <3>1, RequestTypes, Endings DEF UnderWay, Answers
      <4> QED BY <2>1, <4>1, StepsAre
    <3>2. req' = [q \in Requests |-> IF UnderWay(q) THEN Ended(req[q], "none") ELSE req[q]]
      BY <2>5 DEF Crash
    <3> QED BY <2>2, <3>1, <3>2 DEF StepsRunOut
  <2> QED BY <1>1, <2>3, <2>4, <2>5, StepShortens DEF Next
<1>2. BaseInv /\ [Next]_vars => [StepsRunOut]_vars
  BY <1>1
<1> QED BY <1>2, InitBase, BaseStep, PTL DEF Spec

=============================================================================
