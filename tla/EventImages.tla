----------------------------- MODULE EventImages -----------------------------
(***************************************************************************)
(* Events and the image objects they point to: create_event, update_event  *)
(* and delete_event of app/services/events_service.py, with                *)
(* remove_owned_event_image of event_image_storage.py, as concurrent       *)
(* requests over the events table and the event-images bucket.  The app    *)
(* uploads objects by itself, before it sends their URL.                   *)
(***************************************************************************)
EXTENDS Calls, FiniteSets

CONSTANTS
    Users, Events,          \* ids
    Urls, Objects,          \* values of events.image, objects of the bucket
    Folder,                 \* Folder[o]: the user whose folder the object is in
    ObjectOf,               \* ObjectOf[url]: the object of a public URL of the bucket
    Requests,
    NoUser, NoEvent, NoRow, NoUrl, NoObject,
    Same,                   \* a patch without "image"
    MaxFaults               \* bound of the exploration

ASSUME ImagesAssumption ==
    /\ Folder \in [Objects -> Users]
    /\ ObjectOf \in [Urls -> Objects \cup {NoObject}]
    /\ NoUser \notin Users /\ NoEvent \notin Events
    /\ NoUrl \notin Urls /\ Same \notin Urls \cup {NoUrl} /\ NoObject \notin Objects
    /\ NoRow \notin [author : Users, image : Urls \cup {NoUrl}]
    /\ MaxFaults \in Nat

VARIABLES
    rows,      \* events: the columns these operations read
    stored,    \* the objects in the bucket
    cached,    \* the process's client, as a generation
    req,       \* the local variables of each request
    born,      \* ids that were ever given to an event
    \* History
    attached,  \* objects that have been an image of an event of their owner
    met,       \* requests that were under way together with another one
    faults

vars == <<rows, stored, cached, req, born, attached, met, faults>>

Row == [author : Users, image : Urls \cup {NoUrl}]

Request ==
    [pc     : {"idle", "read", "write", "remove", "ended"},
     op     : {"none", "create", "update", "delete"},
     user   : Users \cup {NoUser},
     event  : Events \cup {NoEvent},
     url    : Urls \cup {NoUrl, Same},      \* the body's image
     prev   : Urls \cup {NoUrl},            \* previous_image, image_url
     call   : Call,
     answer : {"none", "ok", "invalid", "notfound", "forbidden", "upstream", "raw"}]

TypeOK ==
    /\ rows \in [Events -> Row \cup {NoRow}]
    /\ stored \subseteq Objects
    /\ cached \in Nat
    /\ req \in [Requests -> Request]
    /\ born \subseteq Events
    /\ attached \subseteq Objects
    /\ met \subseteq Requests
    /\ faults \in 0 .. MaxFaults

Object(url) == IF url \in Urls THEN ObjectOf[url] ELSE NoObject

\* The object of an event's image, if it is in its author's folder.
OwnImage(row) ==
    IF row = NoRow THEN {}
    ELSE {o \in Objects : o = Object(row.image) /\ Folder[o] = row.author}

NewRequest ==
    [pc |-> "idle", op |-> "none", user |-> NoUser, event |-> NoEvent,
     url |-> NoUrl, prev |-> NoUrl, call |-> Fresh(0), answer |-> "none"]

Init ==
    /\ rows \in [Events -> Row \cup {NoRow}]
    /\ stored = Objects
    /\ cached = 0
    /\ req = [q \in Requests |-> NewRequest]
    /\ born = {e \in Events : rows[e] # NoRow}
    /\ attached = UNION {OwnImage(rows[e]) : e \in Events}
    /\ met = {}
    /\ faults = 0

-----------------------------------------------------------------------------
(* The requests.                                                            *)

UnderWay(q) == req[q].pc \in {"read", "write", "remove"}

Goes(q, me) == req' = [req EXCEPT ![q] = me]
Ended(me, answer) == [me EXCEPT !.pc = "ended", !.answer = answer]
GoesOn(me, pc) == [me EXCEPT !.pc = pc, !.call = Returned(@)]

Start(q) ==
    /\ req[q].pc = "idle"
    /\ \E u \in Users, body \in Urls \cup {NoUrl, Same}, e \in Events :
        LET me == [NewRequest EXCEPT !.user = u, !.call = Fresh(cached)] IN
        \/ /\ body # Same
           /\ Goes(q, [me EXCEPT !.pc = "write", !.op = "create", !.url = body])
        \/ Goes(q, [me EXCEPT !.pc = "read", !.op = "update", !.event = e, !.url = body])
        \/ Goes(q, [me EXCEPT !.pc = "read", !.op = "delete", !.event = e])
    /\ LET others == {p \in Requests : UnderWay(p)} IN
       met' = IF others = {} THEN met ELSE met \cup others \cup {q}
    /\ UNCHANGED <<rows, stored, cached, born, attached, faults>>

\* An update without a field is refused before its first query; nothing of it
\* matters but its answer.
EmptyPatch(q) ==
    /\ req[q].pc = "idle"
    /\ Goes(q, Ended(req[q], "invalid"))
    /\ UNCHANGED <<rows, stored, cached, born, attached, met, faults>>

\* Mutant: no comparison of author_id.
CheckedAnybody(me, row) ==
    IF row = NoRow THEN Ended(me, "notfound")
    ELSE GoesOn([me EXCEPT !.prev = row.image], "write")

\* What update_event and delete_event check in the row they read.
Checked(me, row) ==
    IF row = NoRow THEN Ended(me, "notfound")
    ELSE IF row.author # me.user THEN Ended(me, "forbidden")
    ELSE GoesOn([me EXCEPT !.prev = row.image], "write")

Read(q) ==
    /\ req[q].pc = "read" /\ Open(req[q].call, cached)
    /\ Goes(q, Checked(req[q], IF req[q].event = NoEvent THEN NoRow
                               ELSE rows[req[q].event]))
    /\ UNCHANGED <<rows, stored, cached, born, attached, met, faults>>

\* Mutant: any object of the bucket, whoever's folder it is in.
OwnedPathOfAnybody(url, user) == Object(url)

\* owned_event_image_path
OwnedPath(url, user) ==
    IF Object(url) # NoObject /\ Folder[Object(url)] = user THEN Object(url) ELSE NoObject

\* Mutant: the previous image is removed even when the patch repeats it.
DropsRepeated(me) == me.op = "delete" \/ me.url # Same

\* The write leaves the previous image to be removed.
Drops(me) ==
    \/ me.op = "delete"
    \/ me.op = "update" /\ me.url # Same /\ me.prev # NoUrl /\ me.prev # me.url

\* After the write.
Written(me) ==
    IF Drops(me) /\ OwnedPath(me.prev, me.user) # NoObject
    THEN GoesOn(me, "remove") ELSE Ended(me, "ok")

\* The insert of create_event: the database gives every row a new id.
Insert(q) ==
    /\ req[q].op = "create"
    /\ \E e \in Events \ born :
        LET row == [author |-> req[q].user, image |-> req[q].url] IN
        /\ born' = born \cup {e}
        /\ rows' = [rows EXCEPT ![e] = row]
        /\ attached' = attached \cup OwnImage(row)

\* The update of update_event, which matches the row if it is still there.
Update(q) ==
    /\ req[q].op = "update"
    /\ LET e   == req[q].event
           new == IF req[q].url = Same THEN rows[e] ELSE [rows[e] EXCEPT !.image = req[q].url]
       IN IF rows[e] # NoRow /\ rows[e].author = req[q].user
          THEN rows' = [rows EXCEPT ![e] = new] /\ attached' = attached \cup OwnImage(new)
          ELSE UNCHANGED <<rows, attached>>
    /\ UNCHANGED born

Delete(q) ==
    /\ req[q].op = "delete"
    /\ rows' = [rows EXCEPT ![req[q].event] = NoRow]
    /\ UNCHANGED <<attached, born>>

Effect(q) == Insert(q) \/ Update(q) \/ Delete(q)

Write(q) ==
    /\ req[q].pc = "write" /\ Open(req[q].call, cached)
    /\ Effect(q)
    /\ Goes(q, IF req[q].op = "update" /\ rows[req[q].event] = NoRow
               THEN Ended(req[q], "upstream")
               ELSE Written(req[q]))
    /\ UNCHANGED <<stored, cached, met, faults>>

\* Mutant: the object is left in the bucket.
RemoveNothing(q) ==
    /\ req[q].pc = "remove"
    /\ Goes(q, Ended(req[q], "ok"))
    /\ UNCHANGED <<rows, stored, cached, born, attached, met, faults>>

\* remove_owned_event_image, with the client the handler was given.  When that
\* client's session was closed in the meantime the exception is only logged.
Remove(q) ==
    /\ req[q].pc = "remove"
    /\ stored' = IF Open(req[q].call, cached)
                 THEN stored \ {OwnedPath(req[q].prev, req[q].user)} ELSE stored
    /\ Goes(q, Ended(req[q], "ok"))
    /\ UNCHANGED <<rows, cached, born, attached, met, faults>>

\* httpx refuses to use a closed client with a RuntimeError.
ClosedClient(q) ==
    /\ req[q].pc \in {"read", "write"} /\ ~Open(req[q].call, cached)
    /\ Goes(q, Ended(req[q], "raw"))
    /\ UNCHANGED <<rows, stored, cached, born, attached, met, faults>>

-----------------------------------------------------------------------------
(* Faults.                                                                  *)

Fault == faults < MaxFaults /\ faults' = faults + 1 /\ UNCHANGED met

\* The server executed the query of an attempt that failed, or it did not.
ExecutedOrNot(q) ==
    \/ req[q].pc = "write" /\ Effect(q)
    \/ UNCHANGED <<rows, attached, born>>

\* An attempt loses its connection, before or after the server executed it.
TransportError(q) ==
    /\ Fault
    /\ req[q].pc \in {"read", "write"} /\ Open(req[q].call, cached)
    /\ ExecutedOrNot(q)
    /\ IF LastAttempt(req[q].call)
       THEN Goes(q, Ended(req[q], "upstream")) /\ UNCHANGED cached
       ELSE /\ cached' = cached + 1
            /\ Goes(q, [req[q] EXCEPT !.call = Retried(@, cached + 1)])
    /\ UNCHANGED stored

\* PostgREST refuses the query: UpstreamError at once, no retry.
ApiError(q) ==
    /\ Fault
    /\ req[q].pc \in {"read", "write"} /\ Open(req[q].call, cached)
    /\ Goes(q, Ended(req[q], "upstream"))
    /\ UNCHANGED <<rows, stored, cached, born, attached>>

\* An httpx error that is not in _TRANSPORT_ERRORS (ConnectTimeout before the
\* query is sent, DecodingError after it was executed) is not caught.
UnlistedError(q) ==
    /\ Fault
    /\ req[q].pc \in {"read", "write"} /\ Open(req[q].call, cached)
    /\ ExecutedOrNot(q)
    /\ Goes(q, Ended(req[q], "raw"))
    /\ UNCHANGED <<stored, cached>>

\* Another request resets the process's client.
OtherReset ==
    /\ Fault
    /\ cached' = cached + 1
    /\ UNCHANGED <<rows, stored, req, born, attached>>

\* The storage API fails; the exception is only logged.
StorageFails(q) ==
    /\ Fault
    /\ req[q].pc = "remove"
    /\ Goes(q, Ended(req[q], "ok"))
    /\ UNCHANGED <<rows, stored, cached, born, attached>>

\* The worker stops.
Crash ==
    /\ Fault
    /\ \E q \in Requests : UnderWay(q)
    /\ req' = [q \in Requests |-> IF UnderWay(q) THEN Ended(req[q], "none") ELSE req[q]]
    /\ cached' = cached + 1
    /\ UNCHANGED <<rows, stored, born, attached>>

-----------------------------------------------------------------------------
Next ==
    \/ \E q \in Requests :
        \/ Start(q) \/ EmptyPatch(q) \/ Read(q) \/ Write(q) \/ Remove(q) \/ ClosedClient(q)
        \/ TransportError(q) \/ ApiError(q) \/ UnlistedError(q) \/ StorageFails(q)
    \/ OtherReset \/ Crash

Spec == Init /\ [][Next]_vars

-----------------------------------------------------------------------------
(* Properties.                                                              *)

\* However requests interleave, a row is changed or deleted only by a request
\* of its author: the check made on the row read earlier is still good when
\* the write is made, by id alone in delete_event.
OnlyAuthorWrites ==
    [][\A e \in Events : rows[e] # NoRow /\ rows'[e] # rows[e] =>
         \E q \in Requests : /\ req[q].pc = "write" /\ req[q].event = e
                             /\ req[q].user = rows[e].author]_vars

\* An object disappears only through a request of the user in whose folder it
\* is, even when other users' events point to it.
OthersObjectsStay ==
    \A o \in Objects \ stored :
        \E q \in Requests : req[q].user = Folder[o] /\ OwnedPath(req[q].prev, req[q].user) = o

\* An object that is removed while an event still shows it was removed by a
\* request that ran together with others, or in one of the two situations the
\* code does not look at: another event shows the same object, or the patch
\* names the same object by another URL.
RemovedImageIsUnused ==
    [][\A o \in stored \ stored', e \in Events :
         o \in OwnImage(rows[e]) =>
           \E q \in Requests :
             /\ req[q].pc = "remove" /\ Object(req[q].prev) = o
             /\ \/ q \in met
                \/ req[q].event # e
                \/ req[q].url # req[q].prev /\ Object(req[q].url) = o]_vars

\* One request at a time and nothing failing, no object outlives the events
\* that showed it, except while the request that drops it is under way.
NoOrphanObject ==
    faults = 0 /\ met = {} =>
        \A o \in attached \cap stored :
            \/ \E e \in Events : o \in OwnImage(rows[e])
            \/ \E q \in Requests : req[q].pc = "remove" /\ Object(req[q].prev) = o

=============================================================================
