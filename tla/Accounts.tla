------------------------------ MODULE Accounts -------------------------------
(***************************************************************************)
(* The requests that write what users own: push tokens                     *)
(* (app/services/devices.py), follows (follows.py) and profiles            *)
(* (profiles.py), over tables with unique keys.  Several of them read      *)
(* before they write, in queries of their own.  The tables are defined     *)
(* outside the repository; their keys are those the code relies on.        *)
(***************************************************************************)
EXTENDS Calls

CONSTANTS
    Users, Tokens, Names,     \* ids, Expo push tokens, user names
    Requests,
    NoUser, NoToken, NoName, NoProfile,
    Same,                     \* a profile patch without "username"
    MaxFaults                 \* bound of the exploration

ASSUME AccountsAssumption ==
    /\ NoUser \notin Users /\ NoToken \notin Tokens
    /\ {NoName, NoProfile, Same} \cap Names = {}
    /\ NoName # NoProfile /\ NoName # Same
    /\ MaxFaults \in Nat

VARIABLES
    token,     \* device_push_tokens by token: id of its row, 0 if none, and user
    ids,       \* number of token rows ever inserted
    follow,    \* follows: <<follower, followed>>
    name,      \* profiles by id: the user name
    zoned,     \* profiles whose timezone a request has written
    cached,    \* the process's client, as a generation
    req,       \* the local variables of each request
    \* History
    held,      \* requests whose purpose was fulfilled at some moment of theirs
    rivalled,  \* requests during which another user had the name they ask for
    struck,    \* requests that failed themselves or whose client was reset
    raced,     \* requests whose row somebody else added or removed under them
    faults

tables == <<token, ids, follow, name, zoned>>
vars   == <<tables, cached, req, held, rivalled, struck, raced, faults>>

Ops  == {"none", "register", "unregister", "follow", "unfollow", "me", "profile"}

Zones == {"absent", "known", "unknown", "malformed"}

Request ==
    [pc     : {"idle", "zone", "select", "write", "ended"},
     op     : Ops,
     user   : Users \cup {NoUser},
     token  : Tokens \cup {NoToken},
     zone   : Zones,                      \* body.timezone
     other  : Users \cup {NoUser},        \* followed_id
     name   : Names \cup {NoName, Same},
     row    : Nat,                        \* id of the row that was read, 0 if none
     call   : Call,
     answer : {"none", "ok", "invalid", "conflict", "notfound", "upstream", "raw"}]

TypeOK ==
    /\ token \in [Tokens -> [id : 0 .. ids, user : Users \cup {NoUser}]]
    /\ ids \in Nat
    /\ follow \subseteq Users \X Users
    /\ name \in [Users -> Names \cup {NoName, NoProfile}]
    /\ zoned \subseteq Users
    /\ cached \in Nat
    /\ req \in [Requests -> Request]
    /\ held \subseteq Requests /\ rivalled \subseteq Requests
    /\ struck \subseteq Requests /\ raced \subseteq Requests
    /\ faults \in 0 .. MaxFaults

NoTokenRow == [id |-> 0, user |-> NoUser]

NewRequest ==
    [pc |-> "idle", op |-> "none", user |-> NoUser, token |-> NoToken, zone |-> "absent",
     other |-> NoUser, name |-> Same, row |-> 0, call |-> Fresh(0), answer |-> "none"]

Init ==
    /\ token \in [Tokens -> {NoTokenRow} \cup [id : {1}, user : Users]]
    /\ ids = 1
    /\ follow \in SUBSET {p \in Users \X Users : p[1] # p[2]}
    /\ name \in [Users -> Names \cup {NoName, NoProfile}]
    /\ \A u, v \in Users : u # v /\ name[u] \in Names => name[u] # name[v]
    /\ zoned = {}
    /\ cached = 0
    /\ req = [q \in Requests |-> NewRequest]
    /\ held = {} /\ rivalled = {} /\ struck = {} /\ raced = {}
    /\ faults = 0

-----------------------------------------------------------------------------
(* Requests.                                                                *)

UnderWay(q) == req[q].pc \in {"zone", "select", "write"}

Goes(q, me) == req' = [req EXCEPT ![q] = me]
Ended(me, answer) == [me EXCEPT !.pc = "ended", !.answer = answer]
GoesOn(me, pc) == [me EXCEPT !.pc = pc, !.call = Returned(@)]

\* resolve_timezone_name: ZoneInfo raises ZoneInfoNotFoundError for a name it
\* does not know, which is caught, and a plain ValueError for one that is no
\* relative path in normal form, which is not.
Resolved(me) ==
    CASE me.zone = "absent"    -> [me EXCEPT !.pc = "select"]
      [] me.zone = "known"     -> [me EXCEPT !.pc = "zone"]
      [] me.zone = "unknown"   -> Ended(me, "invalid")
      [] me.zone = "malformed" -> Ended(me, "raw")

\* The body of a request, z being its time zone, and the first query of its handler.
Starts(u, z) ==
    LET me          == [NewRequest EXCEPT !.user = u, !.call = Fresh(cached)]
        registers   == {[me EXCEPT !.op = "register", !.token = t, !.zone = z] : t \in Tokens}
        unregisters == {[me EXCEPT !.op = "unregister", !.token = t] : t \in Tokens}
        follows     == {[me EXCEPT !.op = "follow", !.other = v] : v \in Users}
        unfollows   == {[me EXCEPT !.op = "unfollow", !.other = v] : v \in Users}
        profiles    == {[me EXCEPT !.op = "profile", !.name = n] :
                           n \in Names \cup {NoName, Same}}
    IN {Resolved(r) : r \in registers}
       \cup {[r EXCEPT !.pc = "select"] :
                r \in {f \in follows : f.other # u} \cup {[me EXCEPT !.op = "me"]}}
       \cup {[r EXCEPT !.pc = "write"] : r \in unregisters \cup unfollows \cup profiles}
       \cup {Ended(r, "invalid") :     \* a blank token, oneself
                r \in registers \cup unregisters \cup {f \in follows : f.other = u}}

Start(q) ==
    /\ req[q].pc = "idle"
    /\ \E u \in Users, z \in Zones : \E me \in Starts(u, z) : Goes(q, me)
    /\ UNCHANGED <<tables, cached, faults>>

\* _update_profile_timezone
Zone(q) ==
    /\ req[q].pc = "zone" /\ Open(req[q].call, cached)
    /\ zoned' = IF name[req[q].user] = NoProfile THEN zoned ELSE zoned \cup {req[q].user}
    /\ Goes(q, GoesOn(req[q], "select"))
    /\ UNCHANGED <<token, ids, follow, name, cached, faults>>

\* Mutant: upsert_push_token inserts without looking.
InsertsBlindly(me) == GoesOn(me, "write")

\* What upsert_push_token, follow_user and get_my_profile do with what they read.
Selected(me) ==
    CASE me.op = "register" -> GoesOn([me EXCEPT !.row = token[me.token].id], "write")
      [] me.op = "follow"   -> IF <<me.user, me.other>> \in follow THEN Ended(me, "conflict")
                               ELSE GoesOn(me, "write")
      [] me.op = "me"       -> IF name[me.user] # NoProfile THEN Ended(me, "ok")
                               ELSE GoesOn(me, "write")

Select(q) ==
    /\ req[q].pc = "select" /\ Open(req[q].call, cached)
    /\ Goes(q, Selected(req[q]))
    /\ UNCHANGED <<tables, cached, faults>>

\* Another user has the name.
Taken(me) == \E u \in Users \ {me.user} : me.name \in Names /\ name[u] = me.name

\* The database refuses the write: its unique key is there already.
Refused(me) ==
    CASE me.op = "register" -> me.row = 0 /\ token[me.token].id # 0
      [] me.op = "follow"   -> <<me.user, me.other>> \in follow
      [] me.op = "profile"  -> Taken(me)
      [] OTHER              -> FALSE

\* The row to update is still the one that was read.
RowStands(me) == me.row # 0 /\ token[me.token].id = me.row

StoreToken(me) ==
    /\ token' = IF me.row = 0 THEN [token EXCEPT ![me.token] = [id |-> ids + 1, user |-> me.user]]
                ELSE IF RowStands(me) THEN [token EXCEPT ![me.token].user = me.user]
                ELSE token
    /\ ids' = IF me.row = 0 THEN ids + 1 ELSE ids
    /\ UNCHANGED <<follow, name, zoned>>

\* Mutant: the token is removed whoever it belongs to.
RemoveAnyToken(me) ==
    /\ token' = [token EXCEPT ![me.token] = NoTokenRow]
    /\ UNCHANGED <<ids, follow, name, zoned>>

RemoveToken(me) ==
    /\ token' = IF token[me.token].user = me.user
                THEN [token EXCEPT ![me.token] = NoTokenRow] ELSE token
    /\ UNCHANGED <<ids, follow, name, zoned>>

SetFollow(me) ==
    /\ follow' = IF me.op = "follow" THEN follow \cup {<<me.user, me.other>>}
                 ELSE follow \ {<<me.user, me.other>>}
    /\ UNCHANGED <<token, ids, name, zoned>>

\* Mutant: the payload of _ensure_profile_row has every column.
EnsureResets(me) == IF me.op = "profile" /\ me.name # Same THEN me.name ELSE NoName

\* What an upsert on id leaves in username: the columns not in its payload
\* keep their values.
NameAfter(me) ==
    IF me.op = "profile" /\ me.name # Same THEN me.name
    ELSE IF name[me.user] = NoProfile THEN NoName ELSE name[me.user]

UpsertProfile(me) ==
    /\ name' = [name EXCEPT ![me.user] = NameAfter(me)]
    /\ UNCHANGED <<token, ids, follow, zoned>>

Effect(me) ==
    CASE me.op = "register"              -> StoreToken(me)
      [] me.op = "unregister"            -> RemoveToken(me)
      [] me.op \in {"follow", "unfollow"} -> SetFollow(me)
      [] me.op \in {"me", "profile"}     -> UpsertProfile(me)

\* Mutant: an update that matched no row is taken for done.
AnsweredWithoutLooking(me) ==
    IF me.op = "unfollow" /\ <<me.user, me.other>> \notin follow THEN "notfound" ELSE "ok"

\* The answer after a write that was not refused, from the rows it returned.
Answered(me) ==
    CASE me.op = "register" /\ me.row # 0 /\ ~RowStands(me)            -> "upstream"
      [] me.op = "unfollow" /\ <<me.user, me.other>> \notin follow -> "notfound"
      [] OTHER                                                      -> "ok"

Write(q) ==
    /\ req[q].pc = "write" /\ Open(req[q].call, cached)
    /\ ~Refused(req[q])
    /\ Effect(req[q])
    /\ Goes(q, Ended(req[q], Answered(req[q])))
    /\ UNCHANGED <<cached, faults>>

\* The unique violation of a user name is a conflict, any other APIError is not.
ErrorAnswer(me, unique) == IF me.op = "profile" /\ unique THEN "conflict" ELSE "upstream"

WriteRefused(q) ==
    /\ req[q].pc = "write" /\ Open(req[q].call, cached)
    /\ Refused(req[q])
    /\ Goes(q, Ended(req[q], ErrorAnswer(req[q], TRUE)))
    /\ UNCHANGED <<tables, cached, faults>>

\* httpx refuses to use a closed client with a RuntimeError.
ClosedClient(q) ==
    /\ UnderWay(q) /\ ~Open(req[q].call, cached)
    /\ Goes(q, Ended(req[q], "raw"))
    /\ UNCHANGED <<tables, cached, faults>>

-----------------------------------------------------------------------------
(* The dispatcher, and faults.                                              *)

\* _delete_stale_token of the reminder dispatcher, by token.
DropToken(t) ==
    /\ token[t].id # 0
    /\ token' = [token EXCEPT ![t] = NoTokenRow]
    /\ UNCHANGED <<ids, follow, name, zoned, cached, req, faults>>

Fault == faults < MaxFaults /\ faults' = faults + 1

\* The server executed the query of an attempt that failed, or it did not.
ExecutedOrNot(q) ==
    \/ req[q].pc = "write" /\ ~Refused(req[q]) /\ Effect(req[q])
    \/ UNCHANGED tables

\* An attempt loses its connection, before or after the server executed it.
TransportError(q) ==
    /\ Fault
    /\ UnderWay(q) /\ Open(req[q].call, cached)
    /\ ExecutedOrNot(q)
    /\ IF LastAttempt(req[q].call)
       THEN Goes(q, Ended(req[q], "upstream")) /\ UNCHANGED cached
       ELSE /\ cached' = cached + 1
            /\ Goes(q, [req[q] EXCEPT !.call = Retried(@, cached + 1)])

\* PostgREST answers with an error that is no unique violation.
ApiError(q) ==
    /\ Fault
    /\ UnderWay(q) /\ Open(req[q].call, cached)
    /\ Goes(q, Ended(req[q], ErrorAnswer(req[q], FALSE)))
    /\ UNCHANGED <<tables, cached>>

\* An httpx error that is not in _TRANSPORT_ERRORS (ConnectTimeout before the
\* query is sent, DecodingError after it was executed) is not caught.
UnlistedError(q) ==
    /\ Fault
    /\ UnderWay(q) /\ Open(req[q].call, cached)
    /\ ExecutedOrNot(q)
    /\ Goes(q, Ended(req[q], "raw"))
    /\ UNCHANGED cached

\* Another request resets the process's client.
OtherReset ==
    /\ Fault
    /\ cached' = cached + 1
    /\ UNCHANGED <<tables, req>>

-----------------------------------------------------------------------------
Step ==
    \/ \E q \in Requests :
        \/ Start(q) \/ Zone(q) \/ Select(q) \/ Write(q) \/ WriteRefused(q)
        \/ ClosedClient(q) \/ TransportError(q) \/ ApiError(q) \/ UnlistedError(q)
    \/ \E t \in Tokens : DropToken(t)
    \/ OtherReset

\* What a request is for, as a state of the tables.
Purpose(me, tok, fol, nam) ==
    CASE me.op = "register"   -> tok[me.token].user = me.user
      [] me.op = "unregister" -> tok[me.token].user # me.user
      [] me.op = "follow"     -> <<me.user, me.other>> \in fol
      [] me.op = "unfollow"   -> <<me.user, me.other>> \notin fol
      [] me.op = "me"         -> nam[me.user] # NoProfile
      [] me.op = "profile"    -> nam[me.user] # NoProfile
                                 /\ (me.name = Same \/ nam[me.user] = me.name)
      [] OTHER                -> FALSE

Rival(me, nam) == \E u \in Users \ {me.user} : me.name \in Names /\ nam[u] = me.name

\* The row that me looked for before its write is added or removed.
RowChanges(me) ==
    CASE me.op = "register" -> token'[me.token].id # token[me.token].id
      [] me.op = "follow"   -> (<<me.user, me.other>> \in follow') # (<<me.user, me.other>> \in follow)
      [] OTHER              -> FALSE

\* The history variables observe every step of requests that have not ended.
Observe ==
    LET watched == {q \in Requests : req[q].pc # "ended"} IN
    /\ held' = held \cup {q \in watched : Purpose(req'[q], token', follow', name')}
    /\ rivalled' = rivalled \cup {q \in watched : req'[q].op = "profile" /\ Rival(req'[q], name')}
    /\ struck' = struck \cup {q \in Requests :
                    UnderWay(q) /\ (cached' # cached \/ (faults' # faults /\ req'[q] # req[q]))}
    /\ raced' = raced \cup {q \in Requests :
                    UnderWay(q) /\ req'[q] = req[q] /\ RowChanges(req[q])}

Next == Step /\ Observe

Spec == Init /\ [][Next]_vars

-----------------------------------------------------------------------------
(* Properties.                                                              *)

\* What a request is told is true of some moment between its arrival and its
\* answer, whatever was retried and whoever wrote in between: a registered
\* device was the user's, a follow or a profile there was, a follow "not found"
\* was not there, and a user name that is refused was another user's.
AnswersWereTrue ==
    \A q \in Requests :
        /\ (\/ req[q].answer \in {"ok", "notfound"}
            \/ req[q].answer = "conflict" /\ req[q].op = "follow")
           => q \in held
        /\ req[q].answer = "conflict" /\ req[q].op = "profile" => q \in rivalled

\* A request is answered 502 only if an attempt of its own failed, its client
\* was reset, or somebody else added or removed the very row it had looked for;
\* 500 only for the first two, or for a time zone that is no zone name at all.
\* Whoever else is under way, reading before writing avoids the rest.
ErrorsHaveACause ==
    \A q \in Requests :
        /\ req[q].answer = "upstream" => q \in struck \cup raced
        /\ req[q].answer = "raw" => q \in struck \/ req[q].zone = "malformed"

\* A device stops being a user's only when the user unregisters it, somebody
\* registers it, or Expo no longer knows it.  In particular a late logout
\* leaves a device alone that another user has registered since.
DevicesKeepTheirUser ==
    [][\A t \in Tokens, u \in Users : token[t].user = u /\ token'[t].user # u =>
         \/ req' = req
         \/ \E q \in Requests : /\ req'[q] # req[q]
                                /\ req[q].pc = "write" /\ req[q].token = t
                                /\ (req[q].op = "register" \/ req[q].user = u)]_vars

\* A user name goes only when its owner changes it: creating the missing
\* profile late, after the app has sent one, keeps what was sent.
NamesSurvive ==
    [][\A u \in Users : name[u] \in Names /\ name'[u] # name[u] =>
         \E q \in Requests : /\ req'[q] # req[q] /\ req[q].pc = "write"
                             /\ req[q].op = "profile" /\ req[q].user = u]_vars

=============================================================================
