-------------------------------- MODULE Feed --------------------------------
(***************************************************************************)
(* Reading events page by page while others write: get_feed of             *)
(* app/services/feed_service.py, with and without past events, and         *)
(* list_my_events and list_profile_upcoming_events of events_service.py.   *)
(* A request reads the follows, the events and the profiles in queries of  *)
(* their own; the app scrolls by sending next_cursor back.                 *)
(*                                                                         *)
(* Rows with the same created_at come in an order the database chooses     *)
(* anew for each query, so pages are sets: what their order says is in     *)
(* created_at.                                                             *)
(***************************************************************************)
EXTENDS Integers, Sequences, FiniteSets

CONSTANTS
    Users, Viewer,     \* user ids, the user who reads
    Events,            \* event ids
    Days, NoDay,       \* calendar days; a date that is missing or not understood
    NoRow,
    Limits, MaxLimit,  \* the limits clients ask for, _MAX_LIMIT
    Batch,             \* _UPCOMING_FETCH_BATCH
    FetchCap, MaxItems,\* _PROFILE_UPCOMING_FETCH_CAP, _PROFILE_UPCOMING_MAX_ITEMS
    InitialTables,     \* the events tables to start from
    MaxEdits, MaxFaults, MaxPages  \* bounds of the exploration

Dates == Days \cup {NoDay}
Row   == [author : Users, at : Nat \ {0}, visible : BOOLEAN,
          start : Dates, end : Dates, gone : BOOLEAN]

ASSUME FeedAssumption ==
    /\ IsFiniteSet(Events) /\ NoRow \notin Row
    /\ Viewer \in Users /\ Days \subseteq Int /\ NoDay \notin Days
    /\ Limits \subseteq Nat \ {0} /\ MaxLimit \in Nat \ {0} /\ Batch \in Nat \ {0}
    /\ FetchCap \in Nat \ {0} /\ MaxItems \in Nat \ {0}
    /\ MaxEdits \in Nat /\ MaxFaults \in Nat /\ MaxPages \in Nat
    /\ InitialTables \subseteq [Events -> Row \cup {NoRow}]

VARIABLES
    table,      \* events
    follows,    \* whom the viewer follows
    profiles,   \* users that have a row in profiles
    clock,      \* the newest created_at
    today,      \* _utc_today()
    me,         \* the viewer's app, and the local variables of its request
    \* History
    shown,      \* the pages shown in this scroll
    listed,     \* ids of events that were open to the list at some moment of the request
    heard,      \* whom the viewer followed at some moment of the request
    steady,     \* ids that could be seen, and had a created_at of their own,
                \* from the beginning of the scroll
    edits, faults

tables == <<table, follows, profiles, clock, today>>
vars == <<tables, me, shown, listed, heard, steady, edits, faults>>

Modes == {"feed", "past", "mine", "profile"}
NoCursor == 0

\* A row as read.
Item == [id : Events, author : Users, at : Nat, start : Dates, end : Dates]

Reader ==
    [pc       : {"idle", "follows", "check", "events", "profiles", "more", "done", "dead"},
     mode     : Modes,
     target   : Users,                 \* profile_user_id
     limit    : 1 .. MaxLimit,
     cursor   : Nat,
     followed : SUBSET Users,
     page     : Nat,                   \* page_cursor
     today    : Int,                   \* read for the batches, after the follows
     got      : SUBSET Item,           \* collected, then the rows of the page
     more     : BOOLEAN]               \* has_more

TypeOK ==
    /\ table \in [Events -> Row \cup {NoRow}]
    /\ follows \subseteq Users /\ profiles \subseteq Users
    /\ clock \in Nat \ {0} /\ today \in Int
    /\ me \in Reader
    /\ shown \in Seq(SUBSET Item)
    /\ listed \subseteq Events /\ heard \subseteq Users /\ steady \subseteq Events
    /\ edits \in 0 .. MaxEdits /\ faults \in 0 .. MaxFaults

NewReader ==
    [pc |-> "idle", mode |-> "feed", target |-> Viewer, limit |-> 1, cursor |-> NoCursor,
     followed |-> {}, page |-> NoCursor, today |-> 0, got |-> {}, more |-> FALSE]

Exists(e) == table[e] # NoRow /\ ~table[e].gone

Init ==
    /\ table \in InitialTables
    /\ follows \in SUBSET (Users \ {Viewer})
    /\ profiles = Users
    /\ clock \in {table[e].at : e \in {x \in Events : table[x] # NoRow}}
    /\ \A e \in Events : table[e] # NoRow => table[e].at <= clock
    /\ today \in Days /\ \A d \in Days : today <= d
    /\ me = NewReader
    /\ shown = <<>>
    /\ listed = {} /\ heard = {} /\ steady = {}
    /\ edits = 0 /\ faults = 0

-----------------------------------------------------------------------------
(* Data.                                                                    *)

\* _upcoming_sort_day
SortDay(row, day) ==
    IF row.end # NoDay /\ row.end >= day
    THEN IF row.start # NoDay THEN row.start ELSE row.end
    ELSE IF row.start # NoDay /\ row.start >= day THEN row.start ELSE NoDay

Upcoming(row, day) == SortDay(row, day) # NoDay

\* Mutant: the events query does not ask for visible_in_feed.
MatchesInvisible(r, row) ==
    \/ r.mode \in {"feed", "past"} /\ row.author \in r.followed
    \/ r.mode = "mine" /\ row.author = Viewer
    \/ r.mode = "profile" /\ row.author = r.target

\* The filters of the events queries, without the cursor.
Matches(r, row) ==
    \/ r.mode \in {"feed", "past"} /\ row.author \in r.followed /\ row.visible
    \/ r.mode = "mine" /\ row.author = Viewer
    \/ r.mode = "profile" /\ row.author = r.target /\ (r.target = Viewer \/ row.visible)

\* Mutant: less or equal.
UpToCursor(cursor, at) == cursor = NoCursor \/ at <= cursor

BeforeCursor(cursor, at) == cursor = NoCursor \/ at < cursor

Found(r, cursor) ==
    {[id |-> e, author |-> table[e].author, at |-> table[e].at,
      start |-> table[e].start, end |-> table[e].end] :
        e \in {x \in Events : /\ Exists(x) /\ Matches(r, table[x])
                              /\ BeforeCursor(cursor, table[x].at)}}

SizeUpTo(S, n) == IF Cardinality(S) < n THEN Cardinality(S) ELSE n

\* ORDER BY created_at DESC LIMIT n.
Newest(S, n) ==
    {P \in SUBSET S : /\ Cardinality(P) = SizeUpTo(S, n)
                      /\ \A p \in P, s \in S \ P : p.at >= s.at}

\* The first n by sort day, then by created_at.
Soonest(S, n, day) ==
    {P \in SUBSET S : /\ Cardinality(P) = SizeUpTo(S, n)
                      /\ \A p \in P, s \in S \ P :
                            \/ SortDay(p, day) < SortDay(s, day)
                            \/ SortDay(p, day) = SortDay(s, day) /\ p.at <= s.at}

\* created_at of the last row of a non-empty page.
LastAt(P) == (CHOOSE p \in P : \A s \in P : p.at <= s.at).at

-----------------------------------------------------------------------------
(* What may be shown: the promise the history variables keep track of.      *)

\* One's own lists show what the feed does not.
OwnList(mode, author) == mode \in {"mine", "profile"} /\ author = Viewer

Listed(t, mode) ==
    {e \in Events : t[e] # NoRow /\ ~t[e].gone /\ (t[e].visible \/ OwnList(mode, t[e].author))}

\* Seen by this scroll and told apart by created_at from every other row.
Steady(e, t, f, p, day, mode) ==
    /\ e \in Listed(t, mode)
    /\ t[e].author \in (IF mode = "mine" THEN {Viewer} ELSE f \cap p)
    /\ mode = "feed" => Upcoming(t[e], day)
    /\ \A x \in Events \ {e} : t[x] # NoRow => t[x].at # t[e].at

-----------------------------------------------------------------------------
(* The requests.                                                            *)

Reading == me.pc \in {"follows", "check", "events", "profiles"}

Goes(r) == me' = r
NoFault == UNCHANGED <<edits, faults>>

FirstQuery(mode, target) ==
    IF mode \in {"feed", "past"} THEN "follows"
    ELSE IF mode = "mine" \/ target = Viewer THEN "events" ELSE "check"

\* Mutant: the client's limit is taken as it is.
UncappedLimit(limit) == limit

CapLimit(limit) == IF limit < MaxLimit THEN limit ELSE MaxLimit

\* A request arrives with the cursor the app has.
Arrive(r) ==
    /\ Goes([r EXCEPT !.pc = FirstQuery(r.mode, r.target), !.page = r.cursor,
                      !.got = {}, !.followed = {}, !.more = FALSE])
    /\ listed' = Listed(table, r.mode) /\ heard' = follows
    /\ UNCHANGED tables /\ NoFault

\* The app opens a list or a profile.
OpenList ==
    /\ me.pc = "idle"
    /\ \E mode \in Modes, limit \in Limits, target \in Users :
        /\ mode = "profile" \/ target = Viewer
        /\ Arrive([me EXCEPT !.mode = mode, !.target = target, !.limit = CapLimit(limit)])
        /\ steady' = {e \in Events : Steady(e, table, follows, profiles, today, mode)}
    /\ UNCHANGED shown

Scroll ==
    /\ me.pc = "more" /\ Len(shown) < MaxPages
    /\ Arrive(me)
    /\ UNCHANGED <<shown, steady>>

\* Mutant: next_cursor is taken from the row that was fetched beyond the page.
CursorPastPage(rows, items) == LastAt(rows)

\* next_cursor: that of the last item shown.
CursorAfter(rows, items) == LastAt(items)

\* The response, and what the app can do with it.
Reply(rows, items, more) ==
    /\ shown' = Append(shown, items)
    /\ Goes([me EXCEPT !.got = {}, !.more = FALSE, !.followed = {}, !.page = NoCursor,
                       !.pc = IF ~more THEN "done" ELSE IF items = {} THEN "dead" ELSE "more",
                       !.cursor = IF more /\ items # {} THEN CursorAfter(rows, items) ELSE @])
    /\ UNCHANGED <<tables, listed, heard, steady>> /\ NoFault

Continue(r) == Goes(r) /\ UNCHANGED <<tables, shown, listed, heard, steady>> /\ NoFault

ReadFollows ==
    /\ me.pc = "follows"
    /\ IF follows = {} THEN Reply({}, {}, FALSE)
       ELSE Continue([me EXCEPT !.pc = "events", !.followed = follows, !.today = today])

\* Mutant: the follow is not looked at.
CheckNothing == me.pc = "check" /\ Continue([me EXCEPT !.pc = "events"])

\* _viewer_follows_author
CheckFollow ==
    /\ me.pc = "check"
    /\ IF me.target \notin follows THEN Reply({}, {}, FALSE)
       ELSE Continue([me EXCEPT !.pc = "events"])

\* Mutant: a page keeps the row that was fetched to see whether there are more.
KeepAll(rows) == {rows}

Trimmed(rows) == Newest(rows, me.limit)

\* From the rows of a page to its profiles or its response.
WithRows(rows) ==
    \E kept \in Trimmed(rows) :
        LET more == Cardinality(rows) > me.limit IN
        IF me.mode = "mine" \/ kept = {} THEN Reply(rows, kept, more)
        ELSE Continue([me EXCEPT !.pc = "profiles", !.got = kept, !.more = more])

ReadEvents ==
    /\ me.pc = "events" /\ me.mode \in {"past", "mine"}
    /\ \E rows \in Newest(Found(me, me.cursor), me.limit + 1) : WithRows(rows)

\* Mutant: page_cursor stays where it was.
SamePage(r, page) == r

\* The page_cursor of the next batch.
NextBatch(r, page) == [r EXCEPT !.page = LastAt(page)]

\* The upcoming rows of a batch join `collected`, until there is one too many.
Collect(page) ==
    {me.got \cup new : new \in Newest({row \in page : Upcoming(row, me.today)},
                                      me.limit + 1 - Cardinality(me.got))}

ReadBatch ==
    /\ me.pc = "events" /\ me.mode = "feed"
    /\ \E page \in Newest(Found(me, me.page), Batch) :
       \E rows \in Collect(page) :
          IF Cardinality(rows) > me.limit \/ Cardinality(page) < Batch THEN WithRows(rows)
          ELSE Continue([NextBatch(me, page) EXCEPT !.got = rows])

\* Any FetchCap rows, and of those the upcoming ones; visitors get the first few.
ReadUpcoming ==
    /\ me.pc = "events" /\ me.mode = "profile"
    /\ LET found == Found(me, NoCursor) IN
       \E rows \in {P \in SUBSET found : Cardinality(P) = SizeUpTo(found, FetchCap)} :
          LET parsed == {row \in rows : Upcoming(row, today)} IN
          \E items \in Soonest(parsed, IF me.target = Viewer THEN Cardinality(parsed)
                                       ELSE MaxItems, today) :
             Reply(rows, items, FALSE)

\* Items whose author has no profile are left out.
ReadProfiles ==
    /\ me.pc = "profiles"
    /\ Reply(me.got, {row \in me.got : row.author \in profiles}, me.more)

\* The request fails, and the app asks for the same page again.
Fail ==
    /\ faults < MaxFaults /\ faults' = faults + 1
    /\ Reading
    /\ me' = [me EXCEPT !.pc = "more", !.got = {}, !.more = FALSE, !.followed = {},
                        !.page = NoCursor]
    /\ UNCHANGED <<tables, shown, listed, heard, steady, edits>>

-----------------------------------------------------------------------------
(* Other users, and the calendar.                                           *)

Edited(t, f, p, day) ==
    /\ edits < MaxEdits /\ edits' = edits + 1
    /\ table' = t /\ follows' = f /\ profiles' = p /\ today' = day
    /\ listed' = IF Reading THEN listed \cup Listed(t, me.mode) ELSE listed
    /\ heard' = IF Reading THEN heard \cup f ELSE heard
    /\ steady' = {e \in steady : Steady(e, t, f, p, day, me.mode)}
    /\ UNCHANGED <<me, shown, faults>>

\* created_at is the time an insert began, so a new event becomes visible after
\* younger ones when its insert took longer than theirs.
InsertEvent ==
    \E e \in Events, u \in Users, at \in 1 .. clock + 1 :
        /\ table[e] = NoRow
        /\ clock' = IF at > clock THEN at ELSE clock
        /\ \E day \in Days :
            Edited([table EXCEPT ![e] = [author |-> u, at |-> at, visible |-> TRUE,
                                         start |-> day, end |-> NoDay, gone |-> FALSE]],
                   follows, profiles, today)

EditEvent ==
    \E e \in Events, v \in BOOLEAN, s, d \in Dates :
        /\ Exists(e)
        /\ <<v, s, d>> # <<table[e].visible, table[e].start, table[e].end>>
        /\ Edited([table EXCEPT ![e] = [@ EXCEPT !.visible = v, !.start = s, !.end = d]],
                  follows, profiles, today)
        /\ UNCHANGED clock

DeleteEvent ==
    \E e \in Events :
        /\ Exists(e)
        /\ Edited([table EXCEPT ![e].gone = TRUE], follows, profiles, today)
        /\ UNCHANGED clock

\* The viewer follows or unfollows somebody, on another device.
ChangeFollow ==
    \E u \in Users \ {Viewer} :
        /\ Edited(table, IF u \in follows THEN follows \ {u} ELSE follows \cup {u},
                  profiles, today)
        /\ UNCHANGED clock

LoseProfile ==
    \E u \in profiles \ {Viewer} :
        Edited(table, follows, profiles \ {u}, today) /\ UNCHANGED clock

NewDay ==
    /\ today + 1 \in Days
    /\ Edited(table, follows, profiles, today + 1)
    /\ UNCHANGED clock

Edit == InsertEvent \/ EditEvent \/ DeleteEvent \/ ChangeFollow \/ LoseProfile \/ NewDay

Read == ReadFollows \/ CheckFollow \/ ReadEvents \/ ReadBatch \/ ReadUpcoming \/ ReadProfiles

Next == OpenList \/ Scroll \/ Read \/ Fail \/ Edit

Spec == Init /\ [][Next]_vars

\* A request that was accepted keeps executing its queries.
FairSpec == Spec /\ WF_vars(Read)

-----------------------------------------------------------------------------
(* Properties.                                                              *)

Ids(P) == {row.id : row \in P}

\* A scroll never shows an event twice, whatever is inserted, edited or
\* deleted between its requests and between their batches, and however ties
\* in created_at are broken.
NoRepeats ==
    /\ \A i, j \in DOMAIN shown : i # j => Ids(shown[i]) \cap Ids(shown[j]) = {}
    /\ \A i \in DOMAIN shown : Cardinality(Ids(shown[i])) = Cardinality(shown[i])

\* A scroll that was told there is no more has shown every event that could be
\* seen all along and shares its created_at with no other.  A scroll that is
\* told there is more and gets no cursor has met an author without a profile.
FinishedScrollIsComplete ==
    /\ me.pc = "done" /\ me.mode # "profile"
       => steady \subseteq UNION {Ids(shown[i]) : i \in DOMAIN shown}
    /\ me.pc = "dead" => profiles # Users

\* Pages have at most `limit` items, and exactly so many before the last page
\* as long as every author has a profile; a visitor of a profile sees at most
\* _PROFILE_UPCOMING_MAX_ITEMS.
PagesAreFull ==
    /\ \A i \in DOMAIN shown :
        IF me.mode = "profile"
        THEN me.target # Viewer => Cardinality(shown[i]) <= MaxItems
        ELSE /\ Cardinality(shown[i]) <= me.limit
             /\ profiles = Users /\ (i < Len(shown) \/ me.pc = "more")
                => Cardinality(shown[i]) = me.limit

\* Every event of a page was visible in the feed at some moment of the request,
\* and the viewer followed its author at some moment, not always the same one;
\* or it is the viewer's own, in a list of the viewer's.
ShowsOnlyWhatMayBeSeen ==
    [][shown' # shown => \A row \in shown'[Len(shown')] :
          row.id \in listed /\ (row.author \in heard \/ OwnList(me.mode, row.author))]_vars

\* Every request is answered: collecting batches ends, whatever is inserted
\* or edited in the meantime.
RequestsEnd == Reading ~> ~Reading

=============================================================================
