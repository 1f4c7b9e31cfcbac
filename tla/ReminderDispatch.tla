-------------------------- MODULE ReminderDispatch --------------------------
(***************************************************************************)
(* Overlapping cron calls of POST /internal/notifications/dispatch, each a *)
(* run of dispatch_due_reminders (app/services/notifications.py), over the *)
(* tables they share with the API's other writers and over Expo Push.      *)
(*                                                                         *)
(* Every query of a run is a call of execute_supabase and every attempt of *)
(* a call is a step, so that other runs, edits, failures and crashes fall  *)
(* between them.  The order of rows is the database's choice (the queries  *)
(* have no ORDER BY), hence the lists the code walks are sets here.        *)
(***************************************************************************)
EXTENDS EventTimes, FiniteSets

CONSTANTS
    Events, Users, Tokens, Reminders,  \* ids of rows; reminder offsets
    Author,                            \* Author[e]: events.author_id, fixed at creation
    OffsetLen,                         \* REMINDER_OFFSETS
    Instants,                          \* wall-clock starts of events, perhaps None
    Zones, TzData, DefaultZone,        \* names of zones, those that are known
    Window, BatchSize, PageSize,       \* DISPATCH_WINDOW, _EXPO_BATCH_SIZE, _EVENT_PAGE_SIZE
    MaxAttempts,                       \* execute_supabase's _MAX_ATTEMPTS
    Runs, Processes, Process,          \* cron calls, uvicorn workers, who serves which
    NoUser, NoReminder, NoItem,        \* "none" values
    MaxNow, MaxFaults, MaxEdits,       \* bounds of the exploration;
    MaxMixed                           \* of faults, where something is edited

ASSUME ConstantsAssumption ==
    /\ IsFiniteSet(Events) /\ IsFiniteSet(Tokens)
    /\ Author \in [Events -> Users]
    /\ OffsetLen \in [Reminders -> Nat]
    /\ Instants \subseteq Int \cup {None}
    /\ TzData \in [DOMAIN TzData -> Zone] /\ DefaultZone \in DOMAIN TzData
    /\ Window \in Nat /\ BatchSize \in Nat \ {0} /\ PageSize \in Nat \ {0}
    /\ MaxAttempts \in Nat \ {0}
    /\ Process \in [Runs -> Processes]
    /\ NoUser \notin Users /\ NoReminder \notin Reminders
    /\ MaxNow \in Nat /\ MaxFaults \in Nat /\ MaxEdits \in Nat /\ MaxMixed \in Nat

VARIABLES
    now,         \* the clock
    events,      \* events: the columns the dispatcher reads
    zone,        \* profiles.timezone
    owner,       \* the push-token table: Tokens -> Users \cup {NoUser}
    deliveries,  \* event_notification_deliveries: id of the key's row, 0 if none
    cached,      \* get_admin_client's singleton of each process, as a generation
    run,         \* the local variables of each run
    \* History: what was observed, read by no action's guard
    claims,      \* number of rows ever inserted under a key; the last one's id
    maker,       \* the run whose insert made that last row
    handed,      \* messages Expo has taken
    seen,        \* <<token, user>> pairs that existed while the run was going on
    faults, edits

tables  == <<events, zone, owner>>
ledger  == <<deliveries, claims, maker>>
vars    == <<now, tables, ledger, cached, run, handed, seen, faults, edits>>

-----------------------------------------------------------------------------
(* Data.  A delivery's key is (event, author, offset): the author is the    *)
(* event's, so the pair <<event, offset>> is the key.                       *)

Keys     == Events \X Reminders
EventRow == [at : Instants, reminder : Reminders \cup {NoReminder}]
Row      == [event : Events, at : Instants, reminder : Reminders, page : Nat]
Message  == [key : Keys, claim : Nat, to : Tokens]

Key(row) == <<row.event, row.reminder>>

Phases == {"idle", "pages", "zones", "tokens", "claim", "send", "stale",
           "release", "ended"}
Calls  == {"pages", "zones", "tokens", "claim", "stale", "release"}
Reasons == {"none", "done", "duplicate", "exhausted", "raw", "unsent", "crashed"}

RunState ==
    [pc      : Phases,
     why     : Reasons,                    \* how an ended run ended
     start   : Nat,                        \* now_utc
     client  : Nat,                        \* the Client the handler was given
     using   : Nat,                        \* execute_supabase's current_client
     attempt : 1 .. MaxAttempts,
     item    : Row \cup Message \cup {NoItem},  \* what a retried write is about
     rows    : SUBSET Row,                 \* events, as read
     page    : Nat,
     zones   : [Users -> Zones],
     toks    : [Tokens -> Users \cup {NoUser}],
     due     : SUBSET Row,                 \* due_rows not yet walked
     pending : SUBSET Message,             \* pending_messages
     claimed : SUBSET Row,                 \* claimed_keys
     todo    : SUBSET Message]             \* DeviceNotRegistered tickets to handle

Idle ==
    [pc |-> "idle", why |-> "none", start |-> 0, client |-> 0, using |-> 0,
     attempt |-> 1, item |-> NoItem, rows |-> {}, page |-> 0, zones |-> zone,
     toks |-> [t \in Tokens |-> NoUser], due |-> {}, pending |-> {},
     claimed |-> {}, todo |-> {}]

TypeOK ==
    /\ now \in 0 .. MaxNow
    /\ events \in [Events -> EventRow]
    /\ zone \in [Users -> Zones]
    /\ owner \in [Tokens -> Users \cup {NoUser}]
    /\ deliveries \in [Keys -> Nat]
    /\ cached \in [Processes -> Nat]
    /\ run \in [Runs -> RunState]
    /\ claims \in [Keys -> Nat]
    /\ maker \in [Keys -> Runs \cup {NoItem}]
    /\ handed \subseteq Message
    /\ seen \in [Runs -> SUBSET (Tokens \X Users)]
    /\ faults \in 0 .. MaxFaults
    /\ edits \in 0 .. MaxEdits

Init ==
    /\ now = 0
    /\ events \in [Events -> EventRow]
    /\ zone \in [Users -> Zones]
    /\ owner \in [Tokens -> Users \cup {NoUser}]
    /\ deliveries = [k \in Keys |-> 0]
    /\ cached = [p \in Processes |-> 0]
    /\ run = [r \in Runs |-> Idle]
    /\ claims = [k \in Keys |-> 0]
    /\ maker = [k \in Keys |-> NoItem]
    /\ handed = {}
    /\ seen = [r \in Runs |-> {}]
    /\ faults = 0
    /\ edits = 0

-----------------------------------------------------------------------------
(* The environment: time passes, and users and devices change the tables.   *)

Active(r) == run[r].pc \notin {"idle", "ended"}

Tick ==
    /\ now < MaxNow
    /\ now' = now + 1
    /\ UNCHANGED <<tables, ledger, cached, run, handed, seen, faults, edits>>

Edit ==
    /\ edits < MaxEdits /\ faults <= MaxMixed
    /\ edits' = edits + 1
    /\ UNCHANGED <<now, ledger, cached, run, handed, faults>>

\* create, update or delete an event.  An event that does not exist, or no
\* longer, is to the dispatcher's query one without a reminder.
EditEvent(e) ==
    /\ Edit
    /\ \E row \in EventRow \ {events[e]} : events' = [events EXCEPT ![e] = row]
    /\ UNCHANGED <<zone, owner, seen>>

SetZone(u) ==
    /\ Edit
    /\ \E z \in Zones \ {zone[u]} : zone' = [zone EXCEPT ![u] = z]
    /\ UNCHANGED <<events, owner, seen>>

\* The token's row is inserted, or moved to the user who registers it now.
RegisterToken(t, u) ==
    /\ Edit
    /\ owner[t] # u
    /\ owner' = [owner EXCEPT ![t] = u]
    /\ seen' = [r \in Runs |-> IF Active(r) THEN seen[r] \cup {<<t, u>>} ELSE seen[r]]
    /\ UNCHANGED <<events, zone>>

UnregisterToken(t) ==
    /\ Edit
    /\ owner[t] # NoUser
    /\ owner' = [owner EXCEPT ![t] = NoUser]
    /\ UNCHANGED <<events, zone, seen>>

-----------------------------------------------------------------------------
(* The steps of a run.                                                      *)

\* The session of the client in use is open unless somebody in the process
\* has reset the singleton since that client was obtained.
Open(r) == run[r].using = cached[Process[r]]

\* execute_supabase returns: the next call starts from the handler's client.
Returned(me, pc) ==
    [me EXCEPT !.pc = pc, !.attempt = 1, !.using = me.client, !.item = NoItem]

Ended(me, why) == [me EXCEPT !.pc = "ended", !.why = why]

\* UpstreamError: flush() catches it and releases, everybody else lets it out.
Upstream(me, why) ==
    IF me.pc = "stale" THEN Returned(me, "release") ELSE Ended(me, why)

\* Mutant: no flush after the loop.
ResumeWithoutLastFlush(me) ==
    IF me.due # {} THEN Returned(me, "claim") ELSE Ended(me, "done")

\* The head of the loop over due_rows, and the last flush() after it.
Resume(me) ==
    IF me.due # {} THEN Returned(me, "claim")
    ELSE IF me.pending # {} THEN Returned(me, "send")
    ELSE Ended(me, "done")

\* Mutant: flush() does not empty pending_messages.
FlushKeepsBatch(me) == Resume([me EXCEPT !.claimed = {}, !.todo = {}])

\* flush() after a batch was accepted and its tickets were handled.
Flushed(me) == Resume([me EXCEPT !.pending = {}, !.claimed = {}, !.todo = {}])

\* What the call under way writes; a retry is about the same item.
Items(r) ==
    LET me == run[r] IN
    IF me.attempt > 1 THEN {me.item}
    ELSE CASE me.pc = "claim"   -> me.due
           [] me.pc = "stale"   -> me.todo
           [] me.pc = "release" -> me.claimed
           [] OTHER             -> {NoItem}

\* Mutant: the deliveries table has no unique key.
InsertWithoutUniqueKey(r, k) ==
    /\ deliveries' = [deliveries EXCEPT ![k] = claims[k] + 1]
    /\ claims' = [claims EXCEPT ![k] = claims[k] + 1]
    /\ maker' = [maker EXCEPT ![k] = r]

Insert(r, k) ==
    /\ deliveries[k] = 0
    /\ deliveries' = [deliveries EXCEPT ![k] = claims[k] + 1]
    /\ claims' = [claims EXCEPT ![k] = claims[k] + 1]
    /\ maker' = [maker EXCEPT ![k] = r]

Delete(k) ==
    /\ deliveries' = [deliveries EXCEPT ![k] = 0]
    /\ UNCHANGED <<claims, maker>>

DeleteToken(t) == owner' = [owner EXCEPT ![t] = NoUser]

Quiet == UNCHANGED <<now, events, zone, edits>>

Start(r) ==
    /\ run[r].pc = "idle"
    /\ run' = [run EXCEPT ![r] = [Idle EXCEPT !.pc = "pages", !.start = now,
                                  !.client = cached[Process[r]],
                                  !.using = cached[Process[r]]]]
    /\ seen' = [seen EXCEPT ![r] = {tu \in Tokens \X Users : owner[tu[1]] = tu[2]}]
    /\ UNCHANGED <<owner, ledger, cached, handed, faults>> /\ Quiet

\* A page is any PageSize rows, or what the offset leaves of the table.
PageLength(n, page) ==
    LET left == n - page * PageSize IN
    IF left <= 0 THEN 0 ELSE IF left < PageSize THEN left ELSE PageSize

\* Mutant: `start` does not advance.
SamePage(page) == page

NextPage(page) == page + 1

\* The rows of a page, as they are now, join the rows of the pages before.
GotPage(me, read) ==
    [me EXCEPT !.rows = @ \cup {[event |-> e, at |-> events[e].at,
                                 reminder |-> events[e].reminder,
                                 page |-> me.page] : e \in read},
               !.page = NextPage(@)]

FetchPage(r) ==
    /\ run[r].pc = "pages" /\ Open(r)
    /\ LET reminded == {e \in Events : events[e].reminder # NoReminder} IN
       \E read \in SUBSET reminded :
            /\ Cardinality(read) = PageLength(Cardinality(reminded), run[r].page)
            /\ LET got == GotPage(run[r], read) IN
               run' = [run EXCEPT ![r] =
                         IF Cardinality(read) = PageSize THEN Returned(got, "pages")
                         ELSE IF got.rows = {} THEN Ended(got, "done")
                         ELSE Returned(got, "zones")]
    /\ UNCHANGED <<owner, ledger, cached, handed, seen, faults>> /\ Quiet

FetchZones(r) ==
    /\ run[r].pc = "zones" /\ Open(r)
    /\ run' = [run EXCEPT ![r] = Returned([@ EXCEPT !.zones = zone], "tokens")]
    /\ UNCHANGED <<owner, ledger, cached, handed, seen, faults>> /\ Quiet

RemindAt(row, zones) ==
    ReminderAt(row.at, OffsetLen[row.reminder],
               ZoneInfo(zones[Author[row.event]], TzData, DefaultZone))

\* Mutant: the tokens are not grouped by user.
TokensOfAnybody(toks, u) == {t \in Tokens : toks[t] # NoUser}

TokensOf(toks, u) == {t \in Tokens : toks[t] = u}

\* due_rows, without the rows the loop skips because their author has no token.
DueRows(me) ==
    {row \in me.rows : /\ row.at # None
                       /\ ReminderIsDue(RemindAt(row, me.zones), me.start, Window)
                       /\ TokensOf(me.toks, Author[row.event]) # {}}

FetchTokens(r) ==
    /\ run[r].pc = "tokens" /\ Open(r)
    /\ LET got == [run[r] EXCEPT !.toks = owner]
       IN run' = [run EXCEPT ![r] = Resume([got EXCEPT !.due = DueRows(got)])]
    /\ UNCHANGED <<owner, ledger, cached, handed, seen, faults>> /\ Quiet

Messages(me, row, id) ==
    {[key |-> Key(row), claim |-> id, to |-> t] :
        t \in TokensOf(me.toks, Author[row.event])}

\* The claim's messages and key join the batch.
Batched(me, row, id) ==
    [me EXCEPT !.pending = @ \cup Messages(me, row, id),
               !.claimed = @ \cup {row}, !.due = @ \ {row}]

\* Mutant: the batch is flushed when it exceeds _EXPO_BATCH_SIZE.
ClaimedFlushingLate(me, row, id) ==
    LET got == Batched(me, row, id)
    IN IF Cardinality(got.pending) > BatchSize THEN Returned(got, "send")
       ELSE Resume(got)

\* The loop's body after a successful claim.
Claimed(me, row, id) ==
    LET got == Batched(me, row, id)
    IN IF Cardinality(got.pending) >= BatchSize THEN Returned(got, "send")
       ELSE Resume(got)

Claim(r) ==
    /\ run[r].pc = "claim" /\ Open(r)
    /\ \E row \in Items(r) :
        /\ Insert(r, Key(row))
        /\ run' = [run EXCEPT ![r] = Claimed(@, row, claims[Key(row)] + 1)]
    /\ UNCHANGED <<owner, cached, handed, seen, faults>> /\ Quiet

\* The unique key refuses the insert: execute_supabase turns the APIError
\* into UpstreamError before _claim_delivery can catch it.
ClaimRefused(r) ==
    /\ run[r].pc = "claim" /\ Open(r)
    /\ \E row \in Items(r) : deliveries[Key(row)] # 0
    /\ run' = [run EXCEPT ![r] = Upstream(@, "duplicate")]
    /\ UNCHANGED <<owner, ledger, cached, handed, seen, faults>> /\ Quiet

\* Expo takes the batch and answers with tickets; those in `bad` say
\* DeviceNotRegistered, other errors are only logged.
Send(r) ==
    /\ run[r].pc = "send"
    /\ handed' = handed \cup run[r].pending
    /\ \E bad \in SUBSET run[r].pending :
        run' = [run EXCEPT ![r] = IF bad = {} THEN Flushed(@)
                                  ELSE Returned([@ EXCEPT !.todo = bad], "stale")]
    /\ UNCHANGED <<owner, ledger, cached, seen, faults>> /\ Quiet

DeleteStaleToken(r) ==
    /\ run[r].pc = "stale" /\ Open(r)
    /\ \E m \in Items(r) :
        /\ DeleteToken(m.to)
        /\ LET got == [run[r] EXCEPT !.todo = @ \ {m}]
           IN run' = [run EXCEPT ![r] = IF got.todo = {} THEN Flushed(got)
                                        ELSE Returned(got, "stale")]
    /\ UNCHANGED <<ledger, cached, handed, seen, faults>> /\ Quiet

\* Mutant: the release loop stops after its first key.
ReleaseFirst(r) ==
    /\ run[r].pc = "release" /\ Open(r)
    /\ \E row \in Items(r) :
        /\ Delete(Key(row))
        /\ run' = [run EXCEPT ![r] = Ended([@ EXCEPT !.claimed = @ \ {row}], "unsent")]
    /\ UNCHANGED <<owner, cached, handed, seen, faults>> /\ Quiet

Release(r) ==
    /\ run[r].pc = "release" /\ Open(r)
    /\ \E row \in Items(r) :
        /\ Delete(Key(row))
        /\ LET got == [run[r] EXCEPT !.claimed = @ \ {row}]
           IN run' = [run EXCEPT ![r] = IF got.claimed = {} THEN Ended(got, "unsent")
                                        ELSE Returned(got, "release")]
    /\ UNCHANGED <<owner, cached, handed, seen, faults>> /\ Quiet

\* httpx refuses to use a closed client with a RuntimeError, which nothing catches.
ClosedClient(r) ==
    /\ run[r].pc \in Calls /\ ~Open(r)
    /\ run' = [run EXCEPT ![r] = Ended(@, "raw")]
    /\ UNCHANGED <<owner, ledger, cached, handed, seen, faults>> /\ Quiet

-----------------------------------------------------------------------------
(* Faults.                                                                  *)

Fault ==
    /\ faults < MaxFaults /\ (edits > 0 => faults < MaxMixed)
    /\ faults' = faults + 1 /\ Quiet

\* The effect of the write under way, when the server had committed it before
\* the connection was lost.
Committed(r, item) ==
    CASE run[r].pc = "claim"   -> Insert(r, Key(item)) /\ UNCHANGED owner
      [] run[r].pc = "stale"   -> DeleteToken(item.to) /\ UNCHANGED ledger
      [] run[r].pc = "release" -> Delete(Key(item)) /\ UNCHANGED owner

\* Mutant: the loop makes one attempt too many.
LastAttemptTooLate(me) == me.attempt > MaxAttempts

LastAttempt(me) == me.attempt = MaxAttempts

\* The next attempt at the same item, with a new client.
Retried(me, fresh, item) ==
    [me EXCEPT !.attempt = me.attempt + 1, !.using = fresh, !.item = item]

\* A transport error of execute_supabase: the last attempt gives up, any
\* other resets the singleton and retries with the new one.
TransportError(r) ==
    /\ Fault
    /\ run[r].pc \in Calls /\ Open(r)
    /\ \E item \in Items(r) :
        /\ \/ item # NoItem /\ Committed(r, item)
           \/ UNCHANGED <<owner, ledger>>
        /\ IF LastAttempt(run[r])
           THEN /\ run' = [run EXCEPT ![r] = Upstream(@, "exhausted")]
                /\ UNCHANGED cached
           ELSE LET fresh == cached[Process[r]] + 1 IN
                /\ cached' = [cached EXCEPT ![Process[r]] = fresh]
                /\ run' = [run EXCEPT ![r] = Retried(@, fresh, item)]
    /\ UNCHANGED <<handed, seen>>

\* PostgREST answers with an error of its own.
ApiError(r) ==
    /\ Fault
    /\ run[r].pc \in Calls /\ Open(r)
    /\ run' = [run EXCEPT ![r] = Upstream(@, "exhausted")]
    /\ UNCHANGED <<owner, ledger, cached, handed, seen>>

\* An exception that is not in _TRANSPORT_ERRORS (httpx.ConnectTimeout).
UnlistedError(r) ==
    /\ Fault
    /\ run[r].pc \in Calls /\ Open(r)
    /\ run' = [run EXCEPT ![r] = Ended(@, "raw")]
    /\ UNCHANGED <<owner, ledger, cached, handed, seen>>

\* Expo refused the batch, or took it and the answer was late, lost or not what
\* the code expects: flush() catches UpstreamError, but not the AttributeError
\* of an answer, or of a ticket in it, that is no JSON object.
SendFails(r) ==
    /\ Fault
    /\ run[r].pc = "send"
    /\ \E taken \in BOOLEAN :
        handed' = IF taken THEN handed \cup run[r].pending ELSE handed
    /\ \E after \in {Returned(run[r], "release"), Ended(run[r], "raw")} :
        run' = [run EXCEPT ![r] = after]
    /\ UNCHANGED <<owner, ledger, cached, seen>>

\* Another request of the process loses its connection and resets the client.
OtherReset(p) ==
    /\ Fault
    /\ cached' = [cached EXCEPT ![p] = @ + 1]
    /\ UNCHANGED <<owner, ledger, run, handed, seen>>

\* A worker is stopped: its runs vanish, the tables stay.
Crash(p) ==
    /\ Fault
    /\ \E r \in Runs : Process[r] = p /\ Active(r)
    /\ run' = [r \in Runs |-> IF Process[r] = p /\ Active(r)
                              THEN Ended(run[r], "crashed") ELSE run[r]]
    /\ UNCHANGED <<owner, ledger, cached, handed, seen>>

-----------------------------------------------------------------------------
Work(r) ==
    \/ FetchPage(r) \/ FetchZones(r) \/ FetchTokens(r)
    \/ Claim(r) \/ ClaimRefused(r) \/ Send(r) \/ DeleteStaleToken(r)
    \/ Release(r) \/ ClosedClient(r)

RunFault(r) ==
    \/ TransportError(r) \/ ApiError(r) \/ UnlistedError(r) \/ SendFails(r)

Environment ==
    \/ Tick
    \/ \E e \in Events : EditEvent(e)
    \/ \E u \in Users : SetZone(u)
    \/ \E t \in Tokens, u \in Users : RegisterToken(t, u)
    \/ \E t \in Tokens : UnregisterToken(t)

Next ==
    \/ Environment
    \/ \E r \in Runs : Start(r) \/ Work(r) \/ RunFault(r)
    \/ \E p \in Processes : OtherReset(p) \/ Crash(p)

Spec == Init /\ [][Next]_vars

\* A request being served keeps executing: each of its statements returns or
\* raises, the HTTP calls because they have timeouts.
FairSpec == Spec /\ \A r \in Runs : WF_vars(Work(r))

-----------------------------------------------------------------------------
(* Properties.                                                              *)

Unsent(r) == run[r].pc \in {"claim", "send"}

\* A delivery row stands for at most one attempt to notify: no message that
\* Expo already took under a row is in a batch still to be posted, and no two
\* runs have the same message in their batches, however calls overlap, fail,
\* retry and release.
NoMessageTwice ==
    /\ \A r \in Runs : Unsent(r) => run[r].pending \cap handed = {}
    /\ \A r, s \in Runs : r # s /\ Unsent(r) /\ Unsent(s)
                          => run[r].pending \cap run[s].pending = {}

\* As long as nothing fails, overlapping cron calls, edits and re-registered
\* devices never make Expo take a reminder twice for the same device.
OnceWithoutFaults ==
    faults = 0 => \A m, n \in handed : m.key = n.key /\ m.to = n.to => m = n

\* However calls overlap, fail, retry, die and release, the delivery rows keep
\* their promise: one row a key, told of in one post or none, deleted only after
\* a failure.
Promise == INSTANCE Reminding
           WITH row <- deliveries, last <- claims, told <- handed, failed <- faults > 0
RemindsAsPromised == Promise!Spec

\* A run that returned normally, or that released a failed batch and
\* re-raised, leaves no delivery row of its own that Expo never got a
\* message for: such a row would silence the reminder for good.
SettledRunsLeaveNoOrphan ==
    \A k \in Keys : \A r \in Runs :
        /\ deliveries[k] # 0 /\ maker[k] = r
        /\ run[r].why \in {"done", "unsent"}
        => \E m \in handed : m.key = k /\ m.claim = deliveries[k]

\* A run that returned normally had Expo take a message for every event it
\* read as due and every token it read of the event's author.
DoneRunsHandedEverything ==
    \A r \in Runs : run[r].why = "done" =>
        \A row \in DueRows(run[r]) :
            \A t \in TokensOf(run[r].toks, Author[row.event]) :
                \E m \in handed : m.key = Key(row) /\ m.to = t

\* No reminder falls between two calls that return normally, the second started
\* at most a window after the first: Expo has a message for every one the first
\* call read whose instant is not before its start but before the second's.
NoGapBetweenCalls ==
    \A r, s \in Runs :
        run[r].why = "done" /\ run[s].pc # "idle" /\ run[s].start <= run[r].start + Window =>
        \A row \in {x \in run[r].rows : x.at # None} :
            RemindAt(row, run[r].zones) \in run[r].start .. run[s].start - 1 =>
            \A t \in TokensOf(run[r].toks, Author[row.event]) :
                \E m \in handed : m.key = Key(row) /\ m.to = t

\* A batch was not full before the last event was appended to it: without the
\* messages of one of its events it is smaller than _EXPO_BATCH_SIZE, which the
\* devices of that event's author may make it exceed.
BatchFits(me) ==
    me.pending # {} =>
        \E m \in me.pending :
            Cardinality(me.pending) < BatchSize
                                      + Cardinality(TokensOf(me.toks, Author[m.key[1]]))
BatchBounded == \A r \in Runs : BatchFits(run[r])

\* A message goes only to a device that was registered for the event's author
\* at some moment of the run: not to one that logged out before the run, nor
\* to one that changed hands.
OnlyOwnDevices ==
    \A r \in Runs : \A m \in run[r].pending : <<m.to, Author[m.key[1]]>> \in seen[r]

\* Every run ends, whatever fails and whatever the other runs do.
RunsEnd == \A r \in Runs : run[r].pc = "pages" ~> run[r].pc = "ended"

\* What _claim_delivery's docstring says of the unique key: meeting a reminder
\* that was claimed before skips it, the run goes on.
DuplicateIsSkipped == \A r \in Runs : run[r].why # "duplicate"

\* What the same docstring says of a row: its reminder was sent, unless the
\* run that made it is still at work.
ClaimMeansSent ==
    \A k \in Keys : \A r \in Runs :
        deliveries[k] # 0 /\ maker[k] = r /\ ~Active(r)
        => \E m \in handed : m.key = k /\ m.claim = deliveries[k]

=============================================================================
