# A formal model of the Salvai backend

The backend is a FastAPI service over a Supabase database. Its handlers are
short and sequential; what makes it hard is that each handler is several
queries, that each query may be lost, retried or refused, that threads of one
worker share one database client, and that several workers and a cron job write
the same tables. This directory models that: TLA+ modules, TLC runs on small
instances, and TLAPS proofs, for every size, of the reminders and what their
dates mean, of the database client the threads of a worker share, of the writes
to events, images, devices, follows and profiles, of the feed, and of the
verification of tokens.

## 1. Inventory

| Component | Source | State | Operations | Correct when |
|---|---|---|---|---|
| Reminder dispatch | `services/notifications.py`, `api/v1/internal_notifications.py` | delivery rows; a call's snapshot, batch and claims | cron POST: page through events, read zones and tokens, claim, send, delete stale tokens, release | nobody is notified twice for one delivery row, nothing due is forgotten, no claim is left unsent, only the author's devices are used, the call ends |
| Reminder times | `services/event_reminders.py` | none | dates, times of day, zones, instant of a reminder, window test | a reminder precedes its event by its offset, across changes of the clock; none falls between two calls |
| Admin client | `core/supabase.py` | cached client, open sessions | `get_admin_client`, `reset_admin_client`, `execute_supabase` | bounded retries, a normal return means executed, no dead client stays cached, every request is answered |
| Devices, follows, profiles | `services/devices.py`, `follows.py`, `profiles.py` | tables with unique keys | register / unregister, follow / unfollow, read or create, upsert | what a caller is told was true, nobody loses what is theirs to somebody else |
| Events: writes, images | `services/events_service.py`, `event_image_storage.py` | events, objects of the bucket | create, update, delete, remove an owned image | only authors write, images of others stay, no image in use is dropped, no orphan |
| Events: reads, feed | `services/events_service.py`, `feed_service.py` | the app's cursor | feed (with or without past events), own events, profile's upcoming events | no event twice, none missed, nothing shown that may not be seen, termination |
| Enrichment | `services/enrich_*.py`, `instagram_scraper.py`, `chocodata_instagram.py`, `scraper_client.py`, `tiktok_service.py`, `webpage_service.py` | SQLite cache shared by the workers | look up, ask sources in turn, save | sources asked in order and bounded, an error has a reason, the cache never fails a request |
| Event extraction | `services/event_extraction.py` | none | one Groq call, one fallback, normalise dates and times | one more request only if the schema was refused; what is kept is what reminders understand |
| Authentication | `core/auth.py`, `main.py` (lifespan) | PyJWKClient's two caches, shared by the threads of a worker | `prefetch_jwks`, `get_current_user` | a good token is not refused for the sake of a cache, a published key is warm |
| Wiring | `main.py`, `core/config.py`, `core/exceptions.py`, schemas, constants, logging, Sentry, scripts | settings | - | - |

Interaction: every handler gets the process's cached client and passes it to
`execute_supabase` for each query. A transport error in any thread closes and
replaces that client for all of them. Handlers meet in the tables; the reminder
dispatcher reads events, profiles and tokens that other handlers write, and
deletes tokens itself. The dispatcher computes with dates that the extraction
normalised and the app stored. The enrichment has no table, only the cache file.
Every authenticated request first goes through the threads around the key set.

What is hard: queries of two handlers interleave; an answer is lost after the
server executed the statement; a retry repeats a write; a worker dies between two
steps; a reset closes a session somebody else uses; a page or a snapshot is
old when it is used; a key set is old when a token is new; a clock changes
between a reminder and its event. `PROJECT.json` lists each hazard with its line and the
properties that would catch it, or, where the code itself accepts what can happen,
says so.

## 2. Modules

| Module | Models | Composed of |
|---|---|---|
| `ReminderDispatch` | overlapping cron calls, edits, faults, crashes | extends `EventTimes`, `INSTANCE Reminding`; own bookkeeping of `execute_supabase`, per worker |
| `EventTimes` | dates, times of day, zones, instants, the window | functions |
| `Reminding` | what the delivery rows promise (abstract) | implemented by `ReminderDispatch` |
| `AdminClient` | threads of a worker around the cached client | `INSTANCE RemoteCall` |
| `RemoteCall` | what a caller of `execute_supabase` may rely on (abstract) | implemented by `AdminClient` |
| `Calls` | attempt counting and client generations of one handler | used by the next two |
| `EventImages` | create, update, delete of events and their images | extends `Calls` |
| `Accounts` | devices, follows, profiles | extends `Calls` |
| `Feed` | one scroll of the app while others write | - |
| `Enrich` | requests for metadata of links, and for the event in a caption | - |
| `Auth` | threads of a worker that verify tokens, and the key endpoint | - |
| `MC...` | instances for TLC: `MCReminderDispatch`, `MCAdminClient`, `MCEventImages`, `MCAccounts`, `MCFeed`, `MCEnrich`, `MCAuth` | |
| `ReminderDispatchProofs` | the theorems about `EventTimes`, type correctness and the local invariant of a call | extends `ReminderDispatch` |
| `ReminderSafetyProofs` | the safety theorems and the refinement of `Reminding` | extends `ReminderDispatchProofs` |
| `AdminClientProofs`, `EventImagesProofs`, `AccountsProofs`, `FeedProofs`, `EnrichProofs`, `AuthProofs` | the theorems about the module named | extend it |

### How state and actions correspond to the code

*Queries.* One attempt of one `execute_supabase` call is one step, because a
statement of PostgreSQL commits as a whole and everything else can happen between
two of them. The loop of the retries is in the local variables `using`
(`current_client`), `client` (the handler's argument) and `attempt`. A client is
a number, the generation of the cached singleton: outside `AdminClient` a reset
is one step and makes the old generation closed. `AdminClient` takes that step
apart (size test, close, `cache_clear`, building, storing). An attempt that loses
its connection may or may not have had its effect (`TransportError`); an error
answer of PostgREST has none (`ApiError`); a closed client raises at once
(`ClosedClient`); an httpx error that is not in `_TRANSPORT_ERRORS`, such as
`ConnectTimeout`, is neither retried nor mapped, and ends the request with a 500
(`UnlistedError`), the query having been executed or not.

*`ReminderDispatch`.* `deliveries[<<event, offset>>]` is the row under the unique
key, as a number that counts the inserts under that key; `run[r]` has the local
variables of `dispatch_due_reminders` and `flush`: `rows`, `zones`, `toks`,
`due`, `pending` (`pending_messages`), `claimed` (`claimed_keys`), `todo`
(tickets that say DeviceNotRegistered). `pc` is the statement under way: `pages`,
`zones`, `tokens`, `claim`, `send`, `stale`, `release`. Lists are sets, since
no query has an ORDER BY: the order in which the loop walks is any order. A retry
is about the same row (`item`). A post that fails goes on to the release, or ends
the call at once: an answer or a ticket that is no JSON object raises
`AttributeError`, which `flush` does not catch (`SendFails`). Editing an event stands for creating, changing,
deleting and rescheduling it: an absent event has no reminder.

*`Reminding`.* `row` is the number of the row that stands under a key, `told` the
messages Expo has taken. Under the mapping (`Promise` in `ReminderDispatch`) a
step of a call claims, tells, releases or stutters, whatever else it does.

*`EventTimes`.* Wall-clock times and instants are minutes. A text is its shape
(`dd/mm/yyyy`, `yyyy-mm-dd`, `dd/mm` or other; `18:30`, `18h`) and the numbers in
it, since the functions tell no more apart. A zone is its offset before and after
one change: the reminder and its event are weeks apart at most, and a zone
changes twice a year. `OffsetAt` is `fold = 0`, for times that occur twice and
for times that are skipped. A zone the database lacks becomes the default.

*`AdminClient`.* `slot` is the `lru_cache`, `made`/`closed` the clients built and
closed, `th[q]` the thread; `retries` counts the failed attempts after which there
is another. A thread that missed the cache builds a client and
stores it unless another thread was faster.

*`EventImages`.* `rows` has author and image of each event, `stored` the objects
of the bucket. `OwnedPath` is `owned_event_image_path`: the object of a URL if it
is in the user's folder. A handler goes through `read`, `write`, `remove`. An
update without a field is refused before its first query (`EmptyPatch`).

*`Accounts`.* `token`, `follow`, `name` are the tables with their keys. A handler
goes through `zone`, `select`, `write`. A time zone of a body is absent, known,
unknown or malformed (`Zones`): `Resolved` answers an unknown one 400, and a
malformed one, an absolute or not normalised path such as `/UTC`, 500, since only
`ZoneInfoNotFoundError` is caught. `struck` has the requests of which an attempt
failed or whose client was reset, `raced` those whose row somebody else added or
removed after they had looked for it. `NameAfter` is what an upsert on `id`
leaves in `username`, given that its payload lacks that column or not.

*`Feed`.* `me` is the app with its cursor and the local variables of its request;
`table` the events with `created_at` as a number, ties allowed. Batches are any
set of rows the ORDER BY and LIMIT permit. `today` is read where the code reads
it: by the feed after the query for follows, by the lists after their own query.
A row may become visible after younger ones, as an insert that began earlier and
took longer does.

*`Enrich`.* `settings` says which sources are configured, `Ladder` is `ATTEMPTS`,
`asked[q]` records every source a request asked and its answer. What a source
answers is free, within the statuses the code can make of it. `op` is the route:
metadata of a link, or the extraction of an event from a caption (`AskGroq`). The
overlay that looks for a picture fails open, but for reading the post's `url`,
which stands outside its `try` (`AskOverlay`). A link in `Unkeyable` has no cache
key: `normalize_enrich_url` raises on it.

*`Auth`.* `set` is `jwk_set_cache`, `signing` the `lru_cache` of signing keys,
`th` the thread of each request and of the lifespan handler (`Startup`). A fetch
is three steps (sent, answered, stored), so that an older answer may be stored
after a newer one; the look at the age of the cached set and its use are two.
`published` is the endpoint, whose keys come and go.

History variables (`handed`, `claims`, `maker`, `seen`, `held`, `rivalled`,
`struck`, `raced`, `retries`, `met`, `asked`, `fickle`, `gone`, `excused`, ...)
record what happened for the properties; no guard reads them, except that the number of a delivery row is taken from `claims`.
Variables named `faults` and `edits` count against the bounds of a run.

## 3. Runs

| Run | Question | Result |
|---|---|---|
| `reminder_overlap` | two calls, at once or a minute apart, pages of one row, two faults or an edit: duplicates, orphans, forgotten reminders, gaps between the calls, batch size; refinement of `Reminding` | holds |
| `reminder_edits` | a device changes hands, a zone changes or an event moves during a call, with a fault anywhere: whose devices are used, and does every call end | holds, the latter under fairness |
| `reminder_duplicate` | `DuplicateIsSkipped`, what `_claim_delivery` says of its result | **violated** |
| `reminder_claim_sent` | `ClaimMeansSent`, what the same docstring says of a row | **violated** |
| `client_races` | two threads around the cached client; refinement of `RemoteCall`; liveness | holds |
| `client_raw_error` | `NoRawError`, the docstring's mapping of failures to 502 | **violated** |
| `client_reset_storm` | `UpstreamOnlyIfPersistent`, the docstring's "persistent failures" | **violated** |
| `event_images` | two requests over events and images | holds |
| `feed_scroll` | a scroll in every mode against edits and a failure; liveness | holds |
| `enrich` | two requests in two workers, all configurations and answers, captions and links without a key | holds |
| `accounts` | two requests of any kind on devices, follows, profiles | holds |
| `auth` | two requests in two threads while keys rotate, the set grows old and a fetch fails | holds |

### What the violated runs show

* `_claim_delivery` (`notifications.py:100-124`) catches `APIError` to skip a
  reminder that was claimed before, but `execute_supabase` has already turned it
  into `UpstreamError` (`supabase.py:123`). The first reminder claimed by an
  earlier call aborts the whole call with 502. The window is 10 minutes and the
  README asks for a call every 5, so each reminder is met by two calls
  (`DueAtTwoCalls`, a theorem of `ReminderDispatchProofs`).
* Such an abort leaves the delivery rows of the batch not yet flushed. They are
  released by nobody, so those reminders are never sent.
* After a retried query the handler passes the closed client to its next query,
  which raises `RuntimeError`: no entry of `_TRANSPORT_ERRORS`, hence a raw 500.
* `reset_admin_client` closes the client that is cached now, not the one that
  failed. Two threads that retry close each other's session until one of them
  has used up its attempts, after a single broken connection.

### Bounds, and why they are enough

Two calls, requests or threads are enough for every race of a pair; the code
has no rule about three. Two faults in `reminder_overlap` let one be lost and its
recovery fail as well; one suffices elsewhere, since a request that failed twice
is over. `MaxAttempts` is 2 where only "the last attempt or not" matters, and 3,
as in the code, where the number does (`client_*`). In `reminder_overlap` two
events of an author with two devices and batches of two messages fill a batch
exactly with every event. They never exceed it: that the limit may be exceeded by
the devices of one event's author, and by no more, is what `BatchStaysBounded`
proves for every number of devices and every batch size. `MaxMixed` bounds the
faults of a behaviour with an edit: in one part of this run two faults meet, and
in the other, without a fault, an event moves or vanishes or a device logs out
under the calls. Pages of one row make each page full, so
that the next is read. The clock may move by a minute between the calls, and every
reminder is for the first minute: due at both calls, or only at the first. `reminder_edits` has one
event, that moves in and out of the window, one device that goes from one user to
another, and a zone that is known and changes its clock or is not known. The
functions of `EventTimes` do not depend on a run: `DaysAreCounted` compares
`Ordinal` with a plain step to the next day over the days of seven years, and
`DatesAreKept` the dates that are kept with the first and last valid one, for up
to four dates of which some are valid only in leap years; the theorems
`DaysAreCounted` and `FirstAndLastAreKept` state both without a bound. `event_images` has two
URLs of one object and one of another user's. `feed_scroll` has three events and
one to be inserted, three patterns of ties, pages of one and two rows (a limit
above the maximum is clamped), batches of two, so that a page takes several
batches. `enrich` has a link of each site and one without a key. `auth` has two
keys, a lifespan of one unit and two to go, so that a set is fresh, stale and
fetched again, and two rotations, so that a key is withdrawn while the other is
published. The counters `MaxFaults`, `MaxEdits`, `MaxMixed`, `MaxCalls`, `MaxPages`,
`MaxRotations`, `MaxNow` only bound the exploration. Requests are served once and
stop, so deadlock is not checked. Symmetry is used only in runs without liveness
properties.

### Fairness

`FairSpec` of `ReminderDispatch` (run `reminder_edits`) and of `AdminClient`
(`client_races`) assumes weak fairness of the steps of a call or thread that has
been started, and that of `Feed` (`feed_scroll`) of the request under way: a thread of the server runs, and an HTTP request returns or times out, since
the clients have timeouts. Nothing is assumed of the environment: the cron need
not come, no request has to arrive, users need not scroll, nothing has to fail or
to recover. So `EveryRequestEnds` is about requests that have arrived.

## 4. Proofs

`ReminderDispatchProofs` and `ReminderSafetyProofs` prove about
`ReminderDispatch`, for any sets of events, users, devices, calls, workers and
zones and any batch size, page size, window and number of attempts:

| Theorem | States |
|---|---|
| `TypeCorrect` | `[]TypeOK` |
| `BatchStaysBounded` | `[]BatchBounded` |
| `NoMessageTwiceHolds` | `[]NoMessageTwice` |
| `NoOrphanBehindSettledRuns` | `[]SettledRunsLeaveNoOrphan` |
| `DoneRunsAreComplete` | `[]DoneRunsHandedEverything` |
| `OnceIfNothingFails` | `[]OnceWithoutFaults` |
| `OnlyOwnDevicesHolds` | `[]OnlyOwnDevices` |
| `NoGapHolds` | `[]NoGapBetweenCalls` |
| `RemindersKeepThePromise` | `RemindsAsPromised`, that is `Reminding`'s specification |
| `PromiseMeansOnce` | whatever implements `Reminding` keeps `[]ToldOnce` |

| `RunsRunDown` | each step of a call takes `StillToDo` down, in an order without endless falls |
| `RunsAreNeverStuck` | a call that has not ended has a next statement (`HasNext`) |

The only assumption is `ConstantsAssumption`: numbers are naturals, sizes are
positive, the sets of events and devices are finite, the "none" values are none
of the ids.

The argument. `TypeOK` is not inductive: the item of a retry must be an item the
loop still walks (`ItemsOK`), or a retried insert would take a row that is no
row. `LocalOK` adds what a call holds in each phase (a batch, claims and due
rows only where the code has them; the batch below its bound). Both are `Inv0`.
Upon it:

* *Kinds of steps* (`StepCases`): a step of a call reads, takes a row, posts a
  batch, cleans up a token, releases, or moves on with the same locals (a retry,
  an exception); the safety proofs split on these six kinds instead of on every
  action, and everything else happens elsewhere and touches no row.
* *Numbered*: a message in a batch, or handed over, bears at most the number of
  the last row inserted under its key. A new row has a new number, so no batch
  and nothing handed over has its messages yet, and what was posted has left the
  batch. This keeps `NoMessageTwice`.
* *Accounted*: a row that stands is told of (Expo has a message), is about to be
  met by its call's own retry, is in its batch, is about to be released, or its
  call has died. A call that settled is in none of the last four.
* *AllComplete*: a due row is still to be walked, or all its messages are in the
  batch or handed over.
* *Faultless*: as long as `faults = 0` no row is ever deleted, so a key has one
  row and its messages one number.
* *AllSeen*: a token in a call's snapshot belonged to its user at some moment of
  the call; the snapshot is read in one query.
* *No gap*: what falls between two calls was due at the first
  (`NoneFallsBetween`), and a call that returned handed over all that was due.
* *Fresh*, for the refinement: the rows of a batch not yet posted are in no other
  batch, and Expo has not heard of them. A new row is fresh because of
  *Numbered*; a post turns one batch into what is told.

* *Running down*: `StillToDo` is a quadruple of naturals: the phase, the pages,
  rows or claims left, the tickets left of the batch, the attempts left. A step
  of a call takes it down lexicographically, and so does a failure: a retry uses
  up an attempt, the exception after the last one goes on to the release.
  `NoEndlessFall` says that this order has no endless falls, by taking the least
  of each number in turn (`NatMin`). `Tidy` is the invariant that is needed: what a
  loop walks is finite and not empty, and no more pages are read than there are
  events.
* *Never stuck*: `HasNext` says for each phase that what its next statement needs
  is there: a page of rows, a row to claim, a ticket to look at, the item a retry
  is about (*ItemsOK*).

`ReminderDispatchProofs` also proves about the functions of `EventTimes`, for every date, time, zone and
offset:

| Theorem | States |
|---|---|
| `LeadTime` | a reminder is its offset before the start, give or take a change of the clock in between |
| `NeverAfterStart` | it is not due after the start unless the clock is put forward by more than the offset |
| `LongerLeadIsFirst` | the longer of two offsets is reminded of first, across a change smaller than their difference |
| `NoneFallsBetween` | what falls between two calls at most a window apart is due at the first |
| `DueAtTwoCalls` | with two calls in a window every reminder is due at two of them |
| `KeptDatesAreUnderstood`, `KeptTimesAreUnderstood` | a date or time that the extraction keeps means the same to reminders and lists |
| `DisplayDateIsStable` | normalising a kept date again, in whatever year, changes nothing |
| `FirstAndLastAreKept` | of any list of texts the first and last valid date are kept, or the only one, or none |
| `DaysAreCounted` | `Ordinal` of the next day is one more, over all ends of months and years |
| `DaysAreInOrder` | an earlier date has a smaller `Ordinal` |
| `EarlierDaysStartEarlier` | every event of a day starts before those of a later day, whatever their times |
| `DayAheadIsDayBefore` | the reminder a day ahead is at the same time of day on the day before |

`DaysAreCounted` compares the sums of the proleptic calendar with a step to the
next day, month by month, and, at the end of a year, the quotients by 4, 100 and
400 with those of the year before. `DaysAreInOrder` compares
the months of a year and, by induction, the years. `FirstAndLastAreKept` is an induction over the list, put as a
set: the numbers up to which the loop of `KeptDates` is defined and does what it
should contain 0 and with each its successor, and a set of naturals with a gap
would have a least number missing (`NatMin`, `Reaches`). For that `KeptDates` is
written with a recursive function, as the loop of the code is.

`AdminClientProofs` proves about `AdminClient`, for any finite set of threads and
any number of attempts, queries and faults:

| Theorem | States |
|---|---|
| `ClientTypeCorrect` | `[]TypeOK` |
| `ThreadsKeepTheContract` | `CallsKeepTheContract`, that is `RemoteCall`'s specification |
| `NoDeadClientStays` | `[]ClosedIsBeingCleared` |
| `CloseNeedsBreak` | `[]CloseOnlyAfterBreak` |
| `RetriesAloneFindOpenClients` | `[]RetryFindsOpenClient` |
| `RequestsRunDown` | each step of a thread leaves it fewer steps (`StepsLeft`), `11 * MaxAttempts * MaxCalls + 4` at most |

The only assumption is `AdminConstants`: the set of requests is finite, attempts
and queries are positive. The argument:

* `TypeOK` is not inductive, since `applied` must stay below `MaxAttempts`.
  `LocalOK` counts: before an attempt the server has executed the query fewer
  times than the attempt's number, after one at most as often. With `Built`, the
  clients a thread knows were built, this is `Inv0`.
* *Refinement*: a thread's `Phase` and `applied` are the variables of
  `RemoteCall`. `Execute` begins a call, `Serve` applies it, `Answer` returns,
  and what ends a request with an error raises; everything else stutters. That a
  call returns only after an execution is the conjunct of `LocalOK` for `served`.
* *Private*: a client built and not yet stored is known to its thread alone; it
  is not in the cache, not closed, nobody's victim. Without this a thread could
  store a client another has closed. With it, storing and closing keep
  `ClosedIsBeingCleared`, and what a retry takes from the cache, or builds, is
  open when no other thread is in a reset.
* *Unbroken*: as long as no connection broke, no thread is in a reset or is about
  to fetch a client to close it. Each failed attempt that is followed by another
  pays for one reset, and what is paid for is closed or owed by one thread: so no
  more sessions are closed than attempts were retried.
* *Running down*: `StepsLeft` counts the queries left, the attempts left of this
  one, and the stages of an attempt, a reset included. Other threads can make a
  thread fail, never have it do more.

`EventImagesProofs` proves about `EventImages`, for any users, events, URLs,
objects and requests, attempts and faults: `TypesHold`, `OnlyAuthorsWrite`
(`OnlyAuthorWrites`), `OthersObjectsAreKept` (`[]OthersObjectsStay`),
`RemovedImagesAreUnused` (`RemovedImageIsUnused`), `NoOrphans`
(`[]NoOrphanObject`) and `RequestsRunOut` (a request is over after
`2 * MaxAttempts + 2` steps at most), from `ImagesAssumption` and
`CallsAssumption`. The argument:

* `BaseInv` adds to the types what a request under way carries in each phase, and
  that a row that stands was created (`BornInv`).
* *AuthorInv*: the check on the row that was read stays good until the write,
  since no write changes an author and an id is never used again.
* *StoredInv*: whatever is gone from the bucket was removed by a request that has
  ended, of the user in whose folder it was.
* *AloneInv, SoleInv*: a request that met no other one knows what its write has
  left of the event: the row is gone, or shows the new image.
* *OpenInv, PrevInv*: as long as nothing failed, the client of a request is the
  process's, and the image it read is still the row's, unless it met another.

`AccountsProofs` proves about `Accounts`, in the same generality: `TypesHold`,
`DevicesAreKept` (`DevicesKeepTheirUser`), `NamesAreKept` (`NamesSurvive`),
`AnswersAreTrue` (`[]AnswersWereTrue`), `ErrorsAreCaused`
(`[]ErrorsHaveACause`) and `RequestsRunOut` (`3 * MaxAttempts + 1` steps at most). `Effects` says once what a write does to the tables, by
operation; the action properties follow from it. An answer is true because the
step that gives it makes, or finds, what it says (`Justified`). Errors need a
history: `CauseInv` says that a request that is not struck keeps its client
(`OpenInv`), and that one that is neither struck nor raced finds the row as it
looked for it (`SeenInv`), whoever else is under way, so that neither a refused
insert nor a closed client is left as a reason. A malformed time zone is the one
500 that nothing has failed for, and `ErrorsHaveACause` names it.

`FeedProofs` proves about `Feed`, for any users, events, days, limits, batch size,
edits and failures, from `FeedAssumption` (in particular, there are finitely many
events):

| Theorem | States |
|---|---|
| `TypesHold` | `[]TypeOK` |
| `NoRepeatsHolds` | `[]NoRepeats` |
| `FinishedScrollIsCompleteHolds` | `[]FinishedScrollIsComplete` |
| `PagesAreFullHolds` | `[]PagesAreFull` |
| `ShowsOnlyWhatMayBeSeenHolds` | `ShowsOnlyWhatMayBeSeen` |
| `QueriesRunOut` | each query of a request, and nothing else, takes it nearer to its response |
| `ReadingIsNeverStuck` | a request has a next query, and what it gives exists (`HasAnswer`) |

`FeedInv` follows the cursor down. *CursorBehind*: what a scroll has shown is not
before its cursor, and a row keeps its `created_at` whatever is edited, so what
the next query finds is new (*PagesApart*). *RequestOK*: what the batches have
collected is not before `page_cursor`; the rows that are kept were visible, and
their authors followed, when they were read. *SteadyToCome* is the other
direction: an event that could be seen from the beginning is shown, collected, or
before the cursor; a page that is cut off, or a batch that is full, leaves it
before the last row that is kept, from which the next cursor is taken, because no
other event has its `created_at`. That a row which is upcoming on a later day is
so on an earlier one (`UpcomingEarlier`) covers a request that runs past
midnight. Collecting batches comes to an end although rows are inserted
meanwhile: each batch begins before all rows of the one before, so `page_cursor`
falls (`Nearer`, without endless falls by `NoEndlessReading`). `HasAnswer` needs
that any rows have an order by `created_at` and a first batch of it
(`FirstExist`), by induction over their number.

`EnrichProofs` proves about `Enrich`, for any requests, workers, links, number of
attempts and faults, every configuration and every answer, from
`EnrichAssumption`:

| theorem | property |
|---|---|
| `TypesHold` | `[]TypeOK` |
| `AsksInTurnHolds` | `[]AsksInTurn` |
| `FailsOnlyWhenExhaustedHolds` | `[]FailsOnlyWhenExhausted` |
| `CacheNeverFailsRequestHolds` | `[]CacheNeverFailsRequest` |
| `CachedMetadataIsStableHolds` | `CachedMetadataIsStable` |
| `RequestsRunOut` | each step leaves a request fewer steps (`StepsLeft`), `MaxAttempts + 8` at first |

`EnrichInv` has two parts beside the types. *RequestOK* is about each request by
itself: `Phase` says, step by step, what it has asked so far (on the ladder the
layers before the present one, each with an answer that leaves the matter open;
with ChocoData one question less than the number of the attempt), `InTurn` that the
questions are in the order of the code, and `Excused` why a request that ended
without metadata did so. `LayerAfter` is the lemma that carries it: in each of
the four configurations `NextLayer` finds the layer that follows in `Layers`.
That a fallback's 429 repeats the one of a source holds because the first layer,
which every configuration has, is passed over only for a 429. *CacheInv* is about
pairs: two requests at work on one link have met (`shared`), and a request past
its lookup found no entry, failed to read it (`missed`) or has met another, so a
save finds an entry only in these cases. `StepsLeft` counts what a request has
still to do: attempts with ChocoData, or layers behind the present one, since
`NextLayer` only goes forward (`NextLayerIsBehind`).

`AuthProofs` proves about `Auth`, for any threads, keys, lifespan, rotations and
failures: `TypesHold`, `GoodTokensHold` (`[]GoodTokensAreAccepted`), `WarmHolds`
(`PublishedKeysAreWarm`) and `VerificationRunsDown` (a token is verified or refused
in at most 8 steps, with the endpoint asked twice), from `AuthAssumption`. `AuthInv` has three parts.
*KeysInv*: every set the worker holds was published at some moment, so it has all
keys that always were. *OrderInv*: requests come after the prefetch, and if no
fetch failed its set is there. *GoodInv*: whatever a request with a good token
holds has its key; an answer to a second look was taken while it ran.
`ChecksLeft` falls with every step; it is the flag of the second look that keeps
a token that no set knows from being looked up for ever.

Only model-checked: that `RunsEnd`, `EveryRequestEnds` and `RequestsEnd` hold under
fairness. That inference needs `ENABLED`, which is out of the prover's reach. Its
premises are proved, for every size: the steps of a call, thread or request run
down (`RunsRunDown`, `RequestsRunDown`, `QueriesRunOut`), steps of others leave it
where it is, and one that has not ended has something to do (`RunsAreNeverStuck`,
`ReadingIsNeverStuck`). In the other modules, whose runs state no
liveness, the steps of a request run out as well (`RequestsRunOut` of
`EventImages`, `Accounts` and `Enrich`, `VerificationRunsDown` of `Auth`).

## 5. Not modelled

* A statement that commits after the client has given up on it and has retried
  (the server is slower than the timeout): effects take place before the failed
  attempt ends.
* The database's schema is not in the repository. Unique keys are those the code
  relies on: a delivery per event, user and offset; a row per token; a follow per
  pair; a user name per profile. Foreign keys, triggers and row security are left
  out.
* Rows that an unordered, paged read misses while others write:
  `DoneRunsHandedEverything` is about the rows a call has read.
* The parsing of links, the text of notifications, the mapping of payloads, the
  address ranges of the SSRF check. Of a date or time only shape and numbers.
* Signatures and claims of tokens: they are good or bad. The prompt of the
  extraction and the repair of the JSON text it gets back.
* The first days of the year 1, where `datetime` cannot be set back.
* Reads that are one query and change nothing: `get_event`, `get_profile`,
  `search_profiles`, the lists of follows.
* Schemas, logging, scripts, wiring, for the reasons in `PROJECT.json`.

Seen while modelling, without a run:

* `README.md:310` says that reading an event requires following its author;
  `get_event` (`events_service.py:204`) does not look at follows.
* `README.md:292` says at most 2 upcoming events for visitors of a profile; the
  constant is 4 (`events_service.py:22`).
* A scroll skips events that share the `created_at` of the last row of a page,
  since the cursor is compared with `lt`. `FinishedScrollIsComplete` therefore
  speaks of events with a `created_at` of their own.
* `README.md:271` says that tokens are validated locally with
  `SUPABASE_JWT_SECRET` and no HTTP round-trip. `core/auth.py` does so for HS256
  tokens only; ES256 and RS256 tokens are verified with the keys of the JWKS
  endpoint, which it fetches and caches (`Auth`).
* `resolve_timezone_name` (`devices.py:19`) catches `ZoneInfoNotFoundError` only.
  `ZoneInfo` raises a plain `ValueError` for a key that is an absolute or not
  normalised path, which makes the registration a 500 instead of a 400.
* The overlay's `post.url` (`instagram_scraper.py:167`) is outside the `try` of a
  function that says it fails open: an exception there discards metadata that
  ChocoData has already given.
* A feed page may show an event that was visible only before its author was
  followed, or the reverse: the two are read by different queries.
  `ShowsOnlyWhatMayBeSeen` speaks of two moments of the request.
* A page none of whose authors has a profile has `has_more` and no `next_cursor`.
* An event may go on showing an object that was removed: through another URL of
  the same object, or because two events of its author show it.
  `RemovedImageIsUnused` names these two cases.
* Batches may exceed Expo's limit of 100 messages by the further devices of the
  author of the event that fills them; `BatchBounded` says by how many.
* A create that was retried after a lost answer leaves two events that share
  their image.
* A key that was withdrawn stays in the `lru_cache` of signing keys until the
  worker restarts, and goes on verifying tokens; only the cached set expires.
* A key set without any key is cached like another, and is no reason to look
  again: until it expires tokens are refused. `GoodTokensAreAccepted` excepts it.
* `JWKSetCache.get` looks at the age of the set first and at the set afterwards;
  if another thread's fetch fails in between it finds none, and the token is
  refused with 401.
* A link with an impossible port makes `normalize_enrich_url` raise outside the
  `try`, which is a 500 with the cache switched on and none without
  (`CacheNeverFailsRequest` names that case).
* A date in the first days of the year 1 is a calendar date, but its reminder is
  before `datetime.min`: the `OverflowError` ends every dispatch.
* If the clock is put forward by an hour within the last hour before an event, its
  "1h" reminder is for the instant of the start itself (`NeverAfterStart` is
  tight).

## 6. Plan

Done, in this order: `ReminderDispatch` and its proofs, `AdminClient` with
`RemoteCall`, `EventImages`, `Feed`, `Enrich`, `Accounts`, the proofs about
`AdminClient`; then `Reminding` and its refinement, `EventTimes` with its
theorems, the extraction's requests in `Enrich`, `Auth`, and the proofs about
`Accounts`, `EventImages`, `Auth`, `Feed` and `Enrich`; then the calendar and the
list of dates in `EventTimes`, and that calls, threads and requests run down and
(calls and feed requests) are never stuck.

Left, the most valuable first:

1. Abstract specifications of what the handlers of `Accounts` and the cache of
   `Enrich` promise, with refinement proofs like those of `Reminding` and
   `RemoteCall`.
2. `owned_event_image_path` and `_upcoming_sort_day` as functions of the shape of
   their texts, against reference definitions.
3. Larger instances: three calls with different windows, three threads.
