# A TLA+ model of twitch-1337

twitch-1337 is a Twitch chat bot in Rust with a web dashboard. Its chat handlers, background
loops and dashboard handlers are tasks of one process that share state through channels, locks
and files. This directory holds TLA+ modules for the parts whose correctness depends on the
order of steps: interleavings, restarts, saves that fail, forms that go stale, and time. TLC
checks them on small instances; for seventeen of the state machines (section 4) TLAPS proves the main
safety properties for every value of the constants, and for the settings store that it implements
an abstract service.

Paths are relative to `src/crates/core/src/` unless they start with `web/`, `llm/` or `main.rs`,
which are in crates of their own.

## 1. The system

| Component | State | Operations | What makes it correct | Module |
|---|---|---|---|---|
| Flight tracker: loop and commands (`aviation/tracker`) | tracked flights, `flights.ron`, a command channel, a queue of deferred commands | `!track`, `!untrack`, `!flight`, `!flights`, dashboard snapshot and delete, a poll round with concurrent look-ups | unique identifiers and caps; an answer meets the flight it was asked for; chat order; nothing forgotten by a save; removals announced | `FlightTracker` |
| One flight (`advance.rs`, `phase.rs`, `state.rs`) | phase, confirmation, miss anchors | a poll, a route, a load from disk | a restart changes nothing; one takeoff per leg; removal only after the grace window | `FlightIdentity`, `FlightAdvance`, `FlightLife` |
| Poll schedule (`schedule.rs`, `loop_run.rs`) | the time of the next poll | stages around the departure, expiry, sleep | the promised pace is kept | `FlightSchedule`, `FlightPolling` |
| ADS-B backends (`aviation/client/adsb.rs`) | parking and error streak of each | look-up fan-out, outcomes, merge | parkings end; the merge keeps the best copy of each aircraft | `AdsbBackends` |
| Schedules engine (`twitch/handlers/schedule_runner.rs`) | a task and a token per enabled schedule | reconcile, fire, cancel, shut down | one task a schedule, one post a slot, edits take effect | `ScheduleRunner` |
| Schedule triggers (`schedule/trigger.rs`, `schedule.rs`) | none | the next slot | no slot skipped or doubled, changes of the clock included | `ScheduleTrigger` |
| Schedule telemetry, atomic files (`schedule/telemetry.rs`, `util/persist.rs`) | counters, a dirty flag, a file and its temporary sibling | `record_fire`, `flush`, save | the file is a snapshot; clean means saved | `ScheduleTelemetry`, `AtomicFile` |
| Pings (`ping.rs`) | templates, members, cooldowns, `pings.ron` | commands through a bounded channel | own or global cooldown kept, nobody mentioned who has left, every caller answered | `PingActor` |
| 1337 game (`twitch/handlers/tracker_1337.rs`) | users of the day, leaderboard | session, monitor, announcement | what is announced is stored; a result on every day with players | `Tracker1337` |
| Latency monitor, `/healthz` (`twitch/handlers/latency.rs`) | outstanding ping, misses, estimate | ping, pong, timeout | a dead line is reported, a live one is not | `LatencyMonitor` |
| Settings store (`settings/`) | `settings.ron`, live handle, write lock, audit log, migration markers | `apply_with`, `reset`, boot with two migrations | requests are atomic; the file stays loadable; live follows the file, the audit log what is live but for the entries that are lost | `SettingsStore`, `SettingsService` |
| Settings page, schedules page (`web/routes`) | the form in each browser | open, type, save, correct, save again | an edit changes what was typed, in the row it was opened for | `SettingsPage`, `ScheduleForms` |
| AI memory and its tools (`ai/memory`, `web/routes/memory.rs`) | files, a mutex per path, a lock on creations, quotas | write, guarded write, create, delete | cap on state files, no deadlock, no silent overwrite | `MemoryStore` |
| Transcript and ritual (`ai/memory/transcript.rs`, `ritual.rs`) | the day's file, archives, the next run | append, rotate, set the clock back | no line lost | `TranscriptRitual` |
| Dispatcher, suspension, cooldowns, AI turn (`commands.rs`, `suspend.rs`, `cooldown.rs`, `ai/`, `llm/`) | broadcast queue, suspensions, cooldowns, two histories, the turn in progress | `!ai`, `@grok`, `!news`, `!tldr`, `!haiku`, `!suspend`, `!unsuspend` | histories faithful, a turn sees its question, no turn that is not allowed, the dispatcher comes back unless a request that has no timeout is never answered | `Assistant`, `ChatHistory`, `PromptContext` |
| Sign-in, sessions, roles (`web/auth`) | session table and file, cached roles | callback, role gate, logout, snapshot | no stale role admits, a logout is final | `WebSessions` |
| 7TV emotes (`twitch/seventv.rs`) | cached catalogs | refresh, prompt window, search | what is offered is current; one refresh an interval | `EmoteCatalog` |
| Model lists (`ai/model_catalog.rs`, `web/routes/ai_models.rs`) | two caches | fetch, back off, edit the connection | a list belongs to its connection | `ModelLists` |
| Web tools of the model (`ai/content`) | two answer caches | `web_search`, `read_url` | the caches hold the latest answers; an answer meets the key of its call; downloads within their caps | `ContentTools` |
| Process (`main.rs`, `lib.rs`, `twitch/handlers/spawn.rs`) | handlers, dashboard task, signal | start, exit, shut down | every shutdown ends | `BotLifecycle` |

They interact in four ways. *Channels*: the tracker and the pings are actors behind bounded
`mpsc` channels with a `oneshot` answer; chat reaches every handler through one broadcast
channel. *Shared state behind locks*: settings, ADS-B health, telemetry, histories, caches.
*Notifications*: the settings store wakes the schedules engine with `notify_waiters`, which only
reaches futures that exist. *Files*: each component owns one, saved by `atomic_save_ron` and read
at start.

The hard behaviours are those a unit test with one caller does not reach: a command in the
middle of a poll round; a flight deleted and tracked again while its look-up is in flight; two
saves of one file; a future created after the notification it waits for; a restart between an
announcement and a save; a request dropped where it awaits; a turn that waits minutes for a
model while chat and settings go on; a form that is shown again after a rejection.
`PROJECT.json` lists forty of them under `hazards`, each at its line and each with the properties
that would catch it going wrong.

## 2. The modules

```
FlightIdentity <- FlightAdvance <- FlightSchedule <- FlightPolling --+
      |                 ^--------- FlightLife -----------------------+- MCFlightModel
      |                                              AdsbBackends ---+
      +--- FlightTracker <- MCFlightTracker
ScheduleRunner, ScheduleTrigger, BotLifecycle, Tracker1337, LatencyMonitor <- MCTimers
ScheduleRunner <- MCScheduleRunner ;  PingActor <- MCPings
MemoryStore, TranscriptRitual, ScheduleTelemetry (AtomicFile) <- MCStores
SettingsStore (SettingsService), WebSessions, EmoteCatalog, ModelLists, ContentTools <- MCCaches
SettingsStore <- SettingsPage <- MCSettingsPage ;  ScheduleForms <- MCScheduleForms
ChatHistory, PromptContext <- Assistant <- MCAssistant
FlightLife, FlightPolling <- FlightModelProofs ;  SettingsStore, MemoryStore <- EditsProofs
PingActor, LatencyMonitor, Tracker1337 <- ChatProofs ;  ScheduleRunner, ScheduleTelemetry <- ScheduleProofs
Assistant, TranscriptRitual <- AssistantProofs ;  FlightTracker, AdsbBackends <- FlightTrackerProofs
EmoteCatalog, ModelLists, ContentTools, WebSessions <- CachesProofs
FoldLemmas <- AssistantProofs, CachesProofs, FlightTrackerProofs
```

A composed MC module (`MCFlightModel`, `MCTimers`, `MCStores`, `MCCaches`) extends
several components that share nothing; a variable `moving`, chosen by `Init`, says which of them
takes steps. Such a run explores the sum of their state spaces and not the product. MC modules
only give constants their values. Operators with the comment "Mutant:" are plausible bugs: put in
the place of the definition below them, they violate a property. No specification uses them.

Where a component's code spans several awaits, an action is what happens between two of them;
what the code does under one lock without an await is one action.

* `FlightTracker` - `pc` names the place in the loop: look-ups, drain, apply, removals, drain,
  announcements, save, deferred commands. A flight is its identity, its owner and the number of
  its tracking (`inc`, a history number); what a look-up does to phases is left to `FlightLife`,
  and any flight may be given up by any look-up.
* `FlightAdvance` - pure: what one look-up does to a flight. An aircraft is a record of the facts
  the branches test, not numbers. `FlightSchedule` - pure: intervals, the six pending stages,
  `next_poll_at`. `FlightPolling` - the sleep of the loop, woken early or late by `MaxLag`.
* `PingActor` - a ping's own cooldown goes before that of the settings (`ping.rs:511`). Chat and dashboard create
  pings without one, so that `Init` takes it, like a template that is refused by now, from a `pings.ron` that is
  already there.
* `ScheduleRunner` - a `Notified` future is two bits: it exists (`armed`), it was notified
  (`woken`). The slots are given; `ScheduleTrigger` computes them, with the gap and the fold of the
  clock in `Local`.
* `AtomicFile` - the file system under `atomic_save_ron`: inodes, truncation at open, the content
  of an open file, rename. `ScheduleTelemetry` uses it through `INSTANCE`.
* `LatencyMonitor` - the average is exact: `ema / unit` milliseconds, with a unit that every sample makes
  ten times finer.
* `Tracker1337` - two days in the instants the handler distinguishes (13:36, 13:37 with
  millisecond classes, 13:38, midnight).
* `SettingsStore` - seven keys that stand for every kind of validation rule; `apply_with` and
  `reset` in their awaits, dropped requests, `open` with its quarantine, both migrations with
  their markers. `Audit` is the append of an entry, which may fail with no effect but a line in the bot's own log
  (`settings/store/mod.rs:135`); the history `lost` has the keys whose last change has no entry, `apart` says that
  file and live settings differ since a request was dropped between its save and its swap.
  `SettingsService` - what it promises: overrides that requests change one at a time.
  `IsAtomic` says that `SettingsStore` implements it.
* `SettingsPage` - the page as it is shown, typed into, sent and shown again. `ScheduleForms` - the
  forms of two browsers, addressed by name.
* `MemoryStore` - the chat turn, the ritual and dashboard handlers on the same files. `TranscriptRitual` -
  the open handle, the rename at rotation and the archive of a date.
* `Assistant` - the dispatcher awaits one command at a time while the other writers of the
  histories go on; rounds of tools, timeouts and errors of the provider. A turn first waits for the name of its model
  (phase `naming`: `command.rs:377` asks the catalog of OpenRouter), a summary at its end for its whisper (phase
  `whispering`); these two have no timeout. `Admins` are the broadcaster, the moderators and the hidden admins. `PromptContext` is what a
  prompt holds under its byte budget, `ChatHistory` the ring and its prefill.
* `ContentTools` - one tool call at a time, as the agent loop makes them, while time passes and the
  limits are edited. The key of a read is the url and the instruction joined by `::` (`executor.rs:183`), so a text
  is the sequence of its pieces between `::` and the join is their concatenation: `x::b` with `c` has the
  key of `x` with `b::c`. `TtlCache` is its map and its queue of keys; `log` is a history of what was inserted,
  the reference that the cache is compared with.
* `WebSessions` - callback, gate, logout and snapshot in their awaits; the table and the file.

`PROJECT.json` maps each definition to the lines it translates.

## 3. What TLC checks

Seven runs pass and five show a disagreement (section 6).

| Run | Properties | Bounds, and why they are enough |
|---|---|---|
| `flight_model` | `RestartIsIdentity`, `TakeoffOncePerLeg`, `RemovedOnlyAfterGrace`; `PromisesKept`; `LookupsSound` | one flight, two callsigns, two addresses, a life long enough to confirm, lose, confirm again and remove, looked at every four ticks; poll durations scaled to ticks with the order of the real ones, departures from long before `!track` to long after it, so that every stage and both its limits are hit; two backends, two concurrent look-ups, a streak of two, lists with equal, fresher, stronger, hexless and position-less copies |
| `flight_tracker` | `UniqueIdentifiers`, `AnswersMeetTheirFlight`, `ChatInOrder`, `NothingUnsavedForgotten`, `RemovalAnnouncedOrRedone`, `EveryCommandHandled` | three commands, two flights, a channel of two, one crash: a flight can be deleted and tracked again inside one round, which the hard cases need |
| `timers` | `NoOrphans`, `FiresOncePerSlot`; `NoSlotSkipped`; `ShutdownEnds`; `AnnouncementTrue`, `ResultEveryDay`; `HealthTellsTheLine` | one name (names are independent), two contents, a start without a schedule and three edits: a replacement during a replacement; triggers asked at any instant of three days around a change of the clock, windows over midnight and without a slot; two starts, any handler may exit at any stage; two players for one place, two days, a crash at any instant; five PINGs, each answered at once, soon, just before the timeout, late or never |
| `pings` | `GoneNotMentioned`, `CooldownKept`, `EveryCallAnswered` | a ping of the file, with a cooldown of its own or without, deleted and created anew, four commands of two clients, a channel of one, two global cooldowns, a crash |
| `stores` | `StateFilesCapped`, `NobodyIsStuck`, `NoSilentLoss`; `LinesKept`; `FileFollowsMap` | one turn (the dispatcher runs one), one ritual, one browser, two slugs, caps of one and two, three calls: two writers meet at every pair of steps and a third changes the file between; three days of three slots with an edit, a clock set back and a crash; two tasks and the flusher over a midnight and a restart |
| `caches` | `Loadable`, `IsAtomic`, `AuditTellsLive`; `RolesAreFresh`, `LoggedOutStaysOut`; `OffersAreCurrent`, `RefreshedOncePerInterval`; `ModelsMatchKey`; `WebAnswersSound` | two concurrent requests out of three, one of them dropped or without its entry, a boot that ends inside a migration and the one after it; one login in two browsers with a restart; two turns around two refreshes while 7TV publishes two changes; two callers, two connections, one edit; caches of two answers that live one tick, four tool calls, limits of one and ten: an entry expires, its key comes again and others follow; two pairs of url and instruction with one key; pages at and above the cap of their kind, told by the header, the first bytes or neither |
| `assistant` | `HistoryFaithful`, `PromptSound`, `TurnSeesItsQuestion`, `TurnsAllowed`, `EveryMessageTaken` | three messages of three users in three channels (turns of the AI in two of them; `admin_leak` has them in the third), a queue of two that may lag, two rounds, edits of lengths and cooldowns at any time in the first of two moments, also in the middle of a turn; the lengths are the larger ones at the start, which keeps a history for the AI channel open |
| `schedule_lost`, `telemetry_torn`, `admin_leak`, `edit_wrong_row`, `page_resets` | see section 6 | the smallest instance that shows the disagreement |

Each module states its types in one `TypeOK`; section 4 says where it is proved, and the listed runs
leave it out in favour of properties that say more. `Max...` constants only stop the environment: commands sent, posts
made, crashes, edits, time. Reaching such a bound ends the instance and not the program, so these
configurations switch the deadlock check off; that nobody waits for ever is stated as properties
instead (`NobodyIsStuck`, `EveryCallAnswered`, `EveryCommandHandled`, `EveryMessageTaken`, `ShutdownEnds`).
No run with a liveness property declares symmetry.

### Fairness

* `FlightTracker`: weak fairness of the loop - every await is bounded, look-ups have a timeout, the sleep
  has an end - and of the arrival of a look-up, because its timer runs whatever commands
  come. Nothing is assumed of the senders.
* `PingActor`: the actor takes what is in its channel, a client acts on its answer.
* `Tracker1337`: the handler gets on and time passes. Saves may fail for ever and all messages be lost.
* `Assistant`: the dispatcher takes the oldest message when no command runs, and a model answers,
  fails or times out (`tokio::time::timeout` around every round; the tools, 7TV and the other commands have timeouts in
  their clients). Nothing is assumed of the two requests that have none, the model catalog's and the
  whisper's (`twitch/handlers/commands.rs:281-286`, `ai/command.rs:377`,
  `twitch/whisper.rs:99-102`): one that is never answered stops the dispatcher
  for ever. `EveryMessageTaken` therefore says that it comes back *if* it is again and again outside these
  (`[]<>(turn.phase \notin Untimed)`). That `say` returns is left to the IRC client, which is external.
* `BotLifecycle`: the start goes on once the handlers are up, and a shutdown takes its next step; its
  waits are bounded by timeouts (`lib.rs`, `spawn.rs`).
* `ScheduleRunner` (`schedule_lost`): the runtime polls every ready task, and time passes.
* The other modules are checked for safety only. `FlightPolling` bounds the delay of a round by `MaxLag`,
  which makes its deadlines safety properties.

## 4. What is proved

There is no bound on anything. The assumptions are the named `ASSUME`s of the modules, which TLC
evaluates in every run. No property below is inductive as it stands; each part says what had to be added.

**Flight tracker** (`FlightTrackerProofs`): `TypeCorrect`, `IdentifiersUnique`, `CapsRespected`,
`AnswersMatch`, `Durable`, `RemovalsAnnounced`, `ChatOrdered`.

* `Sound(fs)` - typed, finite, unique identifiers, both caps - is kept by subsets (removals), by
  replacing a flight by one with the same identifier and owner (a sight), and by a push below the
  caps with a fresh identifier; `TrackOutcome` shows that this is what `handle_track` pushes, since the
  last duplicate check comes after its last await. It holds of memory and of the file.
* `RoundInv` adds what a round knows: every look-up, result and removal refers by tracking number to a
  flight that is still the one with that identifier, or to an identifier that will not be tracked
  before the round ends - `!track` is deferred in a round while deletions are not.
* `OrderInv` - numbers ascend through handled chat commands, then the deferred ones, then the channel.

**One flight** (`FlightModelProofs`): `LifeTypeCorrect`, `RestartChangesNothing`, `OneTakeoffPerLeg`,
`GivenUpAfterGrace`, for any aircraft, answers and routes.

* `Settled` - a flight answers to its names, one that was seen is confirmed and has an anchor, and a
  callsign flight that was not seen has no hex but the one AviationStack assigned. It is what the three
  repairs of `load_tracker_state` look for, so that they find nothing to do; it has to be shown of
  `!track`, of a hit, a miss, a rejection and a route.
* `LegOf` ties the phase to the last announcement: a flight on the ground, or in an unknown phase, has
  announced nothing or last a landing, and one that is still pending has announced nothing.
  A flight in the air does not get back to those phases without a landing.
* `last_visible` of the flight is the time the aircraft was last reported, over a load from disk too.

**Poll schedule** (`FlightModelProofs`): `PollsKeepTheirPromises`. Its promises are about time and none is
inductive: while the loop sleeps a tick may bring a faster stage, and the due time of now is not
that of the moment it fell asleep. `WakeIsDue` keeps what `poll_readiness` said at some earlier
instant, and `NotDueUntil` shows that it is still true until then: within a stage the due time is
fixed, and where the next stage is faster the schedule named its beginning (`StageLater`). The removal
needs `SeenLately`: a poll with an answer saw the aircraft within the grace window or removed the flight.

**Settings store** (`EditsProofs`).

* `FileStaysLoadable`: `Spec => []Loadable`, although `reset` commits without validation. The invariant
  adds that what a writer will save is valid under the boot channel (`NextValid`). The heart is
  `ResetKeepsValid`: clearing one section of valid settings leaves valid settings, because both keys
  of each cross-key rule are in one section or harmless at their defaults. A new section or
  rule has to keep this.
* `RequestsAreAtomic`: `Spec => IsAtomic`, the refinement of `SettingsService`. The mapping is the
  identity on `file`, `channel` and `edited`. A save maps to `Apply` because what the writer computed
  under the lock is still what its request makes of the file (`OneCommits`, `Current`), and a
  migration to `MigrateKeys` because nothing is edited before both markers are
  written (`MigratedFirst`). Every other step stutters, `Open` maps to `Start`.
* `LogTellsLive`: `Spec => []AuditTellsLive`. The log does not always tell the live settings: an entry may not be
  appended, a commit may be cut off before its entry, and a quarantine at the start writes none. What is proved is that each
  of these costs only the keys that changed with it, and those until their next change that is logged, since an entry
  lists what differs from the file. `Follow` says what holds when nobody is between save
  and swap; `Current` carries the old values over a commit.

**Memory store** (`EditsProofs`): `TypeCorrect`, `FilesCapped`, `NoDeadlock`, `NothingLost`, for any number of
handlers, users and slugs. The invariant adds who holds what: `HolderInv` (the mutex of a path is held by
exactly the call between its reading and its write), `CreateInv` (who will make a new state file
holds the lock on creations and writes next) and `CapInv` (while that lock is held fewer files exist than
the largest cap). A write that found its file cannot turn into a creation, because a deletion takes
the mutex that the writer holds. No deadlock follows: everybody waits for a writer, a writer at
most for the holder of the lock on creations, and that one for nobody. `NothingLost` adds `Knowledge`: the
identity and the creator that a call read under the mutex are still those of the file when it
writes, and so is the token it compared, unless another write came in the documented gap (`intact`).

**Schedules engine** (`ScheduleProofs`): `RunnerTyped`, `NoTaskIsLost`, `PostsOncePerSlot`, for any
number of names, contents, slots and edits. `NoOrphans` is inductive over the types: a task that
`reconcile` leaves alone has its entry (`EntriesAreTasks`), and its schedule is the one wanted
(`LeftAlone`). One post for a slot needs more: name and number tell a task (`Numbered`); the next slot
is after now (`SlotIsAhead`, by the least element of a set of naturals) while nothing was posted ahead
of time (`FiredInThePast`), so that a planned slot is not posted for (`Fresh`); it stays so because two
tasks of a name that are both not cancelled are the same one.

**Pings** (`ChatProofs`): `PingsTyped`, `RemovedStayQuiet`, `PostsKeepApart`, for any clients and any
capacity of the channel. A member who is gone is neither in memory nor in the file (`GoneFrom`
of both): a save that fails leaves the older file, in which the member is missing too, because the
removal was confirmed by a save. The cooldown follows from `Remembered` - the time the actor keeps
is that of the last post whether its save succeeded or not - and from `Fit`, what clients put in the
channel. Which of the two cooldowns counts is read from the ping at the trigger: its own, else the one the
trigger carries.

**Latency monitor** (`ChatProofs`): `HealthIsTrue`. The code keeps a count, the property is about the PINGs of
the past that nobody answered since the last PONG, with those between them that could not be sent;
`MissesAreCounted` says that the count is the number of the former.
That the estimate stays among its samples holds of the average before it is rounded (`AverageWithin`).

**1337 game** (`ChatProofs`): `PostsOncePerDay`, `AnnouncementsAreTrue`, for any players, days and latency. A
session ends on the day it began (`SessionIsToday`) and the handler waits for a day without posts
(`WaitsForADay`), although the latency wakes it early. What is announced was worked out before
the leaderboard is updated; nothing touches the users or the leaderboard in between (`ResultIsOfTheUsers`).

**Sessions** (`CachesProofs`): `SessionsTyped`, `LogoutIsFinal`, `NobodyKeepsALostRole`, for any users, browsers
and restarts. The invariant of the second says of the session file and of the snapshot being written
what `LoggedOutStaysOut` says of the table. `OneSaver` is the write lock; `Dropped` says that the snapshot of a
logout was taken after the drop, in place of an older one; `SidsOnce` that no sign-in under way, of
a callback sent twice or after a restart, has the number of a session that was given out. The
third says what the cached time of a check is worth: since then, or since the process start, the
user was entitled to the role - for each entry of the table (`EntriesFresh`), a sign-in that waits for
Twitch (`AsksInTime`) and a gate that does (`GatesInTime`), which writes its time into an entry that may
have been dropped or touched by another request meanwhile.

**ADS-B backends** (`FlightTrackerProofs`): `AdsbTyped`, `LookupsAreSound`, `ParkedWithReason`, for any backends, concurrent
look-ups, aircraft lists, streaks and cooldowns.

* `InFlight`: a look-up takes a tick at most, and a backend it asked that is parked by now was parked
  after it began. So an error that arrives late parks a backend anew, but never for more than a tick beyond the
  cooldown (`ParkingEnds`).
* `StreakIsErrors`: the streak is no more than the errors since the last answer, so nothing is parked without
  `error_streak` of them (`ParkedForAReason`, which no run checks).
* `AnswerIsMerged`: what a caller got is the merge of what the backends answered. `HoldsAll` is what the fold
  keeps: every copy seen so far is in the group of its hex, or among the hexless; a group has one hex and is
  listed once. `WinnerIs` says that a group has a first best copy. Together they are `MergedIsBestSuperset`:
  nothing is lost, no hex doubled, and the copy kept is at least as good as every other.

**Caches** (`CachesProofs`).

* `ModelsOfTheConnection`: a fetch carries its own connection, and its list is stored under that one and
  answered to its caller, so that an edit during a fetch mixes nothing (`ListIsRight`, `CallsAreRight`); the
  catalog once loaded is never unloaded (`LoadedForGood`).
* `OncePerInterval`: the mutex has one refresh inside (`OneRefresh`), and the stamp is the beginning of the
  last one, however it ended (`StampTellsBegin`).
* `OffersSound`, for any emotes, glossary, scores, pins and caps: a refresh under way has names that were listed since
  it began, and the cache those of its last refresh, if it succeeded (`CacheOffers`, `OfferSound`), also while 7TV
  changes its lists (`ListedStays`). What is chosen from them is `WindowIs`: `PickIs` says that what a layer leaves out
  had no room and comes after all that the layer added, `InOrderIs` that sorting by the number of those before
  is sorting, because the scores and the place in the list are a strict order.
* `WebAnswersAreSound`, for any capacity, life of an entry and sizes: an entry is stored under the key of what was asked, with
  no more results than that key asks for and a value fetched shortly before (`EntriesAreSound`). The key of a read
  tells its url and instruction apart when it has one `::`, so that the answer is about both; with more of them it
  is one that was given for the same joined string. The caps hold of the bytes downloaded, and of what is sent as
  base64 with a third more (`Base64`), not of the text of a page, which decoding may enlarge. Further: a call
  under way will store one like it, whatever the limits are by then, and takes no longer than its timeouts
  (`CallIsSound`, `InTime`). What a cache holds follows from `CachesSound`: the queue lists exactly the
  keys of the entries, by their latest insertion (`ListsEntries`), and a key that is missing has expired
  or `Capacity` others were inserted after it (`HoldsNewest`). An eviction takes a prefix of the queue
  and no more of it than it has to, which are the oldest because the queue is in that order; a key that
  is inserted again leaves its old place, and expired ones leave theirs (`Without`).

**Telemetry and transcript**.

* `CountsAreSaved` (`ScheduleProofs`): while saves do not overlap, one call at a time is past its snapshot, which is the map
  (`OneSaver`), and the temporary file is not the target (`SiblingIsApart`): what a crash leaves behind is
  truncated by the next save before it is renamed.
* `EveryLineKept` (`AssistantProofs`): `FilesSound` (a line is in one file, in order; there is no `today.md` beside the file
  of the handle, which stays that of the archive when it cannot be opened anew), and for the exception `OneRunPerDate`: until
  `run_at` or the clock is moved each run falls on a later date than the last, because a sleeper does not
  wake before its run is due (`SleepsUntilDue`).

**Assistant** (`AssistantProofs`): `HistoriesAreFaithful`, `TurnsAreAllowed`, `TurnsSeeTheirQuestion`,
`PromptsAreSound`, for any users, messages, memories, capacities, cooldowns and lengths of the queue.

* `AInv` is inductive. `InboxInOrder`: the queue holds messages that arrived, in their order, also after it lagged.
  `TurnOfMessage`: a turn is of a message the dispatcher took and took last. `HistoriesSound`: an entry has a
  `Rank` - twice the number of its message, and one more for an answer - and ranks ascend; while a turn
  runs none is above that of its question, which is what lets an answer be appended
  minutes later. A task per command in place of the inline await would break exactly this
  (the mutant `Take_spawned`).
* `TurnsRemembered`: the cooldown of a user is no older than any turn of his in that bucket, so that an edit
  of the durations cannot let two of them come closer than what holds at the second.
* `TurnSeesItsQuestion` follows from what a push does: the question is the last entry of its buffer
  (`Newest` of a sequence with something appended), and the newest line of the section if it fits. The prompt is
  built only when the catalog has answered: `QuestionStands` says that until then the question stays the newest
  entry, because nobody else appends to a buffer of chat while the dispatcher waits.
* `PromptSound` is about data: `PromptBuilt` says that the prompt in flight is what
  `build_chat_turn_context` made of the memory, and the lemmas on `Packed`, `SpeakerFirst` and `NewestFirst` say
  what that is. Lines and files are taken one after the other under a byte budget, until one does not fit.

`AssistantAssumption` says of the log service what `prefill.rs` relies on: its lines are older than what is
received and in the order of the chat, and it tells nothing apart. It also says that no two memory files of a kind carry the same
`updated_at`. That is a clock reading of the machine taken at each write; without it "the newest"
would name no file.

Only model-checked:

* Liveness, which is beyond the prover: `EveryCallAnswered`, `EveryCommandHandled`, `EveryMessageTaken`,
  `ShutdownEnds`, and that every day with players gets its result (the other half of `ResultEveryDay` is
  `PostsOncePerDay`).
* `NoSlotSkipped`: it is about `div` and `mod` by `every`, a constant of any value, on both sides of a change of the
  clock. The provers have no theory of products and quotients of variables.

The induction theorems of the library take an operator as a parameter and cannot be used with the installed
provers. For the folds of `PromptContext`, `ChatHistory`, `ContentTools`, `EmoteCatalog` and `AdsbBackends` the induction is
written out instead: `FoldLemmas` proves that a set with 0 and every successor of its members holds all naturals
(`UpToAll`, from the well-foundedness of `<`) and that the function of a fold exists (`FoldExists`), and
each component what the values of its own are.

## 5. Abstractions

* Names, templates, messages and aircraft are model values or small records. Wording, formatting
  and logging are left out; conversions that lose something (a form, a migration, an alias, a
  rounded latency) are modelled by what they do.
* HTTP, IRC and the providers are external; their outcomes are nondeterministic.
* `FlightTracker` does not time look-ups: any subset of the flights may be due.
* A migration at boot is one step with a crash before or after it: the dashboard is not up yet. A
  dropped request has no late effect: a rename that the blocking pool finishes after its future was
  dropped is not modelled.
* `MemoryStore` has no bodies: a write may exceed its byte cap at any time. Counting the files is one
  step, as creations are locked out and a deletion in the middle makes the count only too high.
* `AdsbBackends` lets a look-up take at most one tick, far less than a cooldown, as the timeout does.
* `WebSessions` keeps of the cookies the session ids that are sent; the dev-login feature is left out. `MaxCall` is a bound
  of the model: the client of the sign-in has no timeout (`web/auth/routes.rs:121-124`), so what `RolesAreFresh`
  says is within the length of the longest call, whatever that is.
* `ContentTools` folds a url to its lower case and keeps the spelling apart; queries and instructions are their
  normal forms, so that two that differ in letter case are one. Which urls are not fetched at all is an outcome of the request. Operations on a cache take
  no time.
* `ScheduleTrigger` counts in units of half an hour (`Hour` is two of them) and takes the offsets of the
  time zone as given.

## 6. Where code and documentation disagree

Five runs show it, each with a counterexample of TLC; `PROJECT.json` quotes the lines under `findings`.

* `schedule_lost` (`EditsTakeEffect`): the orchestrator reconciles and then creates the next `Notified`
  future; an edit committed in between wakes nobody.
* `telemetry_torn` (`NeverTorn`): all saves of a file share `*.ron.tmp`, and `record_fire` saves with its
  mutex released; a reader may find a truncated or mixed file. `FileFollowsMap` shows that overlap is
  the only cause.
* `admin_leak` (`TranscriptIsPrimary`): an answer in the admin channel is appended to the transcript of the
  primary one.
* `edit_wrong_row` (`EditsItsRow`): a rename that is rejected as a duplicate comes back in a form that
  is addressed to the other schedule.
* `page_resets` (`KeepsWhatWasNotTyped`): a rejected save of the settings page comes back with compiled
  defaults in most cards, and the corrected form resets them.

Limits that follow from the same models or from reading the code, without a run of their own:

* Flights: an emergency squawk first reported by an unconfirmed sample is not announced after
  confirmation (`advance.rs:238`); `!untrack` acts on the first flight that answers to a name, which may
  belong to someone else (`commands.rs:92`); a timeout while a body is read counts towards parking
  (`adsb.rs:426`), one while sending does not.
* Schedules: an interval that does not divide a day leaves the "wall-clock multiples" of
  `schedule/trigger.rs:4-5` (every 7 h: 04:00 after midnight; every 2 h on the days of a change of the
  clock); an interval trigger gives up after 14 * 1440 slots and returns an instant outside its
  window; in the form a garbled window or date becomes none without an error and the seconds of an interval
  are lost on a round trip.
* Settings: a request dropped between save and swap leaves a change that becomes live later without an
  audit entry, although `settings/store/mod.rs:1-2` promises one; an append that fails is only noted, and a
  quarantine writes no entry (`AuditTellsLive` excepts the keys with `lost`); a page
  saves every card, so one that was opened earlier reverts the edits of others.
* Memory: a save may overwrite what appeared after its check, in the gap that `write_with_guard` documents
  (`NoSilentLoss` excepts it with `intact`); the editor reads a file and then, without its mutex, the
  time, so that a write in between gives an old page a new token; a regular may delete a file that took the
  place of his own; the archive of a date is replaced when `run_at` is edited or the clock set back.
* Assistant: a request to the model catalog or for a whisper that is accepted and never answered stops all chat
  commands, as the clients have no timeout (`twitch/handlers/commands.rs:281-286`, `twitch/whisper.rs:99-102`); a
  transcript line that cannot be appended is only logged; SOUL and LORE may fill the budget, so that the speaker's file is not always shown
  (`inject.rs:257`); a history whose length is set to 0 live keeps its stale entries; a rate
  limit that the provider reports in the body of a 200 ends in silence (`openai.rs:199`, `:420`), although
  `command.rs:588` promises a hint for rate limits; the `query` of the chat history is used by tests only.
* Process: a shutdown does not wait for tasks inside `say()`, although `spawn.rs:323` says it drains them; the
  dashboard is not told when a handler exits (`lib.rs:354` holds for a signal only) and is waited for until
  its 5 s are over; SIGTERM ends the process at once though `spawn.rs:315` names it; a ping actor whose exit
  ends the process is joined twice.
* Caches: a batch insert passes the cap of `AvatarCache` (`helix.rs:51`).
* Web tools: the cache key of `read_url` folds the case of the whole url (`executor.rs:282`), so that a page may be
  answered for by one whose path differs only in case, and joins url and instruction by a `::` that may occur in
  either (`executor.rs:183`); the cap of a text is on its bytes, while lossy decoding may triple what is sent
  (`client.rs:320`); `map_fetch_err` and `map_media_err` look at the
  outermost context of an error, which never says "timed out", so that the `fetch_timeout` and
  `analysis_timeout` of the design of `read_url` do not occur (`executor.rs:236`, `:261`).

## 7. Not modelled, and the plan

Not modelled: message texts and the debug journal, HTML pages and assets, wire formats of the LLM and
HTTP clients, the router and the token file (thin wrappers of a library), small commands that send
one request and one answer, the parse of `config.toml` (immutable after the start).

What is left of the plan, in this order:

1. An abstract ping service with atomic commands that `PingActor` implements.
2. Several names in `ScheduleRunner`, with the slots of `ScheduleTrigger` in place of given ones.
3. The late effects of dropped requests in `SettingsStore` and `MemoryStore`.
