# Formal models of Navimow Pro

TLA+ models of the Home Assistant integration in
`src/custom_components/navimow_pro`, the TLC runs that check them on small
instances, and proofs of the main safety results for every instance.

1. [The system](#1-the-system)
2. [Modules and the code they model](#2-modules-and-the-code-they-model)
3. [What the runs check](#3-what-the-runs-check)
4. [Bounds](#4-bounds)
5. [Fairness](#5-fairness)
6. [What is proved](#6-what-is-proved)
7. [Disagreements between the code and what is said of it](#7-disagreements-between-the-code-and-what-is-said-of-it)
8. [What is not modelled](#8-what-is-not-modelled)
9. [Plan](#9-plan)

To run: `tlc -config SettingReads.cfg MCSettingWrites` (the MC module of each
run is in `PROJECT.json`), and `tlapm` on each `*Proofs.tla`.

## 1. The system

One config entry stands for one mower. Its `NavimowCoordinator` polls the
vendor's cloud, parses one snapshot per poll, and gives it to the entities; the
entities and services send commands back through it. Two kinds of code run at
once: **coroutines** on Home Assistant's event loop, which give way only where
they `await`, and **executor threads**, which hold the blocking HTTP requests
and go on when the coroutine that awaited them is cancelled. Most of what is
hard in this code comes from those two meeting.

| Component | State | Operations | Talks to |
|---|---|---|---|
| **Setting writes** (`coordinator.py`, `switch.py`) | `_setting_write_lock`, `setting_writes`, `_setting_checks`, `_settings_read_generation`, `_settings_read_success` | `async_write_setting`, `_async_check_setting`, `async_cancel_setting_checks` | the poll (same lock), the cloud, the unload |
| **Poll loop** (`coordinator.py`) | `_cycle`, `_force_slow`, `_raw_cache`, `data`, `last_update_success`, interval | `_async_update_data`, `_fetch_blocking`, `_poll_interval`, debounced refresh | client, trail store, every entity |
| **Mower events** (`event_detector.py`, `event.py`, `_hold_error`) | detector flags, `_error_held`, `_error_quiet_polls` | `update`, `_handle_coordinator_update`, `_hold_error` | the snapshots published |
| **Mowed trail** (`coordinator.py`) | `_trail_zones`, `_trail_marks`, `_zone_pct`, `_prev_state_code`, `_trail_decide_polls`, the trail file | `_update_trail`, `_restart_zone`, `_split_old_trail`, `async_load_trail`, save | the poll, HA's `Store`, the camera |
| **Command acknowledgement** (`coordinator.py`) | the wait of one command | `async_send`, `async_send_confirmed`, `async_await_command` | the cloud's command queue |
| **Number controls** (`number.py`) | the value shown, the value expected, timers | `async_set_native_value`, `_async_confirm`, `_handle_coordinator_update` | the poll, the cloud |
| **Cloud client** (`api/client.py`) | tokens, mower session, kept connection, re-entrant lock | `call`, `_post`, `_reauth`, `authenticate`, `refresh_session`, `close` | the cloud, passport |
| **Passport** (`api/passport.py`) | none | `lookup_region`, `login`, `refresh` | the account hosts |
| **Schedule** (`coordinator.py`, `services.py`, `calendar.py`) | `_next_mow_at`, the interval | `_schedule_source`, `_parse_schedule`, `_compute_next_mow`, `_poll_interval`, `_check_periods`, `_set_schedule` | snapshot, services, the mower and the cloud |
| **Config flow** (`config_flow.py`) | the entry's data, `_device_id` of the flow | sign-in, vehicle list, reauth, `_shared_device_id` | passport, other entries of the account |
| **Entry lifecycle** (`__init__.py`, `_persist_session`) | the entry's state and tokens | setup, unload, update listener, remove | everything above |
| **Lawn mower, services, select** (`lawn_mower.py`, `services.py`, `select.py`) | the snapshot shown, `selected_zone_ids` | start / resume / start over, pause, dock, mow, pick a zone | coordinator |
| **Read-only entities, camera, diagnostics, cards, crypto** | none to speak of | show a field, draw, dump, encrypt | snapshot |

What makes the modelled components correct, and what is hard about it:

* **Setting writes.** A write has two stages (command to the mower, save in
  the cloud); a poll between them would show the switch bouncing back. The
  verdict of the follow-up must rest on a read that really happened after the
  write; a newer write must silence the follow-up of an older one; a write that
  failed half way must still be read back; unload must leave nothing behind.
  Hard: lock hand-over, cancellation while a thread runs on, polls that publish
  late.
* **Mower events.** Each event is told once, and is true. Hard: progress lags
  the state by a poll, unmapped codes appear in the dock, faults flap, a failed
  poll repeats a snapshot, a reload forgets.
* **Mowed trail.** The lines drawn on this trip stay; those of a finished job
  go. Hard: the cloud resets coverage late, partly or never; a job may be a
  resumed one; there is a cap; the trail outlives Home Assistant through a file
  written at most every so often.

* **Number controls.** What the slider shows instead of the mower's own value
  must end, by the value's arrival or a timer; a height that was not taken is
  warned of, one that arrived is not. Hard: calls overlap at every await (nothing
  serialises them), timers outlive what they were started for, and the
  read-back judges whatever is expected when its refresh is over.
* **Cloud client.** Threads take turns on one connection. An answer must reach
  the thread that asked; a command must not be carried out again because it was
  slow; a lost session is renewed once, however many threads run into it. Hard:
  a dead kept connection shows only when used, a login may succeed with its
  answer lost, a second refusal must end the call.
* **Commands.** Start must not throw away a job that waits to be gone on with;
  what is mown is what the select shows; a call ends in time and does not claim
  more than the cloud said. Hard: the snapshot, the map and the pick are of
  different ages, a probe may fail between two that answer, the deadline passes
  while one is under way.
* **Schedule.** The next mow, the calendar and the interval between polls must
  agree with the plan, across midnight and the end of the week; a start must not
  come unwatched. Hard: a plan written by the app may be in disorder, the plan is
  only read every so often, a write has two stages.
* **Entries.** The entries of an account must end with one device identity (the
  cloud answers one at a time), and an entry whose tokens are refused must get
  good ones. Hard: several sign-ins at once, each with an identity chosen before
  it is waited for; tokens held by the entry, its coordinator and a call that
  outlived an earlier one.
* **Passport.** Who has an account gets in, whichever hosts are dead or claim
  nothing, and the password is offered only where it belongs.

`PROJECT.json` lists every component and every hazard found, at its line, with
the properties that would catch it.

## 2. Modules and the code they model

`PROJECT.json` "map" gives the source lines of every definition. A definition
with a wrong variant beside it (`NextCycleUnwrapped` beside `NextCycle`) is
paired with it for mutation: replacing one by the other must violate the
property named there. Variants are never part of `Next`.

### SettingWrites (with MCSettingWrites, SettingWritesProofs)

One step is what runs between two suspension points of a coroutine, or one
request of an executor thread.

* `WriteCalled`, `WriteBegins`, `DeviceStage`, `CloudStage`, `WriteEnds` are the
  parts of `async_write_setting`; `wpc[w]` says where call `w` is. A stage may
  fail: the first leaves "failed", the second "partial_failure". `WriteCalled`
  includes the cancellation of the older follow-up and the new record.
* `WriteCancelled` / `OrphanWriteEnds`: the caller is cancelled while the thread
  works on. The lock goes free, the thread does not stop.
* `TickFires`, `PollBegins`, `PollFetchesFast`, `PollReadsSettings`,
  `PollReturns`, `PollPublishes`, `OrphanFetchEnds`: one poll, of the timer, of
  the debouncer or of a check. `_force_slow` is read in one step and cleared in
  the next, as the thread does it. A successful poll publishes at once or, when
  mowing, after the trail was saved, outside the lock.
* `CheckWakes`, `CheckProbes`, `Judge`: `_async_check_setting`, two rounds. The
  comparison of `_settings_read_generation` before and after is
  `w \in readSince`; the counter itself is not kept.
* `CancelSettingChecks`, `CloseClient`: the unload.
* `OtherCommand`: any other command, which asks for a settings read only.
* External: `mower`, `cloud`, `CloudReverts` (the cloud copy of a setting the
  mower did not take).

`seen`, in a settings value, is a history: the writes that had ended when it
was read. The timer's poll and the debounced poll are one of each at a time, as
in Home Assistant's coordinator; the polls of checks are one per check.

### SettingRecords (proved about in SettingWritesProofs)

The abstract specification of what `setting_writes` promises to those who read
it: a record begins, gets one outcome, and is looked at twice at the most while
it is the newest of its switch. `RecordsAreKept` of SettingWrites is its
specification, with `looks` read off a check's place and round. An action of
SettingWrites is a `Begin` (`WriteBegins`), an `End` (`WriteEnds`), a `Look` (a
check that judges or gives up) or a stutter.

### MowerEvents (with MCMowerEvents, MowerEventsProofs)

`Poll` samples the mower (external: `Depart`, `Complete`, `Arrive`), runs
`_hold_error` and publishes, which is `Update` of the detector; with `Saves` it
may instead wait, and `Publish` later. `PollFails` is an update of the entities
without a new snapshot. `Reload` starts from the first snapshot. The history
`owed` holds what is true and not yet told; it is what events are compared
with. `moved`/`reported` model progress that lags one poll.

### Trail and TrailStore (with MCTrail, MCTrailStore, TrailProofs)

`Update(t, s, lies)` is `_update_trail` as the composition of its parts: `Left`
(marks, the question of a new job), `Split` (a trail of an older version),
`Covered` or `Decided` (what is started over), `Sampled` (the new point and the
cap). A point keeps only whether it is of this trip; where points of an older
trail lie is any assignment of zones. `told`, `waited` and `leftWith` are
histories: what the polls since the dock have told of the job, for how many of
them the question has been open, and how many points each zone had when it was
opened. `TrailStore` extends it with the file: checkpoint or delayed save, each
of which may fail, crash, stop and reload, and the delayed save of
a coordinator that has been unloaded. Of the histories of Trail it keeps only
whether the mower is home. `failed` is one of its own: a save has failed and the
trail has not changed since.

### NumberReadback (with MCNumberReadback, NumberReadbackProofs)

`SetCalled`, `DeviceAccepts`, `SetEnds` and `SetRefused` are
`async_set_native_value`, cut at its awaits. `number` is the entity's private
state; its operators `Dropped`, `Shows`, `Expects`, `Unconfirmed` and `Meets`
are the methods, as functions of that state. `armed` are the timers Home
Assistant runs, apart from `shownTimer` and `confirmTimer`, the handles the
entity keeps to cancel them. `ShownExpires` and `ConfirmFires` are the timers'
callbacks; `PollReads`, `PollSkipsSettings`, `PollFails` and `PollEnds` are a
poll, which tells the entity (`Meets`) and concludes the read-back that awaits
it (`Concludes`). `Tick` is the coordinator's poll, of its timer or requested
by a call. External: `ReportMoves`, the height the cloud reports.

`raw.fresh` and `data.fresh` are histories: read since the last call ended.
`verdict` is one, too.

### CloudClient (with MCCloudClient, CloudClientProofs)

`Begins` takes the re-entrant lock and makes the request's body;
`RequestGranted`, `RequestRefused` and `RequestDenied` are the answers `call`
tells apart; `Refreshes`, `RefreshFails`, `LoggedIn` and `LoginRefused` are
`_reauth`; `FindsDead`, `PostFails` and `PostGarbled` are the ways a post of any
of them goes wrong in `_post`. Whether a request that got no answer reached the
cloud is a choice (`CloudObeys`, `CloudMissesIt`). `Closes` is the unload.

External: the cloud accepts the session of the last login, until it is lost
(`SessionLost`). A session is the number of its access token. `stray`, `obeyed`,
`died`, `refused`, `logins` and `losses` are histories; `kept = "dirty"`, a
connection with an answer still to come, is what the code avoids by closing a
connection after any failure.

### Commands (with MCCommands, CommandsProofs)

`Start`, `PauseOrDock`, `ResumeService` and `MowService` begin a call from the
snapshot `shown`; `Send`, `Probe`, `Sleep` and `DeadlinePasses` are `async_send`
and `async_await_command`. A resume is sent and not waited for, as in the code.
`Poll` is `_maybe_fetch_map` and `_resolve_zones`; `SelectOption` is the select.
External: `MowerTakes`, the cloud's queue and what each command makes the mower
do, and `MowerMoves`. A mow carries its zones, its reset flag and whether it is
ordered. `heard` (what the cloud last said) and `keeps` (the Starts
made at a mower waiting to go on, with an up-to-date snapshot) are histories.

### Schedule and WeekPlan (with MCWeekPlan, WeekPlanProofs)

`Schedule` holds the plan's functions: `NextMow` (`_compute_next_mow`),
`CalendarEvents`, `CheckPeriods` (in any of the `Orders` a sort may leave periods
of one start in: they overlap, and are refused in each), `EntryFor`
(`set_day_schedule`), `Shown`
(`_parse_schedule`), and beside them what they are to compute in other words
(`IsSoonest` walks the moments, `Sound` compares every two periods). `WeekPlan`
puts them in time: `Tick`, `PollReads`/`PollFails` with the interval
`PollInterval`, the service's `SetCalled`, `DeviceStage`, `CloudStage`. External:
the owner's app (`AppStores`, `MasterSwitched`) and `MowerMoves`. `age` is a
history: for how long the plan in the cloud has stood and polls have not failed.

### SignIn, Entries (with MCEntries, EntriesProofs)

`SignIn` is the passport as a function of the hosts that are down: `LookupRegion`,
`Round` (one pass over a region's hosts), `Login`, `Refresh`. Its facts have no
state and are checked as assumptions of MCEntries, exhaustively: four regions,
every code and pin, every set of dead hosts.

`Entries` has one entry per mower: `OpenFlow`, `AskAgain` (reauth), `Submit`
(which chooses the identity), `SignInFails`, `SignedIn`, `SelectVehicle`
(`Creates`, `Updates`) are the flow; `Renew`, `Persist` (`_persist_session`),
`ChangeOptions`, `Remove` and `Crash` the entry's life. A token is "new" if it is
the session's last, since a renewal makes the earlier refused. `OrphanRenews` and
`OrphanEnds` are a call that outlives its coordinator: commands persist in a
`finally`. `recent` is a history: the entries written by a form sent while there
were entries, with no entry removed or written by another flow since.

### How the components interact

`coordinator.py:1118`, the await of the trail's save between the fetch and the
publication, is where the three meet: it is `Mowing` of SettingWrites, `Saves`
of MowerEvents and `Save` of TrailStore. Every request of these modules goes
through one call of CloudClient; that a call always ends (`EveryCallEnds`) is
what their fairness for threads rests on. NumberReadback shares the poll and
`_force_slow` with SettingWrites; it takes the reading and the clearing of the
flag as one step, since SettingWrites has the race between the two.
Commands and WeekPlan share the poll, too: each command asks for one that reads
the settings (`OtherCommand` of SettingWrites, `forceSlow` of WeekPlan), and the
snapshot from which Start decides is what such a poll left. The renewal inside a
call of CloudClient is `Renew` of Entries, which goes on from where the client
stops: who saves the tokens. SignIn is what CloudClient's `Refreshes` and
`LoggedIn`, and `SignedIn` of Entries, take as a choice of outcomes.

## 3. What the runs check

| Run | Question | Result |
|---|---|---|
| `SettingReads` | Two writes of one switch, their four follow-up rounds, the timer's polls and the debounced one, reads that fail | `NoPollBetweenStages`, `OneCheckPerKey`, `VerdictRestsOnFreshRead`, `RecordsAreKept` and `TypeOK` hold |
| `SettingLives` | One write with everything that can end it: failing stages and probes, a cancelled caller, saves of the trail, the unload | `EveryWriteIsReadBack`, `EveryWriterReturns`, `UnloadIsFinal` hold under fairness |
| `EventsTold` | Every family of codes, flapping faults, lagging progress, saves, reloads | `EventsAreOwed`, `JobEndIsReported` and `TypeOK` hold |
| `TrailTrip` | Two zones already mown, any coverage, late, partial or absent | `KeepsThisTrip`, `ZeroKeepsOnlyThisTrip`, `NewJobClears`, `ResumedJobIsKept` and `TypeOK` hold |
| `TrailSaved` | Checkpoints and delayed saves, each of which may fail, against crash, stop, reload | `UnsavedIsSaved` holds |
| `NumberJudged` | Two overlapping calls, their timers and read-backs, failing polls, refusals, removal | `TimersAreHeld`, `AppliedIsNotWarned`, `EveryExpectationIsJudged`, `WarningIsTakenBack` and `TypeOK` hold |
| `ClientCalls` | Two threads on one connection; sessions lost, connections dead, requests timed out, the entry unloaded | `AnswerIsOwn`, `RenewedOncePerLoss`, `RepeatedOnlyIfDead`, `EveryCallEnds` and `TypeOK` hold |
| `WeekPlanned` | A week of the plan: disordered plans of the app, accepted and refused requests, a mower that mows, polls and stages that fail | `PlanIsToldRight`, `PlansAreSound`, `StartIsWatched` and `TypeOK` hold |
| `CommandsHeard` | Every command against every state of the mower, a stale snapshot, a map that changes, a queue that never answers | `JobIsKept`, `ShownChoiceIsMown`, `IgnoredIsReported`, `EveryCommandEnds` and `TypeOK` hold |
| `EntryLives` | Two mowers and up to three flows at once, renewals, reloads, crashes, removals, calls that outlive their coordinator | `IdentitiesConverge`, `SessionComesBack` and `TypeOK` hold; the facts of SignIn |
| `SettingReadbackKey` | `ReportedValueIsJudged` for a switch whose settings key differs | violated, section 7 |
| `ClientAuthError` | Is a new sign-in only asked for if the session was refused? | violated, section 7 |

What the passing properties say:

* `NoPollBetweenStages`: no poll reads between the stages of a write (callers
  not cancelled: see section 7).
* `OneCheckPerKey`: a follow-up that runs is the registered one, of the latest
  write of its key.
* `VerdictRestsOnFreshRead`: "matched" and "mismatch" are only noted from
  settings read after the write had ended, as long as no poll waits for the save
  of the trail (if one does: section 7).
* `RecordsAreKept`: the records implement SettingRecords; the record of an older
  write is not touched, and no record is judged more than twice.
* `EveryWriteIsReadBack`, `EveryWriterReturns`, `UnloadIsFinal`: whatever became
  of a write it is read back to the second round; callers are not starved by
  polls nor blocked by their own refresh; follow-ups die out after the unload.
* `EventsAreOwed`: what is told has happened since it was last told, so that a
  repeated snapshot tells nothing. `JobEndIsReported`: a job that ended on a trip that was seen is told once the mower is home.
* `KeepsThisTrip`, `ZeroKeepsOnlyThisTrip`, `NewJobClears`:
  which points a poll may drop and must drop. `ResumedJobIsKept`: from the
  departure to the poll that tells that the job goes on, no zone falls below the
  points it had in the dock, if the answer comes within `DecidePolls` polls. The
  code takes a mow whose progress is not told for that long for a new job, and
  nothing is said of what it then cuts.
* `UnsavedIsSaved`: what is in memory only does get into the file. A save that
  fails is excepted until the trail changes again: the code does not try again
  before (section 7), and the next change is to make it good.
* `TimersAreHeld`: no timer runs that the entity could not cancel, and what is
  shown has the timer of its own call. `AppliedIsNotWarned`: no warning of a
  height that was reported before the read-back concluded.
  `EveryExpectationIsJudged`: every height expected arrives or is warned of.
  `WarningIsTakenBack`: no warning stays up against the mower's own report.
* `AnswerIsOwn`, `RenewedOncePerLoss`, `RepeatedOnlyIfDead`: as above.
  `TypeOK` includes that a call is carried out three times at the most (once
  per dead connection, and the last). `EveryCallEnds`: under the lock no call
  holds up the others for ever.

* `PlanIsToldRight`: at every moment of the week the next mow is the first start
  to come, and the calendar agrees with it. `StartIsWatched`: when a start comes,
  the poll that follows is soon, if the plan has stood for as long as the polls
  need to read it. `PlansAreSound`: the service stores no reversed or
  overlapping periods, on the mower or in the cloud, whichever stage fails.
* `JobIsKept`: a Start at a mower that waits to go on does not end its job, with
  whatever happens between its decision and its arrival. `ShownChoiceIsMown`:
  what Start sends is what the select shows, and neither Start nor the service
  sends a mow without zones, with a zone the decoded map lacks, or with an order
  that this mower would ignore, whichever of map, options, job and pick changed. `IgnoredIsReported`: how a call ends is what the cloud last said.
  `EveryCommandEnds`: no failing probe and no silent mower holds a caller.
* `IdentitiesConverge`: whatever identities entries had, those written anew share
  one. `SessionComesBack`: an entry with refused tokens gets good ones, whatever a
  late call saves or a crash loses.
* `EverybodyGetsIn`, `OneDirectoryIsEnough`, `SessionsAreKnown` (facts of SignIn):
  a wrong pin is no obstacle; one reachable directory of the right region suffices
  to find it; a dead host does not make a good session refused.

Each property of a passing run has a mutant of the code that breaks it.
Deadlock is checked everywhere but in `SettingLives`, where an unloaded entry
really stops.

## 4. Bounds

* `SettingReads`: two writes (`Writes`), so that a newer one meets the older at
  each of its steps; a third adds nothing the registration by key tells apart.
  Four polls (timer, debouncer, one of each check). `SlowEvery = 2`: a poll may
  skip the settings. One switch, because writes of different switches share only
  the lock and the flag; the proofs of section 6 hold for any number. `Mowing`
  and cancellation are off here since they break the properties (section 7),
  and on in `SettingLives`. Writes are interchangeable, hence symmetric.
* `SettingLives`: one write, every fault and every way to end. `SlowEvery = 1`,
  since which group a poll reads does not change what ends.
* `EventsTold`: one poll at a time, nine codes: docked ones, the unmapped 02xx
  codes of the dock, both ways out, a fault, none. `ErrorClearPolls = 3` is the
  code's own value. Progress is "part" or "full": the detector only asks if it
  is 100 %. Two polls at once break `EventsAreOwed` (section 7).
* `TrailTrip`: two zones and zone 0; coverages 0, 1, 2 with `ResetDrop = 2`, so
  that a fall may be to zero, large, or too small; at most two points a zone, so
  that the cap is met and the mark moves; two polls to decide. The file is that of a
  mower in its dock, with old points in each zone, with and without coverage.
* `TrailSaved`: one zone and one point: what is saved does not depend on more.
  One orphaned save at a time. The file is of this version or of an older one
  with a trail not yet split.
* `NumberJudged`: two calls, each with its timers and its read-back, so that one
  meets the other at every await; two heights, so that they differ or agree, and
  two requests that are no heights of the mower, so that both are snapped. The
  entity may be removed once. A poll that lacks the height or fails to read the
  settings leaves it as it was, as a poll of the fast group does.
* `ClientCalls`: two threads, each calling again and again; a third has nothing
  to do but wait for the lock (and the safety properties are proved for any
  number). Two losses and three tokens allow a session that is lost again
  before the repeated request. The bounds are the constants `MaxLosses` and
  `MaxTokens`; at the latter the passport refuses.

* `WeekPlanned`: a week of two days, two slots a day, three units a slot, so that
  starts meet midnight, the end of the week, today-later and a week ahead. The
  unit is the code's default interval: 3, 12, 30 and 120 s become 1, 1, 1 and 3,
  which keeps the gap between watching and idling; `MowSoon` is one idle
  interval, the least for which a start cannot slip between two polls (the code
  has more than seven); `SlowEvery = 2`. One call, four requests: out of
  order, overlapping, off the grid, a day switched off. The timer is never late
  by a unit. `Codes` are the dock and mowing; the others only shorten intervals.
* `CommandsHeard`: one call (calls share nothing but the mower, and two
  multiply the states of the queue); two zones and two maps, of which one lacks a
  zone. A mower that ignores ordered mows (`LacksOrder`), since that is where an
  answer never comes. Progress is "part" or not, as the code asks. No zones are
  typed into the options, and the service resets, as is its default.
* `EntryLives`: two mowers, with no entry or with entries that differ in their
  identity (`MCBefore`), one flow that adds a mower beside the two that sign in
  again, two identities, one orphaned call followed per mower. The proofs hold
  for any number.

Counters that would grow for ever are reduced: `_cycle` modulo `SlowEvery` (the
code only asks for the remainder), the number of quiet polls by
`ErrorClearPolls`, points by `MaxPoints`.

## 5. Fairness

* Executor threads and timers make progress: weak fairness of the steps of each
  write, check and poll under way (requests have timeouts, so a thread ends).
* `asyncio.Lock` wakes its waiters first come first served, so one that finds
  the lock free again and again gets it: strong fairness of the steps of writes
  and polls.
* In the setting runs no fairness for callers, faults, the unload, nor the
  timer: nothing has to be written, and no poll has to come, for these
  properties to hold.
* `EventsTold`: a mower in its dock, polled again and again, reports a code of
  the dock again and again (`PollSeesDock`, strong): the unmapped codes it
  flits through last minutes. A poll that waits publishes (weak).
* `TrailSaved`: the delay passes and a delayed save is done or fails (weak), as HA's
  timers do. A delayed save that polls put off for ever is not assumed to
  fire: it is enabled only once the delay is over, and the checkpoint of the
  next poll makes up for it.
* `NumberJudged`: the read-back's timer fires (weak; the other need not), polls
  get the lock and end (strong), the coordinator polls (weak, `TickFires`), and
  again and again such a poll reads the settings with the cloud's report of the
  moment (strong): an outage is not for ever.
* `ClientCalls`: a thread moves on, as every request has a timeout (weak), and
  the lock that becomes free again and again is got (strong; `threading.RLock`
  promises no order, but two or three executor threads take turns).
* `CommandsHeard`: requests end and timers fire (weak fairness of `Send`,
  `Probe`, `Sleep`, `DeadlinePasses`); the mower need not answer.
* `EntryLives`: polls go on and one succeeds at last (weak, `Persist`); a poll
  refused asks to sign in (weak, `AskAgain`); the user sends the form (weak) and
  among the attempts made again and again one succeeds (strong, `SignedIn`).
  Without the last nothing could be promised: Home Assistant can only ask.
* `WeekPlanned` assumes none; it has safety properties only.

## 6. What is proved

`SettingWritesProofs`, for every number of writes, switches and polls, from
`ConstantsAssumption` (names do not clash; `SlowEvery` is positive):

* `TypeCorrect`: `TypeOK`, with the lemma that a call under way has its key and
  its value (`RequestInv`), without which `TypeOK` is not inductive.
* `BatchesAreAtomic`: `NoPollBetweenStages` if callers are not cancelled. The
  invariant (`LockInv`) says that a writer between its steps, and a poll that
  fetches, holds the lock; two holders differ, so both cannot be.
* `OneCheckAtATime`: `OneCheckPerKey`. The inductive invariant (`CheckInv`) adds
  that a check that runs belongs to a call that began (`StartedInv`), that the
  write which holds the lock is the latest of its key and the check registered
  before it is gone (`HolderInv`), and that a check waits for the polls it makes,
  but for a fetch left behind (`AwaitedInv`); else a cancelled check could be
  revived by its poll. A poll saves the trail without the lock (`SaveInv`).
* `SupersededRecordsStay`: `SupersededRecordIsFrozen`, from the same invariant
  and the lemma that only a check that runs notes a verdict.

What polls and checks do to the checks is one lemma (`DriftKeeps`): they only
move live checks along or end them. Each action of `Next` is then shown to
drift, or is treated by itself (`WriteCalled`, `StartCheck`, the unload).

In the same module, whether or not callers are cancelled:

* `RecordsRefined`: `RecordsAreKept`, that is, SettingWrites implements
  SettingRecords. Every step is one of a writer that takes, leaves or is torn from
  the lock, or is `Beside`: it leaves the records alone or is one look of one live
  check (`MostAreBeside`). The invariant `RecordInv` ties records to the lock: a
  record is new until its write has the lock, pending and unchecked while it
  holds it, and a check has had no look before it starts. `CheckInv` above makes a
  live check one of the newest write.

In the same module, for every number of writes, switches and polls, with the
unload, if `Mowing = FALSE` and `CallersCancel = FALSE` (with either, both are
false: section 7):

* `VerdictsAreFresh`: `VerdictRestsOnFreshRead`. The invariant `FreshInv`: a check starts when its write
  has ended (`EndedInv`), nothing waits to be published (`NoSaveInv`), and what
  is shown knows of no more writes than what was read, that of no more than have
  ended, and of all those whose checks saw the generation move (`SeenInv`). Most
  steps read and show nothing (`Quiet`) and keep it by one lemma.

`CommandsProofs`, for every number of calls, zones and maps, from
`CommandsAssumption`:

* `TypeCorrect`: `TypeOK`; `EndsAsHeard`: `IgnoredIsReported`. The invariant
  `IInv` adds that a call under way has no result and remembers exactly what it
  last heard (`WaitInv`), that what waits for an answer is a command that was sent
  (`SentInv`), and that one zone is picked at the most (`PicksInv`).
* `PickIsMown`: `ShownChoiceIsMown`. A call that asks for a mow is one of Start or
  of the service (`AskedByStartOrService`); once there is a decoded map its zones
  are the ones shown (`ShownInv`), so what Start takes from these the map has; and
  what it takes of a pick is what the select makes of it (`PickedZones`).
* `JobsAreKept`: `JobIsKept`. Between the decision and its arrival anything may
  change but what was sent, which is a resume (`KeepInv`).

`EntriesProofs`, for every number of mowers, flows and identities, from
`EntriesAssumption` (identities are ordered, so that a set of them has a least):

* `TypeCorrect`: `TypeOK`, with the lemmas that a flow that has sent its form has
  an identity and that only a coordinator that was there leaves a call behind.
* `OneIdentity`: `IdentitiesConverge`. It is not inductive: an entry may be
  written by a form sent long ago. The invariant `RecentInv` says that what
  counts, entries and flows under way alike, has the least identity of the
  entries there; writing that identity does not change what the least is, and
  whatever may change it (a removal, a form sent before) makes nothing count.

`CloudClientProofs`, for every number of threads and every bound on logins:

* `TypeCorrect`: `TypeOK`, which includes that the cloud obeys one call at
  most three times: two connections, and a session renewed once.
* `RenewedOnce`: `RenewedOncePerLoss`; `RepeatedIfDead`: `RepeatedOnlyIfDead`;
  `AnswersMatch`: `AnswerIsOwn`.

They rest on one inductive invariant `Inv`: a thread that posts or renews holds
the lock (`LockInv`), its request names the newest session it knows (`BodyInv`),
each login follows a refresh of its own (`TokenInv`, which bounds the logins),
a lost session not yet made good remains while the session is not the cloud's or
a thread is renewing it, since a login may be obeyed and its answer lost
(`RenewInv`), a call under way has been obeyed as often as the connections it
has used allow (`ObeyInv`), and what was read answers the request that was sent
(`AnswerInv`).

`MowerEventsProofs`, for every number of polls, any codes and families, and every
length of the fault debounce, from `ConstantsAssumption` (a code of the lawn is
not of the docked family):

* `TypeCorrect`: `TypeOK`, whether or not polls wait for a save.
* `ToldIsOwed`: `EventsAreOwed`, with reloads, if polls publish at once or one
  poll is under way at a time (`OneAtATime`; with two it is false: section 7). The
  invariant
  `OwedInv` says that what the detector may still tell is owed: a return while it
  knows of a trip and the mower is home (`ReturnInv`), a start while it remembers
  the dock and the mower is out (`StartInv`), a finish while a trip is open or
  pending and the progress may be reported full (`FinishInv`), an error while a
  fault is held that it has not taken in (`ErrorInv`). It has taken in what is
  shown, so that the same snapshot again tells nothing (`SyncInv`, by
  `PrimedTakesIn` and `UpdateTakesIn`), and a fault is held exactly while the
  calm is shorter than the run of quiet polls (`CalmInv`). A snapshot that waits
  for a save promises (`WaitInv`): what it will tell stays owed until it is
  published, and what the mower did since it was taken is owed as well.

`NumberReadbackProofs`, for every number of calls, heights and requests:

* `TypeCorrect`: `TypeOK`; `TimersStayHeld`: `TimersAreHeld`. Each of the entity's
  methods, as a function of its state and of the heights asked for, keeps what
  holds of the timers (`Held` with `DroppedIsHeld`, `UnconfirmedIsHeld`,
  `MeetsIsHeld`); with the types it is inductive.
* `ArrivedIsNotWarned`: `AppliedIsNotWarned`, since a height still expected has
  not been judged (`PendingInv`).

`TrailProofs`, for every map, coverage, cap and number of polls to decide. A line
of points is a sequence of any length under the cap, so the lemmas say what it
keeps when its head is dropped or a point is added. Which trails are in the file
is a hypothesis of each theorem:

* `ThisVersion`: the file is of this version, not an old trail yet to be split: a
  split in the middle of a trip leaves the marks behind (section 7)
  (`TypeCorrect`: `TypeOK`; `ZerosKeepOnlyThisTrip`: `ZeroKeepsOnlyThisTrip`;
  `ResumedJobsAreKept`: `ResumedJobIsKept`; `MarkedTripIsKept`: `KeepsThisTrip` of
  the zones that have a mark). The invariant `TripInv`: a line is a block of older
  points and then this trip's, and a mark, while there is one, tells where the
  block ends (`MarkOK`). For the job that goes on, `OpenInv`: as long as it is in
  time, the polls left to decide are those not yet waited, and no zone is below
  what it had in the dock.
* `InDock`: the file was saved with the mower in its dock, too (`NewJobsClear`:
  `NewJobClears`): marks and the question of a new job are not saved, so a file of
  the middle of a trip has forgotten them (section 7). `JobInv`: until it is told
  whether the job is new, the question is open or nothing old is left, and nothing
  old is left once it is.
* `AllDrawn`: every zone has a trail, too (`ThisTripIsKept`: `KeepsThisTrip`): a
  first visit has no mark (section 7). `MarkedInv`: once the mower has left its
  dock, every zone has a mark.

`WeekPlanProofs`, for a week of any days, a day of any slots, any plans, requests
and intervals, from the assumptions of Schedule and WeekPlan:

* `TypeCorrect`: `TypeOK`, with every plan on the grid wherever it is (`GridInv`).
* `PlansStaySound`: `PlansAreSound`. In a list sorted by start whose neighbours do
  not overlap no two periods do (`Sorted`, by induction on their distance), which
  is why `_check_periods` may compare neighbours only (`CheckedIsSound`); rounding
  to slots keeps that (`AcceptedEntry`). A call is under way only if it was
  accepted, and replaces one day (`DayReplaced`).
* `PlansAreToldRight`: `PlanIsToldRight`. A moment of the week is a day and a time
  (`MomentParts`, `LaterParts`, by division with remainder), so the starts to come
  are the candidates of `NextMow`, as far away as it says (`CandidateIsStart`,
  `StartIsCandidate`); the first by day and time is the nearest
  (`NotLaterIsNoFurther`). No event of the calendar is nearer (`EventIsNotSooner`),
  and the next mow is one (`CandidateIsEvent`): it lies within a week, and the
  calendar looks two ahead.
* `StartsAreWatched`: `StartIsWatched`. A plan in the cloud that differs from the
  one read has stood for no longer than the polls of the round so far take
  (`SeenInv`, counted by `Turn`), so one that has stood for `Lag` has been read, or
  a poll is due at once. If the next poll is further off than `DefaultScan`, no
  start of the plan read comes before it (`QuietInv`): the last poll found none
  within `MowSoon`, which is no shorter than the longest interval.

Only model-checked: all liveness (`EveryCallEnds` and `UnsavedIsSaved` among it),
since the prover does not reason about fairness and ENABLED, and with it TrailStore,
whose only property is one; trails of an older version
(in `TrailSaved`); and the facts of SignIn,
which are of a finite table and checked in full.

## 7. Disagreements between the code and what is said of it

With a run that shows them:

* **The read-back looks under the wrong name** (`coordinator.py:1949`;
  `SettingReadbackKey`) for the four switches whose key is not the key of the
  parsed settings: always "unavailable".
* **A passport that cannot be reached asks for a new login**
  (`api/client.py:323`; `ClientAuthError`): the refresh of the tokens raises
  `NavimowAuthError` for a network failure too.

In the models, without a run of their own:

* Late publication (`coordinator.py:1118`). A poll awaits the save of the trail
  outside the lock, then publishes. Another poll may read and publish meanwhile:
  the settings shown go back until the next read. A check that awaits such a poll
  then compares the success and the generation of the last read, whosever it was
  (1941-1943): its own poll may have failed to read the settings while another,
  asked for by a command meanwhile, did. The value cached before the write is
  noted as "matched", which `tests/test_setting_writes.py:111` has as proving
  nothing. (`SettingReads` with one write and `Mowing = TRUE` violates
  `VerdictRestsOnFreshRead`.)
* A save of the trail that fails is not tried again (`coordinator.py:1113-1124`):
  the trail is no longer dirty, and the time of the save is noted, before it is
  written. What was drawn stays in memory only until the trail changes again, and
  that may be on the next trip. (`UnsavedIsSaved` without `failed` is
  violated.)
* A first visit has no mark (`coordinator.py:1827`): the late reset of a zone
  without a trail drops this trip's points. (`TrailTrip` with
  `Files <- MCNothing` and no symmetry violates `KeepsThisTrip`.)
* A number judges a value it did not read for (`number.py:305`).
  `_async_confirm` judges whatever is pending after its refresh, also a value set
  while the refresh ran. (`NumberJudged` without faults and removal violates
  `WarningIsEarned`.)

* A forced read is lost (`coordinator.py:1196`). `_force_slow` is cleared before
  the first request of the poll; if that fails, nobody reads the settings until
  the slow cycle comes round. A thread also reads the flag and clears it a
  statement later; a command between the two is not served, and its check notes
  "unavailable".
* The detector of events is told of the past if two polls overlap, by the late
  publication above; EventsTold runs one poll at a time.
* The old coordinator saves last (`coordinator.py:1120`): a reload does not call
  off its delayed save (`OrphanSave` of TrailStore).
* A caller cancelled between the stages frees the lock (hence the assumption of
  `BatchesAreAtomic`).
* A write under way at the unload registers its follow-up after
  `async_cancel_setting_checks`; it runs against a closed client, and ends
  (`UnloadIsFinal`). A number's write under way at its removal arms a timer, or
  warns, after the removal.
* A number's confirming refresh that fails warns all the same, from old data; a
  write of a number that is refused drops the value a newer call shows.
* A post repeated over a new connection may carry out a command twice; the
  comment at `api/client.py:46-52` holds this to be safe even for a write.
* A thread queued for the client's lock opens the connection again after
  `close` (the comment at `__init__.py:141` speaks of the last one).
* A trail of an older version is split when the map is first known
  (`coordinator.py:1861`), with the mower in its dock or out. Points put in front of
  a line do not move its mark: if the mower has left, they count as this trip's and
  stay at the next 0 %. Once only, after an update. (`TrailTrip` with a file that
  has `split |-> TRUE` violates `ZeroKeepsOnlyThisTrip`.)
* The marks of the trail are not saved, so a restart in the middle of a trip
  makes the trip's points old ones.
* The calendar shows mows while the plan's master switch is off, when the next
  mow is none (`CalendarAgrees` assumes it on).
* Two calls of `set_schedule` for one day, or a second stage that fails, leave
  the mower and the cloud with different plans until one is written again; the
  selects, the numbers and this service write their stages without the lock,
  so that a poll may come between (`coordinator.py:1090` has it that a poll "must
  not observe a device write before its cloud save").
* A command whose request fails asks for no refresh, even if the mower got it.
* A plan that is empty but there falls back to the dead legacy plan
  (`ScheduleSource` is the code's choice for plans with entries).
* A pick whose zone has left the map mows all zones, from zero. Start from a
  snapshot that says mowing, of a mower that paused since, starts over.
* A probe that ends after the deadline decides the call, so an answer given in
  time but after the last probe was asked is missed.
* When a start passes and the mower is still in its dock, the next interval is
  the idle one.
* "The next time you re-authenticate one of them" (`README.md:221-225`) entries
  converge only if the other one is signed in again: the one with the least
  identity keeps it. Two first flows of an account at once get two identities.
* A login stops at the first dead host of its region, although its docstring has
  a dead endpoint not break it; so does a US account's refresh, whose second
  host refuses what the first would renew, and the user is asked to sign in.
* A command that outlives its coordinator may save its older tokens over newer
  ones (`OrphanEnds`). A sign-in asked for, or the next renewal, makes it good.
* The update listener reloads on renewed tokens too, though its docstring speaks
  of options; the pick and what the event detector knows are lost with it. Tokens
  renewed in a poll that then fails are not saved.

## 8. What is not modelled

* Cryptography, drawing (camera, map), labels, diagnostics, the Lovelace cards
  and the framework code of forms: bytes and text in, bytes and text out, with
  no order of events to go wrong.
* Of the config flow: the options form, the wording of errors, the serial typed
  by hand. Of the session: the choice of the mower's own host, the message feed,
  mowers shared by another account.
* Of the selects: the stages of the settings they write (as a switch's, without
  the lock). Of the plan: the zones of a period and its bytes.
* Of the snapshot, only what the modelled parts tell apart: settings as
  on/off/unreported, codes by family, progress and coverage by threshold.
* Time: delays are steps that may be taken at any moment, which includes every
  order real delays allow.
* Geometry of the trail: whether a sample moved far enough, and in which zone a
  point lies, are inputs.
* Several mowers: entries share no state of the modelled components.

## 9. Plan

Proofs: the type of Trail for files of an older version, from what a split makes of
a trail; what the file of TrailStore may lack, as an invariant.

Models: the cache of the camera and the message feed, if they gain state that
outlives a poll; a second call in `CommandsHeard`; the selects' stages as writers
of SettingWrites that do not take the lock.
