---------------------------- MODULE SettingWrites ----------------------------
(***************************************************************************)
(* Writing one on/off setting of the mower, and finding out whether it     *)
(* took (coordinator.py: async_write_setting, _async_check_setting, the    *)
(* poll of _async_update_data / _fetch_blocking, and the unload of the     *)
(* entry).                                                                 *)
(*                                                                         *)
(* A write has two stages, run in an executor thread: the command to the   *)
(* mower, then the save in the cloud.  The asyncio lock _setting_write_lock*)
(* is held over both, and every poll of the cloud takes the same lock.     *)
(* After a write, whatever became of it, a background check reads the      *)
(* settings back twice and notes a verdict.  A newer write of the same     *)
(* setting, or the unload of the entry, cancels the check.                 *)
(*                                                                         *)
(* One step is what runs between two suspension points of a coroutine, or  *)
(* one request of an executor thread.  A thread outlives the coroutine     *)
(* that awaited it: it then works on without the lock.                     *)
(***************************************************************************)
EXTENDS Naturals, FiniteSets

CONSTANTS
  Writes,        \* the calls of async_write_setting; also names their records,
                 \* their checks and the polls made by those checks
  Keys,          \* description.key of the switches
  Names,         \* the keys of the parsed settings of a snapshot
  NameOf,        \* the settings key the switch of a key displays (value_fn)
  Tick,          \* the poll fired by the coordinator's own timer
  Deb,           \* the poll behind async_request_refresh (debounced)
  Nothing,       \* no write, no check, a setting the cloud did not report
  SlowEvery,     \* SLOW_REFRESH_EVERY
  Faults,        \* the requests that may fail: a stage of a "write", the "fast"
                 \* group of a poll, its "settings" group, the "probe" of a command
  Mowing,        \* whether a poll may have to wait for the save of the trail
  CallersCancel, \* whether the caller of a write may be cancelled (a script
                 \* restarted while it calls the switch)
  Unloads        \* whether the entry may be unloaded

ASSUME ConstantsAssumption ==
  /\ Tick \notin Writes /\ Deb \notin Writes /\ Tick # Deb
  /\ Nothing \notin Writes /\ Nothing \notin BOOLEAN
  /\ NameOf \in [Keys -> Names]
  /\ SlowEvery \in Nat \ {0}
  /\ Faults \subseteq {"write", "fast", "settings", "probe"}
  /\ {Mowing, CallersCancel, Unloads} \subseteq BOOLEAN

Polls == Writes \union {Tick, Deb}

Free == <<"free">>
WriterHolds(w) == <<"writer", w>>
PollHolds(p) == <<"poll", p>>

VARIABLES
  lock,        \* _setting_write_lock
  wpc,         \* where each call of async_write_setting is
  request,     \* its key and the value requested
  results,     \* how many stages its thread has completed
  submission,  \* record["submission"]
  readback,    \* record["readback"]
  latest,      \* setting_writes: the write whose record stands for the key
  checkOf,     \* _setting_checks: the check registered for the key
  cpc,         \* where each _async_check_setting task is
  round,       \* which of the two delays (15, 75) it is in
  readSince,   \* the checks awaiting a refresh since whose start
               \* _settings_read_generation has moved
  forceSlow,   \* _force_slow
  cycle,       \* _cycle
  readSuccess, \* _settings_read_success
  ppc,         \* where each poll is
  slow,        \* the local "slow" of _fetch_blocking
  raw,         \* _raw_cache["set_list"]
  snap,        \* the snapshot a poll has parsed and not yet published
  data,        \* coordinator.data
  lastOk,      \* last_update_success
  entry,       \* the life of the config entry
  mower,       \* the value each setting has on the mower (external)
  cloud        \* the value the cloud saved and reports (external)

writeVars == <<wpc, request, results, submission, latest>>
checkVars == <<readback, checkOf, cpc, round, readSince>>
pollVars  == <<cycle, readSuccess, ppc, slow, raw, snap, data, lastOk>>
server    == <<mower, cloud>>
vars == <<lock, forceSlow, entry, writeVars, checkVars, pollVars, server>>

-----------------------------------------------------------------------------
(* Types.  A settings value carries "seen": the writes that had ended when *)
(* the cloud was asked for it (a history the code does not keep).          *)

Values == BOOLEAN \union {Nothing}
Settings == [vals : [Names -> Values], seen : SUBSET Writes]
NoSettings == [vals |-> [n \in Names |-> Nothing], seen |-> {}]

Verdicts == {"none", "unavailable", "matched", "mismatch"}
WriterAt == {"idle", "queued", "device", "cloud", "ending", "refreshing", "done"}
CheckAt == {"none", "asleep", "probe", "refresh", "done", "cancelled"}
PollAt == {"idle", "queued", "fast", "read", "return", "fail", "save"}

TypeOK ==
  /\ lock \in {Free} \union {WriterHolds(w) : w \in Writes}
                     \union {PollHolds(p) : p \in Polls}
  /\ wpc \in [Writes -> WriterAt]
  /\ request \in [Writes -> [key : Keys, on : BOOLEAN] \union {Nothing}]
  /\ results \in [Writes -> 0..2]
  /\ submission \in [Writes -> {"none", "pending", "submitted",
                                "partial_failure", "failed"}]
  /\ readback \in [Writes -> Verdicts]
  /\ latest \in [Keys -> Writes \union {Nothing}]
  /\ checkOf \in [Keys -> Writes \union {Nothing}]
  /\ cpc \in [Writes -> CheckAt]
  /\ round \in [Writes -> 1..2]
  /\ readSince \subseteq Writes
  /\ forceSlow \in BOOLEAN
  /\ cycle \in 0..(SlowEvery - 1)
  /\ readSuccess \in BOOLEAN
  /\ ppc \in [Polls -> PollAt]
  /\ slow \in [Polls -> BOOLEAN]
  /\ raw \in Settings
  /\ snap \in [Polls -> Settings]
  /\ data \in Settings
  /\ lastOk \in BOOLEAN
  /\ entry \in {"loaded", "unloading", "closed"}
  /\ mower \in [Names -> BOOLEAN]
  /\ cloud \in [Names -> BOOLEAN]

(* The entry has been set up by a first refresh, in which the settings     *)
(* were read or the read failed and left an empty set_list.                *)
Init ==
  /\ lock = Free
  /\ wpc = [w \in Writes |-> "idle"]
  /\ request = [w \in Writes |-> Nothing]
  /\ results = [w \in Writes |-> 0]
  /\ submission = [w \in Writes |-> "none"]
  /\ readback = [w \in Writes |-> "none"]
  /\ latest = [k \in Keys |-> Nothing]
  /\ checkOf = [k \in Keys |-> Nothing]
  /\ cpc = [w \in Writes |-> "none"]
  /\ round = [w \in Writes |-> 1]
  /\ readSince = {}
  /\ forceSlow = FALSE
  /\ cycle = 1 % SlowEvery
  /\ ppc = [p \in Polls |-> "idle"]
  /\ slow = [p \in Polls |-> FALSE]
  /\ mower = [n \in Names |-> FALSE]
  /\ cloud = mower
  /\ \/ readSuccess = TRUE /\ raw = [vals |-> cloud, seen |-> {}]
     \/ "settings" \in Faults /\ readSuccess = FALSE /\ raw = NoSettings
  /\ data = raw
  /\ snap = [p \in Polls |-> NoSettings]
  /\ lastOk = TRUE
  /\ entry = "loaded"

-----------------------------------------------------------------------------
(* The checks that a write or the unload cancels.                          *)

KeyOf(w) == request[w].key
Live(w) == cpc[w] \in {"asleep", "probe", "refresh"}

(* Popped from _setting_checks and left running.                           *)
CancelNoChecks(C) == UNCHANGED <<cpc, ppc, snap, readSince>>

(* Task.cancel: the check ends at its suspension point.  Inside its own    *)
(* refresh it leaves the lock's queue or drops the snapshot it was about   *)
(* to publish; a fetch it awaited goes on in its thread, and the lock the  *)
(* coroutine held is released.                                             *)
CancelChecks(C) ==
  /\ cpc' = [w \in Writes |-> IF w \in C /\ Live(w) THEN "cancelled" ELSE cpc[w]]
  /\ ppc' = [p \in Polls |-> IF p \in C /\ ppc[p] \in {"queued", "save"}
                             THEN "idle" ELSE ppc[p]]
  /\ snap' = [p \in Polls |-> IF p \in C THEN NoSettings ELSE snap[p]]
  /\ readSince' = readSince \ C

Ended == {w \in Writes : wpc[w] \in {"refreshing", "done"} /\ cpc[w] # "none"}

-----------------------------------------------------------------------------
(* async_write_setting.                                                    *)

WriteCalled(w, k, on) ==
  /\ entry = "loaded"
  /\ wpc[w] = "idle"
  /\ wpc' = [wpc EXCEPT ![w] = "queued"]
  /\ request' = [request EXCEPT ![w] = [key |-> k, on |-> on]]
  /\ UNCHANGED <<lock, forceSlow, entry, results, submission, latest,
                 checkVars, pollVars, server>>

(* The lock is taken; the previous check of the key is dropped and         *)
(* cancelled, and a new record takes the place of the old one.             *)
WriteBegins(w) ==
  /\ wpc[w] = "queued"
  /\ lock = Free
  /\ lock' = WriterHolds(w)
  /\ CancelChecks({checkOf[KeyOf(w)]})
  /\ checkOf' = [checkOf EXCEPT ![KeyOf(w)] = Nothing]
  /\ latest' = [latest EXCEPT ![KeyOf(w)] = w]
  /\ submission' = [submission EXCEPT ![w] = "pending"]
  /\ wpc' = [wpc EXCEPT ![w] = "device"]
  /\ UNCHANGED <<request, results, readback, round, forceSlow, entry,
                 cycle, readSuccess, slow, raw, data, lastOk, server>>

(* First stage: the command to the mower.  An accepted command is only     *)
(* queued and may not be obeyed; a failed request may have been.           *)
DeviceStage(w) ==
  LET n == NameOf[KeyOf(w)] IN
  /\ wpc[w] = "device"
  /\ mower' \in {mower, [mower EXCEPT ![n] = request[w].on]}
  /\ \/ /\ results' = [results EXCEPT ![w] = 1]
        /\ wpc' = [wpc EXCEPT ![w] = "cloud"]
     \/ /\ "write" \in Faults
        /\ wpc' = [wpc EXCEPT ![w] = "ending"]
        /\ UNCHANGED results
  /\ UNCHANGED <<lock, forceSlow, entry, request, submission, latest,
                 checkVars, pollVars, cloud>>

(* Second stage: the save in the cloud.                                    *)
CloudStage(w) ==
  LET n == NameOf[KeyOf(w)]
      saved == [cloud EXCEPT ![n] = request[w].on] IN
  /\ wpc[w] = "cloud"
  /\ wpc' = [wpc EXCEPT ![w] = "ending"]
  /\ \/ /\ cloud' = saved
        /\ results' = [results EXCEPT ![w] = 2]
     \/ /\ "write" \in Faults
        /\ cloud' \in {cloud, saved}
        /\ UNCHANGED results
  /\ UNCHANGED <<lock, forceSlow, entry, request, submission, latest,
                 checkVars, pollVars, mower>>

Outcome(n) == CASE n = 2 -> "submitted"
                [] n = 1 -> "partial_failure"
                [] n = 0 -> "failed"

(* Without the flag for the next poll.                                     *)
StartCheckOnly(w) ==
  /\ checkOf' = [checkOf EXCEPT ![KeyOf(w)] = w]
  /\ cpc' = [cpc EXCEPT ![w] = "asleep"]
  /\ UNCHANGED <<forceSlow, readback, round, readSince>>

(* The "finally": a check is registered and the next poll is asked to read *)
(* the settings, whether or not the stages succeeded.                      *)
StartCheck(w) ==
  /\ forceSlow' = TRUE
  /\ checkOf' = [checkOf EXCEPT ![KeyOf(w)] = w]
  /\ cpc' = [cpc EXCEPT ![w] = "asleep"]
  /\ UNCHANGED <<readback, round, readSince>>

(* async_request_refresh: a poll of its own for the caller to wait for, or *)
(* none (one is under way, or the cooldown puts it off to a later Tick).   *)
RequestRefresh(yes) ==
  /\ yes => ppc[Deb] = "idle"
  /\ ppc' = IF yes THEN [ppc EXCEPT ![Deb] = "queued"] ELSE ppc
  /\ UNCHANGED <<cycle, readSuccess, slow, raw, snap, data, lastOk>>

(* With the refresh awaited before the lock is released.                   *)
WriteEndsInsideLock(w) ==
  /\ wpc[w] = "ending"
  /\ lock = WriterHolds(w)
  /\ submission' = [submission EXCEPT ![w] = Outcome(results[w])]
  /\ StartCheck(w)
  /\ \E polls \in BOOLEAN :
       /\ polls => results[w] = 2
       /\ RequestRefresh(polls)
       /\ wpc' = [wpc EXCEPT ![w] = IF polls THEN "refreshing" ELSE "done"]
       /\ lock' = IF polls THEN lock ELSE Free
  /\ UNCHANGED <<request, results, latest, entry, server>>

(* With a check for the writes that succeeded only.                        *)
WriteEndsCheckedIfSubmitted(w) ==
  /\ wpc[w] = "ending"
  /\ lock = WriterHolds(w)
  /\ lock' = Free
  /\ submission' = [submission EXCEPT ![w] = Outcome(results[w])]
  /\ IF results[w] = 2 THEN StartCheck(w) ELSE UNCHANGED <<forceSlow, checkVars>>
  /\ \E polls \in BOOLEAN :
       /\ polls => results[w] = 2
       /\ RequestRefresh(polls)
       /\ wpc' = [wpc EXCEPT ![w] = IF polls THEN "refreshing" ELSE "done"]
  /\ UNCHANGED <<request, results, latest, entry, server>>

WriteEnds(w) ==
  /\ wpc[w] = "ending"
  /\ lock = WriterHolds(w)
  /\ lock' = Free
  /\ submission' = [submission EXCEPT ![w] = Outcome(results[w])]
  /\ StartCheck(w)
  /\ \E polls \in BOOLEAN :
       /\ polls => results[w] = 2
       /\ RequestRefresh(polls)
       /\ wpc' = [wpc EXCEPT ![w] = IF polls THEN "refreshing" ELSE "done"]
  /\ UNCHANGED <<request, results, latest, entry, server>>

(* The caller is cancelled while its thread is at work: the "finally" runs *)
(* and the lock is released, and the thread goes on with the stages left.  *)
WriteCancelled(w) ==
  /\ CallersCancel
  /\ wpc[w] \in {"device", "cloud"}
  /\ lock = WriterHolds(w)
  /\ lock' = Free
  /\ StartCheck(w)
  /\ UNCHANGED <<writeVars, entry, pollVars, server>>

OrphanWriteEnds(w) ==
  /\ wpc[w] = "ending"
  /\ lock # WriterHolds(w)
  /\ wpc' = [wpc EXCEPT ![w] = "done"]
  /\ UNCHANGED <<lock, forceSlow, entry, request, results, submission, latest,
                 checkVars, pollVars, server>>

(* async_send: any other command sets the flag without taking the lock.    *)
(* The refresh it asks for is one of those Tick stands for.                *)
OtherCommand ==
  /\ entry = "loaded"
  /\ forceSlow' = TRUE
  /\ UNCHANGED <<lock, entry, writeVars, checkVars, pollVars, server>>

-----------------------------------------------------------------------------
(* The poll.                                                               *)

TickFires ==
  /\ entry = "loaded"
  /\ ppc[Tick] = "idle"
  /\ ppc' = [ppc EXCEPT ![Tick] = "queued"]
  /\ UNCHANGED <<lock, forceSlow, entry, writeVars, checkVars, server,
                 cycle, readSuccess, slow, raw, snap, data, lastOk>>

NextCycleUnwrapped(c) == c + 1

NextCycle(c) == (c + 1) % SlowEvery

(* Without waiting for the lock.                                           *)
PollBeginsUnlocked(p) ==
  /\ ppc[p] = "queued"
  /\ lock' = PollHolds(p)
  /\ readSuccess' = FALSE
  /\ cycle' = NextCycle(cycle)
  /\ slow' = [slow EXCEPT ![p] = cycle' = 1 % SlowEvery \/ forceSlow]
  /\ ppc' = [ppc EXCEPT ![p] = "fast"]
  /\ UNCHANGED <<forceSlow, entry, raw, snap, data, lastOk,
                 writeVars, checkVars, server>>

(* The lock is taken and the thread decides which group it fetches.        *)
PollBegins(p) ==
  /\ ppc[p] = "queued"
  /\ lock = Free
  /\ lock' = PollHolds(p)
  /\ readSuccess' = FALSE
  /\ cycle' = NextCycle(cycle)
  /\ slow' = [slow EXCEPT ![p] = cycle' = 1 % SlowEvery \/ forceSlow]
  /\ ppc' = [ppc EXCEPT ![p] = "fast"]
  /\ UNCHANGED <<forceSlow, entry, raw, snap, data, lastOk,
                 writeVars, checkVars, server>>

(* The flag is cleared, then index2 and its companions are read; any of    *)
(* them may end the fetch.                                                 *)
PollFetchesFast(p) ==
  /\ ppc[p] = "fast"
  /\ forceSlow' = FALSE
  /\ \/ ppc' = [ppc EXCEPT ![p] = IF slow[p] THEN "read" ELSE "return"]
     \/ "fast" \in Faults /\ ppc' = [ppc EXCEPT ![p] = "fail"]
  /\ slow' = [slow EXCEPT ![p] = FALSE]
  /\ UNCHANGED <<lock, entry, cycle, readSuccess, raw, snap, data, lastOk,
                 writeVars, checkVars, server>>

(* set_list, then the rest of the slow group: a dead session ends the      *)
(* fetch, any other failure keeps what was cached.                         *)
PollReadsSettings(p) ==
  /\ ppc[p] = "read"
  /\ \/ /\ raw' = [vals |-> cloud, seen |-> Ended]
        /\ readSuccess' = TRUE
        /\ readSince' = {w \in Writes : cpc[w] = "refresh"}
     \/ "settings" \in Faults /\ UNCHANGED <<raw, readSuccess, readSince>>
  /\ \/ ppc' = [ppc EXCEPT ![p] = "return"]
     \/ "settings" \in Faults /\ ppc' = [ppc EXCEPT ![p] = "fail"]
  /\ UNCHANGED <<lock, forceSlow, entry, cycle, slow, snap, data, lastOk,
                 writeVars, readback, checkOf, cpc, round, server>>

(* A setting that is off is taken for one that is missing.                 *)
ReportedIfOn(settings, k) ==
  IF k \in Names /\ settings.vals[k] = TRUE THEN TRUE ELSE Nothing

(* What the check concludes from the refresh it waited for.                *)
Reported(settings, k) == IF k \in Names THEN settings.vals[k] ELSE Nothing

(* A successful refresh is taken for a fresh read.                         *)
VerdictFromCache(w, ok, read, since, settings) ==
  LET value == Reported(settings, KeyOf(w)) IN
  IF ~ok \/ value = Nothing THEN "unavailable"
  ELSE IF value = request[w].on THEN "matched" ELSE "mismatch"

Verdict(w, ok, read, since, settings) ==
  LET value == Reported(settings, KeyOf(w)) IN
  IF ~ok \/ ~read \/ ~since \/ value = Nothing THEN "unavailable"
  ELSE IF value = request[w].on THEN "matched" ELSE "mismatch"

Unregister(w) ==
  checkOf' = [k \in Keys |-> IF checkOf[k] = w THEN Nothing ELSE checkOf[k]]

(* The second delay is never left.                                         *)
JudgeForEver(w, verdict) ==
  /\ readback' = [readback EXCEPT ![w] = verdict]
  /\ readSince' = readSince \ {w}
  /\ round' = [round EXCEPT ![w] = 2]
  /\ cpc' = [cpc EXCEPT ![w] = "asleep"]
  /\ UNCHANGED checkOf

Judge(w, verdict) ==
  /\ readback' = [readback EXCEPT ![w] = verdict]
  /\ readSince' = readSince \ {w}
  /\ IF round[w] = 1
     THEN /\ round' = [round EXCEPT ![w] = 2]
          /\ cpc' = [cpc EXCEPT ![w] = "asleep"]
          /\ UNCHANGED checkOf
     ELSE /\ cpc' = [cpc EXCEPT ![w] = "done"]
          /\ Unregister(w)
          /\ UNCHANGED round

(* The refresh of poll p is over, and whoever awaited it goes on without a *)
(* suspension in between.                                                  *)
Resume(p, ok, settings) ==
  /\ data' = IF ok THEN settings ELSE data
  /\ lastOk' = ok
  /\ ppc' = [ppc EXCEPT ![p] = "idle"]
  /\ wpc' = [w \in Writes |-> IF p = Deb /\ wpc[w] = "refreshing"
                              THEN "done" ELSE wpc[w]]
  /\ IF p \in Writes
     THEN Judge(p, Verdict(p, ok, readSuccess, p \in readSince, data'))
     ELSE UNCHANGED checkVars
  /\ UNCHANGED <<request, results, submission, latest>>

(* Back on the event loop the lock is released.  The snapshot is published *)
(* at once, or after the trail has been saved.                             *)
PollReturns(p) ==
  /\ ppc[p] \in {"return", "fail"}
  /\ lock = PollHolds(p)
  /\ lock' = Free
  /\ \/ /\ ppc[p] = "fail"
        /\ Resume(p, FALSE, data)
        /\ UNCHANGED snap
     \/ /\ ppc[p] = "return"
        /\ Resume(p, TRUE, raw)
        /\ UNCHANGED snap
     \/ /\ ppc[p] = "return"
        /\ Mowing
        /\ ppc' = [ppc EXCEPT ![p] = "save"]
        /\ snap' = [snap EXCEPT ![p] = raw]
        /\ UNCHANGED <<data, lastOk, writeVars, checkVars>>
  /\ UNCHANGED <<forceSlow, entry, cycle, readSuccess, slow, raw, server>>

PollPublishes(p) ==
  /\ ppc[p] = "save"
  /\ Resume(p, TRUE, snap[p])
  /\ snap' = [snap EXCEPT ![p] = NoSettings]
  /\ UNCHANGED <<lock, forceSlow, entry, cycle, readSuccess, slow, raw, server>>

(* A fetch whose check was cancelled ends in its thread, unheard.          *)
OrphanFetchEnds(p) ==
  /\ ppc[p] \in {"return", "fail"}
  /\ lock # PollHolds(p)
  /\ ppc' = [ppc EXCEPT ![p] = "idle"]
  /\ UNCHANGED <<lock, forceSlow, entry, cycle, readSuccess, slow, raw, snap,
                 data, lastOk, writeVars, checkVars, server>>

-----------------------------------------------------------------------------
(* _async_check_setting.                                                   *)

(* async_refresh_settings: the generation is noted, the flag set, and the  *)
(* refresh awaited.  Once the entry is unloaded the coordinator no longer  *)
(* refreshes, and the check judges what it finds.                          *)
AskForSettings(w) ==
  /\ forceSlow' = TRUE
  /\ IF entry = "closed"
     THEN /\ Judge(w, Verdict(w, lastOk, readSuccess, FALSE, data))
          /\ UNCHANGED ppc
     ELSE /\ cpc' = [cpc EXCEPT ![w] = "refresh"]
          /\ ppc' = [ppc EXCEPT ![w] = "queued"]
          /\ UNCHANGED <<readback, round, checkOf, readSince>>

(* The delay is over: the queue is asked about the command if it has a     *)
(* number, else the settings are.                                          *)
CheckWakes(w) ==
  /\ cpc[w] = "asleep"
  /\ \/ /\ results[w] > 0
        /\ cpc' = [cpc EXCEPT ![w] = "probe"]
        /\ UNCHANGED <<forceSlow, readSince, readback, round, checkOf, ppc>>
     \/ AskForSettings(w)
  /\ UNCHANGED <<lock, entry, cycle, readSuccess, slow, raw, snap, data, lastOk,
                 writeVars, server>>

(* A reply or a NavimowError is noted and the settings are read; anything  *)
(* else ends the check.                                                    *)
CheckProbes(w) ==
  /\ cpc[w] = "probe"
  /\ \/ AskForSettings(w)
     \/ /\ "probe" \in Faults
        /\ readback' = [readback EXCEPT ![w] = "unavailable"]
        /\ cpc' = [cpc EXCEPT ![w] = "done"]
        /\ Unregister(w)
        /\ UNCHANGED <<forceSlow, readSince, round, ppc>>
  /\ UNCHANGED <<lock, entry, cycle, readSuccess, slow, raw, snap, data, lastOk,
                 writeVars, server>>

-----------------------------------------------------------------------------
(* async_unload_entry, once the platforms are gone: the checks are         *)
(* cancelled, then the client is closed.                                   *)

CancelSettingChecks ==
  /\ Unloads
  /\ entry = "loaded"
  /\ entry' = "unloading"
  /\ CancelChecks({checkOf[k] : k \in Keys})
  /\ checkOf' = [k \in Keys |-> Nothing]
  /\ lock' = IF \E w \in Writes : w \in {checkOf[k] : k \in Keys}
                                  /\ lock = PollHolds(w)
             THEN Free ELSE lock
  /\ UNCHANGED <<forceSlow, writeVars, readback, round, cycle,
                 readSuccess, slow, raw, data, lastOk, server>>

CloseClient ==
  /\ entry = "unloading"
  /\ entry' = "closed"
  /\ UNCHANGED <<lock, forceSlow, writeVars, checkVars, pollVars, server>>

(* The cloud copy of a setting the mower did not take reverts (external).  *)
CloudReverts(n) ==
  /\ cloud[n] # mower[n]
  /\ cloud' = [cloud EXCEPT ![n] = mower[n]]
  /\ UNCHANGED <<lock, forceSlow, entry, writeVars, checkVars, pollVars, mower>>

-----------------------------------------------------------------------------
WriterSteps(w) ==
  \/ WriteBegins(w) \/ DeviceStage(w) \/ CloudStage(w)
  \/ WriteEnds(w) \/ OrphanWriteEnds(w)

PollSteps(p) ==
  \/ PollBegins(p) \/ PollFetchesFast(p) \/ PollReadsSettings(p)
  \/ PollReturns(p) \/ PollPublishes(p) \/ OrphanFetchEnds(p)

CheckSteps(w) == CheckWakes(w) \/ CheckProbes(w)

Next ==
  \/ \E w \in Writes, k \in Keys, on \in BOOLEAN : WriteCalled(w, k, on)
  \/ \E w \in Writes : WriterSteps(w) \/ WriteCancelled(w) \/ CheckSteps(w)
  \/ OtherCommand
  \/ TickFires
  \/ \E p \in Polls : PollSteps(p)
  \/ CancelSettingChecks
  \/ CloseClient
  \/ \E n \in Names : CloudReverts(n)

Spec == Init /\ [][Next]_vars

(* Threads and timers make progress.  asyncio.Lock serves its waiters in   *)
(* the order they came, so a waiter that finds the lock free again and     *)
(* again does get it: fairness is strong, which for the other steps of a   *)
(* writer or a poll, once enabled always enabled, is no more than weak.    *)
Fairness ==
  /\ \A w \in Writes : SF_vars(WriterSteps(w)) /\ WF_vars(CheckSteps(w))
  /\ \A p \in Polls : SF_vars(PollSteps(p))

FairSpec == Spec /\ Fairness

-----------------------------------------------------------------------------
(* Safety.                                                                 *)

HalfDone(w) == wpc[w] = "cloud"

(* While a poll holds the lock and is reading the cloud, no write is       *)
(* between its command to the mower and its save in the cloud              *)
(* (_async_update_data: "A poll must not observe a device write before its *)
(* cloud save").                                                           *)
NoPollBetweenStages ==
  \A p \in Polls, w \in Writes :
    lock = PollHolds(p) /\ ppc[p] \in {"fast", "read"} => ~HalfDone(w)

(* A check that still runs is the one registered for its key, and belongs  *)
(* to the latest write of that key: an older write never gets a say about  *)
(* a newer one (the pop-and-cancel at the head of async_write_setting).    *)
OneCheckPerKey ==
  \A w \in Writes : Live(w) => checkOf[KeyOf(w)] = w /\ latest[KeyOf(w)] = w

(* A verdict other than "unavailable" rests on settings that were read     *)
(* from the cloud after the write had ended: a cached value proves nothing *)
(* (_async_check_setting, the generation and success comparison).          *)
Judged(w) == cpc[w] = "refresh" /\ cpc'[w] \in {"asleep", "done"}
VerdictRestsOnFreshRead ==
  [][\A w \in Writes :
       Judged(w) /\ readback'[w] \in {"matched", "mismatch"} => w \in data'.seen]_vars

(* The record of a write that a newer one has replaced is never touched    *)
(* again by its follow-up (previous.cancel in async_write_setting).        *)
Superseded(w) == submission[w] # "none" /\ latest[KeyOf(w)] # w
SupersededRecordIsFrozen ==
  [][\A w \in Writes : Superseded(w) => readback'[w] = readback[w]]_vars

(* The records implement what SettingRecords promises of them: whatever    *)
(* the lock, the polls, the tasks and the unload do, a record changes only *)
(* as its own write or, while it is the newest of its switch, one of its   *)
(* two read-backs says (async_write_setting, _async_check_setting).        *)
Looks == [w \in Writes |-> CASE cpc[w] = "none" -> 0
                             [] cpc[w] = "done" -> 2
                             [] OTHER -> round[w] - 1]

Records == INSTANCE SettingRecords WITH looks <- Looks

RecordsAreKept == Records!Spec

(* A value of the setting that was freshly and successfully read gives a   *)
(* verdict (test_readback_requires_fresh_successful_settings).             *)
ReportedValueIsJudged ==
  [][\A w \in Writes :
       /\ Judged(w) /\ lastOk' /\ readSuccess /\ w \in readSince
       /\ data'.vals[NameOf[KeyOf(w)]] # Nothing
       => readback'[w] \in {"matched", "mismatch"}]_vars

-----------------------------------------------------------------------------
(* Liveness.                                                               *)

(* Whatever became of a write, its setting is read back to the end of the  *)
(* second delay, unless a newer write or the unload takes over.            *)
EveryWriteIsReadBack ==
  \A w \in Writes :
    wpc[w] = "device" ~> cpc[w] = "done" \/ Superseded(w) \/ entry # "loaded"

(* A caller of async_write_setting gets the lock and returns: polls do not *)
(* starve it, and its own refresh does not wait for the lock it holds.     *)
EveryWriterReturns == \A w \in Writes : wpc[w] = "queued" ~> wpc[w] = "done"

(* After the unload the follow-ups die out, those of writes that were      *)
(* under way included.                                                     *)
UnloadIsFinal == entry = "closed" ~> [](\A w \in Writes : ~Live(w))

=============================================================================
