------------------------- MODULE SettingWritesProofs -------------------------
(***************************************************************************)
(* What SettingWrites guarantees for every number of writes, switches and  *)
(* polls: its types, that a poll's batch is atomic, one check per switch,  *)
(* what the settings polls read and publish mean to the checks, and that   *)
(* its records are kept as SettingRecords promises.                        *)
(***************************************************************************)
EXTENDS SettingWrites, TLAPS

(* A call under way has its key and its value.                             *)
Requested == [key : Keys, on : BOOLEAN]
RequestInv == \A w \in Writes : wpc[w] # "idle" => request[w] \in Requested

-----------------------------------------------------------------------------
(* The types of what the actions compute.                                  *)

LEMMA CycleType ==
  /\ 1 % SlowEvery \in 0..(SlowEvery - 1)
  /\ \A c \in 0..(SlowEvery - 1) : NextCycle(c) \in 0..(SlowEvery - 1)
BY ConstantsAssumption DEF NextCycle

LEMMA SettingsType ==
  /\ NoSettings \in Settings
  /\ TypeOK => [vals |-> cloud, seen |-> Ended] \in Settings
  /\ TypeOK => [vals |-> cloud, seen |-> {}] \in Settings
BY DEF NoSettings, Settings, Values, TypeOK, Ended

LEMMA VerdictType ==
  ASSUME NEW w, NEW ok, NEW read, NEW since, NEW settings
  PROVE  Verdict(w, ok, read, since, settings) \in Verdicts
BY DEF Verdict, Verdicts

LEMMA JudgeType ==
  ASSUME TypeOK, NEW w \in Writes, NEW v \in Verdicts, Judge(w, v)
  PROVE  /\ readback' \in [Writes -> Verdicts]
         /\ checkOf' \in [Keys -> Writes \union {Nothing}]
         /\ cpc' \in [Writes -> CheckAt]
         /\ round' \in [Writes -> 1..2]
         /\ readSince' \subseteq Writes
BY DEF Judge, Unregister, TypeOK, CheckAt

LEMMA ResumeType ==
  ASSUME TypeOK, RequestInv, NEW p \in Polls, NEW ok \in BOOLEAN,
         NEW settings \in Settings, Resume(p, ok, settings)
  PROVE  /\ data' \in Settings
         /\ lastOk' \in BOOLEAN
         /\ ppc' \in [Polls -> PollAt]
         /\ wpc' \in [Writes -> WriterAt]
         /\ \A w \in Writes : wpc'[w] # "idle" => wpc[w] # "idle"
         /\ readback' \in [Writes -> Verdicts]
         /\ checkOf' \in [Keys -> Writes \union {Nothing}]
         /\ cpc' \in [Writes -> CheckAt]
         /\ round' \in [Writes -> 1..2]
         /\ readSince' \subseteq Writes
         /\ UNCHANGED <<request, results, submission, latest>>
<1>1. /\ data' \in Settings
      /\ lastOk' \in BOOLEAN
      /\ ppc' \in [Polls -> PollAt]
      /\ wpc' \in [Writes -> WriterAt]
      /\ \A w \in Writes : wpc'[w] # "idle" => wpc[w] # "idle"
      /\ UNCHANGED <<request, results, submission, latest>>
  BY DEF Resume, TypeOK, PollAt, WriterAt
<1>2. CASE p \in Writes
  <2>1. Judge(p, Verdict(p, ok, readSuccess, p \in readSince, data'))
    BY <1>2 DEF Resume
  <2>2. QED
    BY <1>1, <1>2, <2>1, VerdictType, JudgeType
<1>3. CASE p \notin Writes
  BY <1>1, <1>3 DEF Resume, checkVars, TypeOK
<1>4. QED
  BY <1>2, <1>3

LEMMA AskForSettingsType ==
  ASSUME TypeOK, NEW w \in Writes, AskForSettings(w)
  PROVE  /\ forceSlow' \in BOOLEAN
         /\ readback' \in [Writes -> Verdicts]
         /\ checkOf' \in [Keys -> Writes \union {Nothing}]
         /\ cpc' \in [Writes -> CheckAt]
         /\ round' \in [Writes -> 1..2]
         /\ readSince' \subseteq Writes
         /\ ppc' \in [Polls -> PollAt]
<1>1. CASE entry = "closed"
  BY <1>1, VerdictType, JudgeType DEF AskForSettings, TypeOK
<1>2. CASE entry # "closed"
  BY <1>2 DEF AskForSettings, TypeOK, CheckAt, PollAt
<1>3. QED
  BY <1>1, <1>2

(* Every variable keeps its type: the state described in SettingWrites is  *)
(* the one async_write_setting, its checks and the polls maintain.         *)
THEOREM TypeCorrect == Spec => [](TypeOK /\ RequestInv)
<1>1. Init => TypeOK /\ RequestInv
  <2> SUFFICES ASSUME Init PROVE TypeOK /\ RequestInv
    OBVIOUS
  <2> USE DEF Init
  <2>1. cloud \in [Names -> BOOLEAN] /\ mower \in [Names -> BOOLEAN]
    OBVIOUS
  <2>2. raw \in Settings /\ data \in Settings
    <3>1. [vals |-> cloud, seen |-> {}] \in Settings
      BY <2>1 DEF Settings, Values
    <3>2. QED
      BY <3>1, SettingsType
  <2>3. /\ lock \in {Free}
        /\ wpc \in [Writes -> WriterAt] /\ cpc \in [Writes -> CheckAt]
        /\ ppc \in [Polls -> PollAt] /\ snap \in [Polls -> Settings]
        /\ readback \in [Writes -> Verdicts] /\ cycle \in 0..(SlowEvery - 1)
    BY CycleType, SettingsType DEF WriterAt, CheckAt, PollAt, Verdicts
  <2>4. RequestInv
    BY DEF RequestInv
  <2>5. /\ request \in [Writes -> [key : Keys, on : BOOLEAN] \union {Nothing}]
        /\ latest \in [Keys -> Writes \union {Nothing}]
        /\ checkOf \in [Keys -> Writes \union {Nothing}]
    OBVIOUS
  <2>6. /\ results \in [Writes -> 0..2] /\ round \in [Writes -> 1..2]
        /\ submission \in [Writes -> {"none", "pending", "submitted",
                                      "partial_failure", "failed"}]
    OBVIOUS
  <2>7. slow \in [Polls -> BOOLEAN]
    OBVIOUS
  <2>8. readSuccess \in BOOLEAN
    OBVIOUS
  <2>9. QED
    BY <2>1, <2>2, <2>3, <2>4, <2>5, <2>6, <2>7, <2>8 DEF TypeOK
<1>2. TypeOK /\ RequestInv /\ [Next]_vars => (TypeOK /\ RequestInv)'
  <2> SUFFICES ASSUME TypeOK, RequestInv, [Next]_vars
               PROVE  (TypeOK /\ RequestInv)'
    OBVIOUS
  <2> USE DEF TypeOK, RequestInv, Requested, WriterAt, CheckAt, PollAt, KeyOf
  <2>1. ASSUME NEW w \in Writes, NEW k \in Keys, NEW on \in BOOLEAN,
               WriteCalled(w, k, on)
        PROVE  (TypeOK /\ RequestInv)'
    BY <2>1 DEF WriteCalled, checkVars, pollVars, server
  <2>2. ASSUME NEW w \in Writes, WriteBegins(w)
        PROVE  (TypeOK /\ RequestInv)'
    BY <2>2, SettingsType DEF WriteBegins, CancelChecks, server
  <2>3. ASSUME NEW w \in Writes, DeviceStage(w)
        PROVE  (TypeOK /\ RequestInv)'
    BY <2>3, ConstantsAssumption DEF DeviceStage, checkVars, pollVars
  <2>4. ASSUME NEW w \in Writes, CloudStage(w)
        PROVE  (TypeOK /\ RequestInv)'
    BY <2>4, ConstantsAssumption DEF CloudStage, checkVars, pollVars
  <2>5. ASSUME NEW w \in Writes, WriteEnds(w)
        PROVE  (TypeOK /\ RequestInv)'
    <3>1. Outcome(results[w]) \in {"submitted", "partial_failure", "failed"}
      BY DEF Outcome
    <3>2. QED
      BY <2>5, <3>1 DEF WriteEnds, StartCheck, RequestRefresh, server
  <2>6. ASSUME NEW w \in Writes, OrphanWriteEnds(w)
        PROVE  (TypeOK /\ RequestInv)'
    BY <2>6 DEF OrphanWriteEnds, checkVars, pollVars, server
  <2>7. ASSUME NEW w \in Writes, WriteCancelled(w)
        PROVE  (TypeOK /\ RequestInv)'
    BY <2>7 DEF WriteCancelled, StartCheck, writeVars, pollVars, server
  <2>8. ASSUME NEW w \in Writes, CheckWakes(w)
        PROVE  (TypeOK /\ RequestInv)'
    <3>1. CASE AskForSettings(w)
      BY <2>8, <3>1, AskForSettingsType DEF CheckWakes, writeVars, server
    <3>2. CASE ~AskForSettings(w)
      BY <2>8, <3>2 DEF CheckWakes, Unregister, Verdicts, writeVars, server
    <3>3. QED
      BY <3>1, <3>2
  <2>9. ASSUME NEW w \in Writes, CheckProbes(w)
        PROVE  (TypeOK /\ RequestInv)'
    <3>1. CASE AskForSettings(w)
      BY <2>9, <3>1, AskForSettingsType DEF CheckProbes, writeVars, server
    <3>2. CASE ~AskForSettings(w)
      BY <2>9, <3>2 DEF CheckProbes, Unregister, Verdicts, writeVars, server
    <3>3. QED
      BY <3>1, <3>2
  <2>10. CASE OtherCommand
    BY <2>10 DEF OtherCommand, writeVars, checkVars, pollVars, server
  <2>11. CASE TickFires
    BY <2>11 DEF TickFires, writeVars, checkVars, server
  <2>12. ASSUME NEW p \in Polls, PollBegins(p)
         PROVE  (TypeOK /\ RequestInv)'
    BY <2>12, CycleType DEF PollBegins, writeVars, checkVars, server
  <2>13. ASSUME NEW p \in Polls, PollFetchesFast(p)
         PROVE  (TypeOK /\ RequestInv)'
    BY <2>13 DEF PollFetchesFast, writeVars, checkVars, server
  <2>14. ASSUME NEW p \in Polls, PollReadsSettings(p)
         PROVE  (TypeOK /\ RequestInv)'
    BY <2>14, SettingsType DEF PollReadsSettings, writeVars, server
  <2>15. ASSUME NEW p \in Polls, PollReturns(p)
         PROVE  (TypeOK /\ RequestInv)'
    <3> USE <2>15 DEF PollReturns, server
    <3>1. CASE Resume(p, FALSE, data) /\ UNCHANGED snap
      <4>1. data \in Settings
        OBVIOUS
      <4>2. QED
        BY <3>1, <4>1, ResumeType
    <3>2. CASE Resume(p, TRUE, raw) /\ UNCHANGED snap
      <4>1. raw \in Settings
        OBVIOUS
      <4>2. QED
        BY <3>2, <4>1, ResumeType
    <3>3. CASE /\ ppc' = [ppc EXCEPT ![p] = "save"]
               /\ snap' = [snap EXCEPT ![p] = raw]
               /\ UNCHANGED <<data, lastOk, writeVars, checkVars>>
      BY <3>3 DEF writeVars, checkVars
    <3>4. QED
      BY <3>1, <3>2, <3>3
  <2>16. ASSUME NEW p \in Polls, PollPublishes(p)
         PROVE  (TypeOK /\ RequestInv)'
    BY <2>16, ResumeType, SettingsType DEF PollPublishes, server
  <2>17. ASSUME NEW p \in Polls, OrphanFetchEnds(p)
         PROVE  (TypeOK /\ RequestInv)'
    BY <2>17 DEF OrphanFetchEnds, writeVars, checkVars, server
  <2>18. CASE CancelSettingChecks
    BY <2>18, SettingsType DEF CancelSettingChecks, CancelChecks, writeVars, server
  <2>19. CASE CloseClient
    BY <2>19 DEF CloseClient, writeVars, checkVars, pollVars, server
  <2>20. ASSUME NEW n \in Names, CloudReverts(n)
         PROVE  (TypeOK /\ RequestInv)'
    BY <2>20 DEF CloudReverts, writeVars, checkVars, pollVars
  <2>21. CASE UNCHANGED vars
    BY <2>21 DEF vars, writeVars, checkVars, pollVars, server
  <2>22. QED
    BY <2>1, <2>2, <2>3, <2>4, <2>5, <2>6, <2>7, <2>8, <2>9, <2>10, <2>11, <2>12,
       <2>13, <2>14, <2>15, <2>16, <2>17, <2>18, <2>19, <2>20, <2>21
    DEF Next, WriterSteps, PollSteps, CheckSteps
<1>3. QED
  BY <1>1, <1>2, PTL DEF Spec

-----------------------------------------------------------------------------
(* The lock.                                                               *)

LEMMA HoldersDiffer ==
  /\ \A w \in Writes : WriterHolds(w) # Free
  /\ \A p \in Polls : PollHolds(p) # Free
  /\ \A w \in Writes, p \in Polls : WriterHolds(w) # PollHolds(p)
  /\ \A v, w \in Writes : WriterHolds(v) = WriterHolds(w) => v = w
  /\ \A p, q \in Polls : PollHolds(p) = PollHolds(q) => p = q
BY DEF WriterHolds, PollHolds, Free

(* A write whose thread is at work holds the lock, as long as no caller is *)
(* cancelled.                                                              *)
LockInv ==
  \A w \in Writes : wpc[w] \in {"device", "cloud", "ending"} => lock = WriterHolds(w)

LEMMA LockInvariant ==
  ASSUME CallersCancel = FALSE
  PROVE  Spec => []LockInv
<1>1. Init => LockInv
  BY DEF Init, LockInv
<1>2. TypeOK /\ LockInv /\ [Next]_vars => LockInv'
  <2> SUFFICES ASSUME TypeOK, LockInv, [Next]_vars
               PROVE  LockInv'
    OBVIOUS
  <2> USE HoldersDiffer DEF TypeOK, LockInv
  <2>1. ASSUME NEW w \in Writes, NEW k \in Keys, NEW on \in BOOLEAN,
               WriteCalled(w, k, on)
        PROVE  LockInv'
    BY <2>1 DEF WriteCalled
  <2>2. ASSUME NEW w \in Writes, WriteBegins(w)
        PROVE  LockInv'
    BY <2>2 DEF WriteBegins
  <2>3. ASSUME NEW w \in Writes, DeviceStage(w)
        PROVE  LockInv'
    BY <2>3 DEF DeviceStage
  <2>4. ASSUME NEW w \in Writes, CloudStage(w)
        PROVE  LockInv'
    BY <2>4 DEF CloudStage
  <2>5. ASSUME NEW w \in Writes, WriteEnds(w)
        PROVE  LockInv'
    BY <2>5 DEF WriteEnds
  <2>6. ASSUME NEW w \in Writes, OrphanWriteEnds(w)
        PROVE  LockInv'
    BY <2>6 DEF OrphanWriteEnds
  <2>7. ASSUME NEW w \in Writes, WriteCancelled(w)
        PROVE  LockInv'
    BY <2>7, CallersCancel = FALSE DEF WriteCancelled
  <2>8. ASSUME NEW w \in Writes, CheckWakes(w) \/ CheckProbes(w)
        PROVE  LockInv'
    BY <2>8 DEF CheckWakes, CheckProbes, writeVars
  <2>9. CASE OtherCommand \/ TickFires \/ CloseClient
    BY <2>9 DEF OtherCommand, TickFires, CloseClient, writeVars
  <2>10. ASSUME NEW p \in Polls, PollBegins(p)
         PROVE  LockInv'
    BY <2>10 DEF PollBegins, writeVars
  <2>11. ASSUME NEW p \in Polls,
                PollFetchesFast(p) \/ PollReadsSettings(p) \/ OrphanFetchEnds(p)
         PROVE  LockInv'
    BY <2>11 DEF PollFetchesFast, PollReadsSettings, OrphanFetchEnds, writeVars
  <2>12. ASSUME NEW p \in Polls, PollReturns(p)
         PROVE  LockInv'
    <3>1. \A w \in Writes : wpc'[w] \in {"device", "cloud", "ending"} => wpc'[w] = wpc[w]
      BY <2>12 DEF PollReturns, Resume, writeVars
    <3>2. QED
      BY <2>12, <3>1 DEF PollReturns
  <2>13. ASSUME NEW p \in Polls, PollPublishes(p)
         PROVE  LockInv'
    BY <2>13 DEF PollPublishes, Resume
  <2>14. CASE CancelSettingChecks
    <3>1. lock = lock' \/ \E v \in Writes : lock = PollHolds(v)
      BY <2>14 DEF CancelSettingChecks
    <3>2. QED
      BY <2>14, <3>1 DEF CancelSettingChecks, writeVars, Polls
  <2>15. ASSUME NEW n \in Names, CloudReverts(n)
         PROVE  LockInv'
    BY <2>15 DEF CloudReverts, writeVars
  <2>16. CASE UNCHANGED vars
    BY <2>16 DEF vars, writeVars
  <2>17. QED
    BY <2>1, <2>2, <2>3, <2>4, <2>5, <2>6, <2>7, <2>8, <2>9, <2>10, <2>11, <2>12,
       <2>13, <2>14, <2>15, <2>16
    DEF Next, WriterSteps, PollSteps, CheckSteps
<1>3. QED
  BY <1>1, <1>2, TypeCorrect, PTL DEF Spec

(* A poll never reads the cloud between the two stages of a write, for any *)
(* number of writes and polls: the reason _async_update_data gives for     *)
(* taking _setting_write_lock.                                             *)
THEOREM BatchesAreAtomic ==
  ASSUME CallersCancel = FALSE
  PROVE  Spec => []NoPollBetweenStages
<1>1. LockInv => NoPollBetweenStages
  BY HoldersDiffer DEF LockInv, NoPollBetweenStages, HalfDone
<1>2. QED
  BY <1>1, LockInvariant, PTL

-----------------------------------------------------------------------------
(* The checks.                                                             *)

(* A check belongs to a write that has begun.                              *)
StartedInv == \A w \in Writes : cpc[w] # "none" => wpc[w] \notin {"idle", "queued"}

(* The write that holds the lock is the latest of its key, and the check   *)
(* registered before it is gone.                                           *)
HolderInv ==
  \A w \in Writes : lock = WriterHolds(w) =>
    /\ wpc[w] \in {"device", "cloud", "ending"}
    /\ latest[KeyOf(w)] = w
    /\ checkOf[KeyOf(w)] = Nothing

(* A check waits for the polls it makes, but for a fetch it left behind.   *)
AwaitedInv ==
  \A w \in Writes :
    ppc[w] \in {"queued", "save"} \/ lock = PollHolds(w) => cpc[w] = "refresh"

CheckInv == StartedInv /\ OneCheckPerKey /\ HolderInv /\ AwaitedInv

(* A poll saves the trail without the lock.                                *)
SaveInv == \A p \in Polls : lock = PollHolds(p) => ppc[p] # "save"

LEMMA SavesUnlocked == Spec => []SaveInv
<1>1. Init => SaveInv
  BY HoldersDiffer DEF Init, SaveInv
<1>2. TypeOK /\ SaveInv /\ [Next]_vars => SaveInv'
  <2> SUFFICES ASSUME TypeOK, SaveInv, [Next]_vars, NEW p \in Polls,
                      lock' = PollHolds(p)
               PROVE  ppc'[p] # "save"
    BY DEF SaveInv
  <2> USE HoldersDiffer DEF TypeOK, SaveInv, Polls
  <2>1. ASSUME NEW w \in Writes, NEW k \in Keys, NEW on \in BOOLEAN,
               WriteCalled(w, k, on)
        PROVE  ppc'[p] # "save"
    BY <2>1 DEF WriteCalled, pollVars
  <2>2. ASSUME NEW w \in Writes, WriterSteps(w)
        PROVE  ppc'[p] # "save"
    BY <2>2 DEF WriterSteps, WriteBegins, DeviceStage, CloudStage, WriteEnds,
                OrphanWriteEnds, RequestRefresh, pollVars
  <2>3. ASSUME NEW w \in Writes, WriteCancelled(w)
        PROVE  ppc'[p] # "save"
    BY <2>3 DEF WriteCancelled
  <2>4. ASSUME NEW w \in Writes, CheckSteps(w)
        PROVE  ppc'[p] # "save"
    BY <2>4 DEF CheckSteps, CheckWakes, CheckProbes, AskForSettings
  <2>5. CASE OtherCommand \/ TickFires \/ CloseClient
    BY <2>5 DEF OtherCommand, TickFires, CloseClient, pollVars
  <2>6. ASSUME NEW q \in Polls, PollSteps(q)
        PROVE  ppc'[p] # "save"
    BY <2>6 DEF PollSteps, PollBegins, PollFetchesFast, PollReadsSettings,
                PollReturns, PollPublishes, OrphanFetchEnds, Resume
  <2>7. CASE CancelSettingChecks
    BY <2>7 DEF CancelSettingChecks, CancelChecks
  <2>8. CASE (\E n \in Names : CloudReverts(n)) \/ UNCHANGED vars
    BY <2>8 DEF CloudReverts, vars, pollVars
  <2>9. QED
    BY <2>1, <2>2, <2>3, <2>4, <2>5, <2>6, <2>7, <2>8 DEF Next
<1>3. QED
  BY <1>1, <1>2, TypeCorrect, PTL DEF Spec

(* The keys of writes that have begun are keys, and stay what they are.    *)
LEMMA KeysStay ==
  ASSUME TypeOK, RequestInv, NEW w \in Writes, wpc[w] # "idle"
  PROVE  KeyOf(w) \in Keys
BY DEF RequestInv, Requested, KeyOf

LEMMA NothingIsNoWrite == Nothing \notin Writes
BY ConstantsAssumption

(* What the polls and the checks themselves do to the checks: only live    *)
(* ones move, and one that is unregistered is over.                        *)
ChecksDrift ==
  /\ \A w \in Writes : cpc'[w] = cpc[w] \/ (Live(w) /\ cpc'[w] # "none")
  /\ \A k \in Keys : \/ checkOf'[k] = checkOf[k]
                    \/ /\ checkOf'[k] = Nothing
                       /\ \A w \in Writes : w = checkOf[k] => ~Live(w)'
  /\ \A w \in Writes : wpc'[w] = wpc[w] \/ (wpc[w] = "refreshing" /\ wpc'[w] = "done")
  /\ UNCHANGED <<request, latest>>
  /\ lock' \in {lock, Free}

LEMMA DriftKeeps ==
  ASSUME TypeOK, RequestInv, CheckInv, ChecksDrift
  PROVE  StartedInv' /\ OneCheckPerKey' /\ HolderInv'
<1> USE KeysStay, NothingIsNoWrite, HoldersDiffer DEF ChecksDrift, CheckInv
<1>1. StartedInv'
  BY DEF StartedInv, Live
<1>2. OneCheckPerKey'
  <2> SUFFICES ASSUME NEW w \in Writes, Live(w)'
               PROVE  (checkOf[KeyOf(w)] = w /\ latest[KeyOf(w)] = w)'
    BY DEF OneCheckPerKey
  <2>1. Live(w) /\ wpc[w] # "idle" /\ KeyOf(w)' = KeyOf(w)
    BY DEF Live, StartedInv, KeyOf
  <2>2. KeyOf(w) \in Keys /\ checkOf[KeyOf(w)] = w /\ latest[KeyOf(w)] = w
    BY <2>1 DEF OneCheckPerKey
  <2>3. QED
    BY <2>1, <2>2
<1>3. HolderInv'
  <2> SUFFICES ASSUME NEW w \in Writes, lock' = WriterHolds(w)
               PROVE  /\ wpc'[w] \in {"device", "cloud", "ending"}
                      /\ (latest[KeyOf(w)] = w)'
                      /\ (checkOf[KeyOf(w)] = Nothing)'
    BY DEF HolderInv
  <2>1. lock = WriterHolds(w) /\ KeyOf(w)' = KeyOf(w)
    BY DEF KeyOf
  <2>2. /\ wpc[w] \in {"device", "cloud", "ending"}
        /\ latest[KeyOf(w)] = w
        /\ checkOf[KeyOf(w)] = Nothing
    BY <2>1 DEF HolderInv
  <2>3. KeyOf(w) \in Keys
    BY <2>2
  <2>4. QED
    BY <2>1, <2>2, <2>3
<1>4. QED
  BY <1>1, <1>2, <1>3

LEMMA JudgeDrifts ==
  ASSUME TypeOK, NEW w \in Writes, NEW v, Judge(w, v)
  PROVE  /\ \A u \in Writes : cpc'[u] = cpc[u] \/ (u = w /\ cpc'[u] \in {"asleep", "done"})
         /\ \A k \in Keys : \/ checkOf'[k] = checkOf[k]
                           \/ /\ checkOf'[k] = Nothing
                              /\ checkOf[k] = w /\ cpc'[w] = "done"
BY DEF Judge, Unregister, TypeOK

LEMMA ResumeDrifts ==
  ASSUME TypeOK, RequestInv, CheckInv, NEW p \in Polls,
         ppc[p] = "save" \/ lock = PollHolds(p), lock' \in {lock, Free},
         lock = PollHolds(p) => lock' = Free,
         NEW ok \in BOOLEAN, NEW settings \in Settings, Resume(p, ok, settings)
  PROVE  ChecksDrift /\ AwaitedInv'
<1> USE HoldersDiffer DEF CheckInv, TypeOK
<1>1. CASE p \in Writes
  <2>1. Judge(p, Verdict(p, ok, readSuccess, p \in readSince, data')) /\ cpc[p] = "refresh"
    BY <1>1 DEF Resume, AwaitedInv
  <2>2. ChecksDrift
    BY <1>1, <2>1, JudgeDrifts DEF ChecksDrift, Resume, Live
  <2>3. AwaitedInv'
    BY <1>1, <2>1, JudgeDrifts DEF AwaitedInv, Resume, Polls
  <2>4. QED
    BY <2>2, <2>3
<1>2. CASE p \notin Writes
  <2>1. ChecksDrift
    BY <1>2 DEF ChecksDrift, Resume, checkVars
  <2>2. AwaitedInv'
    BY <1>2 DEF AwaitedInv, Resume, checkVars, Polls
  <2>3. QED
    BY <2>1, <2>2
<1>3. QED
  BY <1>1, <1>2

LEMMA CheckInvariant == Spec => [](TypeOK /\ RequestInv /\ CheckInv)
<1>1. Init => CheckInv
  BY HoldersDiffer
  DEF Init, CheckInv, StartedInv, HolderInv, AwaitedInv, OneCheckPerKey, Live, Polls
<1>2. TypeOK /\ RequestInv /\ SaveInv /\ CheckInv /\ [Next]_vars => CheckInv'
  <2> SUFFICES ASSUME TypeOK, RequestInv, SaveInv, CheckInv, [Next]_vars
               PROVE  CheckInv'
    OBVIOUS
  <2> USE DEF TypeOK, CheckInv
  <2>1. ASSUME NEW w \in Writes, NEW k \in Keys, NEW on \in BOOLEAN,
               WriteCalled(w, k, on)
        PROVE  CheckInv'
    BY <2>1, HoldersDiffer, ConstantsAssumption
    DEF WriteCalled, checkVars, pollVars,
        StartedInv, OneCheckPerKey, HolderInv, AwaitedInv, Live, KeyOf, Polls
  <2>2. ASSUME NEW w \in Writes, WriteBegins(w)
        PROVE  CheckInv'
    <3> USE <2>2, HoldersDiffer, KeysStay, NothingIsNoWrite
        DEF WriteBegins, CancelChecks
    <3>1. /\ KeyOf(w) \in Keys
          /\ \A u \in Writes : KeyOf(u)' = KeyOf(u)
      BY DEF KeyOf
    <3>2. StartedInv'
      BY DEF StartedInv, Live
    <3>3. OneCheckPerKey'
      <4> SUFFICES ASSUME NEW u \in Writes, Live(u)'
                   PROVE  (checkOf[KeyOf(u)] = u /\ latest[KeyOf(u)] = u)'
        BY DEF OneCheckPerKey
      <4>1. Live(u) /\ u # checkOf[KeyOf(w)]
        BY DEF Live
      <4>2. checkOf[KeyOf(u)] = u /\ latest[KeyOf(u)] = u /\ KeyOf(u) # KeyOf(w)
        BY <4>1 DEF OneCheckPerKey
      <4>3. QED
        BY <3>1, <4>2
    <3>4. HolderInv'
      <4> SUFFICES ASSUME NEW u \in Writes, lock' = WriterHolds(u)
                   PROVE  /\ wpc'[u] \in {"device", "cloud", "ending"}
                          /\ (latest[KeyOf(u)] = u)'
                          /\ (checkOf[KeyOf(u)] = Nothing)'
        BY DEF HolderInv
      <4>1. u = w
        OBVIOUS
      <4>2. wpc'[w] = "device" /\ latest'[KeyOf(w)] = w /\ checkOf'[KeyOf(w)] = Nothing
        BY <3>1
      <4>3. QED
        BY <4>1, <4>2, <3>1
    <3>5. AwaitedInv'
      BY ConstantsAssumption DEF AwaitedInv, Polls
    <3>6. QED
      BY <3>2, <3>3, <3>4, <3>5
  <2>3. ASSUME NEW w \in Writes, DeviceStage(w)
        PROVE  CheckInv'
    BY <2>3, HoldersDiffer, ConstantsAssumption
    DEF DeviceStage, checkVars, pollVars,
        StartedInv, OneCheckPerKey, HolderInv, AwaitedInv, Live, KeyOf, Polls
  <2>4. ASSUME NEW w \in Writes, CloudStage(w)
        PROVE  CheckInv'
    BY <2>4, HoldersDiffer, ConstantsAssumption
    DEF CloudStage, checkVars, pollVars,
        StartedInv, OneCheckPerKey, HolderInv, AwaitedInv, Live, KeyOf, Polls
  <2>5. ASSUME NEW w \in Writes, WriteEnds(w)
        PROVE  CheckInv'
    <3> USE <2>5, HoldersDiffer, KeysStay, NothingIsNoWrite
        DEF WriteEnds, StartCheck, RequestRefresh
    <3>1. /\ KeyOf(w) \in Keys
          /\ checkOf[KeyOf(w)] = Nothing
          /\ latest[KeyOf(w)] = w
          /\ \A u \in Writes : KeyOf(u)' = KeyOf(u)
          /\ latest' = latest /\ lock' = Free
          /\ checkOf' = [checkOf EXCEPT ![KeyOf(w)] = w]
          /\ cpc' = [cpc EXCEPT ![w] = "asleep"]
      BY DEF HolderInv, KeyOf
    <3>2. ~Live(w)
      BY <3>1 DEF OneCheckPerKey
    <3>3. StartedInv'
      BY DEF StartedInv
    <3>4. OneCheckPerKey'
      <4> SUFFICES ASSUME NEW u \in Writes, Live(u)'
                   PROVE  (checkOf[KeyOf(u)] = u /\ latest[KeyOf(u)] = u)'
        BY DEF OneCheckPerKey
      <4>1. CASE u = w
        BY <4>1, <3>1
      <4>2. CASE u # w
        <5>1. Live(u)
          BY <4>2, <3>1 DEF Live
        <5>2. checkOf[KeyOf(u)] = u /\ latest[KeyOf(u)] = u /\ KeyOf(u) # KeyOf(w)
          BY <5>1, <3>1 DEF OneCheckPerKey
        <5>3. QED
          BY <5>2, <3>1
      <4>3. QED
        BY <4>1, <4>2
    <3>5. HolderInv'
      BY <3>1 DEF HolderInv
    <3>6. AwaitedInv'
      <4> SUFFICES ASSUME NEW u \in Writes,
                          (ppc[u] \in {"queued", "save"} \/ lock = PollHolds(u))'
                   PROVE  cpc'[u] = "refresh"
        BY DEF AwaitedInv
      <4>1. ppc[u] \in {"queued", "save"}
        BY <3>1, ConstantsAssumption DEF Polls
      <4>2. cpc[u] = "refresh" /\ u # w
        BY <4>1, <3>2 DEF AwaitedInv, Live
      <4>3. QED
        BY <4>2, <3>1
    <3>7. QED
      BY <3>3, <3>4, <3>5, <3>6
  <2>6. ASSUME NEW w \in Writes, OrphanWriteEnds(w)
        PROVE  CheckInv'
    BY <2>6, HoldersDiffer, ConstantsAssumption
    DEF OrphanWriteEnds, checkVars, pollVars,
        StartedInv, OneCheckPerKey, HolderInv, AwaitedInv, Live, KeyOf, Polls
  <2>7. ASSUME NEW w \in Writes, WriteCancelled(w)
        PROVE  CheckInv'
    <3> USE <2>7, HoldersDiffer, KeysStay, NothingIsNoWrite
        DEF WriteCancelled, StartCheck, writeVars, pollVars
    <3>1. /\ KeyOf(w) \in Keys
          /\ checkOf[KeyOf(w)] = Nothing
          /\ latest[KeyOf(w)] = w
          /\ \A u \in Writes : KeyOf(u)' = KeyOf(u)
          /\ latest' = latest /\ lock' = Free
          /\ checkOf' = [checkOf EXCEPT ![KeyOf(w)] = w]
          /\ cpc' = [cpc EXCEPT ![w] = "asleep"]
      BY DEF HolderInv, KeyOf
    <3>2. ~Live(w)
      BY <3>1 DEF OneCheckPerKey
    <3>3. StartedInv'
      BY DEF StartedInv
    <3>4. OneCheckPerKey'
      <4> SUFFICES ASSUME NEW u \in Writes, Live(u)'
                   PROVE  (checkOf[KeyOf(u)] = u /\ latest[KeyOf(u)] = u)'
        BY DEF OneCheckPerKey
      <4>1. CASE u = w
        BY <4>1, <3>1
      <4>2. CASE u # w
        <5>1. Live(u)
          BY <4>2, <3>1 DEF Live
        <5>2. checkOf[KeyOf(u)] = u /\ latest[KeyOf(u)] = u /\ KeyOf(u) # KeyOf(w)
          BY <5>1, <3>1 DEF OneCheckPerKey
        <5>3. QED
          BY <5>2, <3>1
      <4>3. QED
        BY <4>1, <4>2
    <3>5. HolderInv'
      BY <3>1 DEF HolderInv
    <3>6. AwaitedInv'
      <4> SUFFICES ASSUME NEW u \in Writes,
                          (ppc[u] \in {"queued", "save"} \/ lock = PollHolds(u))'
                   PROVE  cpc'[u] = "refresh"
        BY DEF AwaitedInv
      <4>1. ppc[u] \in {"queued", "save"}
        BY <3>1 DEF Polls
      <4>2. cpc[u] = "refresh" /\ u # w
        BY <4>1, <3>2 DEF AwaitedInv, Live
      <4>3. QED
        BY <4>2, <3>1
    <3>7. QED
      BY <3>3, <3>4, <3>5, <3>6
  <2>8. ASSUME NEW w \in Writes, CheckWakes(w)
        PROVE  CheckInv'
    <3>1. ChecksDrift /\ AwaitedInv'
      <4>1. CASE AskForSettings(w) /\ entry = "closed"
        <5>1. \E v \in Verdicts : Judge(w, v)
          BY <4>1, VerdictType DEF AskForSettings
        <5>2. QED
          BY <2>8, <4>1, <5>1, JudgeDrifts
          DEF CheckWakes, AskForSettings, ChecksDrift, AwaitedInv, Live, writeVars
      <4>2. CASE ~(AskForSettings(w) /\ entry = "closed")
        BY <2>8, <4>2
        DEF CheckWakes, AskForSettings, ChecksDrift, AwaitedInv, Live, writeVars, Polls
      <4>3. QED
        BY <4>1, <4>2
    <3>2. QED
      BY <3>1, DriftKeeps
  <2>9. ASSUME NEW w \in Writes, CheckProbes(w)
        PROVE  CheckInv'
    <3>1. ChecksDrift /\ AwaitedInv'
      <4>1. CASE AskForSettings(w) /\ entry = "closed"
        <5>1. \E v \in Verdicts : Judge(w, v)
          BY <4>1, VerdictType DEF AskForSettings
        <5>2. QED
          BY <2>9, <4>1, <5>1, JudgeDrifts
          DEF CheckProbes, AskForSettings, ChecksDrift, AwaitedInv, Live, writeVars
      <4>2. CASE AskForSettings(w) /\ entry # "closed"
        BY <2>9, <4>2
        DEF CheckProbes, AskForSettings, ChecksDrift, AwaitedInv, Live, writeVars, Polls
      <4>3. CASE ~AskForSettings(w)
        <5>1. /\ cpc[w] = "probe" /\ cpc' = [cpc EXCEPT ![w] = "done"]
              /\ checkOf' = [k \in Keys |-> IF checkOf[k] = w THEN Nothing ELSE checkOf[k]]
              /\ UNCHANGED <<ppc, lock, wpc, request, latest>>
          BY <2>9, <4>3 DEF CheckProbes, Unregister, writeVars
        <5>2. ChecksDrift
          BY <5>1 DEF ChecksDrift, Live
        <5>3. AwaitedInv'
          BY <5>1 DEF AwaitedInv
        <5>4. QED
          BY <5>2, <5>3
      <4>4. QED
        BY <4>1, <4>2, <4>3
    <3>2. QED
      BY <3>1, DriftKeeps
  <2>10. CASE OtherCommand \/ CloseClient
    BY <2>10, HoldersDiffer, ConstantsAssumption
    DEF OtherCommand, CloseClient, writeVars, checkVars, pollVars,
        StartedInv, OneCheckPerKey, HolderInv, AwaitedInv, Live, KeyOf, Polls
  <2>11. ASSUME NEW p \in Polls, PollBegins(p)
        PROVE  CheckInv'
    BY <2>11, HoldersDiffer, ConstantsAssumption
    DEF PollBegins, writeVars, checkVars,
        StartedInv, OneCheckPerKey, HolderInv, AwaitedInv, Live, KeyOf, Polls
  <2>12. ASSUME NEW p \in Polls,
                PollFetchesFast(p) \/ PollReadsSettings(p) \/ OrphanFetchEnds(p)
        PROVE  CheckInv'
    BY <2>12, HoldersDiffer, ConstantsAssumption
    DEF PollFetchesFast, PollReadsSettings, OrphanFetchEnds, writeVars, checkVars,
        StartedInv, OneCheckPerKey, HolderInv, AwaitedInv, Live, KeyOf, Polls
  <2>13. ASSUME NEW p \in Polls, PollReturns(p)
        PROVE  CheckInv'
    <3> DEFINE Publishes == \E ok \in BOOLEAN, settings \in Settings : Resume(p, ok, settings)
    <3>1. /\ Publishes \/ (ppc' = [ppc EXCEPT ![p] = "save"] /\ UNCHANGED <<writeVars, checkVars>>)
          /\ lock = PollHolds(p) /\ lock' = Free
      BY <2>13 DEF PollReturns
    <3>2. CASE Publishes
      BY <3>1, <3>2, ResumeDrifts, DriftKeeps
    <3>3. CASE ~Publishes
      <4>1. ChecksDrift
        BY <3>1, <3>3 DEF ChecksDrift, writeVars, checkVars
      <4>2. AwaitedInv'
        BY <3>1, <3>3, HoldersDiffer DEF AwaitedInv, checkVars, Polls
      <4>3. QED
        BY <4>1, <4>2, DriftKeeps
    <3>4. QED
      BY <3>2, <3>3
  <2>14. ASSUME NEW p \in Polls, PollPublishes(p)
        PROVE  CheckInv'
    <3>1. snap[p] \in Settings /\ Resume(p, TRUE, snap[p]) /\ lock' = lock /\ ppc[p] = "save"
      BY <2>14 DEF PollPublishes
    <3>2. lock # PollHolds(p)
      BY <3>1 DEF SaveInv
    <3>3. QED
      BY <3>1, <3>2, ResumeDrifts, DriftKeeps
  <2>15. CASE CancelSettingChecks
    <3>1. ChecksDrift
      BY <2>15 DEF CancelSettingChecks, CancelChecks, ChecksDrift, Live, writeVars
    <3>2. AwaitedInv'
      <4> SUFFICES ASSUME NEW w \in Writes,
                          (ppc[w] \in {"queued", "save"} \/ lock = PollHolds(w))'
                   PROVE  cpc'[w] = "refresh"
        BY DEF AwaitedInv
      <4>1. cpc[w] = "refresh"
        BY <2>15, HoldersDiffer DEF CancelSettingChecks, CancelChecks, AwaitedInv, Polls
      <4>2. w \notin {checkOf[k] : k \in Keys}
        BY <2>15, <4>1, HoldersDiffer
        DEF CancelSettingChecks, CancelChecks, AwaitedInv, Polls
      <4>3. QED
        BY <2>15, <4>1, <4>2 DEF CancelSettingChecks, CancelChecks
    <3>3. QED
      BY <3>1, <3>2, DriftKeeps
  <2>16. ASSUME NEW n \in Names, CloudReverts(n)
        PROVE  CheckInv'
    BY <2>16, HoldersDiffer, ConstantsAssumption
    DEF CloudReverts, writeVars, checkVars, pollVars,
        StartedInv, OneCheckPerKey, HolderInv, AwaitedInv, Live, KeyOf, Polls
  <2>17. CASE UNCHANGED vars
    BY <2>17, HoldersDiffer, ConstantsAssumption
    DEF vars, writeVars, checkVars, pollVars,
        StartedInv, OneCheckPerKey, HolderInv, AwaitedInv, Live, KeyOf, Polls
  <2>18. CASE TickFires
    BY <2>18, HoldersDiffer, ConstantsAssumption
    DEF TickFires, writeVars, checkVars,
        StartedInv, OneCheckPerKey, HolderInv, AwaitedInv, Live, KeyOf, Polls
  <2>19. QED
    BY <2>1, <2>2, <2>3, <2>4, <2>5, <2>6, <2>7, <2>8, <2>9, <2>10, <2>11, <2>12, <2>13, <2>14, <2>15, <2>16, <2>17, <2>18
    DEF Next, WriterSteps, PollSteps, CheckSteps
<1>3. QED
  BY <1>1, <1>2, TypeCorrect, SavesUnlocked, PTL DEF Spec

(* An older write of a setting never gets a say about a newer one, for any *)
(* number of writes, whoever is cancelled and whatever fails: what popping *)
(* and cancelling the previous check in async_write_setting is for.        *)
THEOREM OneCheckAtATime == Spec => []OneCheckPerKey
BY CheckInvariant, PTL DEF CheckInv

(* Only a check that runs notes a verdict.                                 *)
LEMMA VerdictsAreOfLiveChecks ==
  ASSUME TypeOK, RequestInv, SaveInv, CheckInv, [Next]_vars,
         NEW w \in Writes, readback'[w] # readback[w]
  PROVE  Live(w)
<1> USE HoldersDiffer DEF TypeOK, CheckInv, Live
<1>1. ASSUME NEW u \in Writes, CheckSteps(u)
      PROVE  Live(w)
  BY <1>1 DEF CheckSteps, CheckWakes, CheckProbes, AskForSettings, Judge
<1>2. ASSUME NEW p \in Polls, PollReturns(p)
      PROVE  Live(w)
  BY <1>2 DEF PollReturns, Resume, Judge, checkVars, AwaitedInv
<1>3. ASSUME NEW p \in Polls, PollPublishes(p)
      PROVE  Live(w)
  BY <1>3 DEF PollPublishes, Resume, Judge, checkVars, AwaitedInv
<1>4. ASSUME NEW u \in Writes, WriterSteps(u) \/ WriteCancelled(u)
      PROVE  Live(w)
  BY <1>4 DEF WriterSteps, WriteBegins, DeviceStage, CloudStage, WriteEnds, OrphanWriteEnds,
              WriteCancelled, StartCheck, checkVars
<1>5. ASSUME NEW p \in Polls,
             PollBegins(p) \/ PollFetchesFast(p) \/ PollReadsSettings(p) \/ OrphanFetchEnds(p)
      PROVE  Live(w)
  BY <1>5 DEF PollBegins, PollFetchesFast, PollReadsSettings, OrphanFetchEnds, checkVars
<1>6. CASE \/ \E u \in Writes, k \in Keys, on \in BOOLEAN : WriteCalled(u, k, on)
           \/ OtherCommand \/ TickFires \/ CancelSettingChecks \/ CloseClient
           \/ \E n \in Names : CloudReverts(n)
           \/ UNCHANGED vars
  BY <1>6 DEF WriteCalled, OtherCommand, TickFires, CancelSettingChecks, CloseClient,
              CloudReverts, vars, checkVars
<1>7. QED
  BY <1>1, <1>2, <1>3, <1>4, <1>5, <1>6 DEF Next, PollSteps

(* The record of a write that a newer one has replaced stays as it was     *)
(* when it was replaced, for any number of writes, polls and failures.     *)
THEOREM SupersededRecordsStay == Spec => SupersededRecordIsFrozen
<1>1. TypeOK /\ RequestInv /\ SaveInv /\ CheckInv /\ [Next]_vars
        => [\A w \in Writes : Superseded(w) => readback'[w] = readback[w]]_vars
  <2> SUFFICES ASSUME TypeOK, RequestInv, SaveInv, CheckInv, [Next]_vars,
                      NEW w \in Writes, Superseded(w), readback'[w] # readback[w]
               PROVE  FALSE
    OBVIOUS
  <2>1. Live(w)
    BY VerdictsAreOfLiveChecks
  <2>2. QED
    BY <2>1 DEF CheckInv, OneCheckPerKey, Superseded
<1>2. QED
  BY <1>1, CheckInvariant, SavesUnlocked, PTL DEF Spec, SupersededRecordIsFrozen

-----------------------------------------------------------------------------
(* Everything known of a state.                                            *)
Known == TypeOK /\ RequestInv /\ SaveInv /\ CheckInv

LEMMA AllKnown == Spec => []Known
BY CheckInvariant, SavesUnlocked, PTL DEF Known

(* What the settings that polls read and publish guarantee the follow-ups  *)
(* of writes, with the entry unloaded at any moment: as long as no poll    *)
(* has to wait for the save of the trail and no caller is cancelled (with  *)
(* either, the properties fail).                                           *)

(* A check starts when its write has ended.                                *)
EndedInv == \A w \in Writes : cpc[w] # "none" => wpc[w] \in {"refreshing", "done"}

(* A snapshot is published at once.                                        *)
NoSaveInv == \A p \in Polls : ppc[p] # "save"

(* What was read knows no more than has happened, what is shown no more    *)
(* than what was read; and what was read knows of the writes whose checks  *)
(* have seen the generation move.                                          *)
SeenInv ==
  /\ raw.seen \subseteq Ended
  /\ data.seen \subseteq raw.seen
  /\ readSince \subseteq raw.seen

FreshInv == EndedInv /\ NoSaveInv /\ SeenInv

-----------------------------------------------------------------------------
(* Steps that read and show nothing.                                       *)
Quiet ==
  /\ \A w \in Writes : cpc[w] # "none" => cpc'[w] # "none"
  /\ \A w \in Writes : cpc'[w] # "none" => cpc[w] # "none" \/ wpc'[w] \in {"refreshing", "done"}
  /\ \A w \in Writes : wpc[w] \in {"refreshing", "done"} => wpc'[w] \in {"refreshing", "done"}
  /\ \A p \in Polls : ppc'[p] = "save" => ppc[p] = "save"
  /\ readSince' \subseteq readSince
  /\ UNCHANGED <<raw, data>>

(* No read is undone by what happens later: a write that has ended, with   *)
(* its check begun, stays so.                                              *)
LEMMA QuietKeeps ==
  ASSUME FreshInv, Quiet
  PROVE  FreshInv'
<1>1. EndedInv'
  BY DEF FreshInv, EndedInv, Quiet
<1>2. Ended \subseteq Ended'
  BY DEF Ended, Quiet
<1>3. SeenInv'
  BY <1>2 DEF FreshInv, SeenInv, Quiet
<1>4. NoSaveInv'
  BY DEF FreshInv, NoSaveInv, Quiet
<1>5. QED
  BY <1>1, <1>3, <1>4 DEF FreshInv

LEMMA JudgeForgets ==
  ASSUME TypeOK, NEW w \in Writes, NEW v, Judge(w, v)
  PROVE  /\ readSince' \subseteq readSince
         /\ \A u \in Writes : cpc'[u] = cpc[u] \/ (u = w /\ cpc'[u] \in {"asleep", "done"})
         /\ readback' = [readback EXCEPT ![w] = v]
BY JudgeDrifts DEF Judge

(* The end of a poll that holds the lock: what is shown is what was read,  *)
(* or stays.                                                               *)
LEMMA ResumeKeeps ==
  ASSUME Known, FreshInv, NEW p \in Polls, lock = PollHolds(p), lock' = Free,
         \/ Resume(p, FALSE, data)
         \/ Resume(p, TRUE, raw),
         UNCHANGED raw
  PROVE  FreshInv'
<1> USE DEF Known
<1>1. ChecksDrift
  BY ResumeDrifts DEF TypeOK
<1>2. readSince' \subseteq readSince
  BY JudgeForgets DEF Resume, checkVars
<1>3. data' \in {data, raw} /\ \A q \in Polls : ppc'[q] = "save" => ppc[q] = "save"
  BY DEF Resume, TypeOK
<1>4. Ended \subseteq Ended' /\ EndedInv'
  BY <1>1 DEF Ended, FreshInv, EndedInv, ChecksDrift, Live
<1>5. SeenInv'
  BY <1>2, <1>3, <1>4 DEF FreshInv, SeenInv
<1>6. NoSaveInv'
  BY <1>3 DEF FreshInv, NoSaveInv
<1>7. QED
  BY <1>4, <1>5, <1>6 DEF FreshInv

LEMMA FreshStep ==
  ASSUME Mowing = FALSE, CallersCancel = FALSE, Known, FreshInv, [Next]_vars
  PROVE  FreshInv'
<1> USE DEF Known
<1>1. ASSUME NEW w \in Writes, NEW k \in Keys, NEW on \in BOOLEAN, WriteCalled(w, k, on)
      PROVE  FreshInv'
  BY <1>1, QuietKeeps DEF WriteCalled, Quiet, TypeOK, checkVars, pollVars
<1>2. ASSUME NEW w \in Writes, WriteBegins(w)
      PROVE  FreshInv'
  BY <1>2, QuietKeeps DEF WriteBegins, CancelChecks, Live, Quiet, TypeOK
<1>3. ASSUME NEW w \in Writes, DeviceStage(w) \/ CloudStage(w) \/ OrphanWriteEnds(w)
      PROVE  FreshInv'
  BY <1>3, QuietKeeps
  DEF DeviceStage, CloudStage, OrphanWriteEnds, Quiet, TypeOK, checkVars, pollVars
<1>4. ASSUME NEW w \in Writes, WriteEnds(w)
      PROVE  FreshInv'
  BY <1>4, QuietKeeps DEF WriteEnds, StartCheck, RequestRefresh, Quiet, TypeOK
<1>5. ASSUME NEW w \in Writes, WriteCancelled(w)
      PROVE  FreshInv'
  BY <1>5, CallersCancel = FALSE DEF WriteCancelled
<1>6. ASSUME NEW w \in Writes, CheckSteps(w)
      PROVE  FreshInv'
  <2>1. cpc[w] \in {"asleep", "probe"} /\ UNCHANGED <<raw, data, wpc>>
    BY <1>6 DEF CheckSteps, CheckWakes, CheckProbes, writeVars
  <2>2. CASE AskForSettings(w) /\ entry = "closed"
    <3>1. \E v : Judge(w, v)
      BY <2>2 DEF AskForSettings
    <3>2. QED
      BY <2>1, <2>2, <3>1, JudgeForgets, QuietKeeps DEF AskForSettings, Quiet
  <2>3. CASE ~(AskForSettings(w) /\ entry = "closed")
    BY <1>6, <2>1, <2>3, QuietKeeps
    DEF CheckSteps, CheckWakes, CheckProbes, AskForSettings, Quiet, TypeOK
  <2>4. QED
    BY <2>2, <2>3
<1>7. CASE OtherCommand \/ TickFires \/ CloseClient \/ \E n \in Names : CloudReverts(n)
  BY <1>7, QuietKeeps
  DEF OtherCommand, TickFires, CloseClient, CloudReverts, Quiet, TypeOK,
      writeVars, checkVars, pollVars
<1>8. ASSUME NEW p \in Polls, PollBegins(p) \/ PollFetchesFast(p) \/ OrphanFetchEnds(p)
      PROVE  FreshInv'
  BY <1>8, QuietKeeps
  DEF PollBegins, PollFetchesFast, OrphanFetchEnds, Quiet, TypeOK, writeVars, checkVars
<1>9. ASSUME NEW p \in Polls, PollReadsSettings(p)
      PROVE  FreshInv'
  <2>1. UNCHANGED <<cpc, wpc, data>> /\ \A q \in Polls : ppc'[q] = "save" => ppc[q] = "save"
    BY <1>9 DEF PollReadsSettings, TypeOK, writeVars
  <2>2. CASE raw' = [vals |-> cloud, seen |-> Ended]
             /\ readSince' = {w \in Writes : cpc[w] = "refresh"}
    <3>1. Ended' = Ended
      BY <2>1 DEF Ended
    <3>2. readSince' \subseteq Ended
      BY <2>2 DEF FreshInv, EndedInv, Ended
    <3>3. raw'.seen = Ended
      BY <2>2
    <3>4. SeenInv'
      BY <2>1, <3>1, <3>2, <3>3 DEF FreshInv, SeenInv
    <3>5. EndedInv' /\ NoSaveInv'
      BY <2>1 DEF FreshInv, EndedInv, NoSaveInv
    <3>6. QED
      BY <3>4, <3>5 DEF FreshInv
  <2>3. CASE UNCHANGED <<raw, readSince>>
    BY <2>1, <2>3, QuietKeeps DEF Quiet
  <2>4. QED
    BY <1>9, <2>2, <2>3 DEF PollReadsSettings
<1>10. ASSUME NEW p \in Polls, PollReturns(p)
       PROVE  FreshInv'
  BY <1>10, Mowing = FALSE, ResumeKeeps DEF PollReturns
<1>11. ASSUME NEW p \in Polls, PollPublishes(p)
       PROVE  FreshInv'
  BY <1>11 DEF PollPublishes, FreshInv, NoSaveInv
<1>12. CASE CancelSettingChecks
  BY <1>12, QuietKeeps DEF CancelSettingChecks, CancelChecks, Live, Quiet, TypeOK, writeVars
<1>13. CASE UNCHANGED vars
  BY <1>13, QuietKeeps DEF vars, Quiet, writeVars, checkVars, pollVars
<1>14. QED
  BY <1>1, <1>2, <1>3, <1>4, <1>5, <1>6, <1>7, <1>8, <1>9, <1>10, <1>11, <1>12, <1>13
  DEF Next, WriterSteps, PollSteps

LEMMA FreshInvariant ==
  ASSUME Mowing = FALSE, CallersCancel = FALSE
  PROVE  Spec => [](Known /\ FreshInv)
<1>1. Init => FreshInv
  BY DEF Init, FreshInv, EndedInv, NoSaveInv, SeenInv, NoSettings
<1>2. Known /\ FreshInv /\ [Next]_vars => FreshInv'
  BY FreshStep
<1>3. Spec => []Known
  BY AllKnown
<1>4. QED
  BY <1>1, <1>2, <1>3, PTL DEF Spec

-----------------------------------------------------------------------------
(* Only the end of its own poll ends the refresh of a check.               *)
LEMMA JudgedByOwnPoll ==
  ASSUME Known, FreshInv, [Next]_vars, NEW w \in Writes, Judged(w), Mowing = FALSE
  PROVE  Resume(w, FALSE, data) \/ Resume(w, TRUE, raw)
<1> USE HoldersDiffer DEF Known, TypeOK, Judged
<1>1. ASSUME NEW u \in Writes, CheckSteps(u)
      PROVE  FALSE
  <2>1. cpc[u] \in {"asleep", "probe"} /\ \A v \in Writes \ {u} : cpc'[v] = cpc[v]
    BY <1>1, JudgeForgets DEF CheckSteps, CheckWakes, CheckProbes, AskForSettings
  <2>2. QED
    BY <2>1
<1>2. ASSUME NEW u \in Writes, WriterSteps(u) \/ WriteCancelled(u)
      PROVE  FALSE
  <2>1. cpc[u] = "none" \/ ~(WriteEnds(u) \/ WriteCancelled(u))
    BY DEF WriteEnds, WriteCancelled, FreshInv, EndedInv
  <2>2. QED
    BY <1>2, <2>1
    DEF WriterSteps, WriteBegins, CancelChecks, DeviceStage, CloudStage, WriteEnds,
        OrphanWriteEnds, WriteCancelled, StartCheck, checkVars
<1>3. ASSUME NEW p \in Polls,
             \/ PollBegins(p) \/ PollFetchesFast(p) \/ PollReadsSettings(p)
             \/ OrphanFetchEnds(p) \/ PollPublishes(p)
      PROVE  FALSE
  BY <1>3
  DEF PollBegins, PollFetchesFast, PollReadsSettings, OrphanFetchEnds, PollPublishes,
      checkVars, FreshInv, NoSaveInv
<1>4. ASSUME NEW p \in Polls, PollReturns(p)
      PROVE  Resume(w, FALSE, data) \/ Resume(w, TRUE, raw)
  <2>1. Resume(p, FALSE, data) \/ Resume(p, TRUE, raw)
    BY <1>4, Mowing = FALSE DEF PollReturns
  <2>2. p = w
    <3>1. CASE p \in Writes
      <4>1. PICK v : Judge(p, v)
        BY <2>1, <3>1 DEF Resume
      <4>2. \A u \in Writes : cpc'[u] = cpc[u] \/ u = p
        BY <3>1, <4>1, JudgeForgets
      <4>3. cpc'[w] # cpc[w]
        OBVIOUS
      <4>4. QED
        BY <4>2, <4>3
    <3>2. CASE p \notin Writes
      BY <2>1, <3>2 DEF Resume, checkVars
    <3>3. QED
      BY <3>1, <3>2
  <2>3. QED
    BY <2>1, <2>2
<1>5. CASE \/ \E u \in Writes, k \in Keys, on \in BOOLEAN : WriteCalled(u, k, on)
           \/ OtherCommand \/ TickFires \/ CancelSettingChecks \/ CloseClient
           \/ \E n \in Names : CloudReverts(n)
           \/ UNCHANGED vars
  BY <1>5
  DEF WriteCalled, OtherCommand, TickFires, CancelSettingChecks, CancelChecks, CloseClient,
      CloudReverts, vars, checkVars
<1>6. QED
  BY <1>1, <1>2, <1>3, <1>4, <1>5 DEF Next, PollSteps

(* A verdict of "matched" or "mismatch" rests on settings read after the   *)
(* write had ended, for any number of writes, polls and failures: what the *)
(* generation and the success flag of _async_check_setting are for.        *)
THEOREM VerdictsAreFresh ==
  ASSUME Mowing = FALSE, CallersCancel = FALSE
  PROVE  Spec => VerdictRestsOnFreshRead
<1>1. Known /\ FreshInv /\ [Next]_vars
        => [\A w \in Writes : Judged(w) /\ readback'[w] \in {"matched", "mismatch"}
                                => w \in data'.seen]_vars
  <2> SUFFICES ASSUME Known, FreshInv, [Next]_vars, NEW w \in Writes, Judged(w),
                      readback'[w] \in {"matched", "mismatch"}
               PROVE  w \in data'.seen
    OBVIOUS
  <2>1. PICK ok \in BOOLEAN : Resume(w, ok, IF ok THEN raw ELSE data)
    BY JudgedByOwnPoll
  <2>2. Judge(w, Verdict(w, ok, readSuccess, w \in readSince, data'))
    BY <2>1 DEF Resume
  <2>3. readback'[w] = Verdict(w, ok, readSuccess, w \in readSince, data')
    BY <2>2 DEF Judge, Known, TypeOK
  <2>4. ok /\ w \in readSince
    BY <2>3 DEF Verdict
  <2>5. data' = raw
    BY <2>1, <2>4 DEF Resume
  <2>6. QED
    BY <2>4, <2>5 DEF FreshInv, SeenInv
<1>2. QED
  BY <1>1, FreshInvariant, PTL DEF Spec, VerdictRestsOnFreshRead

-----------------------------------------------------------------------------
(* SettingWrites implements SettingRecords, with callers cancelled,        *)
(* requests failing and the entry unloaded.                                *)

(* A record is new when its write gets the lock, and pending while the     *)
(* write holds it; the check comes after.  Only a cancelled caller leaves  *)
(* a pending record to a check.                                            *)
NewInv == \A w \in Writes : wpc[w] \in {"idle", "queued"} => submission[w] = "none"
PendingInv ==
  \A w \in Writes : lock = WriterHolds(w) => submission[w] = "pending" /\ cpc[w] = "none"
UncheckedInv == \A w \in Writes : cpc[w] = "none" => round[w] = 1
CheckedInv ==
  \A w \in Writes : cpc[w] # "none" =>
    submission[w] # "none" /\ (submission[w] = "pending" => CallersCancel)

RecordInv == NewInv /\ PendingInv /\ UncheckedInv /\ CheckedInv

-----------------------------------------------------------------------------
(* What steps do to the records: those that are no step of a writer in the *)
(* lock leave them alone, or are a look of one check.                      *)

Aside ==
  /\ UNCHANGED <<latest, submission>>
  /\ \A w \in Writes : wpc'[w] \in {"idle", "queued"} => wpc[w] \in {"idle", "queued"}
  /\ \A w \in Writes : lock' = WriterHolds(w) => lock = WriterHolds(w)

Unseen ==
  /\ UNCHANGED <<readback, round>>
  /\ cpc' \in [Writes -> CheckAt]
  /\ \A w \in Writes : \/ cpc'[w] = cpc[w]
                       \/ Live(w) /\ cpc'[w] \in {"asleep", "probe", "refresh", "cancelled"}

Looked(w) ==
  /\ Live(w)
  /\ \E verdict \in Verdicts \ {"none"} :
       /\ readback' = [readback EXCEPT ![w] = verdict]
       /\ \/ /\ round[w] = 1 /\ round' = [round EXCEPT ![w] = 2]
             /\ cpc' = [cpc EXCEPT ![w] = "asleep"]
          \/ /\ round[w] = 2 \/ verdict = "unavailable"
             /\ cpc' = [cpc EXCEPT ![w] = "done"]
             /\ round' = round

Beside == Aside /\ (Unseen \/ \E w \in Writes : Looked(w))

LEMMA VerdictIsGiven ==
  ASSUME NEW w, NEW ok, NEW read, NEW since, NEW settings
  PROVE  Verdict(w, ok, read, since, settings) \in Verdicts \ {"none"}
BY DEF Verdict, Verdicts

LEMMA JudgeIsALook ==
  ASSUME TypeOK, NEW w \in Writes, Live(w), NEW v \in Verdicts \ {"none"}, Judge(w, v)
  PROVE  Looked(w)
<1>1. round[w] \in 1..2
  BY DEF TypeOK
<1>2. CASE round[w] = 1
  BY <1>2 DEF Judge, Looked
<1>3. CASE round[w] = 2
  BY <1>3 DEF Judge, Looked
<1>4. QED
  BY <1>1, <1>2, <1>3

LEMMA AskIsBeside ==
  ASSUME TypeOK, NEW w \in Writes, Live(w), AskForSettings(w)
  PROVE  Unseen \/ Looked(w)
<1>1. CASE entry = "closed"
  BY <1>1, VerdictIsGiven, JudgeIsALook DEF AskForSettings
<1>2. CASE entry # "closed"
  BY <1>2 DEF AskForSettings, Unseen, TypeOK, CheckAt
<1>3. QED
  BY <1>1, <1>2

LEMMA ResumeIsBeside ==
  ASSUME Known, NEW p \in Polls, ppc[p] = "save" \/ lock = PollHolds(p),
         NEW ok \in BOOLEAN, NEW settings \in Settings, Resume(p, ok, settings),
         lock' \in {lock, Free}
  PROVE  Beside
<1> USE HoldersDiffer DEF Known
<1>1. Aside
  BY DEF Aside, Resume, TypeOK
<1>2. CASE p \in Writes
  <2>1. Judge(p, Verdict(p, ok, readSuccess, p \in readSince, data')) /\ Live(p)
    BY <1>2 DEF Resume, CheckInv, AwaitedInv, Live
  <2>2. QED
    BY <1>1, <1>2, <2>1, VerdictIsGiven, JudgeIsALook DEF Beside
<1>3. CASE p \notin Writes
  BY <1>1, <1>3 DEF Resume, checkVars, Beside, Unseen, TypeOK
<1>4. QED
  BY <1>2, <1>3

(* Every step but a writer's in the lock is beside the records' point.     *)
LEMMA MostAreBeside ==
  ASSUME Known, [Next]_vars
  PROVE  Beside \/ \E w \in Writes : WriteBegins(w) \/ WriteEnds(w) \/ WriteCancelled(w)
<1> USE HoldersDiffer DEF Known, Beside, Aside
<1>1. ASSUME NEW w \in Writes, NEW k \in Keys, NEW on \in BOOLEAN, WriteCalled(w, k, on)
      PROVE  Beside
  BY <1>1 DEF WriteCalled, Unseen, checkVars, TypeOK
<1>2. ASSUME NEW w \in Writes, DeviceStage(w) \/ CloudStage(w) \/ OrphanWriteEnds(w)
      PROVE  Beside
  BY <1>2 DEF DeviceStage, CloudStage, OrphanWriteEnds, Unseen, checkVars, TypeOK
<1>3. ASSUME NEW w \in Writes, CheckSteps(w)
      PROVE  Beside
  <2>1. Aside /\ Live(w)
    BY <1>3 DEF CheckSteps, CheckWakes, CheckProbes, Live, writeVars
  <2>2. CASE AskForSettings(w)
    BY <2>1, <2>2, AskIsBeside
  <2>3. CASE CheckWakes(w) /\ ~AskForSettings(w)
    BY <2>1, <2>3 DEF CheckWakes, Unseen, TypeOK, CheckAt
  <2>4. CASE CheckProbes(w) /\ ~AskForSettings(w)
    BY <2>1, <2>4 DEF CheckProbes, Looked, Verdicts
  <2>5. QED
    BY <1>3, <2>1, <2>2, <2>3, <2>4 DEF CheckSteps
<1>4. CASE OtherCommand \/ TickFires \/ CloseClient \/ \E n \in Names : CloudReverts(n)
  BY <1>4 DEF OtherCommand, TickFires, CloseClient, CloudReverts, Unseen,
              writeVars, checkVars, TypeOK
<1>5. ASSUME NEW p \in Polls,
             \/ PollBegins(p) \/ PollFetchesFast(p) \/ PollReadsSettings(p)
             \/ OrphanFetchEnds(p)
      PROVE  Beside
  BY <1>5 DEF PollBegins, PollFetchesFast, PollReadsSettings, OrphanFetchEnds, Unseen,
              writeVars, checkVars, TypeOK
<1>6. ASSUME NEW p \in Polls, PollReturns(p)
      PROVE  Beside
  <2>1. lock = PollHolds(p) /\ lock' = Free
    BY <1>6 DEF PollReturns
  <2>2. CASE \E ok \in BOOLEAN, settings \in Settings : Resume(p, ok, settings)
    BY <2>1, <2>2, ResumeIsBeside
  <2>3. CASE UNCHANGED <<writeVars, checkVars>>
    BY <2>1, <2>3 DEF Unseen, writeVars, checkVars, TypeOK
  <2>4. QED
    BY <1>6, <2>2, <2>3 DEF PollReturns, TypeOK
<1>7. ASSUME NEW p \in Polls, PollPublishes(p)
      PROVE  Beside
  BY <1>7, ResumeIsBeside DEF PollPublishes, TypeOK
<1>8. CASE CancelSettingChecks
  <2>1. Aside
    BY <1>8 DEF CancelSettingChecks, writeVars
  <2>2. Unseen
    BY <1>8 DEF CancelSettingChecks, CancelChecks, Unseen, TypeOK, CheckAt
  <2>3. QED
    BY <2>1, <2>2
<1>9. CASE UNCHANGED vars
  BY <1>9 DEF vars, Unseen, writeVars, checkVars, TypeOK
<1>10. QED
  BY <1>1, <1>2, <1>3, <1>4, <1>5, <1>6, <1>7, <1>8, <1>9
  DEF Next, WriterSteps, PollSteps

-----------------------------------------------------------------------------
LEMMA RecordsStayKnown ==
  ASSUME Known, RecordInv, [Next]_vars
  PROVE  RecordInv'
<1> USE HoldersDiffer DEF Known, TypeOK, RecordInv
<1>1. CASE Beside
  <2>1. \A w \in Writes : (cpc'[w] = "none") = (cpc[w] = "none")
    BY <1>1 DEF Beside, Unseen, Looked, Live
  <2>2. NewInv' /\ PendingInv' /\ CheckedInv'
    BY <1>1, <2>1 DEF Beside, Aside, NewInv, PendingInv, CheckedInv
  <2>3. UncheckedInv'
    BY <1>1, <2>1 DEF Beside, Unseen, Looked, Live, UncheckedInv
  <2>4. QED
    BY <2>2, <2>3
<1>2. ASSUME NEW w \in Writes, WriteBegins(w)
      PROVE  RecordInv'
  <2>1. cpc[w] = "none"
    BY <1>2 DEF WriteBegins, CheckInv, StartedInv
  <2>2. \A u \in Writes : (cpc'[u] = "none") = (cpc[u] = "none")
    BY <1>2 DEF WriteBegins, CancelChecks, Live
  <2>3. QED
    BY <1>2, <2>1, <2>2
    DEF WriteBegins, NewInv, PendingInv, UncheckedInv, CheckedInv
<1>3. ASSUME NEW w \in Writes, WriteEnds(w)
      PROVE  RecordInv'
  <2>1. Outcome(results[w]) \in {"submitted", "partial_failure", "failed"}
    BY DEF Outcome
  <2>2. QED
    BY <1>3, <2>1
    DEF WriteEnds, StartCheck, NewInv, PendingInv, UncheckedInv, CheckedInv
<1>4. ASSUME NEW w \in Writes, WriteCancelled(w)
      PROVE  RecordInv'
  BY <1>4
  DEF WriteCancelled, StartCheck, writeVars, NewInv, PendingInv, UncheckedInv, CheckedInv
<1>5. QED
  BY <1>1, <1>2, <1>3, <1>4, MostAreBeside

LEMMA RecordsStep ==
  ASSUME Known, RecordInv, [Next]_vars
  PROVE  [Records!Next]_(Records!vars)
<1> USE HoldersDiffer DEF Known, TypeOK
<1>1. ASSUME Beside, Unseen
      PROVE  UNCHANGED Records!vars
  <2>1. Looks' = Looks
    BY <1>1 DEF Looks, Unseen, Live
  <2>2. QED
    BY <1>1, <2>1 DEF Aside, Beside, Unseen, Records!vars
<1>2. ASSUME Beside, NEW w \in Writes, Looked(w)
      PROVE  Records!Look(w)
  <2>1. submission[w] # "none" /\ (submission[w] = "pending" => CallersCancel)
    BY <1>2 DEF Looked, Live, RecordInv, CheckedInv
  <2>2. Records!Newest(w)
    <3>1. latest[KeyOf(w)] = w
      BY <1>2 DEF Looked, CheckInv, OneCheckPerKey
    <3>2. KeyOf(w) \in Keys
      BY <1>2, KeysStay DEF Looked, Live, CheckInv, StartedInv
    <3>3. QED
      BY <3>1, <3>2 DEF Records!Newest
  <2>3. Looks[w] < 2
    BY <1>2 DEF Looked, Live, Looks
  <2>4. PICK verdict \in Verdicts \ {"none"} :
          /\ readback' = [readback EXCEPT ![w] = verdict]
          /\ \/ /\ round[w] = 1 /\ round' = [round EXCEPT ![w] = 2]
                /\ cpc' = [cpc EXCEPT ![w] = "asleep"]
             \/ /\ round[w] = 2 \/ verdict = "unavailable"
                /\ cpc' = [cpc EXCEPT ![w] = "done"]
                /\ round' = round
    BY <1>2 DEF Looked
  <2>5. \/ Looks' = [Looks EXCEPT ![w] = Looks[w] + 1]
        \/ verdict = "unavailable" /\ Looks' = [Looks EXCEPT ![w] = 2]
    <3>1. \A u \in Writes \ {w} : cpc'[u] = cpc[u] /\ round'[u] = round[u]
      BY <2>4
    <3>2. CASE round[w] = 1 /\ cpc' = [cpc EXCEPT ![w] = "asleep"] /\ round' = [round EXCEPT ![w] = 2]
      <4>1. Looks[w] = 0 /\ Looks'[w] = 1
        BY <1>2, <3>2 DEF Looks, Looked, Live
      <4>2. \A u \in Writes \ {w} : Looks'[u] = Looks[u]
        BY <3>1 DEF Looks
      <4>3. Looks' = [Looks EXCEPT ![w] = 1]
        BY <4>1, <4>2 DEF Looks
      <4>4. QED
        BY <4>1, <4>3
    <3>3. CASE (round[w] = 2 \/ verdict = "unavailable") /\ cpc' = [cpc EXCEPT ![w] = "done"]
      <4>1. Looks[w] = round[w] - 1 /\ Looks'[w] = 2
        BY <1>2, <3>3 DEF Looks, Looked, Live
      <4>2. \A u \in Writes \ {w} : Looks'[u] = Looks[u]
        BY <3>1 DEF Looks
      <4>3. Looks' = [Looks EXCEPT ![w] = 2]
        BY <4>1, <4>2 DEF Looks
      <4>4. CASE round[w] = 2
        <5>1. Looks[w] + 1 = 2
          BY <4>1, <4>4
        <5>2. QED
          BY <4>3, <5>1
      <4>5. QED
        BY <3>3, <4>3, <4>4
    <3>4. QED
      BY <2>4, <3>2, <3>3
  <2>6. verdict \in {"unavailable", "matched", "mismatch"}
    BY <2>4 DEF Verdicts
  <2>7. QED
    BY <1>2, <2>1, <2>2, <2>3, <2>4, <2>5, <2>6 DEF Beside, Aside, Records!Look
<1>3. ASSUME NEW w \in Writes, WriteBegins(w)
      PROVE  Records!Begin(w)
  <2>1. submission[w] = "none" /\ KeyOf(w) \in Keys
    BY <1>3, KeysStay DEF WriteBegins, RecordInv, NewInv
  <2>2. Looks' = Looks
    BY <1>3 DEF WriteBegins, CancelChecks, Looks, Live
  <2>3. QED
    BY <1>3, <2>1, <2>2 DEF WriteBegins, Records!Begin
<1>4. ASSUME NEW w \in Writes, WriteEnds(w)
      PROVE  Records!End(w)
  <2>1. submission[w] = "pending" /\ cpc[w] = "none" /\ round[w] = 1
    BY <1>4 DEF WriteEnds, RecordInv, PendingInv, UncheckedInv
  <2>2. Looks' = Looks
    BY <1>4, <2>1 DEF WriteEnds, StartCheck, Looks
  <2>3. Outcome(results[w]) \in {"submitted", "partial_failure", "failed"}
    BY DEF Outcome
  <2>4. QED
    BY <1>4, <2>1, <2>2, <2>3 DEF WriteEnds, StartCheck, Records!End
<1>5. ASSUME NEW w \in Writes, WriteCancelled(w)
      PROVE  UNCHANGED Records!vars
  <2>1. cpc[w] = "none" /\ round[w] = 1
    BY <1>5 DEF WriteCancelled, RecordInv, PendingInv, UncheckedInv
  <2>2. Looks' = Looks
    BY <1>5, <2>1 DEF WriteCancelled, StartCheck, Looks
  <2>3. QED
    BY <1>5, <2>2 DEF WriteCancelled, StartCheck, writeVars, Records!vars
<1>6. QED
  BY <1>1, <1>2, <1>3, <1>4, <1>5, MostAreBeside DEF Beside, Records!Next

(* The record of a write is kept as SettingRecords promises, whatever the  *)
(* lock, the polls, the tasks and the unload do: one outcome, two verdicts *)
(* at the most, and those while it is the newest of its switch.            *)
THEOREM RecordsRefined == Spec => RecordsAreKept
<1>1. Init => RecordInv
  BY HoldersDiffer
  DEF Init, RecordInv, NewInv, PendingInv, UncheckedInv, CheckedInv
<1>2. Init => Records!Init
  BY DEF Init, Records!Init, Looks
<1>3. Known /\ RecordInv /\ [Next]_vars => RecordInv'
  BY RecordsStayKnown
<1>4. Known /\ RecordInv /\ [Next]_vars => [Records!Next]_(Records!vars)
  BY RecordsStep
<1>5. Spec => []Known
  BY AllKnown
<1>6. QED
  BY <1>1, <1>2, <1>3, <1>4, <1>5, PTL DEF Spec, RecordsAreKept, Records!Spec

=============================================================================
