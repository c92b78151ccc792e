------------------------------ MODULE WeekPlan ------------------------------
(***************************************************************************)
(* The weekly plan in time: the poll that reads it and decides how long to *)
(* wait for the next (coordinator.py: _fetch_blocking, _parse,             *)
(* _poll_interval), and the service that writes one day of it in two       *)
(* stages (services.py: _set_schedule; client.py: set_day_schedule).       *)
(*                                                                         *)
(* A poll takes no time to speak of: a unit is half a minute in the code's *)
(* terms.  The timer never runs late by a unit.                            *)
(***************************************************************************)
EXTENDS Schedule, FiniteSetsExt

CONSTANTS
  Calls,        \* the calls of the service that may be under way at once
  Requests,     \* what they may ask for: [day, enabled, times]
  AppPlans,     \* the plans the owner may store with the app
  Legacy,       \* the dead plan the settings still carry, or NoPlan
  Codes,        \* what the mower may be doing
  MowScan, FastScan, DefaultScan, IdleScan, \* the intervals between polls
  MowSoon,      \* MOW_SOON_WINDOW
  SlowEvery,    \* SLOW_REFRESH_EVERY
  Faults        \* what may fail: a stage of a "write", the "fast" group of a
                \* poll, its "settings"

ASSUME ScanAssumption ==
  /\ {MowScan, FastScan, DefaultScan, IdleScan, MowSoon, SlowEvery} \subseteq Nat \ {0}
  /\ MowScan <= FastScan /\ FastScan <= DefaultScan /\ DefaultScan <= IdleScan
  /\ IdleScan <= MowSoon
  /\ "docked" \in Codes

ASSUME PlansAssumption ==
  /\ AppPlans \subseteq [Week -> Entries]
  /\ Legacy \in {NoPlan} \union [Week -> Entries]
  /\ NoPlan \notin [Week -> Entries]
  /\ \A r \in Requests :
       /\ r.day \in Week /\ r.enabled \in BOOLEAN
       /\ r.times \in Seq([start : Nat, end : Nat])

VARIABLES
  now,       \* the moment of the week
  cloud,     \* the settings the cloud reports (external but for the writes)
  mower,     \* the plan on the mower (external but for the writes)
  code,      \* what the mower is doing (external)
  read,      \* raw["set_list"]: the settings as last read
  nextMow,   \* _next_mow_at, as the time left (-1: it has passed)
  pollIn,    \* the time left to the next poll
  cycle,     \* _cycle
  forceSlow, \* _force_slow
  call,      \* where each call of the service is, and what it asked for
  age        \* how long the settings have been the same in the cloud, and no
             \* poll has failed to read them (history, up to Lag)

planVars == <<cloud, mower>>
pollVars == <<read, nextMow, pollIn, cycle, forceSlow>>
vars == <<now, planVars, code, pollVars, call, age>>

Lag == SlowEvery * IdleScan

Idle == [at |-> "idle"]

EntriesOf(plans) == {plan[d] : plan \in plans, d \in Week}
KnownEntries == EntriesOf(AppPlans) \union {EntryFor(r.enabled, r.times) : r \in Requests}
Plans == [Week -> KnownEntries]
Settings == [master : BOOLEAN, plan : Plans, legacy : {Legacy}]

TypeOK ==
  /\ now \in Moments
  /\ cloud \in Settings
  /\ read \in Settings
  /\ mower \in Plans
  /\ code \in Codes
  /\ nextMow \in {NoMow} \union (-1..WeekLen)
  /\ pollIn \in 0..IdleScan
  /\ cycle \in 0..(SlowEvery - 1)
  /\ forceSlow \in BOOLEAN
  /\ call \in [Calls -> {Idle} \union [at : {"device", "cloud"}, req : Requests]]
  /\ age \in 0..Lag

(* The interval without the attention paid before a mow.                   *)
PollIntervalIdle(c, next) ==
  IF c = "mowing" THEN MowScan
  ELSE IF c = "returning" THEN FastScan
  ELSE IF c = "unmapped" THEN DefaultScan
  ELSE IdleScan

(* _poll_interval; an error reported counts as an unmapped code.           *)
PollInterval(c, next) ==
  IF c = "mowing" THEN MowScan
  ELSE IF c = "returning" THEN FastScan
  ELSE IF c = "unmapped" THEN DefaultScan
  ELSE IF next # NoMow /\ next \in 0..MowSoon THEN DefaultScan
  ELSE IdleScan

(* After the first refresh.                                                *)
Init ==
  /\ now \in {d * DayLen : d \in 0..(DaysAWeek - 1)}
  /\ mower \in AppPlans
  /\ cloud \in [master : BOOLEAN, plan : {mower}, legacy : {Legacy}]
  /\ code = "docked"
  /\ read = cloud
  /\ nextMow = NextMow(read, now)
  /\ pollIn = PollInterval(code, nextMow)
  /\ cycle = 1 % SlowEvery
  /\ forceSlow = FALSE
  /\ call = [c \in Calls |-> Idle]
  /\ age = 0

-----------------------------------------------------------------------------
(* The poll.                                                               *)

Tick ==
  /\ pollIn > 0
  /\ now' = Later(now, 1)
  /\ pollIn' = pollIn - 1
  /\ nextMow' = IF nextMow \in {NoMow, -1} THEN nextMow ELSE nextMow - 1
  /\ age' = Min({age + 1, Lag})
  /\ UNCHANGED <<planVars, code, read, cycle, forceSlow, call>>

(* The fast group is read, the settings if it is their turn or they were   *)
(* asked for; a failure to read them leaves what was cached.               *)
PollReads ==
  /\ pollIn = 0
  /\ cycle' = (cycle + 1) % SlowEvery
  /\ forceSlow' = FALSE
  /\ LET slow == cycle' = 1 % SlowEvery \/ forceSlow IN
     \/ read' = (IF slow THEN cloud ELSE read) /\ UNCHANGED age
     \/ slow /\ "settings" \in Faults /\ UNCHANGED read /\ age' = 0
  /\ nextMow' = NextMow(read', now)
  /\ pollIn' = PollInterval(code, nextMow')
  /\ UNCHANGED <<now, planVars, code, call>>

(* index2 fails, or the session is dead: nothing is parsed.                *)
PollFails ==
  /\ pollIn = 0
  /\ "fast" \in Faults
  /\ cycle' = (cycle + 1) % SlowEvery
  /\ forceSlow' = FALSE
  /\ pollIn' = DefaultScan
  /\ age' = 0
  /\ UNCHANGED <<now, planVars, code, read, nextMow, call>>

-----------------------------------------------------------------------------
(* The service.  Nothing serialises two calls but the single requests.     *)

SetCalled(c, r) ==
  /\ call[c] = Idle
  /\ Accepted(r.enabled, r.times)
  /\ call' = [call EXCEPT ![c] = [at |-> "device", req |-> r]]
  /\ UNCHANGED <<now, planVars, code, pollVars, age>>

(* async_send passes an error on and asks for no refresh.                  *)
SetFails(c) == call' = [call EXCEPT ![c] = Idle]

(* First the mower, which refuses while it mows.                           *)
DeviceStage(c) ==
  LET r == call[c].req
      told == [mower EXCEPT ![r.day] = EntryFor(r.enabled, r.times)] IN
  /\ call[c].at = "device"
  /\ \/ /\ code # "mowing"
        /\ mower' = told
        /\ call' = [call EXCEPT ![c].at = "cloud"]
     \/ /\ code = "mowing" \/ "write" \in Faults
        /\ mower' \in {mower} \union (IF code = "mowing" THEN {} ELSE {told})
        /\ SetFails(c)
  /\ UNCHANGED <<now, cloud, code, pollVars, age>>

(* Then the cloud; a refresh that reads the settings is asked for.         *)
CloudStage(c) ==
  LET r == call[c].req
      saved == [cloud EXCEPT !.plan[r.day] = EntryFor(r.enabled, r.times)] IN
  /\ call[c].at = "cloud"
  /\ \/ /\ cloud' = saved
        /\ SetFails(c)
        /\ forceSlow' = TRUE
        /\ pollIn' = 0
     \/ /\ "write" \in Faults
        /\ cloud' \in {cloud, saved}
        /\ SetFails(c)
        /\ UNCHANGED <<forceSlow, pollIn>>
  /\ age' = IF cloud' = cloud THEN age ELSE 0
  /\ UNCHANGED <<now, mower, code, read, nextMow, cycle>>

-----------------------------------------------------------------------------
(* External: the owner's app, and the mower.                               *)

AppStores(plan) ==
  /\ cloud' = [cloud EXCEPT !.plan = plan]
  /\ mower' = plan
  /\ age' = 0
  /\ UNCHANGED <<now, code, pollVars, call>>

MasterSwitched ==
  /\ cloud' = [cloud EXCEPT !.master = ~cloud.master]
  /\ age' = 0
  /\ UNCHANGED <<now, mower, code, pollVars, call>>

MowerMoves(c) ==
  /\ c # code
  /\ code' = c
  /\ UNCHANGED <<now, planVars, pollVars, call, age>>

Next ==
  \/ Tick \/ PollReads \/ PollFails
  \/ \E c \in Calls : \/ \E r \in Requests : SetCalled(c, r)
                      \/ DeviceStage(c)
                      \/ CloudStage(c)
  \/ \E plan \in AppPlans : AppStores(plan)
  \/ MasterSwitched
  \/ \E c \in Codes : MowerMoves(c)

Spec == Init /\ [][Next]_vars

-----------------------------------------------------------------------------
(* The next mow shown is the first start to come of the plan the mower     *)
(* obeys, at any moment: today later, next week at the same time, across   *)
(* the end of the week (_compute_next_mow: "the soonest upcoming open      *)
(* day+start").                                                            *)
NextMowIsSoonest ==
  read.master => IsSoonest(NextMow(read, now), ScheduleSource(read), now)

(* The calendar and the next mow tell the same story: with the plan        *)
(* switched on and no reversed period in it, the calendar's next event     *)
(* that has not begun is the next mow (calendar.py: "The entity state is   *)
(* the NEXT upcoming mow").                                                *)
CalendarAgrees ==
  LET ahead == {e.from : e \in {f \in CalendarEvents(read, now) : f.from > 0}} IN
  /\ read.master
  /\ \A d \in Week : LET ps == ScheduleSource(read)[d].period IN
                     \A i \in 1..Len(ps) : Forward(ps[i])
  => NextMow(read, now) = IF ahead = {} THEN NoMow ELSE Min(ahead)

(* No start of the plan comes unwatched: if the plan has stood for the     *)
(* time the polls need to read it, the poll that follows the start is at   *)
(* most DefaultScan away when the start comes (MOW_SOON_WINDOW: "so the    *)
(* start of a job ... is never missed").  Idle polls must be frequent      *)
(* enough to fall into the window, and the slow cycle to see the plan.     *)
StartIsWatched ==
  [][/\ now' # now
     /\ cloud.master /\ StartsAt(ScheduleSource(cloud), now')
     /\ age' = Lag
     => pollIn' <= DefaultScan]_vars

(* A day that is on is only in disorder, on the mower or in the cloud, if  *)
(* the app stored it so: whatever calls and failures overlap, the service  *)
(* puts no reversed or overlapping periods there (_check_periods).         *)
PlansAreSound ==
  \A d \in Week, plan \in {mower, cloud.plan} :
    plan[d].open => Sound(plan[d].period) \/ plan[d] \in EntriesOf(AppPlans)

(* So a user is told the same, and rightly, wherever the plan is shown.    *)
PlanIsToldRight == NextMowIsSoonest /\ CalendarAgrees

(* What was accepted comes back as it was asked for: both stages and the   *)
(* parser agree on the grid, the end of the day and the order of periods   *)
(* (the periods the card posts are those it shows next).                   *)
AcceptedIsShown ==
  \A r \in Requests : Accepted(r.enabled, r.times)
    => Shown(EntryFor(r.enabled, r.times))
       = [enabled |-> r.enabled, periods |-> Wanted(r.times)]

=============================================================================
