------------------------------ MODULE Schedule ------------------------------
(***************************************************************************)
(* The weekly mowing plan, as functions: when the next mow is              *)
(* (coordinator.py: _schedule_source, _parse_schedule, _compute_next_mow), *)
(* what the calendar shows (calendar.py), which plans the service accepts  *)
(* (services.py: _hhmm_to_min, _check_periods) and how a day is encoded    *)
(* for the mower (client.py: set_day_schedule).                            *)
(*                                                                         *)
(* A day has SlotsADay slots (96 of 15 minutes), a slot SlotLen units of   *)
(* time; the plan keeps slots, everything else moments of the day.  The    *)
(* zones of a period play no part in any of it.                            *)
(***************************************************************************)
EXTENDS Integers, Sequences, SequencesExt

CONSTANTS
  DaysAWeek,  \* 7: day 1 is Sunday
  SlotsADay,  \* 96
  SlotLen,    \* the length of a slot, the 15 minutes of the mower's grid
  NoPlan,     \* the settings hold no plan
  NoMow       \* no mow is to come

ASSUME WeekAssumption ==
  /\ {DaysAWeek, SlotsADay, SlotLen} \subseteq Nat \ {0}
  /\ NoMow \notin Int

Week == 1..DaysAWeek
DayLen == SlotsADay * SlotLen

(* A period of the plan.  The app may have stored anything: one that ends  *)
(* before it starts, or two that overlap.                                  *)
Periods == [start : 0..SlotsADay, end : 0..SlotsADay]
Entries == [open : BOOLEAN, period : Seq(Periods)]

(* The moments of the week.                                                *)
Moments == 0..(DaysAWeek * DayLen - 1)
DayOf(now) == (now \div DayLen) + 1
TimeOf(now) == now % DayLen
DayAfter(day, offset) == ((day - 1 + offset) % DaysAWeek) + 1

(* _schedule_source: the legacy plan only where there is no other.         *)
ScheduleSource(settings) ==
  IF settings.plan # NoPlan THEN settings.plan ELSE settings.legacy

-----------------------------------------------------------------------------
(* _compute_next_mow.  A candidate is a start so many days ahead; the loop *)
(* returns the first by day, then by start.                                *)

(* Days switched off as well.                                              *)
DayStartsEvenOff(plan, day) == {p.start : p \in ToSet(plan[day].period)}

DayStarts(plan, day) ==
  IF plan[day].open THEN {p.start : p \in ToSet(plan[day].period)} ELSE {}

(* The day a week ahead is left out.                                       *)
CandidatesWithinWeek(plan, now) ==
  {c \in (0..DaysAWeek - 1) \X (0..SlotsADay - 1) :
     /\ c[2] \in DayStarts(plan, DayAfter(DayOf(now), c[1]))
     /\ c[1] = 0 => c[2] * SlotLen > TimeOf(now)}

Candidates(plan, now) ==
  {c \in (0..DaysAWeek) \X (0..SlotsADay - 1) :
     /\ c[2] \in DayStarts(plan, DayAfter(DayOf(now), c[1]))
     /\ c[1] = 0 => c[2] * SlotLen > TimeOf(now)}

NotLater(c, d) == c[1] < d[1] \/ (c[1] = d[1] /\ c[2] <= d[2])

(* Counted from midnight.                                                  *)
AheadOfMidnight(c, now) == c[1] * DayLen + c[2] * SlotLen

(* How far ahead a candidate is.                                           *)
Ahead(c, now) == c[1] * DayLen + c[2] * SlotLen - TimeOf(now)

NextMow(settings, now) ==
  LET plan == ScheduleSource(settings)
      cands == Candidates(plan, now)
  IN IF settings.master = FALSE \/ plan = NoPlan \/ cands = {} THEN NoMow
     ELSE Ahead(CHOOSE c \in cands : \A d \in cands : NotLater(c, d), now)

-----------------------------------------------------------------------------
(* NavimowScheduleCalendar.event: the first period, by its start, that is  *)
(* not over, within two weeks.  Reversed periods are left out, the master  *)
(* switch is not asked.  An event is <<days ahead, period>>.               *)

Horizon == 2 * DaysAWeek

CalendarEvents(settings, now) ==
  LET plan == ScheduleSource(settings)
      Of(offset) == LET e == plan[DayAfter(DayOf(now), offset)] IN
                    IF e.open THEN ToSet(e.period) ELSE {}
      From(offset, p) == offset * DayLen + p.start * SlotLen - TimeOf(now)
      Till(offset, p) == offset * DayLen + p.end * SlotLen - TimeOf(now)
  IN IF plan = NoPlan THEN {}
     ELSE UNION {{[from |-> From(o, p), till |-> Till(o, p)] :
                    p \in {q \in Of(o) : /\ q.end > q.start
                                         /\ Till(o, q) > 0
                                         /\ From(o, q) < Horizon * DayLen}} :
                 o \in 0..Horizon}

-----------------------------------------------------------------------------
(* The service set_schedule.  A time is a moment of the day.               *)

(* _hhmm_to_min refuses what is off the grid.                              *)
OnGrid(time) == time \in 0..(DayLen - 1) /\ time % SlotLen = 0

(* An end of 00:00 is the end of the day.                                  *)
EndOf(time) == IF time = 0 THEN DayLen ELSE time

Forward(p) == p.end > p.start

(* The places in the list, sorted by the start of what is there.           *)
Orders(ps) ==
  {order \in Bijection(1..Len(ps), 1..Len(ps)) :
     \A i \in 1..(Len(ps) - 1) : ps[order[i]].start <= ps[order[i + 1]].start}

(* Neighbours compared by their starts only.                               *)
CheckPeriodsByStart(ps) ==
  /\ \A i \in 1..Len(ps) : Forward(ps[i])
  /\ \E order \in Orders(ps) :
       \A i \in 1..(Len(ps) - 1) : ps[order[i + 1]].start > ps[order[i]].start

(* _check_periods: each forward; once sorted, none starts before the one   *)
(* in front of it has ended.                                               *)
CheckPeriods(ps) ==
  /\ \A i \in 1..Len(ps) : Forward(ps[i])
  /\ \E order \in Orders(ps) :
       \A i \in 1..(Len(ps) - 1) : ps[order[i + 1]].start >= ps[order[i]].end

(* The periods as the service passes them on, and whether it does.         *)
Wanted(times) ==
  [i \in 1..Len(times) |-> [start |-> times[i].start, end |-> EndOf(times[i].end)]]

Accepted(enabled, times) ==
  /\ \A i \in 1..Len(times) : OnGrid(times[i].start) /\ OnGrid(times[i].end)
  /\ enabled => CheckPeriods(Wanted(times))

(* set_day_schedule: the entry both stages write, in slots.                *)
EntryFor(enabled, times) ==
  [open |-> enabled,
   period |-> [i \in 1..Len(times) |->
                 [start |-> Wanted(times)[i].start \div SlotLen,
                  end |-> Wanted(times)[i].end \div SlotLen]]]

(* _parse_schedule: a day as the card and the calendar show it.            *)
Shown(entry) ==
  [enabled |-> entry.open,
   periods |-> [i \in 1..Len(entry.period) |->
                  [start |-> entry.period[i].start * SlotLen,
                   end |-> entry.period[i].end * SlotLen]]]

-----------------------------------------------------------------------------
(* What the functions are to compute, in other words.                      *)

(* A mow starts at this moment of the week.                                *)
StartsAt(plan, now) ==
  /\ plan # NoPlan
  /\ \E s \in DayStarts(plan, DayOf(now)) : s * SlotLen = TimeOf(now)

WeekLen == DaysAWeek * DayLen
Later(now, by) == (now + by) % WeekLen

(* due is how long it is to the first start after now.                     *)
IsSoonest(due, plan, now) ==
  IF due = NoMow THEN \A by \in 1..WeekLen : ~StartsAt(plan, Later(now, by))
  ELSE /\ due \in 1..WeekLen
       /\ StartsAt(plan, Later(now, due))
       /\ \A by \in 1..(due - 1) : ~StartsAt(plan, Later(now, by))

(* Every period forward, no two at the same time, whatever their order.    *)
Sound(ps) ==
  /\ \A i \in 1..Len(ps) : Forward(ps[i])
  /\ \A i, j \in 1..Len(ps) : i # j => ps[i].end <= ps[j].start \/ ps[j].end <= ps[i].start

=============================================================================
