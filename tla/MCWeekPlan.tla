----------------------------- MODULE MCWeekPlan -----------------------------
(***************************************************************************)
(* Instances of WeekPlan: a week of two days of two slots.                 *)
(***************************************************************************)
EXTENDS WeekPlan

Period(s, e) == [start |-> s, end |-> e]
On(ps) == [open |-> TRUE, period |-> ps]
Off(ps) == [open |-> FALSE, period |-> ps]

(* A day with a start at midnight, stored overlapping by the app, and a    *)
(* single late start.                                                      *)
MCAppPlans ==
  {[d \in Week |-> IF d = 1 THEN On(<<Period(0, 2), Period(1, 2)>>) ELSE Off(<<Period(1, 2)>>)],
   [d \in Week |-> IF d = 1 THEN Off(<<>>) ELSE On(<<Period(1, 2)>>)]}

(* Two periods in the wrong order of time, two that overlap, one off the   *)
(* grid, an end at midnight, and a day switched off as it is.              *)
MCRequests ==
  {[day |-> 1, enabled |-> TRUE,
    times |-> <<Period(SlotLen, 0), Period(0, SlotLen)>>],
   [day |-> 1, enabled |-> TRUE,
    times |-> <<Period(SlotLen, 0), Period(0, 0)>>],
   [day |-> 1, enabled |-> TRUE, times |-> <<Period(0, SlotLen - 1)>>],
   [day |-> 1, enabled |-> FALSE,
    times |-> <<Period(0, 0), Period(SlotLen, 0)>>]}

(* What is asked for and accepted comes back from the cloud as it was.     *)
ASSUME AcceptedIsShown

=============================================================================
