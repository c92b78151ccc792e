SPECIFICATION FairSpec
CONSTANTS
  Calls = {c1, c2}
  Requests = {40, 55}
  Allowed = {30, 50}
  Tick = Tick
  Nothing = Nothing
  Faults = {"refuse", "poll"}
  Removes = TRUE
INVARIANTS
  TypeOK
  TimersAreHeld
PROPERTIES
  AppliedIsNotWarned
  EveryExpectationIsJudged
  WarningIsTakenBack
