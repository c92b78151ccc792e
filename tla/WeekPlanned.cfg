SPECIFICATION Spec
CONSTANTS
  DaysAWeek = 2
  SlotsADay = 2
  SlotLen = 3
  NoPlan = NoPlan
  NoMow = NoMow
  Legacy = NoPlan
  Calls = {c1}
  Requests <- MCRequests
  AppPlans <- MCAppPlans
  Codes = {"docked", "mowing"}
  MowScan = 1
  FastScan = 1
  DefaultScan = 1
  IdleScan = 3
  MowSoon = 3
  SlowEvery = 2
  Faults = {"write", "fast", "settings"}
INVARIANTS
  TypeOK
  PlanIsToldRight
  PlansAreSound
PROPERTY StartIsWatched
