SPECIFICATION Spec
CONSTANTS
  Writes = {w1, w2}
  Keys = {child_lock}
  Names = {child_lock}
  NameOf <- MCNameOf
  Tick = Tick
  Deb = Deb
  Nothing = Nothing
  SlowEvery = 2
  Faults = {"fast", "settings"}
  Mowing = FALSE
  CallersCancel = FALSE
  Unloads = FALSE
SYMMETRY WriteSymmetry
INVARIANTS
  TypeOK
  NoPollBetweenStages
  OneCheckPerKey
PROPERTIES
  VerdictRestsOnFreshRead
  RecordsAreKept
