SPECIFICATION FairSpec
CONSTANTS
  Writes = {w1}
  Keys = {child_lock}
  Names = {child_lock}
  NameOf <- MCNameOf
  Tick = Tick
  Deb = Deb
  Nothing = Nothing
  SlowEvery = 1
  Faults = {"write", "probe"}
  Mowing = TRUE
  CallersCancel = TRUE
  Unloads = TRUE
PROPERTIES
  EveryWriteIsReadBack
  EveryWriterReturns
  UnloadIsFinal
CHECK_DEADLOCK FALSE
