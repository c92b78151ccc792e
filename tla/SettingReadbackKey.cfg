SPECIFICATION Spec
CONSTANTS
  Writes = {w1}
  Keys = {obstacle_avoidance}
  Names = {obstacle_avoid}
  NameOf <- MCObstacleAvoid
  Tick = Tick
  Deb = Deb
  Nothing = Nothing
  SlowEvery = 2
  Faults = {}
  Mowing = FALSE
  CallersCancel = FALSE
  Unloads = FALSE
PROPERTIES
  ReportedValueIsJudged
