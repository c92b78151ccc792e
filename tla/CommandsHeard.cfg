SPECIFICATION FairSpec
CONSTANTS
  Calls = {c1}
  front = front
  back = back
  Zones = {front, back}
  AllZones = AllZones
  NoOption = NoOption
  Maps <- MCMaps
  Options = {}
  LacksOrder = TRUE
  Resets = {TRUE}
  Faults = {"send", "probe", "map", "odd", "number"}
INVARIANTS
  TypeOK
  IgnoredIsReported
PROPERTIES
  JobIsKept
  ShownChoiceIsMown
  EveryCommandEnds
