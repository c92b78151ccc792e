SPECIFICATION Spec
CONSTANTS
  Codes = {"docked", "mowing", "away"}
  Zones = {front, back}
  Pcts = {0, 1, 2}
  ResetDrop = 2
  MaxPoints = 2
  DecidePolls = 2
  Files <- MCInDock
SYMMETRY ZoneSymmetry
INVARIANTS
  TypeOK
  ZeroKeepsOnlyThisTrip
  NewJobClears
PROPERTIES
  KeepsThisTrip
  ResumedJobIsKept
