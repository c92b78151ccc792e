SPECIFICATION FairSpec
CONSTANTS
  front = front
  back = back
  Mowers = {front, back}
  NewFlows = {n1}
  Ids = {1, 2}
  Before <- MCBefore
  Lives = {"crash", "options", "remove"}
INVARIANTS
  TypeOK
  IdentitiesConverge
PROPERTY SessionComesBack
