SPECIFICATION FairSpec
CONSTANTS
  Threads = {t1, t2}
  Free = free
  MaxLosses = 2
  MaxTokens = 3
  t1 = t1
  t2 = t2
  free = free
INVARIANTS
  TypeOK
  AnswerIsOwn
  RenewedOncePerLoss
  RepeatedOnlyIfDead
PROPERTIES
  EveryCallEnds
