SPECIFICATION Spec
CONSTANTS
  Threads = {t1}
  Free = free
  MaxLosses = 2
  MaxTokens = 3
  t1 = t1
  free = free
INVARIANTS
  AuthErrorIsOfTheSession
