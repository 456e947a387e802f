SPECIFICATION FairSpec
CONSTANTS
  t1 = t1
  t2 = t2
  t3 = t3
  a = a
  b = b
  Thread = {t1, t2, t3}
  Joiner = t1
  Words = {a, b}
  FUTEX_MAX_WAIT = 2
  MaxSleep = 2
  Idle = Idle
  NULL = NULL
  Loads <- MCLoads
INVARIANTS PoolHoldsSleepers NobodyForgotten
PROPERTIES NoEarlyWake JoinReturns
