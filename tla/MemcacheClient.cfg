\* Two threads, one key with two values, FAST_MODE on and off.
SPECIFICATION Spec
CONSTANTS
  Threads = {t1, t2}
  CacheKeys = {k}
  Vals = {v, w}
  Junk = Junk
  Nothing = Nothing
  MaxQueue = 2
INVARIANTS TypeOK OwnAnswers NothingLeftOver
PROPERTY CallsReturn
