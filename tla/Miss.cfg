SPECIFICATION Spec
CONSTANTS
  Threads = {t1, t2}
  CacheKeys = {k}
  Vals = {v, w}
  Junk = Junk
  Nothing = Nothing
  MaxQueue = 2
INVARIANT MissIsAnError
