\* Two acceptors, two workers, three sockets, memory for three items and so
\* addresses used again, one wake-up without a signal.
\* Idle workers wait for ever once all sockets are served.
SPECIFICATION FairSpec
CONSTANTS
  Acceptors = {a1, a2}
  Workers = {w1, w2}
  Sockets = {s1, s2, s3}
  Addrs = {i1, i2, i3}
  MaxSpurious = 1
  NoThread = NoThread
  NoSocket = NoSocket
  NULL = NULL
INVARIANTS TypeOK ListOK HeadThere NoLostWakeup
PROPERTIES FifoImplemented Served
CHECK_DEADLOCK FALSE
