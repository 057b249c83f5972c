SPECIFICATION FairSpec
CONSTANTS
  Sinks = {s1}
  Conns = {c1, c2}
  NoSink = NoSink
  NoConn = NoConn
  MaxEmit = 2
  MaxPlain = 1
INVARIANTS
  NoDuplicates
  SeqDense
  Accounted
  StoredPrefix
PROPERTIES
  ImplementsDelivery
  DeliveredWhenApiRecovers
CHECK_DEADLOCK FALSE
