CONSTANTS
  t1 = t1
  t2 = t2
  t3 = t3
  Threads <- MCThreads
  MaxSends = 4
SPECIFICATION Spec
INVARIANTS
  Ownership
  SingleFlight
  BuffersPinned
  NoEmptySend
  NoLostWakeup
PROPERTIES
  ImplementsChannel
  EverySendSettles
CHECK_DEADLOCK FALSE
