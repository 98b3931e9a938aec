\* Two threads that keep up to two connections each, three addresses: the
\* pool can grow to what the threads need, and addresses get recycled.
SPECIFICATION Spec
CONSTANTS
  Threads = {t1, t2}
  Conns = {c1, c2, c3}
  None = None
  Idle = Idle
  Gone = Gone
  MaxIdle = 1
  MaxTime = 2
  MaxHeld = 2
SYMMETRY Symmetry
INVARIANTS
  TypeOK
  LeaseIsLive
  LeaseIsExclusive
  NoneIsLost
PROPERTIES
  GrowsOnlyWhenExhausted
  HandsOutMostRecent
  ImplementsLease

\* The program ends after Drain.
CHECK_DEADLOCK FALSE
