SPECIFICATION FairSpec
CONSTANTS
  Threads = {t1, t2}
  Conns = {c1, c2}
  None = None
  Idle = Idle
  Gone = Gone
  MaxIdle = 1
  MaxTime = 1
  MaxHeld = 1
PROPERTIES
  CallsReturn
  SafeGrabReturns

\* The program ends after Drain.
CHECK_DEADLOCK FALSE
