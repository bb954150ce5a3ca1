\* Two instances of the service, one after the other, and up to two faults.  The
\* service may stop for good: then there is nothing left to do.
SPECIFICATION FairSpec
CONSTANTS
  t1 = t1 t2 = t2 t3 = t3
  MaxServices = 2
  Threads = {t1, t2, t3}
  MaxFaults = 2
  None = None
INVARIANTS TypeOK OneMonitor NoEscape
PROPERTIES StartsAlone StopEnds StaysUp
CHECK_DEADLOCK FALSE
