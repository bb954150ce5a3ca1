\* Either client, with a caller of WaitReady and two of Stop.  With a proxy a late
\* dial may do all that it does without one, and more.
SPECIFICATION FairSpec
CONSTANTS
  w1 = w1 s1 = s1 s2 = s2 a1 = a1 a2 = a2 k1 = k1 k2 = k2 k3 = k3
  Callers = {w1}
  Stoppers = {s1, s2}
  Addrs = {a1, a2}
  Conns = {k1, k2, k3}
  DegradedThreshold = 2
  Proxied = TRUE
  None = None
INVARIANTS TypeOK NoMissedWakeup NoLeak NeverGivesUp
PROPERTIES ContractSpec StopEnds FollowsStatus
