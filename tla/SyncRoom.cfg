\* Two members: every interleaving of their reports, broadcasts and ticks.
SPECIFICATION FairSpec
CONSTANTS
  c1 = c1 c2 = c2
  Conns = {c1, c2}
  None = None
  Playstates <- MCPlaystates
  MaxEvents = 2
  MaxQueued = 1
INVARIANTS TypeOK NeverDeaf
PROPERTIES Converges
