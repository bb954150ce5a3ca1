\* Two connections, and two goroutines that close the server.
SPECIFICATION FairSpec
CONSTANTS
  c1 = c1 c2 = c2
  k1 = k1 k2 = k2
  Conns = {c1, c2}
  Closers = {k1, k2}
  None = None
INVARIANTS TypeOK ClosedIsEmpty
PROPERTIES CloseReturns AllClosed TickersEnd
