\* Two connections and two room names, no timeout while the reader runs and
\* nothing buffered after a close.
SPECIFICATION FairSpec
CONSTANTS
  c1 = c1 c2 = c2
  k1 = k1 k2 = k2 k3 = k3 k4 = k4
  ann = ann empty = empty
  Clients = {c1, c2}
  RoomNames = {"A", "B"}
  Copies = {k1, k2, k3}
  Bases <- MCBases
  BaseLen <- MCBaseLen
  Requests <- MCRequests
  MaxUsernameLength = 4
  MaxUnderscores = 4
  None = None
  LiveTimeouts = FALSE
  LateMessages = FALSE
INVARIANTS SlotsAgree NoGhosts
PROPERTIES NoEviction EndedIsForgotten
