\* Every behaviour: two connections and one room name.
SPECIFICATION Spec
CONSTANTS
  c1 = c1 c2 = c2
  k1 = k1 k2 = k2 k3 = k3 k4 = k4
  ann = ann empty = empty
  Clients = {c1, c2}
  RoomNames = {"A"}
  Copies = {k1, k2, k3, k4}
  Bases <- MCBases
  BaseLen <- MCBaseLen
  Requests <- MCRequests
  MaxUsernameLength = 4
  MaxUnderscores = 4
  None = None
  LiveTimeouts = TRUE
  LateMessages = TRUE
SYMMETRY Symmetry
INVARIANTS TypeOK DistinctNames ReservedNames NoEmptyRoomKept LoopFindsFreeName
PROPERTY RegistrySpec
