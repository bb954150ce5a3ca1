\* A user can end up in a room that the room map no longer has.
SPECIFICATION Spec
CONSTANTS
  c1 = c1 c2 = c2
  k1 = k1 k2 = k2 k3 = k3 k4 = k4
  ann = ann empty = empty
  Clients = {c1, c2}
  RoomNames = {"A"}
  Copies = {k1, k2, k3, k4}
  Bases <- MCBases
  BaseLen <- MCBaseLen
  Requests <- OneRequest
  MaxUsernameLength = 4
  MaxUnderscores = 4
  None = None
  LiveTimeouts = FALSE
  LateMessages = FALSE
INVARIANT Listed
