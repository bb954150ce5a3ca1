\* What a joining client shares, as the others are told.
SPECIFICATION Spec
CONSTANTS
  c1 = c1 c2 = c2 c3 = c3 r1 = r1 r2 = r2 f1 = f1 f2 = f2
  Conns = {c1, c2}
  RoomNames = {r1, r2}
  Files = {f1}
  Listers = {c2}
  None = None
INVARIANT FilesRight
CHECK_DEADLOCK FALSE
