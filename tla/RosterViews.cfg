\* Two members, who enter, switch rooms, set files, list users and leave;
\* nothing is left to do when both have.
SPECIFICATION FairSpec
CONSTANTS
  c1 = c1 c2 = c2 c3 = c3 r1 = r1 r2 = r2 f1 = f1 f2 = f2
  Conns = {c1, c2}
  RoomNames = {r1, r2}
  Files = {f1}
  Listers = {c2}
  None = None
INVARIANTS TypeOK NobodyMissing
PROPERTIES ListHeals
CHECK_DEADLOCK FALSE
