CONSTANTS
  a1 = a1
  a2 = a2
  a3 = a3
  p1 = p1
  p2 = p2
  ADMIN = ADMIN
  NoRole = NoRole
  NoUser = NoUser
  Users = {a1, a2, a3}
  Roles = {ADMIN}
  Calls = {p1, p2}
  MaxTime = 2
  MaxLog = 3
SPECIFICATION Spec
SYMMETRY MCSymmetry
INVARIANTS TypeOK OrphanedOnlyOutOfOrder DecidedOnce
PROPERTIES NobodyActsAlone
CHECK_DEADLOCK FALSE
