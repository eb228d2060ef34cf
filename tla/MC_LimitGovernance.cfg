CONSTANTS
  ana = ana
  bob = bob
  cy = cy
  r1 = r1
  r2 = r2
  low = low
  high = high
  NoUser = NoUser
  Users = {ana, bob, cy}
  Configs = {low, high}
  Requests = {r1, r2}
  MaxActs = 5
SPECIFICATION Spec
SYMMETRY MCSymmetry
INVARIANTS TypeOK DraftLeftByApproval LiveAsSignedUnlessOvertaken
CHECK_DEADLOCK FALSE
