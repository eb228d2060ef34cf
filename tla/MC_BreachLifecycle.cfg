CONSTANTS
  w1 = w1
  w2 = w2
  u1 = u1
  u2 = u2
  Users = {u1, u2}
  FirstLine = {u1, u2}
  SecondLine = {u2}
  Callers = {u1, u2}
  UserOf <- OneRequestEach
  Workers = {w1, w2}
  Assignable = {u1}
  NoUser = NoUser
  SLA = 1
  MaxTime = 3
  MaxActions = 5
  MaxCrashes = 1
SPECIFICATION FairSpec
INVARIANTS TypeOK TimelineChained
PROPERTIES ConditionedCallsAreFresh ImplementsMachine EveryDeadlineActedOn
