CONSTANTS
  w1 = w1
  w2 = w2
  Workers = {w1, w2}
  Nobody = Nobody
  Reviewers = {1, 2}
  MaxAlarms = 2
  MaxChanges = 1
  MaxFaults = 1
SPECIFICATION CursorFairSpec
INVARIANTS CursorTypeOK NoAlarmSkipped NobodyOverlooked
PROPERTIES EveryAlarmHandled
