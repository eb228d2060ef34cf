SPECIFICATION FairSpec
CONSTANTS
    Workers = {w1, w2}
    Verdicts = {1}
    Recipients = {ann, bob}
    Steadfast = {ann}
    MaxAttempts = 2
    MaxFaults = 1
INVARIANTS
    TypeOK DeliveredWasHeard AttemptsBounded
PROPERTIES
    EveryVerdictRetired
