SPECIFICATION Spec
SYMMETRY Symmetry
CONSTANTS
    Writers = {w1, w2}
    Factors = {"mkt", "size"}
    Dates = {0, 1}
    Window = 2
    Backlog <- MC_Backlog
    Live <- MC_Live
    MaxTime = 1
    MaxVersions = 3
    MaxEdits = 1
    MaxSnapshots = 1
INVARIANTS
    TypeOK OneTruth PinsHold CutoffsReproduceUnlessClosed
PROPERTIES
    ImplementsBelief
CHECK_DEADLOCK FALSE
