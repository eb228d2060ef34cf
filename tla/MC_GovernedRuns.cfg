SPECIFICATION FairSpec
CONSTANTS
    Families = {"VAR", "EXPOSURE_AGGREGATE"}
    Kernels = {"VAR_PARAMETRIC", "ES_PARAMETRIC", "EXPOSURE"}
    Gated = {"VAR_PARAMETRIC", "ES_PARAMETRIC"}
    Place <- MC_Place
    Family <- MC_Family
    Validators = {v1, v2}
    Binders = {b1}
    MaxClock = 2
    MaxDeploys = 1
    MaxFaults = 1
INVARIANTS
    TypeOK UnRejectedOnlyInFlight AlarmsHaveACause GreenMeansChecked
PROPERTIES
    DivergenceSurfaces
