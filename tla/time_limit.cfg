SPECIFICATION Spec
CONSTANTS
    Inputs = {x1, x2}
    Addrs = {a1, a2}
    GoldAddrs = {1, 2, 3, 4}
    None = None
    ExecTypes = {}
    FetchError = 2
    HaltInSub = 3
    StepLimit = 4
    CrossTypes = {6}
    Lines = {1}
    Level <- DefaultLevel
    CheckList <- OneOutput
    MaxStep = 1
    SearcherType = "Pruning"
    StopAtReactivation = TRUE
    MaxTime = TRUE
    EarlyExitTime = TRUE
    Signals = {"INT", "ALRM"}
    HasGold = TRUE
    GoldFaulty = FALSE
SYMMETRY Symmetry
PROPERTIES
    TimeLimitStopsExploring
