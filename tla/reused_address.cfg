SPECIFICATION Spec
CONSTANTS
    Inputs = {x1, x2, x3, x4}
    Addrs = {a1, a2, a3}
    GoldAddrs = {1}
    None = None
    ExecTypes = {}
    FetchError = 2
    HaltInSub = 3
    StepLimit = 4
    CrossTypes = {6, 7}
    Lines = {1}
    Level <- DefaultLevel
    CheckList <- OutputAndUser
    MaxStep = 1
    SearcherType = "PrioritizedFILO"
    StopAtReactivation = FALSE
    MaxTime = FALSE
    EarlyExitTime = FALSE
    Signals = {}
    HasGold = TRUE
    GoldFaulty = FALSE
CONSTRAINT ReusedAddress
SYMMETRY Symmetry
INVARIANTS
    FinalConstraintsPresent
