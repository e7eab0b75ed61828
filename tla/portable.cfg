CONSTANTS
    Rev = 16
    Word = 64
    Configs <- MCConfigs
    Fitted <- MCFitted
    Parked <- MCParked
    Targets <- MCTargets
    Foreign <- MCForeign
    MaxFrames = 2
SPECIFICATION Spec
INVARIANTS TypeOK AngleWasTrue WithinLimits
PROPERTY MovesToTarget
CHECK_DEADLOCK FALSE
