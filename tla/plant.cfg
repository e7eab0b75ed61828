CONSTANTS
    ControlPeriod = 3
    QueryGap = 2
    FeedbackPoll = 4
    ProbePeriod = 5
    StartMaxAge = 9
    FeedbackStale = 14
    BootDelay = 5
    FeedbackTimeout = 14
    CenterTimeout = 22
    Elapse = {1, 2}
    Jitter = 2
    HardMin <- MCHardMin
    HardMax <- MCHardMax
    CtlMin <- MCCtlMin
    CtlMax <- MCCtlMax
    Center <- MCCenter
    Margin = 1
    CenterTol = 1
    Divergence = 2
    Deadband = 2
    IdleTol = 1
    Feedback <- NoFeedback
    Slider <- MCSlider
    MaxOwed = 2
    MayRefuse = FALSE
    MayFail = FALSE
    MayLose = FALSE
    MayReset = FALSE
    Prompt = TRUE
    Speed = 2
    Parked <- MCParked
    Patient = TRUE
SPECIFICATION PlantFairSpec
INVARIANTS NoSpuriousFault WithinStops RestsAtTarget
PROPERTIES StartReachesReady TargetReached
CHECK_DEADLOCK FALSE
