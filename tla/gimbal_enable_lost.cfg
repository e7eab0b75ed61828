CONSTANTS
    ControlPeriod = 2
    QueryGap = 1
    FeedbackPoll = 2
    ProbePeriod = 1
    StartMaxAge = 1
    FeedbackStale = 2
    BootDelay = 1
    FeedbackTimeout = 3
    CenterTimeout = 4
    Elapse = {1}
    HardMin <- MCHardMin
    HardMax <- MCHardMax
    CtlMin <- MCCtlMin
    CtlMax <- MCCtlMax
    Center <- MCCenter
    Margin = 1
    CenterTol = 1
    Divergence = 2
    Deadband = 2
    IdleTol = 1
    Feedback <- LiveFeedback
    Slider <- FarSlider
    MaxOwed = 1
    MayRefuse = FALSE
    MayFail = TRUE
    MayLose = FALSE
    MayReset = FALSE
    Prompt = FALSE
SPECIFICATION Spec
INVARIANT PitchHolds
CHECK_DEADLOCK FALSE
