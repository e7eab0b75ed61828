CONSTANTS
    ControlPeriod = 3
    QueryGap = 2
    FeedbackPoll = 4
    ProbePeriod = 5
    StartMaxAge = 9
    FeedbackStale = 11
    BootDelay = 5
    FeedbackTimeout = 12
    CenterTimeout = 13
    Elapse = {1, 2}
    HardMin <- MCHardMin
    HardMax <- MCHardMax
    CtlMin <- MCCtlMin
    CtlMax <- MCCtlMax
    Center <- MCCenter
    Margin = 1
    CenterTol = 1
    Divergence = 2
    Deadband = 2
    IdleTol = 1
    Feedback <- SwayFeedback
    Slider <- FarSlider
    MaxOwed = 1
    MayRefuse = FALSE
    MayFail = FALSE
    MayLose = FALSE
    MayReset = FALSE
    Prompt = TRUE
SPECIFICATION Spec
INVARIANT FaultIsStopped
CHECK_DEADLOCK FALSE
