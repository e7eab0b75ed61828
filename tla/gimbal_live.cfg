CONSTANTS
    ControlPeriod = 1
    QueryGap = 1
    FeedbackPoll = 2
    ProbePeriod = 1
    StartMaxAge = 1
    FeedbackStale = 1
    BootDelay = 1
    FeedbackTimeout = 2
    CenterTimeout = 3
    Elapse = {1}
    HardMin <- MCHardMin
    HardMax <- MCHardMax
    CtlMin <- MCCtlMin
    CtlMax <- MCCtlMax
    Center <- MCCenter
    Margin = 1
    CenterTol = 1
    Divergence = 2
    Deadband = 2
    IdleTol = 1
    Feedback <- LiveFeedback
    Slider <- FarSlider
    MaxOwed = 1
    MayRefuse = FALSE
    MayFail = FALSE
    MayLose = FALSE
    MayReset = TRUE
    Prompt = FALSE
SPECIFICATION FairSpec
PROPERTIES StartResolves CenteringEnds WatchdogTrips TargetServed ImplementsModes ImplementsSlots
CHECK_DEADLOCK FALSE
