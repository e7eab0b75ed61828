CONSTANTS
    ControlPeriod = 2
    QueryGap = 1
    FeedbackPoll = 2
    ProbePeriod = 1
    StartMaxAge = 1
    FeedbackStale = 2
    BootDelay = 1
    FeedbackTimeout = 3
    CenterTimeout = 4
    Elapse = {1}
    HardMin <- MCHardMin
    HardMax <- MCHardMax
    CtlMin <- MCCtlMin
    CtlMax <- MCCtlMax
    Center <- MCCenter
    Margin = 1
    CenterTol = 1
    Divergence = 2
    Deadband = 2
    IdleTol = 1
    Feedback <- WideFeedback
    Slider <- FarSlider
    MaxOwed = 1
    MayRefuse = TRUE
    MayFail = FALSE
    MayLose = TRUE
    MayReset = TRUE
    Prompt = FALSE
SPECIFICATION Spec
INVARIANTS TypeOK ArmedIsSupervised FeedbackPostdatesRequest NoLostTarget
    PositionToEnabledMotor PitchHolds
PROPERTIES MotionGuarded OncePerChange FaultNeedsNewRequest
CHECK_DEADLOCK FALSE
