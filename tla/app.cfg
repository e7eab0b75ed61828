CONSTANTS
    MaxGlitches = 1
    MaxAsks = 3
    Axis <- MCAxis
    RefreshPeriod = 2
SPECIFICATION Spec
INVARIANTS TypeOK OnePressOneRequest
PROPERTIES MotorKeepsTurning ScreenCatchesUp
CHECK_DEADLOCK FALSE
