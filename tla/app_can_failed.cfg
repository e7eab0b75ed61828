CONSTANTS
    MaxGlitches = 1
    MaxAsks = 3
    Axis <- MCAxis
    RefreshPeriod = 2
SPECIFICATION Spec
PROPERTY FaultTapServed
CHECK_DEADLOCK FALSE
