CONSTANTS
    Rev = 32
    Word = 256
    RawLimit = 64
    BootDelay = 2
    QueryGap = 1
    Full <- MCFull
    Travel <- MCTravel
    MinCounts = 1
    MidTol = 1
    Hand <- MCHand
    HandAt <- MCHandAt
    Mounting <- MCMounting
    Garbage <- MCGarbage
    Unreliable <- MCUnreliable
INIT Init
NEXT Next
INVARIANTS TypeOK EndpointsRecovered PathIsContinuous SingleOutlierIsWarned RepeatIsWarned OwnReadings
CHECK_DEADLOCK FALSE
