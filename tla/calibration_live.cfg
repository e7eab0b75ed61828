CONSTANTS
    Rev = 32
    Word = 256
    RawLimit = 64
    BootDelay = 2
    QueryGap = 1
    Full <- MCFull
    Travel <- MCTravel
    MinCounts = 1
    MidTol = 1
    Hand <- StillHand
    HandAt <- StillHandAt
    Mounting <- MCMounting
    Garbage <- MCGarbage
    Unreliable <- MCUnreliable
SPECIFICATION Spec
PROPERTY ReliableStillRead
CHECK_DEADLOCK FALSE
