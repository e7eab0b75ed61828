CONSTANTS
    Motor <- MCMotor
    Frame <- MCFrame
    Buffers = 2
SPECIFICATION Spec
INVARIANTS TypeOK PendingIsOutstanding BuffersSuffice
PROPERTIES ImplementsSlots AlwaysFreed
CHECK_DEADLOCK FALSE
