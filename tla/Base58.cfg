CONSTANTS
    Base = 256
    IndexSpan = 256
    Radix = 58
    ArraySize = 164
    MaxOut = 4
    Inputs <- ShortAndLong
SPECIFICATION Spec
CHECK_DEADLOCK FALSE
INVARIANTS
    TypeOK
    EncodesInput
    LoopKeepsValue
PROPERTIES
    Terminates
