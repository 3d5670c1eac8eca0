CONSTANTS
    Base = 256
    IndexSpan = 256
    Radix = 58
    ArraySize = 164
    MaxOut = 160
    Inputs <- KeySizes
SPECIFICATION Spec
CHECK_DEADLOCK FALSE
INVARIANTS
    StaysInBuffer
