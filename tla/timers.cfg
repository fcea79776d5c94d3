SPECIFICATION Spec
CONSTANTS
    Tick = 8
    MinRto = 8
    MaxRto = 24
    InitialRto = 32
    ProbeSoon = 8
    ProbeLate = 16
    U64 = 1073741824
    MaxTsn = 3
    Horizon = 96
INVARIANTS MeasuresOutstanding Punctual RetransmittedInTime
PROPERTIES NoSpuriousTimeout
CHECK_DEADLOCK FALSE
