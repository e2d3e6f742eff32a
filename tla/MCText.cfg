SPECIFICATION AllSpec
CONSTANTS
    Message <- Messages
    HTTP_MAX_HEADER_SIZE = 1000
    UllongMax = 4095
    MaxCuts = 2
    MaxStops = 1
    IntBits = 8
    MaxLen = 4
    MaxInt = 127
    NullString = NullString
INVARIANTS
    ParserSound
    TextRead
    HelpersRight
    JsonSound
PROPERTIES
    JsonSteps
CHECK_DEADLOCK FALSE
