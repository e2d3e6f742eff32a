SPECIFICATION Spec
CONSTANTS
    inbuf = inbuf
    outbuf = outbuf
    r1 = r1
    r2 = r2
    bev1 = bev1
    bev2 = bev2
    g1 = g1
    None = None
SYMMETRY Alike
INVARIANTS
    
    BuffereventSound
    FilterSound
    LimitsSound
PROPERTIES
    IsQueue
    BufferSteps
CHECK_DEADLOCK FALSE
