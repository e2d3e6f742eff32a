SPECIFICATION Spec
CONSTANTS
    io = io
    t1 = t1
    t2 = t2
    CTL = CTL
    EXIT = EXIT
    r1 = r1
    r2 = r2
    w1 = w1
    d1 = d1
    d2 = d2
    f1 = f1
    f2 = f2
    f3 = f3
    e1 = e1
    e2 = e2
    e3 = e3
    p1 = p1
    s1 = s1
    s2 = s2
    None = None
INVARIANTS
    MapSound
    LoopSound
    SignalsSound
    OnceAndForAll
PROPERTIES
    EventSteps
    AddressesInOrder
CHECK_DEADLOCK FALSE
