SPECIFICATION Spec
CONSTANTS
    sig = sig
    t1 = t1
    d1 = d1
    d2 = d2
    CTL = CTL
    EXIT = EXIT
    bev1 = bev1
    bev2 = bev2
    g1 = g1
    Nothing = Nothing
PROPERTIES
    EventsRun
    AllAnswered
    DataFlows
CHECK_DEADLOCK FALSE
