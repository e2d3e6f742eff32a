SPECIFICATION Spec
CONSTANT f1 = f1
INVARIANTS
    ClientSound
    ServerSound
    RoutesSound
CHECK_DEADLOCK FALSE
