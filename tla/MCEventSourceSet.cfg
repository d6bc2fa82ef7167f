SPECIFICATION Spec
CONSTANTS
    t1 = t1
    t2 = t2
    i1 = i1
    i2 = i2
    p1 = p1
    Null = Null
    Timer = {t1, t2}
    Io = {i1, i2}
    Periodic = {p1}
    Liberties = {"restart_in_handler"}
SYMMETRY Sym
INVARIANTS
    StartedIsStrong
CHECK_DEADLOCK FALSE
