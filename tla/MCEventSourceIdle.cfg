SPECIFICATION Spec
CONSTANTS
    t1 = t1
    i1 = i1
    p1 = p1
    Null = Null
    Timer = {t1}
    Io = {i1}
    Periodic = {p1}
    Liberties = {}
SYMMETRY Sym
INVARIANTS
    AlwaysQuits
CHECK_DEADLOCK FALSE
