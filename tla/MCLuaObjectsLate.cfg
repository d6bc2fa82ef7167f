SPECIFICATION Spec
CONSTANTS
    o1 = o1
    o2 = o2
    p1 = p1
    p2 = p2
    p3 = p3
    p4 = p4
    Null = Null
    Object = {o1, o2}
    Proxy = {p1, p2, p3, p4}
    Liberties = {"late_gc"}
SYMMETRY Sym
INVARIANTS
    ProxyLive
CHECK_DEADLOCK FALSE
