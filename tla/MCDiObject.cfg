SPECIFICATION Spec
CONSTANTS
    o1 = o1
    o2 = o2
    n1 = n1
    n2 = n2
    s1 = s1
    s2 = s2
    Null = Null
    Object = {o1, o2}
    Name = {n1, n2}
    Slot = {s1, s2}
    MaxDepth = 4
    Liberties = {"pull_next","late_member"}
SYMMETRY Sym
INVARIANTS
    TypeOK
    RefCountExact
    WeakCountExact
    PointersLive
    DestroyOnce
    RemovalSafe
CHECK_DEADLOCK FALSE
