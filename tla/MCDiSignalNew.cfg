SPECIFICATION Spec
CONSTANTS
    n1 = n1
    n2 = n2
    g1 = g1
    g2 = g2
    h1 = h1
    h2 = h2
    h3 = h3
    Null = Null
    Name = {n1, n2}
    Internal = {n2}
    Sig = {g1, g2}
    Handle = {h1, h2, h3}
    MaxDepth = 3
    Liberties = {"stop_in_new_signal"}
SYMMETRY Sym
INVARIANTS
    NewSignalSurvives
CHECK_DEADLOCK FALSE
