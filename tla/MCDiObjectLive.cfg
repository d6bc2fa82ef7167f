SPECIFICATION FairSpec
CONSTANTS
    o1 = o1
    o2 = o2
    n1 = n1
    s1 = s1
    s2 = s2
    Null = Null
    Object = {o1, o2}
    Name = {n1}
    Slot = {s1, s2}
    MaxDepth = 3
    Liberties = {"late_member"}
PROPERTIES
    DestructionCompletes
    ImplementsLife
CHECK_DEADLOCK FALSE
