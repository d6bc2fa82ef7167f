SPECIFICATION MCFairSpec
CONSTANTS
    MaxWrites = 3
    MaxFailures = 1
    BufSize = 2
    Liberties = {}
    Request = {"c1", "c2"}
    MaxSignals = 1
    Output = {"o"}
    X = {1, 2}
    MaxX = 1
    Rotation = {1, 4}
    Reflection = {6}
    MaxTime = 3
    MaxObjects = 1
    o1 = o1
    o2 = o2
    o3 = o3
    k1 = k1
    k2 = k2
    Null = Null
    Object = {o1, o2, o3}
    Key = {k1, k2}
    IdSpace = 3
    MaxDepth = 3
    RootLiberties = {}
INVARIANTS
    ChildSound
    CallsSound
    RandrSound
    RegistrySound
PROPERTIES
    ExitAnnounced
    CallAnswered
    SetReturns
    QuitCompletes
CHECK_DEADLOCK FALSE
