SPECIFICATION MCSpec
CONSTANTS
    s1 = s1
    s2 = s2
    g1 = g1
    g2 = g2
    g3 = g3
    h1 = h1
    h2 = h2
    h3 = h3
    Null = Null
    Name = {s1, s2}
    Internal = {s2}
    Sig = {g1, g2, g3}
    Handle = {h1, h2, h3}
    MaxDepth = 4
    Liberties = {}
    n1 = n1
    n2 = n2
    n3 = n3
    NarrowHalf = 2
    WideHalf = 8
    MaxNargs = 2
    Param = {"int", "uint", "string", "object", "variant", "nil"}
    Argument <- CallArguments
    Node = {n1, n2, n3}
    Registry = n1
    MaxSets = 2
    Format = {1, 4}
    Modulus <- Moduli
    ExactFloat = 4
    Number <- Numbers
    MaxItems = 2
    MapMin = 0
    MapMax = 3
    ServerMin = 1
    ServerMax = 4
    Modifiers = 2
    MaxCells = 5
    Keysyms <- KeyLevels
    Actions <- KeyActions
    Plugin <- Plugins
    ModuleOf <- PluginModule
    Command <- CommandLine
    MaxKeepers = 2
    MaxPid = 5
    Self = 2
SYMMETRY Sym
INVARIANTS
    EmissionFaithful
    SignalsSound
    ConversionExact
    CallsFaithful
    SweepExact
    KeymapExact
    PropsExact
    MainSound
    KillsDescendants
CHECK_DEADLOCK FALSE
