SPECIFICATION MCSpec
CONSTANTS
    o1 = o1
    o2 = o2
    p1 = p1
    p2 = p2
    p3 = p3
    p4 = p4
    Null = Null
    Object = {o1, o2}
    Proxy = {p1, p2, p3, p4}
    Liberties = {}
    Listener = {1, 2}
    MaxDepth = 2
    MaxEmissions = 3
    LuaScript = {1, 2}
    MaxRefs = 2
    MaxCalls = 3
    MaxStates = 2
    IntHalf = 4
    NarrowHalf = 2
    ExactInt = 2
    Number <- Numbers
    Payload = {9}
    NULL = NULL
    MaxKey = 3
    MaxLength = 2
    Method = {"method"}
    Inert = {"inert"}
    MemberName <- Names
    MaxMembers = 2
    MaxNested = 2
    MaxLeak = 2
    Plain = {"plain"}
INVARIANTS
    ProxyLive
    ProxiesExact
    ListenersSound
    StateSound
    ValuesExact
    HandlersExact
PROPERTIES
    SetStores
CHECK_DEADLOCK FALSE
