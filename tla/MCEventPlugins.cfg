SPECIFICATION MCSpec
CONSTANTS
    t1 = t1
    t2 = t2
    i1 = i1
    i2 = i2
    p1 = p1
    Null = Null
    Timer = {t1, t2}
    Io = {i1, i2}
    Periodic = {p1}
    Liberties = {}
    Ext = {"xinput", "randr", "key"}
    MaxHeld = 2
    Atom = {1, 2}
    Named = {1}
    Path = {"p", "q", "r"}
    File = {"f", "g"}
    FileOf <- PathFile
    MaxEntries = 3
    MaxWd = 3
    MaxLog = 2
    MaxRead = 2
    Device = {1, 2}
    MaxDevices = 1
    MaxInfos = 2
    MaxEvents = 1
    Wk = {"a", "b"}
    Shorter <- Prefixes
    Peer = {"p1", "p2"}
    MaxWatched = 2
    MaxQueue = 2
    MaxChanges = 1
    Binding = {1, 2}
    KeySym = {"a", "b"}
    Code = {1, 2}
    Mod = {"m", "n"}
    Taken <- TakenGrabs
    MaxLeaks = 1
SYMMETRY Sym
INVARIANTS
    SourcesSound
    QuitsWhenIdle
    FilesFaithful
    NamesFaithful
    ConnectionSound
    BindingsFaithful
    DevicesFaithful
PROPERTIES
    SignalAttribution
CHECK_DEADLOCK FALSE
