SPECIFICATION Spec
CONSTANTS
    MaxWrites = 4
    MaxFailures = 1
    BufSize = 2
    Liberties = {"drop_in_handler"}
INVARIANTS
    CallbackLive
CHECK_DEADLOCK FALSE
