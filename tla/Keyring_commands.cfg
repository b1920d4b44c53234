\* Three devices, on one of them two commands at a time.
SPECIFICATION Spec
CONSTANTS
    a = a
    b = b
    c = c
    Devices = {a, b, c}
    Procs <- Commanding
    Founders <- Enrolments
    Kinds = {"init", "join", "recover", "approve", "revoke", "use"}
    CarriesFloor = TRUE
    WriteLimit = 7
    ReadLimit = 8
    MaxUpdateRetries = 2
    MaxCommands = 4
    MaxRestores = 1
INVARIANTS KeyringConsistent RevocationHolds
PROPERTY WrapsKept
CHECK_DEADLOCK FALSE
