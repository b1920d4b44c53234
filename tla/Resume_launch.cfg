SPECIFICATION Spec
CONSTANTS
    Procs = {p1, p2}
    Environments <- Places
    Recorded <- FromTheAgent
    Allowances <- Flags
    MaxChanges = 2
    MaxCommands = 2
SYMMETRY Interchangeable
INVARIANT ResumeConsistent
PROPERTY LaunchIsSafe
CHECK_DEADLOCK FALSE
