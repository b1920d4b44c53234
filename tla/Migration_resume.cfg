\* Two devices migrate to one bucket, interrupted and resumed, with two passphrases.
SPECIFICATION FairSpec
CONSTANTS
    Devices = {d1, d2}
    Sessions = {s1, s2}
    Passphrases = {p1, p2}
    MaxRetries = 2
    MaxSnapshots = 2
    MaxBucketPushes = 1
    MaxReruns = 1
    MaxFaults = 1
INVARIANTS ManifestBacked SwitchedSessionsKept
PROPERTY ResumeCompletes
CHECK_DEADLOCK FALSE
