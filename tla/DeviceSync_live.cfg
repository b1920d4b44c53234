\* Pushes and pulls run again and again, with one fault.
SPECIFICATION FairSpec
CONSTANTS
    s1 = s1
    s2 = s2
    Devices = {d1, d2}
    Joined = {}
    Sessions = {s1}
    Originals = {s1}
    Bodies <- MCBodies
    Kinds = {"push --all", "pull --all"}
    MaxManifestRetries = 2
    MaxSnapshots = 4
    MaxFaults = 1
    MaxEdits = 3
    MaxResolves = 0
    MidEdits = FALSE
PROPERTIES ImplementsAtomicPush ConflictsNeedRemoteChange Converges
