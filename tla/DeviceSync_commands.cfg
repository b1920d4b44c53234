\* Two devices, two sessions, forks, push --all, pull --all and every resolution.
SPECIFICATION Spec
CONSTANTS
    s1 = s1
    s2 = s2
    Devices = {d1, d2}
    Joined = {}
    Sessions <- TwoWithAllForks
    Originals = {s1, s2}
    Bodies <- MCBodies
    Kinds = {"push --all", "pull --all", "keep-local", "keep-remote", "keep-both"}
    MaxManifestRetries = 2
    MaxSnapshots = 2
    MaxFaults = 0
    MaxEdits = 2
    MaxResolves = 1
    MidEdits = FALSE
SYMMETRY Symmetry
INVARIANT EditsAreSafe
PROPERTIES LinearHistory CommandsKeepEdits
