\* A crash or failed request anywhere, commands that name one session, and agents
\* that write while commands run.
SPECIFICATION Spec
CONSTANTS
    s1 = s1
    s2 = s2
    Devices = {d1, d2}
    Joined = {}
    Sessions = {s1}
    Originals = {s1}
    Bodies <- MCBodies
    Kinds = {"pull --all", "push --session", "pull --session", "keep-local", "keep-remote"}
    MaxManifestRetries = 2
    MaxSnapshots = 3
    MaxFaults = 1
    MaxEdits = 2
    MaxResolves = 1
    MidEdits = TRUE
SYMMETRY Symmetry
INVARIANT StateConsistent
PROPERTY PushKeepsEdits
