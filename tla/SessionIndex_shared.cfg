\* Two processes of different builds open, refresh, repair and store baselines;
\* and the source of each agent reads while the agent writes.
SPECIFICATION IndexingSpec
CONSTANTS
    Procs = {p1, p2}
    Earlier = p1
    Build <- BuildOf
    Sessions = {s1}
    MaxVersions = 1
    MaxObservations = 2
    MaxFaults = 2
    Agents <- AllAgents
    MaxEntries <- EntriesOf
    MaxCloses = 2
    MaxMishaps = 1
INVARIANTS IndexConsistent SkippedIsFresh RowsAreHonest
PROPERTY BaselineForward
