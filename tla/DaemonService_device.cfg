\* One device, each service manager: daemons that are installed, run by hand,
\* stopped, restarted and killed, and shells that compete for the mutation lock.
SPECIFICATION FairServiceSpec
CONSTANTS
    Procs = {p1, p2, q1}
    Daemons = {p1, p2}
    Shells = {q1}
    Kinds = {"launchd", "systemd", "schtasks"}
    Environments = {e1, e2}
    MaxEvents = 2
    MaxOverruns = 0
    MaxCrashes = 1
INVARIANTS ServiceConsistent ExclusiveUnlessRaced
PROPERTIES InstalledServes AbandonedLockIsTakenOver
CHECK_DEADLOCK FALSE
