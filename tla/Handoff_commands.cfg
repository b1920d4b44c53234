\* Two commands at a time, a user who answers, and commands that die.
SPECIFICATION Spec
CONSTANTS
    Procs = {p1, p2}
    Askers = {q1}
    Origin = Origin
    NoRoot = NoRoot
    Warnings = {w1}
    MaxVersions = 1
    MaxCommands = 3
    MaxFaults = 1
    MaxListLimit = 100
SYMMETRY Symmetry
INVARIANTS LineageConsistent ListIsTheStore
PROPERTIES LaunchIsAsShown AnswerStands
