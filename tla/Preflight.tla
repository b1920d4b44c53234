----------------------------- MODULE Preflight -----------------------------
(***************************************************************************)
(* The preflight of a native resume (internal/preflight, with the          *)
(* comparisons of internal/workspace): what one look at a session's        *)
(* surroundings is turned into, and what a user's acknowledgements allow.  *)
(* Only checks that warn or block are kept; the rest of what was looked at *)
(* is the observation itself.  An id is a pair: the check and its subject. *)
(***************************************************************************)
EXTENDS Naturals, FiniteSets

None == [none |-> TRUE]

(* Repositories are named by a remote or, without one, by their root        *)
(* commits; 0 stands for a value that Git does not give.                    *)
RepositoryID(o) == IF o.remote # 0 THEN <<"remote", o.remote>> ELSE <<"roots", o.roots>>

NoRepository == <<"roots", 0>>

Warning(kind, subject) == [id |-> <<kind, subject>>, severity |-> "warning", exit |-> "safety"]

Block(kind, subject, exit) == [id |-> <<kind, subject>>, severity |-> "block", exit |-> exit]

If(condition, check) == IF condition THEN {check} ELSE {}

(* A probe that stops leaves what it has not read unread.                   *)
Readable(o) == o.place = "directory" /\ o.git \in {"repository", "outside"}

(* A mistake: the snapshot leaves the declared runtimes out.                *)
BaselineWithoutRuntimes(o, time) ==
    [repository |-> RepositoryID(o), branch |-> o.branch, head |-> o.head,
     tree |-> o.tree, capabilities |-> o.capabilities,
     runtimes |-> {}, observed |-> time]

(* What a launch leaves behind for the next one.  A runtime whose version   *)
(* is not known is not in it.                                               *)
BaselineFromReport(o, time) ==
    [repository |-> RepositoryID(o), branch |-> o.branch, head |-> o.head,
     tree |-> o.tree, capabilities |-> o.capabilities,
     runtimes |-> {r \in o.runtimes : r.actual # 0}, observed |-> time]

(* What is expected of the workspace: the baseline's value, else what the   *)
(* agent recorded of the session.                                           *)
Expected(b, recorded, field, nothing) ==
    IF b # None /\ b[field] # nothing THEN b[field] ELSE recorded[field]

WorkspaceChecks(o) ==
       If(o.place = "missing", Block("workspace.available", "", "compatibility"))
    \cup If(o.place = "unreadable", Block("workspace.available", "", "compatibility"))
    \cup If(o.place = "unreadable", Block("workspace.available", "", "runtime"))
    \cup If(o.place = "directory" /\ o.git = "unavailable",
            Block("git.available", "", "compatibility"))
    \cup If(o.place = "directory" /\ o.git = "failing", Block("git.probe", "", "runtime"))

RepositoryChecks(o, b, recorded) ==
    LET expected == Expected(b, recorded, "repository", NoRepository)
    IN  IF expected = NoRepository THEN {}
        ELSE IF o.git = "outside" THEN {Block("git.repository", "", "safety")}
        ELSE IF RepositoryID(o) = NoRepository THEN {Warning("git.repository", "")}
        ELSE If(expected # RepositoryID(o), Block("git.repository", "", "safety"))

(* branch and head: a detached or an unborn HEAD is a change that warns.    *)
PositionChecks(o, b, recorded) ==
    UNION {LET expected == Expected(b, recorded, field, 0)
           IN  IF expected = 0 THEN {}
               ELSE IF o.git = "outside" THEN {Block("git", field, "safety")}
               ELSE If(o[field] # expected, Warning("git", field))
             : field \in {"branch", "head"}}

WorkingTreeChecks(o, b) ==
    LET baseline == b # None /\ b.tree # "unavailable"
    IN  IF o.uncertain THEN {Warning("git", "tree")}
        ELSE IF o.tree = "unavailable"
             THEN {IF baseline THEN Block("git", "tree", "safety") ELSE Warning("git", "tree")}
        ELSE IF baseline THEN If(o.tree # b.tree, Warning("git", "tree"))
        ELSE If(o.tree # "clean", Warning("git", "tree"))

AgentChecks(o) ==
       If(o.executable = 0, Block("agent.executable", "", "compatibility"))
    \cup If(~o.layout, Block("agent.layout", "", "compatibility"))
    \cup If(o.version = "timeout", Block("agent.version", "", "runtime"))
    \cup If(o.version = "untested", Block("agent.version", "", "compatibility"))

(* Capabilities maps a name to its transport, 0 when it is absent.          *)
CapabilityChecks(o, b, recorded) ==
       If(~o.scanned, Block("capability", "scan", "runtime"))
    \cup {Warning("capability.required", c) :
             c \in {c \in recorded.requires : o.capabilities[c] = 0}}
    \cup {Warning("capability", c) :
             c \in {c \in DOMAIN o.capabilities :
                       b # None /\ o.capabilities[c] # b.capabilities[c]}}

(* A runtime is its name, what the project declares, what is installed (0:  *)
(* not there, or not recognised) and whether its probe failed.              *)
RuntimeChecks(o, b) ==
    LET prior == IF b = None THEN {} ELSE b.runtimes
        names == {r.name : r \in o.runtimes \cup prior}
    IN     {IF r.failed THEN Block("runtime.declaration", r.name, "runtime")
                       ELSE Warning("runtime.declaration", r.name)
               : r \in {r \in o.runtimes : r.failed \/ r.actual # r.declared}}
      \cup {Warning("runtime.baseline", n) :
               n \in {n \in names : b # None /\ ~\E r \in o.runtimes \cap prior : r.name = n}}

SourceChecks(fresh, b) ==
    If(~fresh, Block("source.fresh", "", "safety")) \cup If(b = None, Warning("baseline.unavailable", ""))

ActiveChecks(busy) == If(busy = "busy", Warning("agent.active", ""))

Rank(check) ==
    IF check.severity = "warning" THEN 0
    ELSE CASE check.exit = "compatibility" -> 1
           [] check.exit = "safety" -> 2
           [] check.exit = "runtime" -> 3

(* normalizeChecks: of the checks of one id the most serious is kept.       *)
Normalize(checks) ==
    {c \in checks : \A d \in checks : d.id = c.id => Rank(d) <= Rank(c)}

Checks(o, b, recorded, fresh, busy) ==
    Normalize(SourceChecks(fresh, b) \cup WorkspaceChecks(o)
              \cup (IF Readable(o) THEN RepositoryChecks(o, b, recorded)
                                        \cup PositionChecks(o, b, recorded)
                                        \cup WorkingTreeChecks(o, b)
                    ELSE {})
              \cup AgentChecks(o) \cup ActiveChecks(busy)
              \cup CapabilityChecks(o, b, recorded) \cup RuntimeChecks(o, b))

Blockers(checks) == {c \in checks : c.severity = "block"}

WarningIDs(checks) == {c.id : c \in {c \in checks : c.severity = "warning"}}

(* aggregate: the exit code of a blocked report is its most serious one.    *)
BlockExit(checks) ==
    (CHOOSE c \in Blockers(checks) : \A d \in Blockers(checks) : Rank(d) <= Rank(c)).exit

(* A mistake: what is acknowledged is checked, what is not is let through.  *)
AuthorizeTheRest(checks, allowed) ==
    IF Blockers(checks) # {} THEN BlockExit(checks)
    ELSE IF ~(allowed \subseteq WarningIDs(checks)) THEN "usage"
    ELSE "ok"

(* Authorize: every warning is acknowledged, and nothing else.              *)
Authorize(checks, allowed) ==
    IF Blockers(checks) # {} THEN BlockExit(checks)
    ELSE IF ~(allowed \subseteq WarningIDs(checks)) THEN "usage"
    ELSE IF ~(WarningIDs(checks) \subseteq allowed) THEN "safety"
    ELSE "ok"

=============================================================================
