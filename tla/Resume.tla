------------------------------- MODULE Resume -------------------------------
(***************************************************************************)
(* A native resume (launchLocalRecord in internal/cli/sessions.go): the    *)
(* surroundings of one session are looked at three times - for the report  *)
(* the user acknowledges, again once it is acknowledged, and at the        *)
(* execution boundary - before the agent is started in them; a launch that *)
(* ends well leaves a baseline for the next.  Several rein processes       *)
(* resume the session while its user, its agent and its files go on.       *)
(***************************************************************************)
EXTENDS Preflight

CONSTANTS Procs,         \* rein processes
          Environments,  \* what may be observed around the session
          Recorded,      \* what the agent recorded of the session
          Allowances,    \* sets of warnings given as flags
          MaxChanges,    \* bound: changes from outside
          MaxCommands    \* bound: resumes

ASSUME ResumeAssumption ==
    /\ {} \in Allowances
    /\ MaxChanges \in Nat /\ MaxCommands \in Nat

(* Outside a repository the probe tells nothing of Git                      *)
(* (classifyInitialGitFailure).                                             *)
ASSUME OutsideAssumption ==
    \A o \in Environments : o.git = "outside" =>
        RepositoryID(o) = NoRepository /\ o.branch = 0 /\ o.head = 0

VARIABLES env,       \* the surroundings now
          session,   \* the agent's session
          native,    \* an agent nobody here started is in the session
          row,       \* the session's row of the index
          baseline,  \* the row's prelaunch baseline
          proc,      \* proc[p]: what process p does
          clock,     \* the time of the last candidate baseline
          changes,   \* changes from outside so far
          commands   \* resumes so far

vars == <<env, session, native, row, baseline, proc, clock, changes, commands>>

outside == <<env, session, native, changes>>

Sessions == {"resumable", "readonly", "absent"}

Phases == {"idle", "resolve", "verify", "authorize", "boundary", "start", "recheck", "exec",
           "running", "store"}

Exits == {"ok", "usage", "safety", "compatibility", "runtime", "failed"}

NoReport == [none |-> TRUE]

(* said: the warnings the user acknowledged.  moved: something changed      *)
(* since the process last looked.  late: something changed since it last    *)
(* began to compare the program and the directory, on its way to the exec.  *)
Idle == [pc |-> "idle", round |-> 1, terminal |-> FALSE, said |-> {}, fresh |-> FALSE,
         report |-> NoReport, candidate |-> None, moved |-> FALSE, late |-> FALSE, exit |-> "ok"]

Baselines == {BaselineFromReport(o, t) : o \in Environments, t \in 1..MaxCommands}

TypeOK ==
    /\ env \in Environments /\ session \in Sessions /\ native \in BOOLEAN
    /\ row \in Sessions
    /\ baseline \in Baselines \cup {None}
    /\ row = "absent" => baseline = None
    /\ changes \in 0..MaxChanges /\ commands \in 0..MaxCommands /\ clock \in 0..commands
    /\ \A p \in Procs :
          /\ proc[p].pc \in Phases /\ proc[p].round \in 1..3 /\ proc[p].exit \in Exits
          /\ {proc[p].terminal, proc[p].fresh, proc[p].moved, proc[p].late} \subseteq BOOLEAN
          /\ proc[p].candidate \in Baselines \cup {None}
          /\ proc[p].report # NoReport => proc[p].report.observed \in Environments

Init ==
    /\ env \in Environments /\ session = "resumable" /\ native = FALSE
    /\ row = "resumable" /\ baseline = None
    /\ proc = [p \in Procs |-> Idle]
    /\ clock = 0 /\ changes = 0 /\ commands = 0

Exit(p, code) == proc' = [proc EXCEPT ![p] = [Idle EXCEPT !.exit = code]]

(* What others did is news for every process that has already looked.       *)
Moved(pr) == [q \in Procs |-> IF pr[q].pc = "idle" THEN pr[q]
                              ELSE [pr[q] EXCEPT !.moved = TRUE, !.late = @ \/ pr[q].pc \in {"recheck", "exec"}]]

------------------------------------------------------------------------------
(* The command.                                                             *)

Begin(p, terminal, allowed) ==
    /\ proc[p].pc = "idle" /\ commands < MaxCommands
    /\ proc' = [proc EXCEPT ![p] = [Idle EXCEPT !.pc = "resolve", !.terminal = terminal, !.said = allowed]]
    /\ commands' = commands + 1
    /\ UNCHANGED <<outside, row, baseline, clock>>

(* A mistake: a row that goes leaves its baseline behind.                   *)
ResolveKeepingBaseline(p) ==
    /\ proc[p].pc = "resolve"
    /\ \E fresh \in BOOLEAN :
          /\ row' = IF fresh THEN session ELSE row
          /\ proc' = [proc EXCEPT ![p] =
                    IF row' = "resumable" THEN [@ EXCEPT !.pc = "verify", !.fresh = fresh]
                    ELSE [Idle EXCEPT !.exit = IF proc[p].round = 1 THEN "failed" ELSE "safety"]]
    /\ UNCHANGED <<outside, baseline, clock, commands>>

(* RefreshAndResolve and PlanLaunch.  A scan that fails keeps the old row;  *)
(* one that does not find the session removes its row and its baseline.     *)
Resolve(p) ==
    /\ proc[p].pc = "resolve"
    /\ \E fresh \in BOOLEAN :
          /\ row' = IF fresh THEN session ELSE row
          /\ baseline' = IF row' = "absent" THEN None ELSE baseline
          /\ LET others == IF baseline' = baseline THEN proc ELSE Moved(proc)
             IN  proc' = [others EXCEPT ![p] =
                    IF row' = "resumable" THEN [@ EXCEPT !.pc = "verify", !.fresh = fresh]
                    ELSE [Idle EXCEPT !.exit = IF proc[p].round = 1 THEN "failed" ELSE "safety"]]
    /\ UNCHANGED <<outside, clock, commands>>

InUse == native \/ \E q \in Procs : proc[q].pc = "running"

(* verifyLocalRecord.  The report holds what was compared with what was     *)
(* seen, but no time; the liveness probe may give no answer.                *)
Reports(p) ==
    {[observed |-> env, checks |-> Checks(env, baseline, Recorded, proc[p].fresh, busy), busy |-> busy,
      against |-> IF baseline = None THEN None ELSE [baseline EXCEPT !.observed = 0]]
        : busy \in {"unknown", IF InUse THEN "busy" ELSE "free"}}

Goto(p, pc) == proc' = [proc EXCEPT ![p].pc = pc, ![p].moved = FALSE]

(* The first report is shown.                                               *)
VerifyFirst(p) ==
    /\ proc[p].pc = "verify" /\ proc[p].round = 1
    /\ \E report \in Reports(p) :
          proc' = [proc EXCEPT ![p].pc = "authorize", ![p].report = report, ![p].moved = FALSE]
    /\ UNCHANGED <<outside, row, baseline, clock, commands>>

(* Flags acknowledge warnings by their ids; without flags a terminal is     *)
(* asked for all of them.                                                   *)
AuthorizeFirst(p) ==
    /\ proc[p].pc = "authorize"
    /\ LET checks == proc[p].report.checks
           asked == proc[p].terminal /\ proc[p].said = {}
                    /\ Blockers(checks) = {} /\ WarningIDs(checks) # {}
       IN  \E said \in IF asked THEN {{}, WarningIDs(checks)} ELSE {proc[p].said} :
              IF Authorize(checks, said) = "ok"
              THEN proc' = [proc EXCEPT ![p].pc = "resolve", ![p].round = 2, ![p].said = said]
              ELSE Exit(p, Authorize(checks, said))
    /\ UNCHANGED <<outside, row, baseline, clock, commands>>

(* A mistake: only the ids of the warnings are compared.                    *)
HoldsForTheSameWarnings(p, report) ==
    Authorize(report.checks, proc[p].said) = "ok"

(* The second and the third report must be the first one, and be authorized *)
(* by the same acknowledgements.                                            *)
Holds(p, report) ==
    report = proc[p].report /\ Authorize(report.checks, proc[p].said) = "ok"

Differs(p) ==
    /\ proc[p].pc = "verify" /\ proc[p].round > 1
    /\ \E report \in Reports(p) : ~Holds(p, report)
    /\ Exit(p, "safety")
    /\ UNCHANGED <<outside, row, baseline, clock, commands>>

(* The second look is the candidate baseline, with its time.                *)
VerifySecond(p) ==
    /\ proc[p].pc = "verify" /\ proc[p].round = 2
    /\ \E report \in Reports(p) : Holds(p, report)
    /\ clock' = clock + 1
    /\ proc' = [proc EXCEPT ![p].pc = "boundary", ![p].moved = FALSE,
                            ![p].candidate = BaselineFromReport(env, clock')]
    /\ UNCHANGED <<outside, row, baseline, commands>>

SameObjects(p) ==
    /\ env.executable = proc[p].report.observed.executable
    /\ env.place = "directory" /\ env.directory = proc[p].report.observed.directory

(* ExecLaunchRunner.Run: without a terminal only the environment variable   *)
(* that allows it lets a launch pass.  The executable and the directory are *)
(* the ones that were probed, before the final guard ...                    *)
Boundary(p) ==
    /\ proc[p].pc = "boundary"
    /\ \/ SameObjects(p) /\ proc' = [proc EXCEPT ![p].pc = "resolve", ![p].round = 3]
       \/ ~SameObjects(p)
          /\ Exit(p, IF env.executable = 0 \/ env.place # "directory" THEN "compatibility" ELSE "safety")
       \/ ~proc[p].terminal /\ Exit(p, "safety")
    /\ UNCHANGED <<outside, row, baseline, clock, commands>>

(* finalEnvironmentGuard.                                                   *)
FinalGuard(p) ==
    /\ proc[p].pc = "verify" /\ proc[p].round = 3
    /\ \E report \in Reports(p) : Holds(p, report)
    /\ Goto(p, "start")
    /\ UNCHANGED <<outside, row, baseline, clock, commands>>

Compares(p, pc, same, next) ==
    /\ proc[p].pc = pc
    /\ IF same THEN proc' = [proc EXCEPT ![p].pc = next] ELSE Exit(p, "safety")
    /\ UNCHANGED <<outside, row, baseline, clock, commands>>

(* ... and after it, the program first ...                                  *)
RecheckProgram(p) == Compares(p, "start", env.executable = proc[p].report.observed.executable, "recheck")

(* A mistake: the directory is not compared again after the guard.          *)
RecheckNoDirectory(p) == Compares(p, "recheck", TRUE, "exec")

(* ... and then the directory.                                              *)
RecheckDirectory(p) ==
    Compares(p, "recheck",
             env.place = "directory" /\ env.directory = proc[p].report.observed.directory, "exec")

(* command.Start: the system starts what is at the paths by now, or fails.  *)
Start(p) ==
    /\ proc[p].pc = "exec"
    /\ \/ /\ env.executable # 0 /\ env.place = "directory"
          /\ proc' = [Moved(proc) EXCEPT ![p].pc = "running"]
       \/ Exit(p, "runtime")
    /\ UNCHANGED <<outside, row, baseline, clock, commands>>

ChildEnds(p) ==
    /\ proc[p].pc = "running"
    /\ \/ proc' = [Moved(proc) EXCEPT ![p].pc = "store"]
       \/ proc' = [Moved(proc) EXCEPT ![p] = [Idle EXCEPT !.exit = "runtime"]]
    /\ UNCHANGED <<outside, row, baseline, clock, commands>>

(* PutPrelaunchBaseline: the row must be there and what it holds be older.  *)
Store(p) ==
    /\ proc[p].pc = "store"
    /\ IF row # "absent" /\ (baseline # None => baseline.observed < proc[p].candidate.observed)
       THEN /\ baseline' = proc[p].candidate
            /\ proc' = [Moved(proc) EXCEPT ![p] = Idle]
       ELSE /\ Exit(p, "runtime")
            /\ UNCHANGED baseline
    /\ UNCHANGED <<outside, row, clock, commands>>

------------------------------------------------------------------------------
(* Outside.                                                                 *)

Changes ==
    /\ changes < MaxChanges
    /\ changes' = changes + 1
    /\ proc' = Moved(proc)
    /\ UNCHANGED <<row, baseline, clock, commands>>

EnvironmentChanges ==
    /\ env' \in Environments \ {env}
    /\ UNCHANGED <<session, native>>
    /\ Changes

SessionChanges ==
    /\ session' \in Sessions \ {session}
    /\ UNCHANGED <<env, native>>
    /\ Changes

AgentComesOrGoes ==
    /\ native' = ~native
    /\ UNCHANGED <<env, session>>
    /\ Changes

(* A process dies; the agent it started may go on.                          *)
Dies(p) ==
    /\ proc[p].pc # "idle" /\ changes < MaxChanges
    /\ changes' = changes + 1
    /\ native' \in {native, native \/ proc[p].pc = "running"}
    /\ proc' = [Moved(proc) EXCEPT ![p] = [Idle EXCEPT !.exit = "failed"]]
    /\ UNCHANGED <<env, session, row, baseline, clock, commands>>

------------------------------------------------------------------------------

Step(p) ==
    \/ \E terminal \in BOOLEAN, allowed \in Allowances : Begin(p, terminal, allowed)
    \/ Resolve(p) \/ VerifyFirst(p) \/ AuthorizeFirst(p) \/ Differs(p) \/ VerifySecond(p)
    \/ Boundary(p) \/ FinalGuard(p) \/ RecheckProgram(p) \/ RecheckDirectory(p) \/ Start(p)
    \/ ChildEnds(p) \/ Store(p) \/ Dies(p)

Next ==
    \/ \E p \in Procs : Step(p)
    \/ EnvironmentChanges \/ SessionChanges \/ AgentComesOrGoes

Spec == Init /\ [][Next]_vars

------------------------------------------------------------------------------
(* Properties.                                                              *)

(* A report that a launch goes on with has no blocker, and the user         *)
(* acknowledged every one of its warnings and nothing else (the repeated    *)
(* Authorize of launchLocalRecord).                                         *)
LaunchIsAuthorized ==
    \A p \in Procs :
        proc[p].round > 1 \/ proc[p].pc \in {"boundary", "start", "recheck", "exec", "running", "store"} =>
            /\ proc[p].report # NoReport
            /\ Blockers(proc[p].report.checks) = {}
            /\ WarningIDs(proc[p].report.checks) = proc[p].said

Starts(p) == proc[p].pc = "exec" /\ proc'[p].pc = "running"

(* A child starts in the surroundings of the report its user saw, every     *)
(* warning that a look just now would give being acknowledged, unless       *)
(* something changed between the final guard and the start (the three reads *)
(* of launchLocalRecord and finalEnvironmentGuard).  A liveness probe that  *)
(* cannot answer warns of nothing.                                          *)
LaunchIsAcknowledged ==
    \A p \in Procs : Starts(p) /\ ~proc[p].moved =>
        LET busy == IF proc[p].report.busy = "unknown" THEN "unknown"
                    ELSE IF InUse THEN "busy" ELSE "free"
            now == Checks(env, baseline, Recorded, TRUE, busy)
        IN  /\ env = proc[p].report.observed
            /\ Blockers(now) = {}
            /\ WarningIDs(now) = proc[p].said

(* Whatever changed during or after the guard, the program and the          *)
(* directory are the ones that were probed, unless something changed        *)
(* between their last comparison and the exec (the identities that          *)
(* ExecLaunchRunner.Run compares on both sides of the guard).               *)
ChildIsTheProbedOne ==
    \A p \in Procs : Starts(p) /\ ~proc[p].late =>
        /\ env.executable = proc[p].report.observed.executable
        /\ env.directory = proc[p].report.observed.directory

(* Every start of a child is one its user agreed to, in the program and the *)
(* directory that were looked at, up to the two windows the code leaves.    *)
LaunchIsSafe == [][LaunchIsAcknowledged /\ ChildIsTheProbedOne]_vars

(* Warnings that do not compare with an earlier launch.                     *)
Standing(o) ==
    WarningIDs(CapabilityChecks(o, None, Recorded) \cup RuntimeChecks(o, None))
        \cup {<<"git", "tree">> : x \in {x \in {o} : x.uncertain \/ x.tree = "unavailable"}}
        \cup {<<"git", "branch">> : x \in {x \in {o} : x.branch = 0}}
        \cup {<<"git", "head">> : x \in {x \in {o} : x.head = 0}}
        \cup {<<"git.repository", "">> : x \in {x \in {o} : RepositoryID(x) = NoRepository}}
        \cup {<<"runtime.baseline", r.name>> : r \in {r \in o.runtimes : r.actual = 0}}

(* A launch settles what it was acknowledged for: in the surroundings that  *)
(* the baseline was taken of, the next resume neither blocks nor warns of a *)
(* change, but for what is missing or unknown in itself (BaselineFromReport *)
(* against the comparisons of the next preflight).                          *)
SettledBaseline ==
    \A o \in Environments :
        baseline # None /\ BaselineFromReport(o, baseline.observed) = baseline
            /\ Blockers(Checks(o, None, Recorded, TRUE, "free")) = {} =>
        LET next == Checks(o, baseline, Recorded, TRUE, "free")
        IN  Blockers(next) = {} /\ WarningIDs(next) \subseteq Standing(o)

(* What a launch goes on with was authorized, and what it leaves behind     *)
(* settles it.                                                              *)
ResumeConsistent == TypeOK /\ LaunchIsAuthorized /\ SettledBaseline

=============================================================================
