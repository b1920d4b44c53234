---------------------------- MODULE DaemonService ----------------------------
(***************************************************************************)
(* The daemon as a service of one device: `rein daemon install`,           *)
(* `uninstall`, `start`, `stop` and `run` (internal/cli/daemon.go), the    *)
(* service manager behind them (internal/daemon/service.go), the recorded  *)
(* agent roots (agentroots.go) and the status file (status.go).            *)
(*                                                                         *)
(* Several daemon processes may be on their way up or down at once.  Each  *)
(* checks the recorded roots against its environment, takes the instance   *)
(* lock, writes its status and runs the loop, whose pushes and pulls take  *)
(* the mutation lock of module MutationLock, in competition with commands  *)
(* and resumes in a shell.  What a push and a pull do, and when the loop   *)
(* runs one, is in DeviceSync and Daemon.                                  *)
(*                                                                         *)
(* The three service managers differ: launchd unloads a service without    *)
(* waiting for its process and gives a restart a new definition, systemd   *)
(* waits for the process and leaves a running one alone, Task Scheduler    *)
(* ends the process at once and ignores a second start.                    *)
(***************************************************************************)
EXTENDS MutationLock

CONSTANTS Daemons,        \* processes that run the daemon
          Shells,         \* commands and resumes in a shell
          Kinds,          \* service managers
          Environments,   \* values of the agents' root variables
          MaxEvents       \* bound: daemon commands of the person, new login sessions,
                          \* and processes that die

NoRoots == "not recorded"

ASSUME DaemonServiceAssumption ==
    /\ Environments # {} /\ NoRoots \notin Environments
    /\ Procs = Daemons \cup Shells /\ Daemons \cap Shells = {}
    /\ Kinds \subseteq {"launchd", "systemd", "schtasks"}
    /\ MaxEvents \in Nat

Own == "own"           \* a process that watches the roots its environment names
Pinned == "pinned"     \* and one that watches the recorded ones
NoFile == "no file"
NoStatus == [pid |-> NoFile, old |-> FALSE]

VARIABLES kind,         \* the service manager of this device
          definition,   \* the registered definition: none, or with --allow-root-change or without
          service,      \* the manager keeps a process running: on, off, or on again
          login,        \* the environment a process the manager starts gets
          recorded,     \* agent-roots.json
          proc,         \* proc[p]: where p is, its roots, and who started it
          instance,     \* the process that holds the instance lock
          status,       \* status.json: the process it names and whether it is stale
          cli,          \* the daemon command the person runs
          events         \* how many of MaxEvents there have been

registration == <<kind, definition, service, login, recorded>>
serviceVars == <<registration, proc, instance, status, cli, events>>

Gone == [at |-> "none", env |-> NoRoots, allow |-> FALSE, supervised |-> FALSE,
         signalled |-> FALSE]
At(p) == proc[p].at
Moved(p, at) == proc' = [proc EXCEPT ![p].at = at]

(* The loop runs: from its first status to its last.                       *)
Steps == {"pull", "push", "locked", "stepped"}
InLoop(p) == At(p) \in Steps \cup {"starting", "idle"}

Supervised == {p \in Daemons : At(p) # "none" /\ proc[p].supervised}

NoCommand == [at |-> "none", allow |-> FALSE]

TypeOKService ==
    /\ kind \in Kinds
    /\ definition \in {"none", "strict", "allowing"}
    /\ service \in {"off", "on", "again"}
    /\ login \in Environments
    /\ recorded \in {NoRoots} \cup Environments
    /\ proc \in [Procs -> [at : Steps \cup {"none", "roots", "lock", "starting", "idle", "left",
                                            "resume", "command"},
                           env : {NoRoots, Own, Pinned} \cup Environments,
                           allow : BOOLEAN, supervised : BOOLEAN, signalled : BOOLEAN]]
    /\ instance \in Daemons \cup {NoProc}
    /\ status \in [pid : Daemons \cup {NoProc, NoFile}, old : BOOLEAN]
    /\ cli \in [at : {"none", "unload", "write", "start", "stop", "remove", "wait",
                      "tidy", "unpin"}, allow : BOOLEAN]
    /\ events \in 0..MaxEvents

(* Nothing is installed, or the manager is about to start what an install  *)
(* of an earlier session has registered; nothing runs.  Which environment  *)
(* is the session's does not matter.                                       *)
InitService ==
    /\ Init
    /\ kind \in Kinds
    /\ login = CHOOSE env \in Environments : TRUE
    /\ \/ /\ definition = "none" /\ service = "off"
          /\ recorded = NoRoots
       \/ /\ definition \in {"strict", "allowing"} /\ service = "on"
          /\ recorded \in Environments
    /\ proc = [p \in Procs |-> Gone]
    /\ instance = NoProc
    /\ status = NoStatus
    /\ cli = NoCommand
    /\ events = 0

-----------------------------------------------------------------------------
(* Status.Alive: the file is recent and the process it names exists.       *)
Alive == /\ status.pid \in Daemons
         /\ ~status.old
         /\ At(status.pid) # "none"

Written(p) == status' = [pid |-> p, old |-> FALSE]

-----------------------------------------------------------------------------
(* Mistakes: an uninstall that forgets the roots first, and a check of the *)
(* roots that does not listen to the flag.                                 *)
UninstallStopsUnpinning ==
    /\ cli.at = "none"
    /\ events < MaxEvents
    /\ events' = events + 1
    /\ cli' = [at |-> "remove", allow |-> FALSE]
    /\ recorded' = NoRoots
    /\ UNCHANGED <<kind, definition, service, login, proc, instance, status, vars>>

CheckRootsStrictly(p) ==
    /\ At(p) = "roots"
    /\ IF recorded \in {NoRoots, proc[p].env}
         THEN /\ proc' = [proc EXCEPT ![p].at = "lock", ![p].env = Pinned, ![p].allow = FALSE]
              /\ UNCHANGED registration
         ELSE /\ proc' = [proc EXCEPT ![p] = Gone]
              /\ UNCHANGED registration
    /\ UNCHANGED <<instance, status, cli, events, vars>>

-----------------------------------------------------------------------------
(* What the manager and the person start gets a process id that the status *)
(* file does not name; which one does not matter.                          *)
Free == {p \in Daemons : At(p) = "none" /\ status.pid # p}
Starting(p) == Free # {} /\ p = CHOOSE q \in Free : TRUE

(* The manager starts the service's process: at install, start and login,  *)
(* and again after one that failed.                                        *)
Spawn(p) ==
    /\ service # "off"
    /\ definition # "none"
    /\ Supervised = {}
    /\ Starting(p)
    /\ proc' = [proc EXCEPT ![p] = [at |-> "roots", env |-> login, allow |-> definition = "allowing",
                                    supervised |-> TRUE, signalled |-> FALSE]]
    /\ service' = "on"
    /\ UNCHANGED <<kind, definition, login, recorded, instance, status, cli, events, vars>>

(* `rein daemon run` in a shell.                                           *)
RunInShell(p, env, allow) ==
    /\ Starting(p)
    /\ events < MaxEvents
    /\ events' = events + 1
    /\ proc' = [proc EXCEPT ![p] = [at |-> "roots", env |-> env, allow |-> allow,
                                    supervised |-> FALSE, signalled |-> FALSE]]
    /\ UNCHANGED <<registration, instance, status, cli, vars>>

(* runDaemon ends: the manager restarts a process that failed and leaves   *)
(* alone one that ended by itself.                                         *)
Ended(p, failed) ==
    /\ proc' = [proc EXCEPT ![p] = Gone]
    /\ service' = IF proc[p].supervised /\ service = "on" /\ ~failed THEN "off" ELSE service
    /\ UNCHANGED <<kind, definition, login, recorded>>

(* applyInstalledAgentRoots: no baseline, the roots of the environment; a  *)
(* baseline that differs from it, a refusal, unless the flag allows the    *)
(* start; and then always the baseline's roots.                            *)
CheckRoots(p) ==
    /\ At(p) = "roots"
    /\ \/ /\ recorded = NoRoots
          /\ proc' = [proc EXCEPT ![p].at = "lock", ![p].env = Own, ![p].allow = FALSE]
          /\ UNCHANGED registration
       \/ /\ recorded # NoRoots
          /\ recorded = proc[p].env \/ proc[p].allow
          /\ proc' = [proc EXCEPT ![p].at = "lock", ![p].env = Pinned, ![p].allow = FALSE]
          /\ UNCHANGED registration
       \/ /\ recorded # NoRoots
          /\ recorded # proc[p].env /\ ~proc[p].allow
          /\ Ended(p, TRUE)
    /\ UNCHANGED <<instance, status, cli, events, vars>>

(* filelock.Acquire for half a second, and the status that says "starting".*)
TakeInstance(p) ==
    /\ At(p) = "lock"
    /\ instance = NoProc
    /\ instance' = p
    /\ Moved(p, "starting")
    /\ Written(p)
    /\ UNCHANGED <<registration, cli, events, vars>>

InstanceTaken(p) ==
    /\ At(p) = "lock"
    /\ instance # NoProc
    /\ Ended(p, TRUE)
    /\ UNCHANGED <<instance, status, cli, events, vars>>

(* Run: its first status, and at once its first pull.                      *)
EnterLoop(p) ==
    /\ At(p) = "starting"
    /\ Written(p)
    /\ Moved(p, "pull")
    /\ UNCHANGED <<registration, instance, cli, events, vars>>

(* The debounce or the pull timer fires.                                   *)
BeginStep(p) ==
    /\ At(p) = "idle"
    /\ \E step \in {"pull", "push"} : Moved(p, step)
    /\ UNCHANGED <<registration, instance, status, cli, events, vars>>

(* execute: the command tries the mutation lock; refused, it ends the step *)
(* with ErrLocked.  Other failures end it after the release.               *)
StepLocks(p) ==
    /\ At(p) \in {"pull", "push"}
    /\ Attempt(p)
    /\ IF pc'[p] = "idle" THEN Moved(p, "locked") ELSE UNCHANGED proc
    /\ UNCHANGED <<registration, instance, status, cli, events>>

StepReleases(p) ==
    /\ At(p) \in {"pull", "push"}
    /\ Release(p)
    /\ Moved(p, "stepped")
    /\ UNCHANGED <<registration, instance, status, cli, events>>

(* push, pull and approvals write the status at their end, and the         *)
(* heartbeat does while the loop waits.                                    *)
StepEnds(p) ==
    /\ At(p) \in {"locked", "stepped"}
    /\ Written(p)
    /\ Moved(p, "idle")
    /\ UNCHANGED <<registration, instance, cli, events, vars>>

Heartbeat(p) ==
    /\ At(p) = "idle"
    /\ Written(p)
    /\ UNCHANGED <<registration, proc, instance, cli, events, vars>>

(* ctx is done: the last status names no process.  Then the deferred close *)
(* of the instance lock and the end of the process.                        *)
Finish(p) ==
    /\ At(p) = "idle" /\ proc[p].signalled
    /\ status' = [pid |-> NoProc, old |-> FALSE]
    /\ Moved(p, "left")
    /\ UNCHANGED <<registration, instance, cli, events, vars>>

Leave(p) ==
    /\ At(p) = "left"
    /\ instance' = NoProc
    /\ Ended(p, FALSE)
    /\ UNCHANGED <<status, cli, events, vars>>

-----------------------------------------------------------------------------
(* A signal.  Before runDaemon listens for signals it kills.               *)
Signalled(S) ==
    proc' = [p \in Procs |->
                IF p \notin S THEN proc[p]
                ELSE IF At(p) \in {"roots", "lock"} THEN Gone
                ELSE [proc[p] EXCEPT !.signalled = TRUE]]

(* Ctrl-C in the shell that runs a daemon.                                 *)
Interrupt(p) ==
    /\ At(p) # "none" /\ ~proc[p].supervised /\ ~proc[p].signalled
    /\ Signalled({p})
    /\ UNCHANGED <<registration, instance, status, cli, events, vars>>

(* A process dies without a word: killed, or its machine fails.  The       *)
(* instance lock is the kernel's and goes with it; the mutation lock is a  *)
(* file and stays, and so does the status.                                 *)
Dies(p) ==
    /\ At(p) # "none"
    /\ events < MaxEvents
    /\ events' = events + 1
    /\ IF pc[p] = "idle" THEN UNCHANGED vars ELSE Crash(p)
    /\ instance' = IF instance = p THEN NoProc ELSE instance
    /\ proc' = [proc EXCEPT ![p] = Gone]
    /\ UNCHANGED <<registration, status, cli>>

(* Task Scheduler ends the service's process on request.                   *)
Ends(p) ==
    /\ kind = "schtasks" /\ service = "off"
    /\ p \in Supervised
    /\ pc[p] = "idle"
    /\ instance' = IF instance = p THEN NoProc ELSE instance
    /\ proc' = [proc EXCEPT ![p] = Gone]
    /\ UNCHANGED <<registration, status, cli, events, vars>>

(* The status grows old while nobody rewrites it: its process is in a step *)
(* that takes longer than StaleAfter, or is gone.                          *)
StatusAges ==
    /\ status # NoStatus /\ ~status.old
    /\ status.pid \in Daemons => At(status.pid) # "idle"
    /\ status' = [status EXCEPT !.old = TRUE]
    /\ UNCHANGED <<registration, proc, instance, cli, events, vars>>

(* A new login session, when nothing of the last one is left; the manager  *)
(* starts what is registered, in the new session's environment.            *)
Login(env) ==
    /\ events < MaxEvents
    /\ events' = events + 1
    /\ \A p \in Procs : At(p) = "none"
    /\ cli.at = "none"
    /\ login' = env
    /\ service' = IF definition = "none" THEN "off" ELSE "on"
    /\ UNCHANGED <<kind, definition, recorded, proc, instance, status, cli, vars>>

-----------------------------------------------------------------------------
(* The person's commands, one at a time.                                   *)
Command(at, allow) ==
    /\ cli.at = "none"
    /\ events < MaxEvents
    /\ events' = events + 1
    /\ cli' = [at |-> at, allow |-> allow]

Continue(from, to) == cli.at = from /\ cli' = [cli EXCEPT !.at = to]
Return(from) == cli.at = from /\ cli' = NoCommand

(* The manager stops the service.                                          *)
StopService ==
    /\ service' = "off"
    /\ IF kind = "schtasks" THEN UNCHANGED proc ELSE Signalled(Supervised)
    /\ UNCHANGED <<kind, definition, login, recorded>>

(* WriteAgentRoots, before anything is registered.                         *)
InstallPins(env, allow) ==
    /\ Command(IF kind = "launchd" THEN "unload" ELSE "write", allow)
    /\ recorded' = env
    /\ UNCHANGED <<kind, definition, service, login, proc, instance, status, vars>>

(* launchctl bootout of a stale registration; its error is ignored.        *)
InstallUnloads ==
    /\ Continue("unload", "write")
    /\ StopService
    /\ UNCHANGED <<instance, status, events, vars>>

(* The plist, the unit with daemon-reload, or schtasks /Create.            *)
InstallWrites ==
    /\ Continue("write", "start")
    /\ definition' = IF cli.allow THEN "allowing" ELSE "strict"
    /\ UNCHANGED <<kind, service, login, recorded, proc, instance, status, events, vars>>

(* bootstrap, enable --now or schtasks /Run; one that runs already goes on.*)
InstallStarts ==
    /\ Return("start")
    /\ service' = IF service = "off" THEN "on" ELSE service
    /\ UNCHANGED <<kind, definition, login, recorded, proc, instance, status, events, vars>>

(* `rein daemon stop`.                                                     *)
Stop ==
    /\ Command("none", FALSE)
    /\ definition # "none"
    /\ StopService
    /\ UNCHANGED <<instance, status, vars>>

(* `rein daemon start`: kickstart -k and systemctl restart replace the     *)
(* process, schtasks /Run starts one unless one runs.                      *)
StartAgain ==
    /\ Command("none", FALSE)
    /\ definition # "none"
    /\ IF kind = "schtasks" \/ Supervised = {}
         THEN service' = "on" /\ UNCHANGED proc
         ELSE service' = "again" /\ Signalled(Supervised)
    /\ UNCHANGED <<kind, definition, login, recorded, instance, status, vars>>

(* Uninstall: stop the service, remove its definition, wait for the daemon *)
(* to be gone, remove its status, forget the roots.  systemctl and   *)
(* schtasks /End return when the process has ended.                        *)
UninstallStops ==
    /\ Command("remove", FALSE)
    /\ StopService
    /\ UNCHANGED <<instance, status, vars>>

UninstallRemoves ==
    /\ Continue("remove", "wait")
    /\ kind # "launchd" => Supervised = {}
    /\ definition' = "none"
    /\ UNCHANGED <<kind, service, login, recorded, proc, instance, status, events, vars>>

(* daemonGone, for five seconds.                                           *)
UninstallWaits ==
    /\ Continue("wait", IF Alive THEN "unpin" ELSE "tidy")
    /\ UNCHANGED <<registration, proc, instance, status, events, vars>>

UninstallTidies ==
    /\ Continue("tidy", "unpin")
    /\ status' = NoStatus
    /\ UNCHANGED <<registration, proc, instance, events, vars>>

UninstallUnpins ==
    /\ Return("unpin")
    /\ recorded' = NoRoots
    /\ UNCHANGED <<kind, definition, service, login, proc, instance, status, events, vars>>

(* A command fails, or is interrupted, between two of its steps.           *)
CommandFails ==
    /\ cli.at # "none"
    /\ cli' = NoCommand
    /\ UNCHANGED <<registration, proc, instance, status, events, vars>>

-----------------------------------------------------------------------------
(* pullBeforeResume: only with a daemon alive, and only when it has not    *)
(* just pulled.  Another command takes the mutation lock unasked.          *)
Resume(q) ==
    /\ At(q) = "none"
    /\ Alive
    /\ Moved(q, "resume")
    /\ UNCHANGED <<registration, instance, status, cli, events, vars>>

Order(q) ==
    /\ At(q) = "none"
    /\ Moved(q, "command")
    /\ UNCHANGED <<registration, instance, status, cli, events, vars>>

(* A resume that finds the lock held goes on with the local copy; another  *)
(* command reports it.                                                     *)
ShellLocks(q) ==
    /\ At(q) \in {"resume", "command"}
    /\ Attempt(q)
    /\ IF pc'[q] = "idle" THEN proc' = [proc EXCEPT ![q] = Gone] ELSE UNCHANGED proc
    /\ UNCHANGED <<registration, instance, status, cli, events>>

ShellReleases(q) ==
    /\ At(q) \in {"resume", "command"}
    /\ Release(q)
    /\ proc' = [proc EXCEPT ![q] = Gone]
    /\ UNCHANGED <<registration, instance, status, cli, events>>

LockExpires == Expire /\ UNCHANGED serviceVars

-----------------------------------------------------------------------------
LoopStep(p) ==
    \/ CheckRoots(p) \/ TakeInstance(p) \/ InstanceTaken(p) \/ EnterLoop(p)
    \/ StepLocks(p) \/ StepReleases(p) \/ StepEnds(p) \/ Leave(p)

ShellStep(q) == ShellLocks(q) \/ ShellReleases(q)

CommandStep ==
    \/ InstallUnloads \/ InstallWrites \/ InstallStarts
    \/ UninstallRemoves \/ UninstallWaits \/ UninstallTidies \/ UninstallUnpins

NextService ==
    \/ \E p \in Daemons : \/ Spawn(p) \/ LoopStep(p) \/ BeginStep(p) \/ Heartbeat(p)
                          \/ Finish(p) \/ Interrupt(p) \/ Ends(p)
                          \/ \E env \in Environments, allow \in BOOLEAN : RunInShell(p, env, allow)
    \/ \E q \in Shells : Resume(q) \/ Order(q) \/ ShellStep(q)
    \/ \E p \in Procs : Dies(p)
    \/ \E env \in Environments : Login(env) \/ \E allow \in BOOLEAN : InstallPins(env, allow)
    \/ CommandStep \/ Stop \/ StartAgain \/ UninstallStops \/ CommandFails
    \/ StatusAges \/ LockExpires

allVars == <<serviceVars, vars>>

ServiceSpec == InitService /\ [][NextService]_allVars

(* A daemon's process goes on: its steps end, since every request and wait *)
(* has a limit, and its pull timer fires again.  The manager starts a      *)
(* service that is on.  Time passes.  Nothing is assumed of the shell or   *)
(* of the person.                                                          *)
ServiceFairness ==
    /\ \A p \in Daemons : WF_allVars(LoopStep(p) \/ BeginStep(p) \/ Finish(p))
    /\ WF_allVars(\E p \in Daemons : Spawn(p))
    /\ WF_allVars(LockExpires)

FairServiceSpec == ServiceSpec /\ ServiceFairness
-----------------------------------------------------------------------------
(* Readers of the status file (status, uninstall, resume, the switcher)    *)
(* take the process it names for the daemon: as long as the file is there, *)
(* it names the process whose loop runs, whoever else has come and gone.   *)
StatusNamesTheLoop ==
    \A p \in Daemons : InLoop(p) => instance = p /\ (status # NoStatus => status.pid = p)

(* A registered service always has recorded roots to be pinned to, however *)
(* an install or an uninstall ended; a service that starts without them    *)
(* would watch whatever its session's environment names.                   *)
InstalledIsPinned == definition # "none" => recorded # NoRoots

(* And so the manager's daemon only ever watches recorded roots.           *)
SupervisedIsPinned ==
    \A p \in Daemons : InLoop(p) /\ proc[p].supervised => proc[p].env = Pinned

ServiceConsistent ==
    /\ TypeOKService /\ TypeOK
    /\ StatusNamesTheLoop /\ InstalledIsPinned /\ SupervisedIsPinned

(* A service that is on ends up with a loop that serves the device: its    *)
(* own, or that of the daemon that is in its way; unless the session's     *)
(* roots are refused, or it is turned off.  Task Scheduler gives up after  *)
(* ten failures and is left out.                                           *)
RootsRefused == definition # "none" /\ recorded # login /\ definition # "allowing"

InstalledServes ==
    service = "on" /\ kind # "schtasks"
        ~> service # "on" \/ RootsRefused \/ \E p \in Daemons : InLoop(p)

(* A lock left behind keeps every push, pull and resume out until it is    *)
(* stale; as long as a loop runs, someone gets it again.                   *)
AbandonedLockIsTakenOver ==
    Abandoned ~> \/ \E p \in Procs : Held(p)
                 \/ \A p \in Daemons : ~InLoop(p)

(* daemon.go says of a resume that finds the lock held that the daemon is  *)
(* pulling right now.                                                      *)
LockedMeansPulling ==
    [][\A q \in Shells : ShellLocks(q) /\ At(q) = "resume" /\ pc[q]' = "exists"
                           => \E p \in Daemons : At(p) = "pull" /\ Held(p)]_allVars

(* daemon.go removes the status only when the daemon it has stopped is     *)
(* gone, "or the final write brings it back".                              *)
TidiedIsGone == [][UninstallTidies => \A p \in Supervised : ~InLoop(p)]_allVars

=============================================================================
