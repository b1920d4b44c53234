------------------------------- MODULE Daemon -------------------------------
(***************************************************************************)
(* The daemon's loop (internal/daemon/loop.go) and its watcher (watch.go). *)
(* The watcher reports changed session files through a bounded channel;    *)
(* the loop takes one ready case of its select at a time (a change, or one *)
(* of its timers) and runs push, pull or the approvals poll to the end     *)
(* before it looks again.                                                  *)
(*                                                                         *)
(* Time is counted in ticks.  A timer is the number of ticks until it      *)
(* fires, 0 when its channel is ready, Off when it is nil.  firstDirty and *)
(* dirty are one variable, the time since firstDirty, Off while the loop   *)
(* is clean; notBefore is the time until it.  What a push carries is the   *)
(* number of writes it has seen.                                           *)
(***************************************************************************)
EXTENDS Integers

CONSTANTS Debounce, MaxDebounce,     \* Options, in ticks
          PullEvery, ApprovalsEvery,
          BackoffMin, BackoffMax,
          QueueSize,     \* capacity of the watcher's channel (64 in the code)
          Requests,      \* pairing and revocation requests; {} on BYO storage
          MaxWrites,     \* bound: writes agents make
          MaxFailures,   \* bound: pushes, pulls and polls that fail
          MaxRestarts    \* bound: how often the daemon is started again

ASSUME DaemonAssumption ==
    /\ \A n \in {Debounce, MaxDebounce, PullEvery, ApprovalsEvery, BackoffMin,
                 BackoffMax, QueueSize} : n \in Nat \ {0}
    /\ \A n \in {MaxWrites, MaxFailures, MaxRestarts} : n \in Nat

(* The doubled delays are durations.                                       *)
ASSUME BackoffAssumption == \A n \in 0..MaxFailures : BackoffMin * 2^n \in Nat

VARIABLES phase,      \* what the loop is doing
          sinceDirty, notBefore, pushFails, pullFails, seen,  \* loop
          debounceT, pullT, approvalsT,                  \* its timers
          unseen,     \* 1 when a file has changed that the watcher has not reported
          queue,      \* changes in the watcher's channel
          written,    \* writes made by agents
          read,       \* writes the running push has seen
          handled,    \* writes that were pushed, or recorded as a conflict
          pending,    \* requests at the control plane
          gone,       \* requests that were answered or withdrawn
          waited,     \* history: idle, dirty ticks outside a backoff since an attempt
          shown,      \* history: notifications of each request in this process
          failures, restarts

loopVars == <<sinceDirty, notBefore, pushFails, pullFails, seen>>
timers == <<debounceT, pullT, approvalsT>>
files == <<unseen, queue, written, read, handled>>
control == <<pending, gone>>
reports == <<waited, shown>>
bounds == <<failures, restarts>>
daemonVars == <<phase, loopVars, timers, files, control, reports, bounds>>

Off == -1
Timer(max) == Off..max

(* The longest a dirty, idle loop waits outside a backoff.                 *)
MaxWait == MaxDebounce + Debounce

Larger(m, n) == IF m > n THEN m ELSE n
Smaller(m, n) == IF m < n THEN m ELSE n

(* The longest backoff, debounce and pull timers.                          *)
LongestBackoff == Larger(BackoffMin, BackoffMax)
LongestDebounce == Larger(Debounce, LongestBackoff)
LongestPull == Larger(PullEvery, LongestBackoff)

(* Outside the loop: before its first select, or not running.              *)
Away == {"boot pull", "boot poll", "stopped"}
LoopPhases == {"boot pull", "boot poll", "stopped", "idle", "push", "pushing", "pull", "poll"}

NumbersOK ==
    /\ sinceDirty \in Timer(MaxDebounce)
    /\ notBefore \in 0..LongestBackoff
    /\ debounceT \in Timer(LongestDebounce)
    /\ pullT \in Timer(LongestPull)
    /\ approvalsT \in Timer(ApprovalsEvery)
    /\ pushFails \in Nat /\ pushFails <= failures
    /\ pullFails \in Nat /\ pullFails <= failures
    /\ unseen \in 0..1
    /\ queue \in 0..QueueSize
    /\ written \in 0..MaxWrites /\ read \in 0..written /\ handled \in 0..written
    /\ waited \in 0..MaxWait + 1
    /\ failures \in 0..MaxFailures
    /\ restarts \in 0..MaxRestarts

RequestsOK ==
    /\ seen \subseteq Requests
    /\ pending \subseteq Requests /\ gone \subseteq Requests
    /\ shown \in [Requests -> 0..2]

(* What each variable may hold; failures in a row are failures.            *)
LoopTypeOK == phase \in LoopPhases /\ NumbersOK /\ RequestsOK

(* Run up to its first pull, with writes made before it started.  It marks *)
(* the loop dirty as of this moment once the first pass is done; nothing   *)
(* asks before that.                                                       *)
LoopInit ==
    /\ phase = "boot pull"
    /\ sinceDirty = 0 /\ notBefore = 0
    /\ pushFails = 0 /\ pullFails = 0 /\ seen = {}
    /\ debounceT = Off /\ pullT = Off /\ approvalsT = Off
    /\ unseen = 0 /\ queue = 0 /\ read = 0
    /\ waited = 0 /\ shown = [r \in Requests |-> 0]
    /\ written \in 0..MaxWrites /\ handled = 0
    /\ pending = {} /\ gone = {}
    /\ failures = 0 /\ restarts = 0

-----------------------------------------------------------------------------
(* Mistakes the loop could make: a change that restarts the max-debounce   *)
(* window or ignores the backoff, a push that drains the channel or does   *)
(* not re-arm its timer, a poll that takes an error for an empty list or   *)
(* is not repeated, a backoff without its cap, a failed pull that is not   *)
(* rescheduled.                                                            *)
MarkDirtyAlways == sinceDirty' = 0

PushEndsDraining(result) ==
    /\ phase = "pushing"
    /\ phase' = "idle" /\ read' = 0
    /\ result \in {"ok", "conflict"}
    /\ sinceDirty' = Off /\ pushFails' = 0 /\ notBefore' = 0
    /\ debounceT' = Off /\ handled' = read /\ queue' = 0
    /\ UNCHANGED <<pullFails, seen, pullT, approvalsT, unseen, written, control, waited,
                   shown, bounds>>

ForwardNothing ==
    /\ unseen = 1
    /\ unseen' = 0
    /\ UNCHANGED <<phase, loopVars, timers, queue, written, read, handled, control,
                   reports, bounds>>

ApprovalsEndOnce ==
    /\ phase \in {"poll", "boot poll"}
    /\ phase' = "idle"
    /\ debounceT' = IF phase = "boot poll" THEN Debounce ELSE debounceT
    /\ seen' = pending
    /\ shown' = [r \in Requests |-> IF r \in pending \ seen THEN 1 ELSE shown[r]]
    /\ approvalsT' = IF pending = {} THEN Off ELSE ApprovalsEvery
    /\ UNCHANGED <<sinceDirty, notBefore, pushFails, pullFails, pullT, files, control, waited,
                   bounds>>

-----------------------------------------------------------------------------
(* The delay doubles from BackoffMin and stops at BackoffMax.              *)
backoff(fails) == Smaller(BackoffMin * 2^(fails - 1), BackoffMax)

dirty == sinceDirty # Off

markDirty == sinceDirty' = IF dirty THEN sinceDirty ELSE 0

(* How long a change that just arrived waits: the debounce, nothing once   *)
(* the loop has been dirty for MaxDebounce, but never less than the        *)
(* backoff.  (Evaluated after markDirty.)                                  *)
pushDelay ==
    Larger(IF sinceDirty >= MaxDebounce THEN 0 ELSE Debounce, notBefore)

(* What a push or pull can come to: done, a conflict recorded, the         *)
(* mutation lock held by another process, any other error or panic.        *)
Results == {"ok", "conflict", "locked", "error"}
Settled == {"ok", "conflict"}

(* The delay after a push or pull that failed for the n-th time in a row.  *)
Retry(result, n) == IF result = "locked" THEN BackoffMin ELSE backoff(n)

NextPull(result) == IF result \in Settled THEN PullEvery ELSE Retry(result, pullFails + 1)

(* Failures are bounded in the model.                                      *)
Account(result) ==
    IF result \in Settled THEN UNCHANGED failures
    ELSE failures < MaxFailures /\ failures' = failures + 1

-----------------------------------------------------------------------------
(* An agent writes; a watcher that runs has something to report.           *)
Write ==
    /\ written < MaxWrites
    /\ written' = written + 1
    /\ unseen' = IF phase = "stopped" THEN 0 ELSE 1
    /\ UNCHANGED <<phase, loopVars, timers, queue, read, handled, control, reports, bounds>>

(* The watcher reports a change, or drops it when the channel is full.     *)
Forward ==
    /\ unseen = 1
    /\ unseen' = 0
    /\ queue' = Smaller(queue + 1, QueueSize)
    /\ UNCHANGED <<phase, loopVars, timers, written, read, handled, control, reports, bounds>>

(* select: a change.  The debounce timer starts again.                     *)
TakeChange ==
    /\ phase = "idle"
    /\ queue > 0
    /\ queue' = queue - 1
    /\ markDirty
    /\ debounceT' = pushDelay
    /\ UNCHANGED <<phase, notBefore, pushFails, pullFails, seen, pullT, approvalsT,
                   unseen, written, read, handled, control, reports, bounds>>

(* select: the debounce timer.  Every attempt restarts the max-debounce    *)
(* window.                                                                 *)
DebounceFires ==
    /\ phase = "idle"
    /\ debounceT = 0
    /\ debounceT' = Off
    /\ IF dirty THEN phase' = "push" /\ sinceDirty' = 0 /\ waited' = 0
                ELSE UNCHANGED <<phase, sinceDirty, waited>>
    /\ UNCHANGED <<notBefore, pushFails, pullFails, seen, pullT, approvalsT,
                   files, control, shown, bounds>>

(* push --all reads the sessions, somewhere within the push.               *)
PushReads ==
    /\ phase = "push"
    /\ phase' = "pushing"
    /\ read' = written
    /\ UNCHANGED <<loopVars, timers, unseen, queue, written, handled, control, reports, bounds>>

(* The loop is clean, or still dirty and backing off; read is dead until   *)
(* the next push.                                                          *)
PushEnds(result) ==
    /\ phase = "pushing"
    /\ phase' = "idle" /\ read' = 0
    /\ Account(result)
    /\ IF result \in Settled
         THEN /\ sinceDirty' = Off /\ pushFails' = 0 /\ notBefore' = 0
              /\ debounceT' = Off
              /\ handled' = read
         ELSE /\ pushFails' = pushFails + 1
              /\ notBefore' = Retry(result, pushFails + 1)
              /\ debounceT' = Retry(result, pushFails + 1)
              /\ UNCHANGED <<sinceDirty, handled>>
    /\ UNCHANGED <<pullFails, seen, pullT, approvalsT, unseen, queue, written, control,
                   waited, shown, restarts>>

(* select: the pull timer.                                                 *)
PullFires ==
    /\ phase = "idle"
    /\ pullT = 0
    /\ phase' = "pull" /\ pullT' = Off
    /\ UNCHANGED <<loopVars, debounceT, approvalsT, files, control, reports, bounds>>

(* A pull that restores a session (restored = 1) changes files the watcher *)
(* sees.                                                                   *)
PullEnds(result, restored) ==
    /\ phase \in {"pull", "boot pull"}
    /\ phase' = IF phase = "pull" THEN "idle" ELSE "boot poll"
    /\ Account(result)
    /\ pullT' = NextPull(result)
    /\ pullFails' = IF result \in Settled THEN 0 ELSE pullFails + 1
    /\ unseen' = Larger(unseen, restored)
    /\ UNCHANGED <<sinceDirty, notBefore, pushFails, seen, debounceT, approvalsT,
                   queue, written, read, handled, control, waited, shown, restarts>>

(* select: the approvals timer.                                            *)
ApprovalsFire ==
    /\ phase = "idle"
    /\ approvalsT = 0
    /\ phase' = "poll" /\ approvalsT' = Off
    /\ UNCHANGED <<loopVars, debounceT, pullT, files, control, reports, bounds>>

(* After the first pass the loop is dirty as of its start; Run arms the    *)
(* debounce timer.                                                         *)
Polled ==
    /\ phase' = "idle"
    /\ IF phase = "boot poll"
         THEN debounceT' = Debounce
         ELSE UNCHANGED debounceT

(* approvals: notify of what was not there at the last poll; on BYO        *)
(* storage there is no account to ask.                                     *)
ApprovalsEnd ==
    /\ phase \in {"poll", "boot poll"}
    /\ Polled
    /\ seen' = pending
    /\ shown' = [r \in Requests |-> IF r \in pending \ seen THEN Smaller(shown[r] + 1, 2)
                                                           ELSE shown[r]]
    /\ approvalsT' = IF Requests = {} THEN Off ELSE ApprovalsEvery
    /\ UNCHANGED <<sinceDirty, notBefore, pushFails, pullFails, pullT, files, control, waited,
                   bounds>>

(* The control plane does not answer: the requests it named stay seen.     *)
ApprovalsFail ==
    /\ phase \in {"poll", "boot poll"} /\ Requests # {}
    /\ Account("error")
    /\ Polled
    /\ approvalsT' = ApprovalsEvery
    /\ UNCHANGED <<sinceDirty, notBefore, pushFails, pullFails, seen, pullT, files, control,
                   waited, shown, restarts>>

-----------------------------------------------------------------------------
(* The process ends, at the select when it is told to, anywhere when it    *)
(* dies; the loop's memory, its timers and the watcher go with it.         *)
StopLoop ==
    /\ phase # "stopped"
    /\ restarts < MaxRestarts
    /\ restarts' = restarts + 1
    /\ phase' = "stopped"
    /\ sinceDirty' = 0 /\ notBefore' = 0
    /\ pushFails' = 0 /\ pullFails' = 0 /\ seen' = {}
    /\ debounceT' = Off /\ pullT' = Off /\ approvalsT' = Off
    /\ unseen' = 0 /\ queue' = 0 /\ read' = 0
    /\ waited' = 0 /\ shown' = [r \in Requests |-> 0]
    /\ UNCHANGED <<written, handled, control, failures>>

(* The supervisor starts it again, with nothing but the files.             *)
Start ==
    /\ phase = "stopped"
    /\ phase' = "boot pull"
    /\ UNCHANGED <<loopVars, timers, files, control, reports, bounds>>

(* A device asks to join, or is to be revoked; later that is settled.      *)
Ask(r) ==
    /\ r \notin pending \cup gone
    /\ pending' = pending \cup {r}
    /\ UNCHANGED <<phase, loopVars, timers, files, gone, reports, bounds>>

Answer(r) ==
    /\ r \in pending
    /\ pending' = pending \ {r}
    /\ gone' = gone \cup {r}
    /\ UNCHANGED <<phase, loopVars, timers, files, reports, bounds>>

(* A tick passes.  An idle loop takes what is ready within the tick.       *)
Ready == queue > 0 \/ 0 \in {debounceT, pullT, approvalsT}

Sooner(t) == IF t > 0 THEN t - 1 ELSE t

Tick ==
    /\ phase # "stopped"
    /\ phase = "idle" => ~Ready
    /\ debounceT' = Sooner(debounceT) /\ pullT' = Sooner(pullT)
    /\ approvalsT' = Sooner(approvalsT)
    /\ sinceDirty' = IF dirty THEN Smaller(sinceDirty + 1, MaxDebounce) ELSE Off
    /\ notBefore' = Sooner(notBefore)
    /\ waited' = IF phase = "idle" /\ dirty /\ notBefore = 0
                   THEN Smaller(waited + 1, MaxWait + 1) ELSE waited
    /\ UNCHANGED <<phase, pushFails, pullFails, seen, files, control, shown, bounds>>

Select == TakeChange \/ DebounceFires \/ PullFires \/ ApprovalsFire

(* A step that runs comes to its end; it may take any number of ticks.     *)
FinishStep ==
    \/ PushReads
    \/ \E result \in Results : PushEnds(result)
    \/ \E result \in Results, restored \in 0..1 : PullEnds(result, restored)
    \/ ApprovalsEnd \/ ApprovalsFail

LoopNext ==
    \/ Write \/ Forward \/ Select \/ FinishStep \/ StopLoop \/ Start \/ Tick
    \/ \E r \in Requests : Ask(r) \/ Answer(r)

LoopSpec == LoopInit /\ [][LoopNext]_daemonVars

(* The loop and the watcher are scheduled, requests end or time out, time  *)
(* passes, and the supervisor starts the daemon again.  select picks among *)
(* ready cases at random, so none that stays ready is passed over forever. *)
Fairness ==
    /\ WF_daemonVars(Forward) /\ WF_daemonVars(FinishStep)
    /\ WF_daemonVars(Tick) /\ WF_daemonVars(Start)
    /\ SF_daemonVars(TakeChange) /\ SF_daemonVars(DebounceFires)
    /\ SF_daemonVars(PullFires) /\ SF_daemonVars(ApprovalsFire)

FairLoopSpec == LoopSpec /\ Fairness
-----------------------------------------------------------------------------
(* No wake-up is lost: a write that no push has carried is on its way to   *)
(* the loop or has made it dirty, also when it fell into a running push,   *)
(* into a full channel or between two runs of the daemon.                  *)
WritesAreRemembered ==
    written > handled =>
        \/ phase \in Away
        \/ unseen = 1 \/ queue > 0
        \/ dirty /\ (phase = "pushing" => read = written)

(* A dirty loop that waits has its timer armed, and never before the       *)
(* backoff after a failed push has passed: a session that keeps changing   *)
(* in an outage neither brings the retry forward nor puts it off.          *)
DirtyIsScheduled ==
    phase = "idle" /\ dirty => debounceT # Off /\ debounceT >= notBefore

(* A session that never stops changing is still pushed: a dirty loop that  *)
(* is idle and not backing off starts a push within MaxDebounce and one    *)
(* debounce.                                                               *)
NeverStarved == waited <= MaxWait

(* A request is notified once, however many polls see it or fail.          *)
NotifiedOnce == \A r \in Requests : shown[r] <= 1

(* Every write is pushed or recorded as a conflict in the end, whatever    *)
(* failed, was dropped or was restarted in between.                        *)
WritesAreHandled == \A n \in 1..MaxWrites : written >= n ~> handled >= n

(* Every request is notified unless it is settled before.                  *)
RequestsAreShown == \A r \in Requests : r \in pending ~> shown[r] > 0 \/ r \in gone

(* Nothing the daemon owes is lost for good, whatever failed in between:   *)
(* neither a write (watch.go:125, loop.go:292) nor a request for approval  *)
(* (loop.go:370).                                                          *)
NothingIsForgotten == WritesAreHandled /\ RequestsAreShown
=============================================================================
