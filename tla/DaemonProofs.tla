---------------------------- MODULE DaemonProofs ----------------------------
(***************************************************************************)
(* The daemon.  Its loop, for all intervals, capacities and bounds: the    *)
(* types, that no write is forgotten, that a dirty loop is scheduled and   *)
(* not starved, and that a request is notified once.  The mutation lock,   *)
(* for every set of processes and every number of crashes and expiries,    *)
(* and the daemon as a service over it, for every number of processes,     *)
(* environments and events and every service manager.                      *)
(***************************************************************************)
EXTENDS Daemon, DaemonService, TLAPS

(***************************************************************************)
(* The loop                                                                *)
(***************************************************************************)


(* Phases in which a dirty loop waits for its debounce timer.              *)
Waiting == {"idle", "pull", "poll"}

(* What the loop's memory looks like where it does not wait.               *)
OutsideWaiting ==
    /\ phase \notin Waiting => dirty
    /\ phase \in Away => notBefore = 0
    /\ phase \notin Waiting \/ ~dirty => waited = 0
    /\ phase = "pushing" => handled <= read

(* DirtyIsScheduled, while a pull or a poll runs too.                      *)
Scheduled == phase \in Waiting /\ dirty => debounceT # Off /\ debounceT >= notBefore

(* The max-debounce window sees every tick that is waited, and what is     *)
(* left on the timer beyond the backoff still fits.                        *)
WindowCounts == dirty => waited <= sinceDirty \/ sinceDirty = MaxDebounce

WaitFits == phase \in Waiting /\ dirty => waited + (debounceT - notBefore) <= MaxWait

(* A request that was notified is remembered, or gone.                     *)
ShownIsSeen ==
    /\ pending \cap gone = {}
    /\ seen \subseteq pending \cup gone
    /\ \A r \in Requests : shown[r] \in 0..1 /\ (shown[r] = 1 => r \in seen \cup gone)

LoopInv == /\ LoopTypeOK /\ OutsideWaiting /\ Scheduled
           /\ WindowCounts /\ WaitFits /\ ShownIsSeen /\ WritesAreRemembered

-----------------------------------------------------------------------------
(* DaemonAssumption, one constant at a time.                               *)
LEMMA Constants ==
    /\ Debounce \in Nat /\ MaxDebounce \in Nat /\ PullEvery \in Nat
    /\ ApprovalsEvery \in Nat /\ BackoffMin \in Nat /\ BackoffMax \in Nat
    /\ QueueSize \in Nat /\ MaxWrites \in Nat /\ MaxFailures \in Nat
    /\ MaxRestarts \in Nat
    /\ Debounce > 0 /\ MaxDebounce > 0 /\ QueueSize > 0
  BY DaemonAssumption

(* The bounds of the timers.                                               *)
LEMMA Longest ==
    /\ LongestBackoff \in Nat /\ BackoffMin <= LongestBackoff /\ BackoffMax <= LongestBackoff
    /\ LongestDebounce \in Nat /\ Debounce <= LongestDebounce
    /\ LongestBackoff <= LongestDebounce
    /\ LongestPull \in Nat /\ PullEvery <= LongestPull /\ LongestBackoff <= LongestPull
  BY Constants DEF LongestBackoff, LongestDebounce, LongestPull, Larger

(* The delay after a failure is a duration up to the larger bound.         *)
LEMMA RetryType ==
    ASSUME NEW result, NEW n \in 1..MaxFailures
    PROVE  Retry(result, n) \in 0..LongestBackoff
<1>1. BackoffMin * 2^(n - 1) \in Nat
  <2>1. n - 1 \in 0..MaxFailures
    BY Constants
  <2> QED
    BY <2>1, BackoffAssumption
<1> QED
  BY <1>1, Constants, Longest DEF Retry, backoff, Smaller

(* Every step keeps the phase one of the known ones.                       *)
LEMMA PhaseStep ==
    LoopTypeOK /\ [LoopNext]_daemonVars => phase' \in LoopPhases
<1> SUFFICES ASSUME LoopTypeOK
             PROVE  [LoopNext]_daemonVars => phase' \in LoopPhases
  OBVIOUS
<1> USE Constants, Longest DEF LoopTypeOK, LoopPhases,
           loopVars, timers, files, control, reports, bounds
<1>1. ASSUME Write PROVE phase' \in LoopPhases
  BY <1>1 DEF Write
<1>2. ASSUME Forward PROVE phase' \in LoopPhases
  BY <1>2 DEF Forward, Smaller
<1>3. ASSUME TakeChange PROVE phase' \in LoopPhases
  BY <1>3 DEF TakeChange, markDirty, pushDelay, Larger
<1>4. ASSUME DebounceFires PROVE phase' \in LoopPhases
  BY <1>4 DEF DebounceFires
<1>5. ASSUME PullFires PROVE phase' \in LoopPhases
  BY <1>5 DEF PullFires
<1>6. ASSUME ApprovalsFire PROVE phase' \in LoopPhases
  BY <1>6 DEF ApprovalsFire
<1>7. ASSUME PushReads PROVE phase' \in LoopPhases
  BY <1>7 DEF PushReads
<1>8. ASSUME NEW result \in Results, PushEnds(result) PROVE phase' \in LoopPhases
  BY <1>8 DEF PushEnds, Account, Settled
<1>9. ASSUME NEW result \in Results, NEW restored \in 0..1, PullEnds(result, restored)
      PROVE  phase' \in LoopPhases
  BY <1>9 DEF PullEnds, Account, Settled, NextPull, Larger
<1>10. ASSUME ApprovalsEnd PROVE phase' \in LoopPhases
  BY <1>10 DEF ApprovalsEnd, Polled, Smaller
<1>11. ASSUME ApprovalsFail PROVE phase' \in LoopPhases
  BY <1>11 DEF ApprovalsFail, Polled, Account, Away, Settled
<1>12. ASSUME StopLoop PROVE phase' \in LoopPhases
  BY <1>12 DEF StopLoop
<1>13. ASSUME Start PROVE phase' \in LoopPhases
  BY <1>13 DEF Start
<1>14. ASSUME Tick PROVE phase' \in LoopPhases
  BY <1>14 DEF Tick, Sooner, Smaller
<1>15. ASSUME NEW r \in Requests, Ask(r) PROVE phase' \in LoopPhases
  BY <1>15 DEF Ask
<1>16. ASSUME NEW r \in Requests, Answer(r) PROVE phase' \in LoopPhases
  BY <1>16 DEF Answer
<1>17. CASE UNCHANGED daemonVars
  BY <1>17 DEF daemonVars
<1> QED
  BY <1>1, <1>2, <1>3, <1>4, <1>5, <1>6, <1>7, <1>8, <1>9,
     <1>10, <1>11, <1>12, <1>13, <1>14, <1>15, <1>16, <1>17 DEF LoopNext, Select, FinishStep

(* Every step keeps the numbers in their ranges.                           *)
LEMMA NumbersStep ==
    LoopTypeOK /\ [LoopNext]_daemonVars => NumbersOK'
<1> SUFFICES ASSUME LoopTypeOK
             PROVE  [LoopNext]_daemonVars => NumbersOK'
  OBVIOUS
<1> USE Constants, Longest DEF LoopTypeOK, NumbersOK, Timer, Off, dirty,
           loopVars, timers, files, control, reports, bounds
<1>1. ASSUME Write PROVE NumbersOK'
  BY <1>1 DEF Write
<1>2. ASSUME Forward PROVE NumbersOK'
  BY <1>2 DEF Forward, Smaller
<1>3. ASSUME TakeChange PROVE NumbersOK'
  BY <1>3 DEF TakeChange, markDirty, pushDelay, Larger
<1>4. ASSUME DebounceFires PROVE NumbersOK'
  BY <1>4 DEF DebounceFires, MaxWait
<1>5. ASSUME PullFires PROVE NumbersOK'
  BY <1>5 DEF PullFires
<1>6. ASSUME ApprovalsFire PROVE NumbersOK'
  BY <1>6 DEF ApprovalsFire
<1>7. ASSUME PushReads PROVE NumbersOK'
  BY <1>7 DEF PushReads
<1>8. ASSUME NEW result \in Results, PushEnds(result) PROVE NumbersOK'
  <2>1. result \notin Settled => failures < MaxFailures
    BY <1>8 DEF PushEnds, Account
  <2>2. result \notin Settled => pushFails + 1 \in 1..MaxFailures
    BY <2>1
  <2>3. result \notin Settled => Retry(result, pushFails + 1) \in 0..LongestBackoff
    BY <2>2, RetryType
  <2>4. CASE result \in Settled
    BY <1>8, <2>4 DEF PushEnds, Account
  <2>5. CASE result \notin Settled
    BY <1>8, <2>2, <2>3, <2>5 DEF PushEnds, Account
  <2> QED
    BY <2>4, <2>5
<1>9. ASSUME NEW result \in Results, NEW restored \in 0..1, PullEnds(result, restored)
      PROVE  NumbersOK'
  <2>0. /\ Account(result) /\ pullT' = NextPull(result)
        /\ pullFails' = IF result \in Settled THEN 0 ELSE pullFails + 1
        /\ unseen' = Larger(unseen, restored)
        /\ UNCHANGED <<sinceDirty, notBefore, pushFails, debounceT, approvalsT,
                       queue, written, read, handled, waited, restarts>>
    BY <1>9 DEF PullEnds
  <2>1. result \notin Settled => failures < MaxFailures
    BY <2>0 DEF Account
  <2>2. result \notin Settled => pullFails + 1 \in 1..MaxFailures
    BY <2>1
  <2>3. result \notin Settled => Retry(result, pullFails + 1) \in 0..LongestBackoff
    BY <2>2, RetryType
  <2>4. pullT' \in Timer(LongestPull)
    BY <2>0, <2>3 DEF NextPull
  <2>5. unseen' \in 0..1
    BY <2>0 DEF Larger
  <2>6. CASE result \in Settled
    BY <2>0, <2>4, <2>5, <2>6 DEF Account
  <2>7. CASE result \notin Settled
    BY <2>0, <2>2, <2>4, <2>5, <2>7 DEF Account
  <2> QED
    BY <2>6, <2>7
<1>10. ASSUME ApprovalsEnd PROVE NumbersOK'
  <2>1. debounceT' \in {debounceT, Debounce} /\ approvalsT' \in {Off, ApprovalsEvery}
    BY <1>10, Zenon DEF ApprovalsEnd, Polled
  <2>2. UNCHANGED <<sinceDirty, notBefore, pushFails, pullFails, pullT, files, waited, bounds>>
    BY <1>10 DEF ApprovalsEnd
  <2> QED
    BY <2>1, <2>2
<1>11. ASSUME ApprovalsFail PROVE NumbersOK'
  <2>1. debounceT' \in {debounceT, Debounce} /\ approvalsT' = ApprovalsEvery
    BY <1>11, Zenon DEF ApprovalsFail, Polled
  <2>2. failures < MaxFailures /\ failures' = failures + 1
    BY <1>11, Zenon DEF ApprovalsFail, Account, Settled
  <2>3. UNCHANGED <<sinceDirty, notBefore, pushFails, pullFails, pullT, files, waited, restarts>>
    BY <1>11 DEF ApprovalsFail
  <2> QED
    BY <2>1, <2>2, <2>3
<1>12. ASSUME StopLoop PROVE NumbersOK'
  BY <1>12 DEF StopLoop, MaxWait
<1>13. ASSUME Start PROVE NumbersOK'
  BY <1>13 DEF Start
<1>14. ASSUME Tick PROVE NumbersOK'
  <2>1. /\ debounceT' \in Timer(LongestDebounce) /\ pullT' \in Timer(LongestPull)
        /\ approvalsT' \in Timer(ApprovalsEvery)
    BY <1>14 DEF Tick, Sooner
  <2>2. notBefore' \in 0..LongestBackoff
    BY <1>14 DEF Tick, Sooner
  <2>3. sinceDirty' \in Timer(MaxDebounce)
    BY <1>14 DEF Tick, Smaller
  <2>4. waited' \in 0..MaxWait + 1
    BY <1>14 DEF Tick, Smaller, MaxWait
  <2> QED
    BY <1>14, <2>1, <2>2, <2>3, <2>4 DEF Tick
<1>15. ASSUME NEW r \in Requests, Ask(r) PROVE NumbersOK'
  BY <1>15 DEF Ask
<1>16. ASSUME NEW r \in Requests, Answer(r) PROVE NumbersOK'
  BY <1>16 DEF Answer
<1>17. CASE UNCHANGED daemonVars
  BY <1>17 DEF daemonVars
<1> QED
  BY <1>1, <1>2, <1>3, <1>4, <1>5, <1>6, <1>7, <1>8, <1>9,
     <1>10, <1>11, <1>12, <1>13, <1>14, <1>15, <1>16, <1>17 DEF LoopNext, Select, FinishStep

(* Every step keeps the requests and how often they were shown.            *)
LEMMA RequestsStep ==
    LoopTypeOK /\ [LoopNext]_daemonVars => RequestsOK'
<1> SUFFICES ASSUME LoopTypeOK
             PROVE  [LoopNext]_daemonVars => RequestsOK'
  OBVIOUS
<1> USE Constants, Longest DEF LoopTypeOK, RequestsOK,
           loopVars, timers, files, control, reports, bounds
<1>1. ASSUME Write PROVE RequestsOK'
  BY <1>1 DEF Write
<1>2. ASSUME Forward PROVE RequestsOK'
  BY <1>2 DEF Forward
<1>3. ASSUME TakeChange PROVE RequestsOK'
  BY <1>3 DEF TakeChange
<1>4. ASSUME DebounceFires PROVE RequestsOK'
  BY <1>4 DEF DebounceFires
<1>5. ASSUME PullFires PROVE RequestsOK'
  BY <1>5 DEF PullFires
<1>6. ASSUME ApprovalsFire PROVE RequestsOK'
  BY <1>6 DEF ApprovalsFire
<1>7. ASSUME PushReads PROVE RequestsOK'
  BY <1>7 DEF PushReads
<1>8. ASSUME NEW result \in Results, PushEnds(result) PROVE RequestsOK'
  BY <1>8 DEF PushEnds
<1>9. ASSUME NEW result \in Results, NEW restored \in 0..1, PullEnds(result, restored)
      PROVE  RequestsOK'
  BY <1>9 DEF PullEnds
<1>10. ASSUME ApprovalsEnd PROVE RequestsOK'
  <2>1. \A r \in Requests : Smaller(shown[r] + 1, 2) \in 0..2
    BY DEF Smaller
  <2>2. shown' \in [Requests -> 0..2]
    BY <1>10, <2>1 DEF ApprovalsEnd
  <2> QED
    BY <1>10, <2>2 DEF ApprovalsEnd
<1>11. ASSUME ApprovalsFail PROVE RequestsOK'
  BY <1>11 DEF ApprovalsFail
<1>12. ASSUME StopLoop PROVE RequestsOK'
  BY <1>12 DEF StopLoop
<1>13. ASSUME Start PROVE RequestsOK'
  BY <1>13 DEF Start
<1>14. ASSUME Tick PROVE RequestsOK'
  BY <1>14 DEF Tick
<1>15. ASSUME NEW r \in Requests, Ask(r) PROVE RequestsOK'
  BY <1>15 DEF Ask
<1>16. ASSUME NEW r \in Requests, Answer(r) PROVE RequestsOK'
  BY <1>16 DEF Answer
<1>17. CASE UNCHANGED daemonVars
  BY <1>17 DEF daemonVars
<1> QED
  BY <1>1, <1>2, <1>3, <1>4, <1>5, <1>6, <1>7, <1>8, <1>9,
     <1>10, <1>11, <1>12, <1>13, <1>14, <1>15, <1>16, <1>17 DEF LoopNext, Select, FinishStep

(* A tick moves one unit from what is left to what was waited.             *)
LEMMA OneTick ==
    \A new, old, left, max \in Int :
        new <= old + 1 /\ old + (left - 0) <= max => new + ((left - 1) - 0) <= max
  OBVIOUS

(* What a tick does to the loop.                                           *)
LEMMA TickEffect ==
    ASSUME LoopTypeOK, Tick
    PROVE  /\ phase' = phase /\ UNCHANGED files
           /\ dirty' <=> dirty
           /\ debounceT' = IF debounceT > 0 THEN debounceT - 1 ELSE debounceT
           /\ notBefore' = IF notBefore > 0 THEN notBefore - 1 ELSE notBefore
           /\ phase = "idle" => debounceT # 0
           /\ waited' = waited \/ (phase = "idle" /\ dirty /\ notBefore = 0)
           /\ waited' = waited \/ waited' = waited + 1 \/ (waited' = MaxWait + 1 /\ waited' <= waited + 1)
<1>1. phase' = phase /\ UNCHANGED files
  BY DEF Tick
<1>2. dirty' <=> dirty
  <2>1. CASE dirty
    BY <2>1, Constants DEF Tick, dirty, Smaller, Off, LoopTypeOK, NumbersOK, Timer
  <2>2. CASE ~dirty
    BY <2>2 DEF Tick, dirty
  <2> QED
    BY <2>1, <2>2
<1>3. /\ debounceT' = IF debounceT > 0 THEN debounceT - 1 ELSE debounceT
      /\ notBefore' = IF notBefore > 0 THEN notBefore - 1 ELSE notBefore
  BY DEF Tick, Sooner
<1>4. phase = "idle" => debounceT # 0
  BY DEF Tick, Ready
<1>5. waited' = waited \/ (phase = "idle" /\ dirty /\ notBefore = 0)
  BY DEF Tick
<1>6. waited' = waited \/ waited' = Smaller(waited + 1, MaxWait + 1)
  BY DEF Tick
<1>7. Smaller(waited + 1, MaxWait + 1) = waited + 1
      \/ (Smaller(waited + 1, MaxWait + 1) = MaxWait + 1 /\ MaxWait + 1 <= waited + 1)
  BY Constants DEF Smaller, LoopTypeOK, NumbersOK, MaxWait
<1> QED
  BY <1>1, <1>2, <1>3, <1>4, <1>5, <1>6, <1>7

(* What the end of a poll does to the loop.                                *)
LEMMA PollEffect ==
    ASSUME ApprovalsEnd \/ ApprovalsFail
    PROVE  /\ phase \in {"poll", "boot poll"} /\ phase' = "idle"
           /\ phase = "boot poll" => debounceT' = Debounce
           /\ phase = "poll" => debounceT' = debounceT
           /\ UNCHANGED <<sinceDirty, notBefore, waited, files>>
  BY DEF ApprovalsEnd, ApprovalsFail, Polled

(* The first pass leaves a dirty loop with its timer armed.                *)
LEMMA BootEffect ==
    ASSUME LoopTypeOK, OutsideWaiting, ApprovalsEnd \/ ApprovalsFail, phase = "boot poll"
    PROVE  phase' = "idle" /\ dirty' /\ debounceT' = Debounce /\ notBefore' = 0 /\ waited' = 0
<1>1. dirty /\ notBefore = 0 /\ waited = 0
  BY DEF OutsideWaiting, Waiting, Away
<1>2. phase' = "idle" /\ debounceT' = Debounce /\ UNCHANGED <<sinceDirty, notBefore, waited>>
  BY PollEffect
<1> QED
  BY <1>1, <1>2 DEF dirty

(* Every step keeps what the loop remembers outside its waits.             *)
LEMMA MemoryStep ==
    LoopTypeOK /\ OutsideWaiting /\ [LoopNext]_daemonVars => OutsideWaiting'
<1> SUFFICES ASSUME LoopTypeOK /\ OutsideWaiting
             PROVE  [LoopNext]_daemonVars => OutsideWaiting'
  OBVIOUS
<1> USE Constants, Longest DEF LoopTypeOK, NumbersOK, Timer, Off, dirty,
           loopVars, timers, files, control, reports, bounds
<1>1. ASSUME Write PROVE OutsideWaiting'
  BY <1>1 DEF Write, OutsideWaiting, Waiting, Away
<1>2. ASSUME Forward PROVE OutsideWaiting'
  BY <1>2 DEF Forward, OutsideWaiting, Waiting, Away
<1>3. ASSUME TakeChange PROVE OutsideWaiting'
  BY <1>3 DEF TakeChange, markDirty, OutsideWaiting, Waiting, Away
<1>4. ASSUME DebounceFires PROVE OutsideWaiting'
  <2>1. CASE dirty
    BY <1>4, <2>1 DEF DebounceFires, OutsideWaiting, Waiting, Away
  <2>2. CASE ~dirty
    BY <1>4, <2>2 DEF DebounceFires, OutsideWaiting, Waiting, Away
  <2> QED
    BY <2>1, <2>2
<1>5. ASSUME PullFires PROVE OutsideWaiting'
  BY <1>5 DEF PullFires, OutsideWaiting, Waiting, Away
<1>6. ASSUME ApprovalsFire PROVE OutsideWaiting'
  BY <1>6 DEF ApprovalsFire, OutsideWaiting, Waiting, Away
<1>7. ASSUME PushReads PROVE OutsideWaiting'
  BY <1>7 DEF PushReads, OutsideWaiting, Waiting, Away
<1>8. ASSUME NEW result \in Results, PushEnds(result) PROVE OutsideWaiting'
  BY <1>8 DEF PushEnds, OutsideWaiting, Waiting, Away
<1>9. ASSUME NEW result \in Results, NEW restored \in 0..1, PullEnds(result, restored)
      PROVE  OutsideWaiting'
  BY <1>9 DEF PullEnds, OutsideWaiting, Waiting, Away
<1>10. ASSUME ApprovalsEnd PROVE OutsideWaiting'
  BY <1>10 DEF ApprovalsEnd, Polled, OutsideWaiting, Waiting, Away
<1>11. ASSUME ApprovalsFail PROVE OutsideWaiting'
  BY <1>11 DEF ApprovalsFail, Polled, OutsideWaiting, Waiting, Away
<1>12. ASSUME StopLoop PROVE OutsideWaiting'
  <2>1. phase' = "stopped" /\ sinceDirty' = 0 /\ notBefore' = 0 /\ waited' = 0
    BY <1>12 DEF StopLoop
  <2>2. dirty'
    BY <2>1
  <2> QED
    BY <2>1, <2>2 DEF OutsideWaiting
<1>13. ASSUME Start PROVE OutsideWaiting'
  BY <1>13 DEF Start, OutsideWaiting, Waiting, Away
<1>14. ASSUME Tick PROVE OutsideWaiting'
  <2>1. phase' = phase /\ (dirty' <=> dirty) /\ UNCHANGED files
    BY <1>14, TickEffect
  <2>2. phase \notin Waiting \/ ~dirty => waited' = waited
    BY <1>14, TickEffect DEF Waiting
  <2>3. notBefore = 0 => notBefore' = 0
    BY <1>14, TickEffect
  <2> QED
    BY <2>1, <2>2, <2>3 DEF OutsideWaiting
<1>15. ASSUME NEW r \in Requests, Ask(r) PROVE OutsideWaiting'
  BY <1>15 DEF Ask, OutsideWaiting, Waiting, Away
<1>16. ASSUME NEW r \in Requests, Answer(r) PROVE OutsideWaiting'
  BY <1>16 DEF Answer, OutsideWaiting, Waiting, Away
<1>17. CASE UNCHANGED daemonVars
  BY <1>17 DEF daemonVars, OutsideWaiting, Waiting, Away
<1> QED
  BY <1>1, <1>2, <1>3, <1>4, <1>5, <1>6, <1>7, <1>8, <1>9,
     <1>10, <1>11, <1>12, <1>13, <1>14, <1>15, <1>16, <1>17 DEF LoopNext, Select, FinishStep

(* Every step keeps a dirty loop scheduled.                                *)
LEMMA ScheduledStep ==
    LoopTypeOK /\ LoopTypeOK' /\ OutsideWaiting /\ Scheduled /\ [LoopNext]_daemonVars => Scheduled'
<1> SUFFICES ASSUME LoopTypeOK /\ LoopTypeOK' /\ OutsideWaiting /\ Scheduled
             PROVE  [LoopNext]_daemonVars => Scheduled'
  OBVIOUS
<1> USE Constants, Longest DEF LoopTypeOK, NumbersOK, Timer, Off, dirty,
           loopVars, timers, files, control, reports, bounds
<1>1. ASSUME Write PROVE Scheduled'
  BY <1>1 DEF Write, OutsideWaiting, Scheduled, Waiting, Away
<1>2. ASSUME Forward PROVE Scheduled'
  BY <1>2 DEF Forward, OutsideWaiting, Scheduled, Waiting, Away
<1>3. ASSUME TakeChange PROVE Scheduled'
  BY <1>3 DEF TakeChange, markDirty, pushDelay, Larger,
         OutsideWaiting, Scheduled, Waiting, Away
<1>4. ASSUME DebounceFires PROVE Scheduled'
  BY <1>4 DEF DebounceFires, OutsideWaiting, Scheduled, Waiting, Away
<1>5. ASSUME PullFires PROVE Scheduled'
  BY <1>5 DEF PullFires, OutsideWaiting, Scheduled, Waiting, Away
<1>6. ASSUME ApprovalsFire PROVE Scheduled'
  BY <1>6 DEF ApprovalsFire, OutsideWaiting, Scheduled, Waiting, Away
<1>7. ASSUME PushReads PROVE Scheduled'
  BY <1>7 DEF PushReads, OutsideWaiting, Scheduled, Waiting, Away
<1>8. ASSUME NEW result \in Results, PushEnds(result) PROVE Scheduled'
  <2>1. CASE result \in Settled
    BY <1>8, <2>1 DEF PushEnds, OutsideWaiting, Scheduled, Waiting, Away
  <2>2. CASE result \notin Settled
    BY <1>8, <2>2 DEF PushEnds, OutsideWaiting, Scheduled, Waiting, Away
  <2> QED
    BY <2>1, <2>2
<1>9. ASSUME NEW result \in Results, NEW restored \in 0..1, PullEnds(result, restored)
      PROVE  Scheduled'
  BY <1>9 DEF PullEnds, OutsideWaiting, Scheduled, Waiting, Away
<1>10. ASSUME ApprovalsEnd PROVE Scheduled'
  <2>1. CASE phase = "poll"
    <3>1. phase' = "idle" /\ UNCHANGED <<debounceT, sinceDirty, notBefore, waited, files>>
      BY <1>10, <2>1, PollEffect
    <3> QED
      BY <2>1, <3>1 DEF OutsideWaiting, Scheduled, Waiting, Away
  <2>2. CASE phase = "boot poll"
    <3>1. dirty' /\ debounceT' = Debounce /\ notBefore' = 0 /\ waited' = 0 /\ phase' = "idle"
      BY <1>10, <2>2, BootEffect
    <3> QED
      BY <3>1 DEF Scheduled
  <2> QED
    BY <1>10, <2>1, <2>2, PollEffect
<1>11. ASSUME ApprovalsFail PROVE Scheduled'
  <2>1. CASE phase = "poll"
    <3>1. phase' = "idle" /\ UNCHANGED <<debounceT, sinceDirty, notBefore, waited, files>>
      BY <1>11, <2>1, PollEffect
    <3> QED
      BY <2>1, <3>1 DEF OutsideWaiting, Scheduled, Waiting, Away
  <2>2. CASE phase = "boot poll"
    <3>1. dirty' /\ debounceT' = Debounce /\ notBefore' = 0 /\ waited' = 0 /\ phase' = "idle"
      BY <1>11, <2>2, BootEffect
    <3> QED
      BY <3>1 DEF Scheduled
  <2> QED
    BY <1>11, <2>1, <2>2, PollEffect
<1>12. ASSUME StopLoop PROVE Scheduled'
  BY <1>12 DEF StopLoop, OutsideWaiting, Scheduled, Waiting, Away
<1>13. ASSUME Start PROVE Scheduled'
  BY <1>13 DEF Start, OutsideWaiting, Scheduled, Waiting, Away
<1>14. ASSUME Tick PROVE Scheduled'
  <2>1. phase' = phase /\ (dirty' <=> dirty)
    BY <1>14, TickEffect
  <2>2. /\ debounceT' = IF debounceT > 0 THEN debounceT - 1 ELSE debounceT
        /\ notBefore' = IF notBefore > 0 THEN notBefore - 1 ELSE notBefore
    BY <1>14, TickEffect
  <2>3. debounceT # Off /\ debounceT >= notBefore => debounceT' # Off /\ debounceT' >= notBefore'
    BY <2>2
  <2> QED
    BY <2>1, <2>3 DEF Scheduled
<1>15. ASSUME NEW r \in Requests, Ask(r) PROVE Scheduled'
  BY <1>15 DEF Ask, OutsideWaiting, Scheduled, Waiting, Away
<1>16. ASSUME NEW r \in Requests, Answer(r) PROVE Scheduled'
  BY <1>16 DEF Answer, OutsideWaiting, Scheduled, Waiting, Away
<1>17. CASE UNCHANGED daemonVars
  BY <1>17 DEF daemonVars, OutsideWaiting, Scheduled, Waiting, Away
<1> QED
  BY <1>1, <1>2, <1>3, <1>4, <1>5, <1>6, <1>7, <1>8, <1>9,
     <1>10, <1>11, <1>12, <1>13, <1>14, <1>15, <1>16, <1>17 DEF LoopNext, Select, FinishStep

(* Every waited tick is a tick of the max-debounce window.                 *)
LEMMA WindowStep ==
    LoopTypeOK /\ OutsideWaiting /\ WindowCounts /\ [LoopNext]_daemonVars => WindowCounts'
<1> SUFFICES ASSUME LoopTypeOK /\ OutsideWaiting /\ WindowCounts
             PROVE  [LoopNext]_daemonVars => WindowCounts'
  OBVIOUS
<1> USE Constants, Longest
    DEF LoopTypeOK, NumbersOK, OutsideWaiting, WindowCounts, Waiting, Timer, Off, dirty,
           loopVars, timers, files, control, reports, bounds
<1>1. ASSUME Write PROVE WindowCounts'
  BY <1>1 DEF Write
<1>2. ASSUME Forward PROVE WindowCounts'
  BY <1>2 DEF Forward
<1>3. ASSUME TakeChange PROVE WindowCounts'
  BY <1>3 DEF TakeChange, markDirty, pushDelay, Larger
<1>4. ASSUME DebounceFires PROVE WindowCounts'
  BY <1>4 DEF DebounceFires
<1>5. ASSUME PullFires PROVE WindowCounts'
  BY <1>5 DEF PullFires
<1>6. ASSUME ApprovalsFire PROVE WindowCounts'
  BY <1>6 DEF ApprovalsFire
<1>7. ASSUME PushReads PROVE WindowCounts'
  BY <1>7 DEF PushReads
<1>8. ASSUME NEW result \in Results, PushEnds(result) PROVE WindowCounts'
  BY <1>8 DEF PushEnds
<1>9. ASSUME NEW result \in Results, NEW restored \in 0..1, PullEnds(result, restored)
      PROVE  WindowCounts'
  BY <1>9 DEF PullEnds
<1>10. ASSUME ApprovalsEnd PROVE WindowCounts'
  BY <1>10 DEF ApprovalsEnd, Polled
<1>11. ASSUME ApprovalsFail PROVE WindowCounts'
  BY <1>11 DEF ApprovalsFail, Polled
<1>12. ASSUME StopLoop PROVE WindowCounts'
  BY <1>12 DEF StopLoop
<1>13. ASSUME Start PROVE WindowCounts'
  BY <1>13 DEF Start
<1>14. ASSUME Tick PROVE WindowCounts'
  BY <1>14 DEF Tick, Sooner, Smaller, Ready
<1>15. ASSUME NEW r \in Requests, Ask(r) PROVE WindowCounts'
  BY <1>15 DEF Ask
<1>16. ASSUME NEW r \in Requests, Answer(r) PROVE WindowCounts'
  BY <1>16 DEF Answer
<1>17. CASE UNCHANGED daemonVars
  BY <1>17 DEF daemonVars
<1> QED
  BY <1>1, <1>2, <1>3, <1>4, <1>5, <1>6, <1>7, <1>8, <1>9,
     <1>10, <1>11, <1>12, <1>13, <1>14, <1>15, <1>16, <1>17 DEF LoopNext, Select, FinishStep

(* What is left on the timer fits into the longest wait.                   *)
LEMMA FitsStep ==
    LoopTypeOK /\ LoopTypeOK' /\ OutsideWaiting /\ Scheduled /\ WindowCounts /\ WaitFits /\ [LoopNext]_daemonVars
      => WaitFits'
<1> SUFFICES ASSUME LoopTypeOK /\ LoopTypeOK' /\ OutsideWaiting /\ Scheduled /\ WindowCounts /\ WaitFits
             PROVE  [LoopNext]_daemonVars => WaitFits'
  OBVIOUS
<1> USE Constants, Longest DEF LoopTypeOK, NumbersOK, MaxWait, Timer, Off, dirty,
           loopVars, timers, files, control, reports, bounds
<1>1. ASSUME Write PROVE WaitFits'
  BY <1>1 DEF Write, OutsideWaiting, Scheduled, WindowCounts, WaitFits, Waiting
<1>2. ASSUME Forward PROVE WaitFits'
  BY <1>2 DEF Forward, OutsideWaiting, Scheduled, WindowCounts, WaitFits, Waiting
<1>3. ASSUME TakeChange PROVE WaitFits'
  BY <1>3 DEF TakeChange, markDirty, pushDelay, Larger,
         OutsideWaiting, Scheduled, WindowCounts, WaitFits, Waiting
<1>4. ASSUME DebounceFires PROVE WaitFits'
  BY <1>4 DEF DebounceFires, OutsideWaiting, Scheduled, WindowCounts, WaitFits, Waiting
<1>5. ASSUME PullFires PROVE WaitFits'
  BY <1>5 DEF PullFires, OutsideWaiting, Scheduled, WindowCounts, WaitFits, Waiting
<1>6. ASSUME ApprovalsFire PROVE WaitFits'
  BY <1>6 DEF ApprovalsFire, OutsideWaiting, Scheduled, WindowCounts, WaitFits, Waiting
<1>7. ASSUME PushReads PROVE WaitFits'
  BY <1>7 DEF PushReads, OutsideWaiting, Scheduled, WindowCounts, WaitFits, Waiting
<1>8. ASSUME NEW result \in Results, PushEnds(result) PROVE WaitFits'
  <2>1. CASE result \in Settled
    BY <1>8, <2>1 DEF PushEnds, OutsideWaiting, Scheduled, WindowCounts, WaitFits, Waiting
  <2>2. CASE result \notin Settled
    BY <1>8, <2>2 DEF PushEnds, OutsideWaiting, Scheduled, WindowCounts, WaitFits, Waiting
  <2> QED
    BY <2>1, <2>2
<1>9. ASSUME NEW result \in Results, NEW restored \in 0..1, PullEnds(result, restored)
      PROVE  WaitFits'
  BY <1>9 DEF PullEnds, OutsideWaiting, Scheduled, WindowCounts, WaitFits, Waiting
<1>10. ASSUME ApprovalsEnd PROVE WaitFits'
  <2>1. CASE phase = "poll"
    <3>1. phase' = "idle" /\ UNCHANGED <<debounceT, sinceDirty, notBefore, waited, files>>
      BY <1>10, <2>1, PollEffect
    <3> QED
      BY <2>1, <3>1 DEF OutsideWaiting, Scheduled, WindowCounts, WaitFits, Waiting
  <2>2. CASE phase = "boot poll"
    <3>1. dirty' /\ debounceT' = Debounce /\ notBefore' = 0 /\ waited' = 0 /\ phase' = "idle"
      BY <1>10, <2>2, BootEffect
    <3> QED
      BY <3>1 DEF WaitFits
  <2> QED
    BY <1>10, <2>1, <2>2, PollEffect
<1>11. ASSUME ApprovalsFail PROVE WaitFits'
  <2>1. CASE phase = "poll"
    <3>1. phase' = "idle" /\ UNCHANGED <<debounceT, sinceDirty, notBefore, waited, files>>
      BY <1>11, <2>1, PollEffect
    <3> QED
      BY <2>1, <3>1 DEF OutsideWaiting, Scheduled, WindowCounts, WaitFits, Waiting
  <2>2. CASE phase = "boot poll"
    <3>1. dirty' /\ debounceT' = Debounce /\ notBefore' = 0 /\ waited' = 0 /\ phase' = "idle"
      BY <1>11, <2>2, BootEffect
    <3> QED
      BY <3>1 DEF WaitFits
  <2> QED
    BY <1>11, <2>1, <2>2, PollEffect
<1>12. ASSUME StopLoop PROVE WaitFits'
  BY <1>12 DEF StopLoop, OutsideWaiting, Scheduled, WindowCounts, WaitFits, Waiting
<1>13. ASSUME Start PROVE WaitFits'
  BY <1>13 DEF Start, OutsideWaiting, Scheduled, WindowCounts, WaitFits, Waiting
<1>14. ASSUME Tick PROVE WaitFits'
  <2>1. phase' = phase /\ (dirty' <=> dirty)
    BY <1>14, TickEffect
  <2>2. /\ debounceT' = IF debounceT > 0 THEN debounceT - 1 ELSE debounceT
        /\ notBefore' = IF notBefore > 0 THEN notBefore - 1 ELSE notBefore
    BY <1>14, TickEffect
  <2>3. waited' # waited => notBefore = 0 /\ debounceT # 0
    BY <1>14, TickEffect
  <2>4. waited' <= waited + 1
    BY <1>14, TickEffect
  <2>5. ASSUME phase \in Waiting, dirty
        PROVE  waited' + (debounceT' - notBefore') <= MaxWait
    <3>1. debounceT # Off /\ debounceT >= notBefore /\ waited + (debounceT - notBefore) <= MaxWait
      BY <2>5 DEF Scheduled, WaitFits
    <3>2. CASE waited' = waited
      BY <2>2, <3>1, <3>2
    <3>3. CASE waited' # waited
      <4>1. debounceT' = debounceT - 1 /\ notBefore' = 0 /\ notBefore = 0
        BY <2>2, <2>3, <3>1, <3>3
      <4>2. waited' \in Int /\ waited \in Int /\ debounceT \in Int /\ MaxWait \in Int
        OBVIOUS
      <4>3. waited + (debounceT - 0) <= MaxWait
        BY <3>1, <4>1
      <4>4. waited' + ((debounceT - 1) - 0) <= MaxWait
        BY <2>4, <4>2, <4>3, OneTick
      <4> QED
        BY <4>1, <4>4
    <3> QED
      BY <3>2, <3>3
  <2> QED
    BY <2>1, <2>5 DEF WaitFits
<1>15. ASSUME NEW r \in Requests, Ask(r) PROVE WaitFits'
  BY <1>15 DEF Ask, OutsideWaiting, Scheduled, WindowCounts, WaitFits, Waiting
<1>16. ASSUME NEW r \in Requests, Answer(r) PROVE WaitFits'
  BY <1>16 DEF Answer, OutsideWaiting, Scheduled, WindowCounts, WaitFits, Waiting
<1>17. CASE UNCHANGED daemonVars
  BY <1>17 DEF daemonVars, OutsideWaiting, Scheduled, WindowCounts, WaitFits, Waiting
<1> QED
  BY <1>1, <1>2, <1>3, <1>4, <1>5, <1>6, <1>7, <1>8, <1>9,
     <1>10, <1>11, <1>12, <1>13, <1>14, <1>15, <1>16, <1>17 DEF LoopNext, Select, FinishStep

(* Every step keeps a write that no push has carried on its way.           *)
LEMMA RememberedStep ==
    LoopTypeOK /\ LoopTypeOK' /\ OutsideWaiting /\ WritesAreRemembered /\ [LoopNext]_daemonVars
      => WritesAreRemembered'
<1> SUFFICES ASSUME LoopTypeOK /\ LoopTypeOK' /\ OutsideWaiting /\ WritesAreRemembered
             PROVE  [LoopNext]_daemonVars => WritesAreRemembered'
  OBVIOUS
<1> USE Constants, Longest DEF LoopTypeOK, NumbersOK, Timer, Off, dirty,
           loopVars, timers, files, control, reports, bounds
<1>1. ASSUME Write PROVE WritesAreRemembered'
  BY <1>1 DEF Write, OutsideWaiting, WritesAreRemembered, Waiting, Away
<1>2. ASSUME Forward PROVE WritesAreRemembered'
  <2>1. queue' > 0
    BY <1>2 DEF Forward, Smaller
  <2> QED
    BY <2>1 DEF WritesAreRemembered
<1>3. ASSUME TakeChange PROVE WritesAreRemembered'
  BY <1>3 DEF TakeChange, markDirty, pushDelay, Larger,
         OutsideWaiting, WritesAreRemembered, Waiting, Away
<1>4. ASSUME DebounceFires PROVE WritesAreRemembered'
  <2>1. CASE dirty
    BY <1>4, <2>1 DEF DebounceFires, OutsideWaiting, WritesAreRemembered, Waiting, Away
  <2>2. CASE ~dirty
    BY <1>4, <2>2 DEF DebounceFires, OutsideWaiting, WritesAreRemembered, Waiting, Away
  <2> QED
    BY <2>1, <2>2
<1>5. ASSUME PullFires PROVE WritesAreRemembered'
  BY <1>5 DEF PullFires, OutsideWaiting, WritesAreRemembered, Waiting, Away
<1>6. ASSUME ApprovalsFire PROVE WritesAreRemembered'
  BY <1>6 DEF ApprovalsFire, OutsideWaiting, WritesAreRemembered, Waiting, Away
<1>7. ASSUME PushReads PROVE WritesAreRemembered'
  BY <1>7 DEF PushReads, OutsideWaiting, WritesAreRemembered, Waiting, Away
<1>8. ASSUME NEW result \in Results, PushEnds(result) PROVE WritesAreRemembered'
  <2>1. CASE result \in Settled
    <3>1. handled' = read /\ phase = "pushing" /\ UNCHANGED <<unseen, queue, written>>
      BY <1>8, <2>1 DEF PushEnds
    <3>2. written > handled => unseen = 1 \/ queue > 0 \/ read = written
      BY <3>1 DEF WritesAreRemembered, Away
    <3>4. handled <= read
      BY <3>1 DEF OutsideWaiting
    <3>3. written' > handled' => unseen' = 1 \/ queue' > 0
      BY <3>1, <3>2, <3>4
    <3> QED
      BY <3>3 DEF WritesAreRemembered
  <2>2. CASE result \notin Settled
    BY <1>8, <2>2 DEF PushEnds, OutsideWaiting, WritesAreRemembered, Waiting, Away
  <2> QED
    BY <2>1, <2>2
<1>9. ASSUME NEW result \in Results, NEW restored \in 0..1, PullEnds(result, restored)
      PROVE  WritesAreRemembered'
  <2>1. CASE phase = "pull"
    <3>1. UNCHANGED <<sinceDirty, queue, written, handled>> /\ phase' = "idle"
      BY <1>9, <2>1 DEF PullEnds
    <3>2. unseen' = Larger(unseen, restored)
      BY <1>9 DEF PullEnds
    <3>3. unseen = 1 => unseen' = 1
      BY <3>2 DEF Larger
    <3> QED
      BY <2>1, <3>1, <3>3 DEF WritesAreRemembered, Away
  <2>2. CASE phase = "boot pull"
    BY <1>9, <2>2 DEF PullEnds, WritesAreRemembered, Away
  <2> QED
    BY <1>9, <2>1, <2>2 DEF PullEnds
<1>10. ASSUME ApprovalsEnd PROVE WritesAreRemembered'
  <2>1. CASE phase = "poll"
    <3>1. phase' = "idle" /\ UNCHANGED <<debounceT, sinceDirty, notBefore, waited, files>>
      BY <1>10, <2>1, PollEffect
    <3> QED
      BY <2>1, <3>1 DEF OutsideWaiting, WritesAreRemembered, Waiting, Away
  <2>2. CASE phase = "boot poll"
    <3>1. dirty' /\ debounceT' = Debounce /\ notBefore' = 0 /\ waited' = 0 /\ phase' = "idle"
      BY <1>10, <2>2, BootEffect
    <3> QED
      BY <3>1 DEF WritesAreRemembered
  <2> QED
    BY <1>10, <2>1, <2>2, PollEffect
<1>11. ASSUME ApprovalsFail PROVE WritesAreRemembered'
  <2>1. CASE phase = "poll"
    <3>1. phase' = "idle" /\ UNCHANGED <<debounceT, sinceDirty, notBefore, waited, files>>
      BY <1>11, <2>1, PollEffect
    <3> QED
      BY <2>1, <3>1 DEF OutsideWaiting, WritesAreRemembered, Waiting, Away
  <2>2. CASE phase = "boot poll"
    <3>1. dirty' /\ debounceT' = Debounce /\ notBefore' = 0 /\ waited' = 0 /\ phase' = "idle"
      BY <1>11, <2>2, BootEffect
    <3> QED
      BY <3>1 DEF WritesAreRemembered
  <2> QED
    BY <1>11, <2>1, <2>2, PollEffect
<1>12. ASSUME StopLoop PROVE WritesAreRemembered'
  BY <1>12 DEF StopLoop, OutsideWaiting, WritesAreRemembered, Waiting, Away
<1>13. ASSUME Start PROVE WritesAreRemembered'
  BY <1>13 DEF Start, OutsideWaiting, WritesAreRemembered, Waiting, Away
<1>14. ASSUME Tick PROVE WritesAreRemembered'
  <2>1. phase' = phase /\ (dirty' <=> dirty) /\ UNCHANGED files
    BY <1>14, TickEffect
  <2> QED
    BY <2>1 DEF WritesAreRemembered
<1>15. ASSUME NEW r \in Requests, Ask(r) PROVE WritesAreRemembered'
  BY <1>15 DEF Ask, OutsideWaiting, WritesAreRemembered, Waiting, Away
<1>16. ASSUME NEW r \in Requests, Answer(r) PROVE WritesAreRemembered'
  BY <1>16 DEF Answer, OutsideWaiting, WritesAreRemembered, Waiting, Away
<1>17. CASE UNCHANGED daemonVars
  BY <1>17 DEF daemonVars, OutsideWaiting, WritesAreRemembered, Waiting, Away
<1> QED
  BY <1>1, <1>2, <1>3, <1>4, <1>5, <1>6, <1>7, <1>8, <1>9,
     <1>10, <1>11, <1>12, <1>13, <1>14, <1>15, <1>16, <1>17 DEF LoopNext, Select, FinishStep

(* Every step keeps a notified request remembered or gone.                 *)
LEMMA ShownStep ==
    LoopTypeOK /\ ShownIsSeen /\ [LoopNext]_daemonVars => ShownIsSeen'
<1> SUFFICES ASSUME LoopTypeOK /\ ShownIsSeen
             PROVE  [LoopNext]_daemonVars => ShownIsSeen'
  OBVIOUS
<1> USE Constants, Longest DEF LoopTypeOK, RequestsOK, ShownIsSeen,
           loopVars, timers, files, control, reports, bounds
<1>1. ASSUME Write PROVE ShownIsSeen'
  BY <1>1 DEF Write
<1>2. ASSUME Forward PROVE ShownIsSeen'
  BY <1>2 DEF Forward
<1>3. ASSUME TakeChange PROVE ShownIsSeen'
  BY <1>3 DEF TakeChange
<1>4. ASSUME DebounceFires PROVE ShownIsSeen'
  BY <1>4 DEF DebounceFires
<1>5. ASSUME PullFires PROVE ShownIsSeen'
  BY <1>5 DEF PullFires
<1>6. ASSUME ApprovalsFire PROVE ShownIsSeen'
  BY <1>6 DEF ApprovalsFire
<1>7. ASSUME PushReads PROVE ShownIsSeen'
  BY <1>7 DEF PushReads
<1>8. ASSUME NEW result \in Results, PushEnds(result) PROVE ShownIsSeen'
  BY <1>8 DEF PushEnds
<1>9. ASSUME NEW result \in Results, NEW restored \in 0..1, PullEnds(result, restored)
      PROVE  ShownIsSeen'
  BY <1>9 DEF PullEnds
<1>10. ASSUME ApprovalsEnd PROVE ShownIsSeen'
  <2>1. \A r \in Requests : r \in pending \ seen => shown[r] = 0
    OBVIOUS
  <2>2. Smaller(0 + 1, 2) = 1
    BY DEF Smaller
  <2>4. \A r \in Requests : shown'[r] = IF r \in pending \ seen THEN 1 ELSE shown[r]
    BY <1>10, <2>1, <2>2, Zenon DEF ApprovalsEnd
  <2>3. seen' = pending /\ pending' = pending /\ gone' = gone
    BY <1>10 DEF ApprovalsEnd
  <2> QED
    BY <2>1, <2>3, <2>4
<1>11. ASSUME ApprovalsFail PROVE ShownIsSeen'
  BY <1>11 DEF ApprovalsFail
<1>12. ASSUME StopLoop PROVE ShownIsSeen'
  BY <1>12 DEF StopLoop
<1>13. ASSUME Start PROVE ShownIsSeen'
  BY <1>13 DEF Start
<1>14. ASSUME Tick PROVE ShownIsSeen'
  BY <1>14 DEF Tick
<1>15. ASSUME NEW r \in Requests, Ask(r) PROVE ShownIsSeen'
  BY <1>15 DEF Ask
<1>16. ASSUME NEW r \in Requests, Answer(r) PROVE ShownIsSeen'
  BY <1>16 DEF Answer
<1>17. CASE UNCHANGED daemonVars
  BY <1>17 DEF daemonVars
<1> QED
  BY <1>1, <1>2, <1>3, <1>4, <1>5, <1>6, <1>7, <1>8, <1>9,
     <1>10, <1>11, <1>12, <1>13, <1>14, <1>15, <1>16, <1>17 DEF LoopNext, Select, FinishStep

-----------------------------------------------------------------------------
(* The first start satisfies the invariant.                                *)
LEMMA Initially == LoopInit => LoopInv
<1> SUFFICES ASSUME LoopInit PROVE LoopInv
  OBVIOUS
<1>1. phase = "boot pull" /\ seen = {} /\ pending = {} /\ gone = {}
  BY Zenon DEF LoopInit
<1>2. shown = [r \in Requests |-> 0]
  BY Zenon DEF LoopInit
<1>3. /\ sinceDirty = 0 /\ notBefore = 0 /\ pushFails = 0 /\ pullFails = 0
      /\ debounceT = Off /\ pullT = Off /\ approvalsT = Off
      /\ unseen = 0 /\ queue = 0 /\ read = 0 /\ waited = 0
      /\ written \in 0..MaxWrites /\ handled = 0
      /\ failures = 0 /\ restarts = 0
  BY Zenon DEF LoopInit
<1>4. phase \in LoopPhases
  BY <1>1 DEF LoopPhases
<1>5. RequestsOK
  <2>1. shown \in [Requests -> 0..2]
    BY <1>2
  <2> QED
    BY <1>1, <2>1, Zenon DEF RequestsOK
<1>6. NumbersOK
  BY <1>3, Constants, Longest DEF NumbersOK, Timer, Off, MaxWait
<1>7. dirty
  BY <1>3 DEF dirty, Off
<1>8. OutsideWaiting
  BY <1>1, <1>3, <1>7 DEF OutsideWaiting
<1>9. phase \notin Waiting /\ phase \in Away
  BY <1>1 DEF Waiting, Away
<1>10. Scheduled /\ WaitFits /\ WritesAreRemembered
  BY <1>7, <1>9 DEF Scheduled, WaitFits, WritesAreRemembered
<1>11. WindowCounts
  BY <1>3 DEF WindowCounts
<1>12. ShownIsSeen
  <2>1. \A r \in Requests : shown[r] \in 0..1 /\ shown[r] # 1
    BY <1>2
  <2>2. pending \cap gone = {} /\ seen \subseteq pending \cup gone
    BY <1>1
  <2> QED
    BY <2>1, <2>2, Zenon DEF ShownIsSeen
<1> QED
  BY <1>4, <1>5, <1>6, <1>8, <1>10, <1>11, <1>12 DEF LoopInv, LoopTypeOK

(* Every step keeps it.                                                    *)
LEMMA Inductive == LoopInv /\ [LoopNext]_daemonVars => LoopInv'
<1> SUFFICES ASSUME LoopInv, [LoopNext]_daemonVars PROVE LoopInv'
  OBVIOUS
<1>1. LoopTypeOK'
  BY PhaseStep, NumbersStep, RequestsStep DEF LoopInv, LoopTypeOK
<1>2. OutsideWaiting' /\ Scheduled'
  BY <1>1, MemoryStep, ScheduledStep DEF LoopInv
<1>3. WindowCounts' /\ WaitFits'
  BY <1>1, WindowStep, FitsStep DEF LoopInv
<1>4. WritesAreRemembered' /\ ShownIsSeen'
  BY <1>1, RememberedStep, ShownStep DEF LoopInv
<1> QED
  BY <1>1, <1>2, <1>3, <1>4 DEF LoopInv

(* The invariant holds in every state the daemon reaches.                  *)
THEOREM Invariance == LoopSpec => []LoopInv
<1>1. LoopInit => LoopInv
  BY Initially
<1>2. LoopInv /\ [LoopNext]_daemonVars => LoopInv'
  BY Inductive
<1> QED
  BY <1>1, <1>2, PTL DEF LoopSpec

(* The daemon's variables keep their types; in particular the backoff      *)
(* never exceeds its bound, whatever fails how often.                      *)
THEOREM DaemonTypeCorrect == LoopSpec => []LoopTypeOK
<1>1. LoopInv => LoopTypeOK
  BY DEF LoopInv
<1> QED
  BY <1>1, Invariance, PTL

(* A write no push has carried is never forgotten, for every capacity of   *)
(* the watcher's channel and every number of failures and restarts.        *)
THEOREM NoWriteForgotten == LoopSpec => []WritesAreRemembered
<1>1. LoopInv => WritesAreRemembered
  BY DEF LoopInv
<1> QED
  BY <1>1, Invariance, PTL

(* A dirty loop has its timer armed and not before the backoff, for all    *)
(* intervals.                                                              *)
THEOREM RetriesKeepBackoff == LoopSpec => []DirtyIsScheduled
<1>1. LoopInv => DirtyIsScheduled
  BY DEF LoopInv, Scheduled, DirtyIsScheduled, Waiting
<1> QED
  BY <1>1, Invariance, PTL

(* No stream of changes delays a push beyond MaxDebounce and one debounce, *)
(* for all intervals.                                                      *)
THEOREM NoStarvation == LoopSpec => []NeverStarved
<1>1. LoopInv => NeverStarved
  <2> SUFFICES ASSUME LoopInv PROVE waited <= MaxWait
    BY DEF NeverStarved
  <2>1. /\ waited \in Int /\ debounceT \in Int /\ notBefore \in Int /\ MaxWait \in Int
        /\ MaxWait >= 0
    BY Constants, Longest DEF LoopInv, LoopTypeOK, NumbersOK, Timer, Off, MaxWait
  <2>2. CASE phase \in Waiting /\ dirty
    <3>1. debounceT >= notBefore /\ waited + (debounceT - notBefore) <= MaxWait
      BY <2>2 DEF LoopInv, Scheduled, WaitFits
    <3> QED
      BY <2>1, <3>1
  <2>3. CASE phase \notin Waiting \/ ~dirty
    <3>1. waited = 0
      BY <2>3 DEF LoopInv, OutsideWaiting
    <3> QED
      BY <2>1, <3>1
  <2> QED
    BY <2>2, <2>3
<1> QED
  BY <1>1, Invariance, PTL

(* A request is notified at most once in a process, for every set of       *)
(* requests and every pattern of failing polls.                            *)
THEOREM NotifyOnce == LoopSpec => []NotifiedOnce
<1>1. LoopInv => NotifiedOnce
  BY DEF LoopInv, ShownIsSeen, NotifiedOnce
<1> QED
  BY <1>1, Invariance, PTL


(***************************************************************************)
(* The lock                                                                *)
(***************************************************************************)

(* Why exclusion holds until a race.  The holder's own fresh file is the   *)
(* one on disk, and a process about to remove has a file that is stale,    *)
(* so nobody's, and is alone in being about to remove it.                  *)
HolderOwnsFile == \A p \in Procs : Held(p) => file.owner = p /\ file.age = "young"

RemoverAlone ==
    \A p \in Procs : pc[p] = "remove" =>
        /\ file.age = "old"
        /\ \A q \in Procs : pc[q] = "remove" => q = p

IInv == /\ TypeOK
        /\ raced = FALSE => HolderOwnsFile /\ RemoverAlone

(* The invariant holds before anyone asks for the lock.                    *)
LEMMA InitIInv == Init => IInv
<1> SUFFICES ASSUME Init PROVE IInv
  OBVIOUS
<1>1. raced \in BOOLEAN
  BY Zenon DEF Init
<1>2. overruns \in 0..MaxOverruns /\ crashes \in 0..MaxCrashes
  BY MutationLockAssumption DEF Init
<1>3. /\ pc \in [Procs -> Phases]
      /\ file \in [owner : Procs \cup {NoProc}, age : {"young", "old"}]
      /\ file.age # "old"
  BY DEF Init, Absent, Phases
<1>4. HolderOwnsFile /\ RemoverAlone
  BY DEF Init, HolderOwnsFile, RemoverAlone, Held
<1> QED BY <1>1, <1>2, <1>3, <1>4 DEF IInv, TypeOK

(* Every step keeps the types.                                             *)
LEMMA NextTypeOK == TypeOK /\ [Next]_vars => TypeOK'
<1> SUFFICES ASSUME TypeOK, [Next]_vars
             PROVE  TypeOK'
  OBVIOUS
<1> USE MutationLockAssumption, NoProcAssumption DEF TypeOK, Phases
<1>1. ASSUME NEW p \in Procs, Create(p) PROVE TypeOK'
  BY <1>1 DEF Create, Fresh
<1>2. ASSUME NEW p \in Procs, Stat(p) PROVE TypeOK'
  BY <1>2 DEF Stat
<1>3. ASSUME NEW p \in Procs, Remove(p) PROVE TypeOK'
  BY <1>3 DEF Remove, Absent
<1>4. ASSUME NEW p \in Procs, Recreate(p) PROVE TypeOK'
  BY <1>4 DEF Recreate, Fresh
<1>5. ASSUME NEW p \in Procs, Release(p) PROVE TypeOK'
  BY <1>5 DEF Release, Absent
<1>6. ASSUME NEW p \in Procs, Crash(p) PROVE TypeOK'
  BY <1>6 DEF Crash
<1>7. CASE Expire
  <2>1. file.owner \in Procs
    BY <1>7 DEF Expire, Absent
  <2>2. overruns' \in 0..MaxOverruns
    BY <1>7 DEF Expire
  <2>3. raced' \in BOOLEAN
    BY <1>7, Zenon DEF Expire
  <2>4. file' \in [owner : Procs \cup {NoProc}, age : {"young", "old"}]
    BY <1>7 DEF Expire
  <2> QED BY <1>7, <2>1, <2>2, <2>3, <2>4 DEF Expire
<1>8. CASE UNCHANGED vars
  BY <1>8 DEF vars
<1> QED BY <1>1, <1>2, <1>3, <1>4, <1>5, <1>6, <1>7, <1>8 DEF Next, Attempt

(* Every step keeps the invariant, as long as nobody has raced.            *)
LEMMA NextIInv == IInv /\ [Next]_vars => IInv'
<1> SUFFICES ASSUME IInv, [Next]_vars, raced' = FALSE
             PROVE  HolderOwnsFile' /\ RemoverAlone'
  BY NextTypeOK DEF IInv
<1>0. TypeOK /\ TypeOK'
  BY NextTypeOK DEF IInv
<1> USE MutationLockAssumption, NoProcAssumption, <1>0
    DEF TypeOK, Phases, HolderOwnsFile, RemoverAlone, Held, IInv
<1>1. ASSUME NEW p \in Procs, Create(p) PROVE HolderOwnsFile' /\ RemoverAlone'
  BY <1>1 DEF Create, Fresh, Absent
<1>2. ASSUME NEW p \in Procs, Stat(p) PROVE HolderOwnsFile' /\ RemoverAlone'
  <2>1. raced = FALSE
    BY <1>2 DEF Stat
  <2>2. HolderOwnsFile'
    BY <1>2, <2>1 DEF Stat
  <2>3. RemoverAlone'
    BY <1>2, <2>1 DEF Stat
  <2> QED BY <2>2, <2>3
<1>3. ASSUME NEW p \in Procs, Remove(p) PROVE HolderOwnsFile' /\ RemoverAlone'
  BY <1>3 DEF Remove, Absent
<1>4. ASSUME NEW p \in Procs, Recreate(p) PROVE HolderOwnsFile' /\ RemoverAlone'
  BY <1>4 DEF Recreate, Fresh, Absent
<1>5. ASSUME NEW p \in Procs, Release(p) PROVE HolderOwnsFile' /\ RemoverAlone'
  BY <1>5 DEF Release, Absent
<1>6. ASSUME NEW p \in Procs, Crash(p) PROVE HolderOwnsFile' /\ RemoverAlone'
  BY <1>6 DEF Crash
<1>7. CASE Expire
  <2>1. file.owner \in Procs
    BY <1>7 DEF Expire, Absent
  <2>2. raced = FALSE /\ ~Held(file.owner)
    BY <1>7 DEF Expire
  <2> QED BY <1>7, <2>1, <2>2 DEF Expire
<1>8. CASE UNCHANGED vars
  BY <1>8 DEF vars
<1> QED BY <1>1, <1>2, <1>3, <1>4, <1>5, <1>6, <1>7, <1>8 DEF Next, Attempt

(* Every variable of the lock model keeps its type.                        *)
THEOREM TypeCorrect == Spec => []TypeOK
<1>1. Init => TypeOK
  BY InitIInv DEF IInv
<1> QED BY <1>1, NextTypeOK, PTL DEF Spec

(* Acquire and Release exclude, for every number of processes, unless two  *)
(* takeovers of one stale file overlap or a command outlives staleAfter.   *)
THEOREM Exclusion == Spec => []ExclusiveUnlessRaced
<1>1. IInv => ExclusiveUnlessRaced
  BY DEF IInv, TypeOK, ExclusiveUnlessRaced, Exclusive, HolderOwnsFile, Held
<1> QED BY <1>1, InitIInv, NextIInv, PTL DEF Spec

(* Release never removes a file another process created, under the same    *)
(* condition: the missing ownership check does no harm without a race.     *)
THEOREM ReleaseIsSafe == Spec => ReleaseRemovesOwnFile
<1>1. IInv /\ [Next]_vars =>
        [\A p \in Procs : Release(p) /\ ~raced => file.owner = p]_vars
  BY DEF IInv, TypeOK, HolderOwnsFile, Held, Release
<1> QED BY <1>1, InitIInv, NextIInv, PTL DEF Spec, ReleaseRemovesOwnFile

(***************************************************************************)
(* The service                                                             *)
(***************************************************************************)

(* Every step of the service leaves the mutation lock alone or is one of   *)
(* the lock's own steps.                                                   *)
LEMMA StepOfLock == [NextService]_allVars => [Next]_vars
<1> SUFFICES ASSUME [NextService]_allVars PROVE [Next]_vars
  OBVIOUS
<1> USE DaemonServiceAssumption
<1>1. CASE UNCHANGED allVars
  BY <1>1 DEF allVars
<1>2. ASSUME NEW p \in Daemons, StepLocks(p) PROVE Next
  BY <1>2 DEF StepLocks, Next
<1>3. ASSUME NEW p \in Daemons, StepReleases(p) PROVE Next
  BY <1>3 DEF StepReleases, Next
<1>4. ASSUME NEW p \in Daemons, LoopStep(p), ~StepLocks(p), ~StepReleases(p) PROVE UNCHANGED vars
  BY <1>4 DEF LoopStep, CheckRoots, TakeInstance, InstanceTaken, EnterLoop, StepEnds, Leave
<1>5. ASSUME NEW q \in Shells, ShellStep(q) PROVE Next
  BY <1>5 DEF ShellStep, ShellLocks, ShellReleases, Next
<1>6. ASSUME NEW p \in Procs, Dies(p) PROVE [Next]_vars
  BY <1>6 DEF Dies, Next
<1>7. CASE LockExpires
  BY <1>7 DEF LockExpires, Next
<1>8. ASSUME NEW p \in Daemons,
             \/ Spawn(p) \/ BeginStep(p) \/ Heartbeat(p) \/ Finish(p) \/ Interrupt(p) \/ Ends(p)
             \/ \E env \in Environments, allow \in BOOLEAN : RunInShell(p, env, allow)
      PROVE  UNCHANGED vars
  BY <1>8 DEF Spawn, BeginStep, Heartbeat, Finish, Interrupt, Ends, RunInShell
<1>9. ASSUME NEW q \in Shells, Resume(q) \/ Order(q) PROVE UNCHANGED vars
  BY <1>9 DEF Resume, Order
<1>10. ASSUME NEW env \in Environments,
              Login(env) \/ \E allow \in BOOLEAN : InstallPins(env, allow)
       PROVE  UNCHANGED vars
  BY <1>10 DEF Login, InstallPins
<1>11. CASE CommandStep \/ Stop \/ StartAgain \/ UninstallStops \/ CommandFails \/ StatusAges
  BY <1>11 DEF CommandStep, Stop, StartAgain, UninstallStops, CommandFails, StatusAges,
     InstallUnloads, InstallWrites, InstallStarts,
     UninstallRemoves, UninstallWaits, UninstallTidies, UninstallUnpins
<1> QED BY <1>1, <1>2, <1>3, <1>4, <1>5, <1>6, <1>7, <1>8, <1>9, <1>10, <1>11 DEF NextService

(* The daemon and the shells use the mutation lock as module MutationLock  *)
(* says, so what holds of the lock alone holds of the whole device.        *)
THEOREM ServiceUsesLock == ServiceSpec => Spec
<1>1. InitService => Init
  BY DEF InitService
<1> QED BY <1>1, StepOfLock, PTL DEF ServiceSpec, Spec

(* However daemons, commands and resumes come and go, two of them are      *)
(* never inside the lock at once without a race.                           *)
THEOREM ServiceExcludes == ServiceSpec => []ExclusiveUnlessRaced
  BY ServiceUsesLock, Exclusion, PTL

-----------------------------------------------------------------------------
(* From its first status to its end a process holds the instance lock, so  *)
(* nobody else writes the status in between.                               *)
HoldsInstance == \A p \in Daemons : InLoop(p) \/ At(p) = "left" => instance = p

(* An uninstall forgets the roots after it has removed the definition, and *)
(* an install writes the definition after it has recorded them.            *)
Unpinning == {"wait", "tidy", "unpin"}

CommandsInOrder ==
    /\ cli.at \in Unpinning => definition = "none"
    /\ cli.at \in {"unload", "write", "start"} => recorded # NoRoots
    /\ cli.at \in Unpinning \cup {"remove"} => service = "off"

(* A process the manager started finds roots recorded when it looks, and   *)
(* none is about to look when an uninstall forgets them.                   *)
FindsRoots ==
    \A p \in Daemons : At(p) = "roots" /\ proc[p].supervised =>
        /\ recorded # NoRoots
        /\ cli.at \notin Unpinning
        /\ cli.at = "remove" => kind # "launchd"

StaysPinned ==
    \A p \in Daemons : At(p) = "lock" /\ proc[p].supervised => proc[p].env = Pinned

ServiceInv ==
    /\ TypeOKService
    /\ StatusNamesTheLoop /\ HoldsInstance
    /\ InstalledIsPinned /\ CommandsInOrder
    /\ SupervisedIsPinned /\ FindsRoots /\ StaysPinned

(* A signal ends those that are not listening yet and changes nobody's     *)
(* roots; none of those it reaches has still to look at the roots.         *)
ProcType == [at : Steps \cup {"none", "roots", "lock", "starting", "idle", "left", "resume",
                              "command"},
             env : {NoRoots, Own, Pinned} \cup Environments,
             allow : BOOLEAN, supervised : BOOLEAN, signalled : BOOLEAN]

LEMMA SignalledKeeps ==
    ASSUME proc \in [Procs -> ProcType], NEW S, Signalled(S)
    PROVE  /\ proc' \in [Procs -> ProcType]
           /\ \A p \in Procs :
                 /\ At(p) \notin {"roots", "lock"} => At(p)' = At(p)
                 /\ At(p)' # "none" => At(p)' = At(p) /\ proc'[p].env = proc[p].env
                                         /\ proc'[p].supervised = proc[p].supervised
                 /\ p \in S => At(p)' \notin {"roots", "lock"}
<1>1. ASSUME NEW p \in Procs
      PROVE  /\ proc'[p] \in ProcType
             /\ At(p) \notin {"roots", "lock"} => At(p)' = At(p)
             /\ At(p)' # "none" => At(p)' = At(p) /\ proc'[p].env = proc[p].env
                                     /\ proc'[p].supervised = proc[p].supervised
             /\ p \in S => At(p)' \notin {"roots", "lock"}
  <2>1. CASE p \notin S
    BY <2>1 DEF Signalled, At
  <2>2. CASE p \in S /\ At(p) \in {"roots", "lock"}
    BY <2>2 DEF Signalled, At, Gone, ProcType
  <2>3. CASE p \in S /\ At(p) \notin {"roots", "lock"}
    <3>1. proc'[p] = [proc[p] EXCEPT !.signalled = TRUE]
      BY <2>3 DEF Signalled
    <3> QED BY <2>3, <3>1 DEF At, ProcType
  <2> QED BY <2>1, <2>2, <2>3
<1>2. proc' \in [Procs -> ProcType]
  BY <1>1 DEF Signalled
<1> QED BY <1>1, <1>2

(* What a process does on its way through the loop keeps the invariant.    *)
LEMMA LoopStepInv ==
    ASSUME ServiceInv, NEW q \in Daemons, LoopStep(q)
    PROVE  ServiceInv'
<1> USE DaemonServiceAssumption, NoProcAssumption
    DEF ServiceInv, TypeOKService, StatusNamesTheLoop, HoldsInstance, InstalledIsPinned,
        CommandsInOrder, SupervisedIsPinned, FindsRoots, StaysPinned, Unpinning, InLoop, At,
        Steps, Gone, NoStatus, NoCommand, Moved, Written, Ended, Continue, Return, Command,
        StopService, Supervised, registration
<1>0. q \in Procs /\ q # NoProc
  OBVIOUS
<1>1. CASE CheckRoots(q)
  <2>1. CASE recorded = NoRoots
    BY <1>0, <1>1, <2>1 DEF CheckRoots
  <2>2. CASE recorded # NoRoots /\ (recorded = proc[q].env \/ proc[q].allow)
    BY <1>0, <1>1, <2>2 DEF CheckRoots
  <2>3. CASE recorded # NoRoots /\ recorded # proc[q].env /\ ~proc[q].allow
    <3>1. /\ proc' = [proc EXCEPT ![q] = Gone]
          /\ UNCHANGED <<registration, instance, status, cli, events>>
      BY <1>1, <2>3 DEF CheckRoots
    <3> QED BY <1>0, <1>1, <3>1
  <2> QED BY <1>1, <2>1, <2>2, <2>3 DEF CheckRoots
<1>2. CASE TakeInstance(q)
  BY <1>0, <1>2 DEF TakeInstance
<1>3. CASE InstanceTaken(q)
  BY <1>0, <1>3 DEF InstanceTaken
<1>4. CASE EnterLoop(q)
  BY <1>0, <1>4 DEF EnterLoop
<1>5. CASE StepLocks(q)
  BY <1>0, <1>5 DEF StepLocks
<1>6. CASE StepReleases(q)
  BY <1>0, <1>6 DEF StepReleases
<1>7. CASE StepEnds(q)
  BY <1>0, <1>7 DEF StepEnds
<1>8. CASE Leave(q)
  BY <1>0, <1>8 DEF Leave
<1> QED BY <1>1, <1>2, <1>3, <1>4, <1>5, <1>6, <1>7, <1>8 DEF LoopStep

(* And so does what else happens to one.                                   *)
LEMMA DaemonInv ==
    ASSUME ServiceInv, NEW q \in Daemons,
           Spawn(q) \/ BeginStep(q) \/ Heartbeat(q) \/ Finish(q) \/ Interrupt(q) \/ Ends(q)
    PROVE  ServiceInv'
<1> USE DaemonServiceAssumption, NoProcAssumption
    DEF ServiceInv, TypeOKService, StatusNamesTheLoop, HoldsInstance, InstalledIsPinned,
        CommandsInOrder, SupervisedIsPinned, FindsRoots, StaysPinned, Unpinning, InLoop, At,
        Steps, Gone, NoStatus, NoCommand, Moved, Written, Ended, Continue, Return, Command,
        StopService, Supervised, registration
<1>0. q \in Procs /\ q # NoProc
  OBVIOUS
<1>1. CASE Spawn(q)
  BY <1>0, <1>1 DEF Spawn
<1>2. CASE BeginStep(q)
  BY <1>0, <1>2 DEF BeginStep
<1>3. CASE Heartbeat(q)
  BY <1>0, <1>3 DEF Heartbeat
<1>4. CASE Finish(q)
  BY <1>0, <1>4 DEF Finish
<1>5. CASE Interrupt(q)
  BY <1>0, <1>5, SignalledKeeps DEF Interrupt, ProcType
<1>6. CASE Ends(q)
  BY <1>0, <1>6 DEF Ends
<1> QED BY <1>1, <1>2, <1>3, <1>4, <1>5, <1>6

(* The commands of the person keep it.                                     *)
LEMMA CommandStepInv ==
    ASSUME ServiceInv, CommandStep
    PROVE  ServiceInv'
<1> USE DaemonServiceAssumption, NoProcAssumption
    DEF ServiceInv, TypeOKService, StatusNamesTheLoop, HoldsInstance, InstalledIsPinned,
        CommandsInOrder, SupervisedIsPinned, FindsRoots, StaysPinned, Unpinning, InLoop, At,
        Steps, Gone, NoStatus, NoCommand, Moved, Written, Ended, Continue, Return, Command,
        StopService, Supervised, registration
<1>1. CASE InstallUnloads
  BY <1>1, SignalledKeeps DEF InstallUnloads, ProcType
<1>2. CASE InstallWrites
  BY <1>2 DEF InstallWrites
<1>3. CASE InstallStarts
  BY <1>3 DEF InstallStarts
<1>4. CASE UninstallRemoves
  BY <1>4 DEF UninstallRemoves
<1>5. CASE UninstallWaits
  BY <1>5 DEF UninstallWaits
<1>6. CASE UninstallTidies
  BY <1>6 DEF UninstallTidies
<1>7. CASE UninstallUnpins
  BY <1>7 DEF UninstallUnpins
<1> QED BY <1>1, <1>2, <1>3, <1>4, <1>5, <1>6, <1>7 DEF CommandStep

(* So do the commands of one step, the clock and the lock.                 *)
LEMMA OtherCommandsInv ==
    ASSUME ServiceInv, Stop \/ StartAgain \/ UninstallStops \/ CommandFails \/ StatusAges \/ LockExpires
    PROVE  ServiceInv'
<1> USE DaemonServiceAssumption, NoProcAssumption
    DEF ServiceInv, TypeOKService, StatusNamesTheLoop, HoldsInstance, InstalledIsPinned,
        CommandsInOrder, SupervisedIsPinned, FindsRoots, StaysPinned, Unpinning, InLoop, At,
        Steps, Gone, NoStatus, NoCommand, Moved, Written, Ended, Continue, Return, Command,
        StopService, Supervised, registration
<1>1. CASE Stop
  BY <1>1, SignalledKeeps DEF Stop, ProcType
<1>2. CASE StartAgain
  BY <1>2, SignalledKeeps DEF StartAgain, ProcType
<1>3. CASE UninstallStops
  BY <1>3, SignalledKeeps DEF UninstallStops, ProcType
<1>4. CASE CommandFails
  BY <1>4 DEF CommandFails
<1>5. CASE StatusAges
  BY <1>5 DEF StatusAges
<1>6. CASE LockExpires
  BY <1>6 DEF LockExpires, serviceVars
<1> QED BY <1>1, <1>2, <1>3, <1>4, <1>5, <1>6

(* And those that choose an environment.                                   *)
LEMMA LoginInv ==
    ASSUME ServiceInv, NEW env \in Environments, Login(env) \/ \E allow \in BOOLEAN : InstallPins(env, allow)
    PROVE  ServiceInv'
<1> USE DaemonServiceAssumption, NoProcAssumption
    DEF ServiceInv, TypeOKService, StatusNamesTheLoop, HoldsInstance, InstalledIsPinned,
        CommandsInOrder, SupervisedIsPinned, FindsRoots, StaysPinned, Unpinning, InLoop, At,
        Steps, Gone, NoStatus, NoCommand, Moved, Written, Ended, Continue, Return, Command,
        StopService, Supervised, registration
<1>1. CASE Login(env)
  BY <1>1 DEF Login
<1>2. CASE \E allow \in BOOLEAN : InstallPins(env, allow)
  BY <1>2 DEF InstallPins
<1> QED BY <1>1, <1>2

(* A command or a resume in a shell touches none of it.                    *)
LEMMA ShellInv ==
    ASSUME ServiceInv, NEW q \in Shells, Resume(q) \/ Order(q) \/ ShellLocks(q) \/ ShellReleases(q)
    PROVE  ServiceInv'
<1> USE DaemonServiceAssumption, NoProcAssumption
    DEF ServiceInv, TypeOKService, StatusNamesTheLoop, HoldsInstance, InstalledIsPinned,
        CommandsInOrder, SupervisedIsPinned, FindsRoots, StaysPinned, Unpinning, InLoop, At,
        Steps, Gone, NoStatus, NoCommand, Moved, Written, Ended, Continue, Return, Command,
        StopService, Supervised, registration
<1>0. q \in Procs /\ q # NoProc
  OBVIOUS
<1>1. CASE Resume(q)
  BY <1>0, <1>1 DEF Resume
<1>2. CASE Order(q)
  BY <1>0, <1>2 DEF Order
<1>3. CASE ShellLocks(q)
  <2>1. q \notin Daemons
    OBVIOUS
  <2>2. CASE proc' = [proc EXCEPT ![q] = Gone]
    BY <1>0, <1>3, <2>1, <2>2 DEF ShellLocks
  <2>3. CASE UNCHANGED proc
    BY <1>0, <1>3, <2>3 DEF ShellLocks
  <2> QED BY <1>3, <2>2, <2>3 DEF ShellLocks
<1>4. CASE ShellReleases(q)
  BY <1>0, <1>4 DEF ShellReleases
<1> QED BY <1>1, <1>2, <1>3, <1>4

(* A daemon that is started by hand keeps it.                              *)
LEMMA RunInShellInv ==
    ASSUME ServiceInv, NEW q \in Daemons, NEW env \in Environments, NEW allow \in BOOLEAN,
           RunInShell(q, env, allow)
    PROVE  ServiceInv'
<1> USE DaemonServiceAssumption, NoProcAssumption
    DEF ServiceInv, TypeOKService, StatusNamesTheLoop, HoldsInstance, InstalledIsPinned,
        CommandsInOrder, SupervisedIsPinned, FindsRoots, StaysPinned, Unpinning, InLoop, At,
        Steps, Gone, NoStatus, NoCommand, Moved, Written, Ended, Continue, Return, Command,
        StopService, Supervised, registration
<1>0. q \in Procs /\ q # NoProc
  OBVIOUS
<1>1. CASE RunInShell(q, env, allow)
  BY <1>0, <1>1 DEF RunInShell
<1> QED BY <1>1

(* A process that dies takes its lock with it.                             *)
LEMMA DiesInv ==
    ASSUME ServiceInv, NEW q \in Procs, Dies(q)
    PROVE  ServiceInv'
<1> USE DaemonServiceAssumption, NoProcAssumption
    DEF ServiceInv, TypeOKService, StatusNamesTheLoop, HoldsInstance, InstalledIsPinned,
        CommandsInOrder, SupervisedIsPinned, FindsRoots, StaysPinned, Unpinning, InLoop, At,
        Steps, Gone, NoStatus, NoCommand, Moved, Written, Ended, Continue, Return, Command,
        StopService, Supervised, registration
<1>0. q \in Procs /\ q # NoProc
  OBVIOUS
<1>1. CASE Dies(q)
  BY <1>0, <1>1 DEF Dies
<1> QED BY <1>1

(* Nothing runs at first.                                                  *)
LEMMA InitServiceInv == InitService => ServiceInv
<1> SUFFICES ASSUME InitService PROVE ServiceInv
  OBVIOUS
<1>1. TypeOKService
  BY DaemonServiceAssumption
     DEF InitService, TypeOKService, Gone, Steps, NoStatus, NoCommand
<1>2. StatusNamesTheLoop /\ HoldsInstance /\ SupervisedIsPinned /\ FindsRoots /\ StaysPinned
  BY DaemonServiceAssumption
     DEF InitService, StatusNamesTheLoop, HoldsInstance, SupervisedIsPinned, FindsRoots,
         StaysPinned, InLoop, At, Gone, Steps
<1>3. InstalledIsPinned /\ CommandsInOrder
  BY DaemonServiceAssumption
     DEF InitService, InstalledIsPinned, CommandsInOrder, Unpinning, NoCommand
<1> QED BY <1>1, <1>2, <1>3 DEF ServiceInv

LEMMA NextServiceInv == ServiceInv /\ [NextService]_allVars => ServiceInv'
<1> SUFFICES ASSUME ServiceInv, [NextService]_allVars PROVE ServiceInv'
  OBVIOUS
<1>1. CASE UNCHANGED allVars
  BY <1>1 DEF allVars, serviceVars, registration, ServiceInv, TypeOKService, StatusNamesTheLoop,
     HoldsInstance, InstalledIsPinned, CommandsInOrder, SupervisedIsPinned, FindsRoots,
     StaysPinned, InLoop, At
<1>2. CASE NextService
  BY <1>2, LoopStepInv, DaemonInv, RunInShellInv, ShellInv, DiesInv, LoginInv, CommandStepInv,
     OtherCommandsInv DEF NextService, ShellStep
<1> QED BY <1>1, <1>2

(* Every variable of the service keeps its type.                           *)
THEOREM ServiceTypeCorrect == ServiceSpec => []TypeOKService
<1>1. ServiceInv => TypeOKService
  BY DEF ServiceInv
<1> QED BY <1>1, InitServiceInv, NextServiceInv, PTL DEF ServiceSpec

(* Whoever reads the status file while a daemon's loop runs finds that     *)
(* daemon in it, or no file, however many daemons have come and gone.      *)
THEOREM StatusIsTheLoops == ServiceSpec => []StatusNamesTheLoop
<1>1. ServiceInv => StatusNamesTheLoop
  BY DEF ServiceInv
<1> QED BY <1>1, InitServiceInv, NextServiceInv, PTL DEF ServiceSpec

(* However installs and uninstalls end, a registered service has recorded  *)
(* roots, and a daemon that the manager starts watches those.              *)
THEOREM ServiceStaysPinned == ServiceSpec => [](InstalledIsPinned /\ SupervisedIsPinned)
<1>1. ServiceInv => InstalledIsPinned /\ SupervisedIsPinned
  BY DEF ServiceInv
<1> QED BY <1>1, InitServiceInv, NextServiceInv, PTL DEF ServiceSpec

(* The three together, with the types of the lock: what the run checks.    *)
THEOREM ServiceStaysConsistent == ServiceSpec => []ServiceConsistent
<1>1. ServiceInv /\ TypeOK => ServiceConsistent
  BY DEF ServiceInv, ServiceConsistent
<1> QED BY <1>1, InitServiceInv, NextServiceInv, ServiceUsesLock, TypeCorrect, PTL DEF ServiceSpec
=============================================================================
