---------------------------- MODULE MutationLock ----------------------------
(***************************************************************************)
(* The lock file `locks/mutation.lock` that push, pull and conflicts       *)
(* resolve take before they touch state.json or a session file             *)
(* (internal/lock/lock.go).  Acquire creates the file with O_EXCL.  When   *)
(* it exists already, Acquire stats it, removes it when its modification   *)
(* time is more than staleAfter old, and creates it again.  Every system   *)
(* call is a step of its own: other processes run between them.  Release   *)
(* removes the path, whoever created the file that is there.               *)
(***************************************************************************)
EXTENDS Naturals, FiniteSets

CONSTANTS Procs,          \* rein processes (a command, the daemon's push...)
          MaxOverruns,    \* bound: commands that run longer than staleAfter
          MaxCrashes      \* bound: processes that die without releasing

ASSUME MutationLockAssumption ==
    /\ MaxOverruns \in Nat
    /\ MaxCrashes \in Nat

NoProc == "none"

ASSUME NoProcAssumption == NoProc \notin Procs

VARIABLES pc,        \* pc[p]: where p is in Acquire or Release
          file,      \* owner: who created the file, or NoProc; age: past staleAfter?
          overruns,  \* locks that have expired under their holder so far
          crashes,   \* processes that have died so far
          raced      \* history: two takeovers overlapped, or a holder expired

vars == <<pc, file, overruns, crashes, raced>>

Absent == [owner |-> NoProc, age |-> "young"]
Fresh(p) == [owner |-> p, age |-> "young"]

Held(p) == pc[p] = "held"

Phases == {"idle", "exists", "remove", "recreate", "held"}

TypeOK == /\ pc \in [Procs -> Phases]
          /\ file \in [owner : Procs \cup {NoProc}, age : {"young", "old"}]
          /\ file.age = "old" => file.owner # NoProc
          /\ overruns \in 0..MaxOverruns
          /\ crashes \in 0..MaxCrashes
          /\ raced \in BOOLEAN

Init == /\ pc = [p \in Procs |-> "idle"]
        /\ file = Absent
        /\ overruns = 0
        /\ crashes = 0
        /\ raced = FALSE

-----------------------------------------------------------------------------
(* Mistakes Acquire could make, each the shape of the step it stands for:  *)
(* createLock without O_EXCL, a stat that does not ask for the age, a      *)
(* removal that leaves the old age behind, a stat that never finds a file  *)
(* old enough.                                                             *)
CreateWithoutExcl(p) ==
    /\ pc[p] = "idle"
    /\ file' = Fresh(p)
    /\ pc' = [pc EXCEPT ![p] = "held"]
    /\ UNCHANGED <<overruns, crashes, raced>>

StatNeverStale(p) ==
    /\ pc[p] = "exists"
    /\ pc' = [pc EXCEPT ![p] = "idle"]
    /\ UNCHANGED <<file, overruns, crashes, raced>>

-----------------------------------------------------------------------------
(* Acquire's first createLock: O_EXCL either makes a fresh file or fails.  *)
Create(p) ==
    /\ pc[p] = "idle"
    /\ IF file = Absent
         THEN /\ file' = Fresh(p)
              /\ pc' = [pc EXCEPT ![p] = "held"]
         ELSE /\ pc' = [pc EXCEPT ![p] = "exists"]
              /\ UNCHANGED file
    /\ UNCHANGED <<overruns, crashes, raced>>

(* os.Stat: a missing or a young file ends Acquire with "lock held".       *)
Stat(p) ==
    /\ pc[p] = "exists"
    /\ pc' = [pc EXCEPT ![p] = IF file.age = "old" THEN "remove" ELSE "idle"]
    /\ raced' = IF file.age = "old" /\ \E q \in Procs \ {p} : pc[q] = "remove"
                  THEN TRUE ELSE raced
    /\ UNCHANGED <<file, overruns, crashes>>

(* os.Remove by path: it removes whichever file is there now.              *)
Remove(p) ==
    /\ pc[p] = "remove"
    /\ pc' = [pc EXCEPT ![p] = IF file = Absent THEN "idle" ELSE "recreate"]
    /\ file' = Absent
    /\ UNCHANGED <<overruns, crashes, raced>>

(* The second createLock, after a removal that succeeded.                  *)
Recreate(p) ==
    /\ pc[p] = "recreate"
    /\ IF file = Absent
         THEN /\ file' = Fresh(p)
              /\ pc' = [pc EXCEPT ![p] = "held"]
         ELSE /\ pc' = [pc EXCEPT ![p] = "idle"]
              /\ UNCHANGED file
    /\ UNCHANGED <<overruns, crashes, raced>>

(* Release: close the handle and remove the path, with no ownership check. *)
Release(p) ==
    /\ pc[p] = "held"
    /\ pc' = [pc EXCEPT ![p] = "idle"]
    /\ file' = Absent
    /\ UNCHANGED <<overruns, crashes, raced>>

-----------------------------------------------------------------------------
(* A process dies where it is; the file it created stays.  A new process   *)
(* with the same name may start: it does not know the file is its own.     *)
Crash(p) ==
    /\ pc[p] # "idle"
    /\ crashes < MaxCrashes
    /\ crashes' = crashes + 1
    /\ pc' = [pc EXCEPT ![p] = "idle"]
    /\ UNCHANGED <<file, overruns, raced>>

(* Twelve hours pass for the file that is there.                           *)
Expire ==
    /\ file # Absent
    /\ file.age = "young"
    /\ file' = [file EXCEPT !.age = "old"]
    /\ IF Held(file.owner)
         THEN overruns < MaxOverruns /\ overruns' = overruns + 1 /\ raced' = TRUE
         ELSE UNCHANGED <<overruns, raced>>
    /\ UNCHANGED <<pc, crashes>>

Attempt(p) == Create(p) \/ Stat(p) \/ Remove(p) \/ Recreate(p)

Next == \/ \E p \in Procs : Attempt(p) \/ Release(p) \/ Crash(p)
        \/ Expire

Spec == Init /\ [][Next]_vars
-----------------------------------------------------------------------------
(* What the comment on lock.go's Mutex promises: "a simple exclusive file  *)
(* lock".  Two processes are never both between Acquire and Release.       *)
Exclusive == \A p, q \in Procs : Held(p) /\ Held(q) => p = q

(* The exclusion Acquire and Release do give: as long as no command ran    *)
(* past staleAfter and no two processes decided to remove the same stale   *)
(* file, at most one process is inside a command.                          *)
ExclusiveUnlessRaced == ~raced => Exclusive

(* Release has no ownership check, so it must be true that the file it     *)
(* removes is the one its own Acquire created.                             *)
ReleaseRemovesOwnFile ==
    [][\A p \in Procs : Release(p) /\ ~raced => file.owner = p]_vars

(* A file left behind by a process that died.                              *)
Abandoned == file # Absent /\ ~Held(file.owner)

=============================================================================
