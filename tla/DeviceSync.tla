----------------------------- MODULE DeviceSync -----------------------------
(***************************************************************************)
(* The commands push, pull and conflicts resolve                           *)
(* (internal/cli/commands_impl.go) of the devices that share a profile,    *)
(* over the sync engine.  A device has session files that agents append    *)
(* to, state.json with the revisions it last synchronized, conflict        *)
(* records and backups.  One command runs on a device at a time: it holds  *)
(* the mutation lock (see MutationLock).                                   *)
(*                                                                         *)
(* The content of a session is the set of edits it contains; {} stands for *)
(* a session that is not on the device.  A content hash is only ever       *)
(* compared with hashes taken on the same device, so it is the content.    *)
(***************************************************************************)
EXTENDS SyncEngine

CONSTANTS Originals,   \* sessions agents create; the other keys are forks
          Kinds,       \* the commands that are run
          MaxEdits,    \* bound: edits agents make
          MaxResolves, \* bound: conflicts resolve commands
          MidEdits     \* may an agent write while a command runs?

Pushes == {"push --all", "push --session"}
Pulls == {"pull --all", "pull --session"}
Resolutions == {"keep-local", "keep-remote", "keep-both"}
Singles == {"push --session", "pull --session"}

(* forkSessionID: the identity of the copy of snapshot n of session s.     *)
Fork(why, s, n) == <<why, s, n>>

ASSUME DeviceSyncAssumption ==
    /\ Originals \subseteq Sessions
    /\ Kinds \subseteq Pushes \cup Pulls \cup Resolutions
    /\ MaxEdits \in Nat /\ MaxResolves \in Nat
    /\ MidEdits \in BOOLEAN
    /\ Bodies = SUBSET (1..MaxEdits)
    /\ "keep-both" \in Kinds =>
           \A s \in Originals, n \in 1..MaxSnapshots : Fork("remote", s, n) \in Sessions

(* A copy has an identity of its own.                                      *)
ASSUME ForkAssumption ==
    \A s \in Sessions, n \in Ids : Fork("active", s, n) # s /\ Fork("remote", s, n) # s

VARIABLES local,      \* local[d][s]: the session file
          state,      \* state[d][s]: state.json's LocalRevision, RemoteRevision
          conflicts,  \* conflicts[d]: the records under conflicts/
          resolved,   \* resolved[d]: the .resolved audit files
          backups,    \* backups[d]: the files under backups/
          cmd,        \* cmd[d]: the command that runs on d
          edits,      \* edits made so far
          resolves    \* conflicts resolve commands so far

deviceVars == <<local, state, conflicts, resolved, backups, cmd, edits, resolves>>
vars == <<engineVars, deviceVars>>

Unknown == [local |-> {}, remote |-> 0]

NoDivergence == [session |-> NoCall.session, local |-> {}, remote |-> 0]

(* No command.  A command keeps the manifest it fetched (man), its copy of *)
(* state.json (mem), the sessions left (todo), the one at hand (cur), the  *)
(* last content it read (hash), the sessions it discovered (here), those   *)
(* to restore as forks, where the restore goes (target) and the conflict   *)
(* it resolves (about).                                                    *)
NoCmd == [kind |-> "none", phase |-> "-", todo |-> {}, man |-> NoHeads,
          mem |-> [s \in Sessions |-> Unknown], cur |-> NoCall.session,
          hash |-> {}, here |-> {}, forks |-> {}, target |-> NoCall.session,
          about |-> NoDivergence]

Phases == {"-", "fetch", "next", "export", "call", "record", "restore",
           "backup", "verify", "rename", "hash", "audit", "remove"}

States == [Sessions -> [local : Bodies, remote : Ids]]

Divergences == [session : Sessions, local : Bodies, remote : Ids]

Cmds == [kind : Pushes \cup Pulls \cup Resolutions \cup {"none"}, phase : Phases,
         todo : SUBSET Sessions, man : [Sessions -> Ids], mem : States,
         cur : Sessions, hash : Bodies, here : SUBSET Sessions, forks : SUBSET Sessions,
         target : Sessions, about : Divergences]

(* What each variable of a device may hold; a call to the engine runs only *)
(* inside a command.                                                       *)
TypeOK ==
    /\ EngineTypeOK
    /\ local \in [Devices -> [Sessions -> Bodies]]
    /\ state \in [Devices -> States]
    /\ conflicts \in [Devices -> SUBSET Divergences]
    /\ resolved \in [Devices -> SUBSET (Divergences \X Resolutions)]
    /\ backups \in [Devices -> SUBSET [session : Sessions, body : Bodies]]
    /\ cmd \in [Devices -> Cmds]
    /\ \A d \in Devices : call[d].pc # "idle" => cmd[d].phase = "call"
    /\ edits \in 0..MaxEdits
    /\ resolves \in 0..MaxResolves

Init ==
    /\ EngineInit
    /\ local = [d \in Devices |-> [s \in Sessions |-> {}]]
    /\ state = [d \in Devices |-> [s \in Sessions |-> Unknown]]
    /\ conflicts = [d \in Devices |-> {}]
    /\ resolved = [d \in Devices |-> {}]
    /\ backups = [d \in Devices |-> {}]
    /\ cmd = [d \in Devices |-> NoCmd]
    /\ edits = 0
    /\ resolves = 0

-----------------------------------------------------------------------------
Present(d) == {s \in Sessions : local[d][s] # {}}

At(d, kinds, phase) == cmd[d].kind \in kinds /\ cmd[d].phase = phase

Cur(d) == cmd[d].cur

Body(n) == snapshots[n].body

Start(d, kind) == kind \in Kinds /\ cmd[d].kind = "none"

(* The command ends: it releases the lock and forgets what it loaded.      *)
End(d) == cmd' = [cmd EXCEPT ![d] = NoCmd]

(* On to the next session of the loop, with mem as the state so far.       *)
NextSession(d, s, mem) ==
    cmd' = [cmd EXCEPT ![d].phase = "next", ![d].todo = @ \ {s}, ![d].mem = mem]

(* Mistakes the commands could make.  A divergence that is not recorded, a *)
(* call left open, a failed upload noted as done, a push based on the head *)
(* that was just fetched, a pull that restores over edits, takes every     *)
(* edit for a divergence, restores what it has, rewrites a fork or records *)
(* a fork as the session, a restore without backup, a failed resolution    *)
(* reported as done.                                                       *)
SaveNothing(d, s, hash, remote) == UNCHANGED conflicts

PushFailedNoted(d) ==
    /\ At(d, Pushes, "call")
    /\ call[d].pc = "error"
    /\ Return(d)
    /\ NextSession(d, Cur(d), [cmd[d].mem EXCEPT ![Cur(d)] =
                                  [local |-> cmd[d].hash, remote |-> call[d].id]])
    /\ UNCHANGED <<local, state, conflicts, resolved, backups, edits, resolves>>

PushExportOnHead(d) ==
    /\ At(d, Pushes, "export")
    /\ Begin(d, Cur(d), local[d][Cur(d)], cmd[d].man[Cur(d)])
    /\ cmd' = [cmd EXCEPT ![d].phase = "call"]
    /\ UNCHANGED <<local, state, conflicts, resolved, backups, edits, resolves>>

DivergedIfEdited(d, s) ==
    /\ s \in cmd[d].here /\ s \notin cmd[d].forks
    /\ cmd[d].mem[s] = Unknown \/ cmd[d].mem[s].local # local[d][s]

ForkNeverExists(d) == FALSE

PullRestoredForkToo(d) ==
    /\ At(d, Pulls, "hash")
    /\ NextSession(d, Cur(d), [cmd[d].mem EXCEPT ![Cur(d)] =
           [local |-> local[d][Cur(d)], remote |-> cmd[d].man[Cur(d)]]])
    /\ UNCHANGED <<engineVars, local, state, conflicts, resolved, backups, edits, resolves>>

RestoreWithoutBackup(d) ==
    /\ At(d, Pulls \cup Resolutions, "backup")
    /\ local[d][cmd[d].target] = cmd[d].hash
    /\ cmd' = [cmd EXCEPT ![d].phase = "verify"]
    /\ UNCHANGED <<engineVars, local, state, conflicts, resolved, backups, edits, resolves>>

KeepLocalFailedSettles(d) ==
    /\ At(d, {"keep-local"}, "call")
    /\ call[d].pc \in {"conflict", "error"}
    /\ Return(d)
    /\ cmd' = [cmd EXCEPT ![d].phase = "audit"]
    /\ UNCHANGED <<local, state, conflicts, resolved, backups, edits, resolves>>

-----------------------------------------------------------------------------
(* SaveConflict writes a record unless one describes the same divergence.  *)
SaveConflict(d, s, hash, remote) ==
    conflicts' = [conflicts EXCEPT ![d] =
        @ \cup {[session |-> s, local |-> hash, remote |-> remote]}]

(* A divergence stops a command that names one session; --all goes on.     *)
AfterConflict(d, s) ==
    IF cmd[d].kind \in Singles THEN End(d) ELSE NextSession(d, s, cmd[d].mem)

-----------------------------------------------------------------------------
(* An agent appends to a session, or creates one.                          *)
Edit(d, s) ==
    /\ edits < MaxEdits
    /\ MidEdits \/ cmd[d].kind = "none"
    /\ \/ local[d][s] # {}
       \/ s \in Originals /\ \A e \in Devices : local[e][s] = {}
    /\ local' = [local EXCEPT ![d][s] = @ \cup {edits + 1}]
    /\ edits' = edits + 1
    /\ UNCHANGED <<engineVars, state, conflicts, resolved, backups, cmd, resolves>>

-----------------------------------------------------------------------------
(* push: lock, LoadState, Discover.                                        *)
BeginPush(d, kind) ==
    /\ Start(d, kind)
    /\ \E items \in SUBSET Present(d) \ {{}} :
          /\ IF kind = "push --all" THEN items = Present(d)
                                    ELSE \E s \in Present(d) : items = {s}
          /\ cmd' = [cmd EXCEPT ![d] = [NoCmd EXCEPT
                 !.kind = kind, !.phase = "fetch", !.todo = items, !.mem = state[d]]]
    /\ UNCHANGED <<engineVars, local, state, conflicts, resolved, backups, edits, resolves>>

(* FetchManifest; without a readable manifest the command fails.           *)
PushFetch(d) ==
    /\ At(d, Pushes, "fetch")
    /\ IF ManifestReadable(d)
         THEN cmd' = [cmd EXCEPT ![d].phase = "next", ![d].man = manifest.heads]
         ELSE End(d)
    /\ UNCHANGED <<engineVars, local, state, conflicts, resolved, backups, edits, resolves>>

(* The session is as it was last synchronized and so is its remote head.   *)
Unchanged(d, s) ==
    /\ cmd[d].mem[s].remote # 0
    /\ cmd[d].mem[s].remote = cmd[d].man[s]
    /\ cmd[d].mem[s].local = local[d][s]

PushSkip(d) ==
    /\ At(d, Pushes, "next")
    /\ \E s \in cmd[d].todo : Unchanged(d, s) /\ NextSession(d, s, cmd[d].mem)
    /\ UNCHANGED <<engineVars, local, state, conflicts, resolved, backups, edits, resolves>>

(* sessionRevision: the hash that state.json will remember.                *)
PushHash(d) ==
    /\ At(d, Pushes, "next")
    /\ \E s \in cmd[d].todo :
          /\ ~Unchanged(d, s)
          /\ cmd' = [cmd EXCEPT ![d].phase = "export", ![d].cur = s, ![d].hash = local[d][s]]
    /\ UNCHANGED <<engineVars, local, state, conflicts, resolved, backups, edits, resolves>>

(* Export reads the file once more; PushSession starts from the export.    *)
PushExport(d) ==
    /\ At(d, Pushes, "export")
    /\ Begin(d, Cur(d), local[d][Cur(d)], cmd[d].mem[Cur(d)].remote)
    /\ cmd' = [cmd EXCEPT ![d].phase = "call"]
    /\ UNCHANGED <<local, state, conflicts, resolved, backups, edits, resolves>>

(* A request of the PushSession that a command waits for.                  *)
CallStep(d) ==
    /\ Step(d) \/ Misfortune(d)
    /\ UNCHANGED deviceVars

(* The upload is noted in memory; state.json is written at the end.        *)
PushUploaded(d) ==
    /\ At(d, Pushes, "call")
    /\ call[d].pc = "ok"
    /\ Return(d)
    /\ NextSession(d, Cur(d), [cmd[d].mem EXCEPT ![Cur(d)] =
                                  [local |-> cmd[d].hash, remote |-> call[d].id]])
    /\ UNCHANGED <<local, state, conflicts, resolved, backups, edits, resolves>>

(* Any other error ends the command at once, before SaveState.             *)
PushFailed(d) ==
    /\ At(d, Pushes, "call")
    /\ call[d].pc = "error"
    /\ Return(d)
    /\ End(d)
    /\ UNCHANGED <<local, state, conflicts, resolved, backups, edits, resolves>>

PushRefused(d) ==
    /\ At(d, Pushes, "call")
    /\ call[d].pc = "conflict"
    /\ Return(d)
    /\ cmd' = [cmd EXCEPT ![d].phase = "record"]
    /\ UNCHANGED <<local, state, conflicts, resolved, backups, edits, resolves>>

(* ErrConflict: fetch the manifest again and record the divergence between *)
(* the hash and the head.  When that fetch fails the head is left empty.   *)
PushRecord(d) ==
    /\ At(d, Pushes, "record")
    /\ \/ SaveConflict(d, Cur(d), cmd[d].hash, RemoteHead(Cur(d))) /\ UNCHANGED engineVars
       \/ SaveConflict(d, Cur(d), cmd[d].hash, 0) /\ OtherFault
    /\ AfterConflict(d, Cur(d))
    /\ UNCHANGED <<local, state, resolved, backups, edits, resolves>>

(* SaveState after the last session, for push and for pull.                *)
SaveState(d) ==
    /\ At(d, Pushes \cup Pulls, "next")
    /\ cmd[d].todo = {}
    /\ state' = [state EXCEPT ![d] = cmd[d].mem]
    /\ End(d)
    /\ UNCHANGED <<engineVars, local, conflicts, resolved, backups, edits, resolves>>

-----------------------------------------------------------------------------
(* pull: lock, LoadState.                                                  *)
BeginPull(d, kind) ==
    /\ Start(d, kind)
    /\ \E s \in Sessions :
          /\ kind = "pull --all" => s = NoCall.session
          /\ cmd' = [cmd EXCEPT ![d] = [NoCmd EXCEPT
                 !.kind = kind, !.phase = "fetch", !.cur = s, !.mem = state[d]]]
    /\ UNCHANGED <<engineVars, local, state, conflicts, resolved, backups, edits, resolves>>

(* FetchManifest and Discover.  A session that is here and that an agent   *)
(* has open is to be restored as a fork: which ones, the process check     *)
(* decides.                                                                *)
PullFetch(d) ==
    /\ At(d, Pulls, "fetch")
    /\ LET remote == {s \in Sessions : RemoteHead(s) # 0}
           chosen == IF cmd[d].kind \in Singles THEN remote \cap {Cur(d)} ELSE remote
       IN  IF ManifestReadable(d)
             THEN \E busy \in SUBSET {s \in chosen \cap Present(d) :
                                         Fork("active", s, RemoteHead(s)) \in Sessions} :
                     cmd' = [cmd EXCEPT ![d].phase = "next", ![d].todo = chosen,
                                        ![d].man = manifest.heads, ![d].here = Present(d),
                                        ![d].forks = busy]
             ELSE End(d)
    /\ UNCHANGED <<engineVars, local, state, conflicts, resolved, backups, edits, resolves>>

(* Divergence protection covers a session that was discovered and is not   *)
(* forked.                                                                 *)
Guarded(d, s) == s \in cmd[d].here /\ s \notin cmd[d].forks

(* pull --all has nothing to do for the snapshot this device last synced.  *)
Synced(d, s) ==
    /\ Guarded(d, s)
    /\ cmd[d].kind = "pull --all"
    /\ cmd[d].mem[s].remote = cmd[d].man[s]
    /\ cmd[d].mem[s].local # {}

Diverged(d, s) ==
    /\ Guarded(d, s)
    /\ ~Synced(d, s)
    /\ \/ cmd[d].mem[s] = Unknown
       \/ cmd[d].mem[s].local # local[d][s]

PullSkip(d) ==
    /\ At(d, Pulls, "next")
    /\ \E s \in cmd[d].todo : Synced(d, s) /\ NextSession(d, s, cmd[d].mem)
    /\ UNCHANGED <<engineVars, local, state, conflicts, resolved, backups, edits, resolves>>

PullDiverged(d) ==
    /\ At(d, Pulls, "next")
    /\ \E s \in cmd[d].todo :
          /\ Diverged(d, s)
          /\ SaveConflict(d, s, local[d][s], cmd[d].man[s])
          /\ AfterConflict(d, s)
    /\ UNCHANGED <<engineVars, local, state, resolved, backups, edits, resolves>>

PullSelect(d) ==
    /\ At(d, Pulls, "next")
    /\ \E s \in cmd[d].todo :
          /\ ~Synced(d, s) /\ ~Diverged(d, s)
          /\ cmd' = [cmd EXCEPT ![d].phase = "restore", ![d].cur = s,
                 ![d].target = IF s \in cmd[d].forks
                                 THEN Fork("active", s, cmd[d].man[s]) ELSE s]
    /\ UNCHANGED <<engineVars, local, state, conflicts, resolved, backups, edits, resolves>>

-----------------------------------------------------------------------------
(* A restore, for pull, keep-remote and keep-both.                         *)
Restores == Pulls \cup {"keep-remote", "keep-both"}

(* PullArtifact, PlanRestore.  A fork pull made before is left alone.      *)
ForkExists(d) ==
    /\ cmd[d].kind \in Pulls
    /\ cmd[d].target # Cur(d)
    /\ local[d][cmd[d].target] # {}

RestoreSkipped(d) ==
    /\ At(d, Restores, "restore")
    /\ ForkExists(d)
    /\ NextSession(d, Cur(d), cmd[d].mem)
    /\ UNCHANGED <<engineVars, local, state, conflicts, resolved, backups, edits, resolves>>

(* Restore takes the target's fingerprint and prepares the new file.       *)
RestorePrepare(d) ==
    /\ At(d, Restores, "restore")
    /\ ~ForkExists(d)
    /\ cmd' = [cmd EXCEPT ![d].phase = "backup", ![d].hash = local[d][cmd[d].target]]
    /\ UNCHANGED <<engineVars, local, state, conflicts, resolved, backups, edits, resolves>>

(* A pull that gives up still saves what it restored before (its deferred  *)
(* SaveState); the other commands leave state.json alone.                  *)
GiveUp(d) ==
    /\ End(d)
    /\ state' = IF cmd[d].kind \in Pulls THEN [state EXCEPT ![d] = cmd[d].mem] ELSE state

(* VerifyUnchanged: the file is as it was when its fingerprint was taken.  *)
TargetUnchanged(d) == local[d][cmd[d].target] = cmd[d].hash

RestoreConflicts(d) ==
    /\ At(d, Restores, "backup") \/ At(d, Restores, "verify")
    /\ ~TargetUnchanged(d)
    /\ GiveUp(d)
    /\ UNCHANGED <<engineVars, local, conflicts, resolved, backups, edits, resolves>>

(* A copy of what is about to be replaced, unless nothing is.              *)
RestoreBackup(d) ==
    /\ At(d, Restores, "backup")
    /\ TargetUnchanged(d)
    /\ cmd' = [cmd EXCEPT ![d].phase = "verify"]
    /\ backups' = [backups EXCEPT ![d] = @ \cup
           {[session |-> t, body |-> local[d][t]] : t \in {cmd[d].target} \cap Present(d)}]
    /\ UNCHANGED <<engineVars, local, state, conflicts, resolved, edits, resolves>>

(* VerifyUnchanged once more.                                              *)
RestoreVerify(d) ==
    /\ At(d, Restores, "verify")
    /\ TargetUnchanged(d)
    /\ cmd' = [cmd EXCEPT ![d].phase = "rename"]
    /\ UNCHANGED <<engineVars, local, state, conflicts, resolved, backups, edits, resolves>>

(* PullArtifact: the content of the snapshot the command selected.  Its    *)
(* identity checks pass, since heads are snapshots of their own session    *)
(* (HeadsStored).                                                          *)
PullArtifact(d) == Body(cmd[d].man[Cur(d)])

(* The rename that puts the artifact in place.                             *)
RestoreRename(d) ==
    /\ At(d, Restores, "rename")
    /\ local' = [local EXCEPT ![d][cmd[d].target] = PullArtifact(d)]
    /\ cmd' = [cmd EXCEPT ![d].phase = "hash"]
    /\ UNCHANGED <<engineVars, state, conflicts, resolved, backups, edits, resolves>>

(* Hash the restored file; a fork is not recorded as synchronized.         *)
PullRestored(d) ==
    /\ At(d, Pulls, "hash")
    /\ NextSession(d, Cur(d),
           IF cmd[d].target = Cur(d)
             THEN [cmd[d].mem EXCEPT ![Cur(d)] =
                      [local |-> local[d][Cur(d)], remote |-> cmd[d].man[Cur(d)]]]
             ELSE cmd[d].mem)
    /\ UNCHANGED <<engineVars, local, state, conflicts, resolved, backups, edits, resolves>>

-----------------------------------------------------------------------------
(* conflicts resolve: lock, GetConflict.                                   *)
BeginResolve(d) ==
    /\ resolves < MaxResolves
    /\ \E how \in Resolutions, r \in conflicts[d] :
          /\ Start(d, how)
          /\ how = "keep-both" => r.session \in Originals
          /\ cmd' = [cmd EXCEPT ![d] = [NoCmd EXCEPT
                 !.kind = how, !.phase = IF how = "keep-local" THEN "export" ELSE "fetch",
                 !.cur = r.session, !.target = r.session, !.about = r]]
    /\ resolves' = resolves + 1
    /\ UNCHANGED <<engineVars, local, state, conflicts, resolved, backups, edits>>

(* resolveKeepLocal: export, then publish on top of the current head.      *)
KeepLocalExport(d) ==
    /\ At(d, {"keep-local"}, "export")
    /\ cmd' = [cmd EXCEPT ![d].phase = "fetch", ![d].hash = local[d][Cur(d)]]
    /\ UNCHANGED <<engineVars, local, state, conflicts, resolved, backups, edits, resolves>>

(* FetchManifest: there is one, since there is a conflict with it.         *)
KeepLocalFetch(d) ==
    /\ At(d, {"keep-local"}, "fetch")
    /\ Begin(d, Cur(d), cmd[d].hash, RemoteHead(Cur(d)))
    /\ cmd' = [cmd EXCEPT ![d].phase = "call"]
    /\ UNCHANGED <<local, state, conflicts, resolved, backups, edits, resolves>>

(* The new head is the revision the session is now synchronized with.      *)
KeepLocalPublished(d) ==
    /\ At(d, {"keep-local"}, "call")
    /\ call[d].pc = "ok"
    /\ Return(d)
    /\ cmd' = [cmd EXCEPT ![d].phase = "hash", ![d].man[Cur(d)] = call[d].id]
    /\ UNCHANGED <<local, state, conflicts, resolved, backups, edits, resolves>>

KeepLocalFailed(d) ==
    /\ At(d, {"keep-local"}, "call")
    /\ call[d].pc \in {"conflict", "error"}
    /\ Return(d)
    /\ End(d)
    /\ UNCHANGED <<local, state, conflicts, resolved, backups, edits, resolves>>

(* resolveKeepRemote: the head as it is now, over the session or beside it.*)
KeepRemoteFetch(d) ==
    /\ At(d, {"keep-remote", "keep-both"}, "fetch")
    /\ LET head == RemoteHead(Cur(d)) IN
       IF head # 0
         THEN cmd' = [cmd EXCEPT ![d].phase = "restore", ![d].man = manifest.heads,
                  ![d].target = IF cmd[d].kind = "keep-both"
                                  THEN Fork("remote", Cur(d), head) ELSE Cur(d)]
         ELSE End(d)
    /\ UNCHANGED <<engineVars, local, state, conflicts, resolved, backups, edits, resolves>>

updateSessionState(d, s, revision, remote) ==
    state' = [state EXCEPT ![d][s] = [local |-> revision, remote |-> remote]]

(* Once published or restored: the hash of the file as it is now.          *)
ResolveRecord(d) ==
    /\ At(d, Resolutions, "hash")
    /\ updateSessionState(d, cmd[d].target, local[d][cmd[d].target], cmd[d].man[Cur(d)])
    /\ cmd' = [cmd EXCEPT ![d].phase = "audit"]
    /\ UNCHANGED <<engineVars, local, conflicts, resolved, backups, edits, resolves>>

(* Resolve, once the resolution is applied: the audit file...              *)
ResolveAudit(d) ==
    /\ At(d, Resolutions, "audit")
    /\ resolved' = [resolved EXCEPT ![d] = @ \cup {<<cmd[d].about, cmd[d].kind>>}]
    /\ cmd' = [cmd EXCEPT ![d].phase = "remove"]
    /\ UNCHANGED <<engineVars, local, state, conflicts, backups, edits, resolves>>

(* ...and the removal of the record.                                       *)
ResolveRemove(d) ==
    /\ At(d, Resolutions, "remove")
    /\ conflicts' = [conflicts EXCEPT ![d] = @ \ {cmd[d].about}]
    /\ End(d)
    /\ UNCHANGED <<engineVars, local, state, resolved, backups, edits, resolves>>

-----------------------------------------------------------------------------
(* A request of the command itself fails, or the process check refuses.    *)
CommandFails(d) ==
    /\ cmd[d].phase \in {"fetch", "restore"}
    /\ OtherFault
    /\ GiveUp(d)
    /\ UNCHANGED <<local, conflicts, resolved, backups, edits, resolves>>

(* The process dies.  Its lock expires before the next command starts.     *)
Crash(d) ==
    /\ cmd[d].kind # "none"
    /\ Abandon(d)
    /\ End(d)
    /\ UNCHANGED <<local, state, conflicts, resolved, backups, edits, resolves>>

Push(d) == \/ PushFetch(d) \/ PushSkip(d) \/ PushHash(d) \/ PushExport(d)
           \/ PushUploaded(d) \/ PushFailed(d) \/ PushRefused(d) \/ PushRecord(d)

Pull(d) == \/ PullFetch(d) \/ PullSkip(d) \/ PullDiverged(d) \/ PullSelect(d)
           \/ PullRestored(d)

Restore(d) == \/ RestoreSkipped(d) \/ RestorePrepare(d) \/ RestoreConflicts(d)
              \/ RestoreBackup(d) \/ RestoreVerify(d) \/ RestoreRename(d)

Resolve(d) == \/ KeepLocalExport(d) \/ KeepLocalFetch(d) \/ KeepLocalPublished(d)
              \/ KeepLocalFailed(d) \/ KeepRemoteFetch(d) \/ ResolveRecord(d)
              \/ ResolveAudit(d) \/ ResolveRemove(d)

Progress(d) == \/ Push(d) \/ CallStep(d) \/ SaveState(d)
               \/ Pull(d) \/ Restore(d) \/ Resolve(d)

Next == \E d \in Devices :
            \/ \E s \in Sessions : Edit(d, s)
            \/ \E kind \in Pushes : BeginPush(d, kind)
            \/ \E kind \in Pulls : BeginPull(d, kind)
            \/ BeginResolve(d)
            \/ Progress(d)
            \/ CommandFails(d) \/ Crash(d)

Spec == Init /\ [][Next]_vars

(* A session here has content that no push has uploaded or has recorded as *)
(* a conflict: the daemon is then dirty, and stays so until one does.      *)
Unpushed(d) ==
    \E s \in Present(d) :
        /\ local[d][s] # state[d][s].local
        /\ \A r \in conflicts[d] : r.session = s => r.local # local[d][s]

(* A command that runs goes on.  The daemon pulls again and again, and     *)
(* pushes again as long as there is something to push (see Daemon),        *)
(* whatever happened to the commands before.                               *)
FairSpec == /\ Spec
            /\ \A d \in Devices : /\ WF_vars(Progress(d))
                                  /\ SF_vars(Unpushed(d) /\ BeginPush(d, "push --all"))
                                  /\ SF_vars(BeginPull(d, "pull --all"))
-----------------------------------------------------------------------------
(* Everything the heads of session s have ever contained.                  *)
Published(s) == UNION {Body(chain[s][i]) : i \in 1..Len(chain[s])}

(* The sessions that s is a copy of, made by pull ("active") or by         *)
(* keep-both ("remote").                                                   *)
CopyOf(why, s) == {t \in Sessions : \E n \in Ids : s = Fork(why, t, n)}

(* What the remote history has of s and of what it was copied from.        *)
PublishedFor(s) ==
    UNION {Published(t) : t \in {s} \cup CopyOf("active", s) \cup CopyOf("remote", s)}

(* A pull never takes an edit out of a session file that the remote        *)
(* history does not have: it restores over synchronized content only, and  *)
(* records a conflict otherwise.                                           *)
PullKeepsEdits ==
    \A d \in Devices, s \in Sessions :
        cmd[d].kind \in Pulls => local[d][s] \subseteq local'[d][s] \cup PublishedFor(s)

(* A push never publishes a head that lacks an edit of the head it         *)
(* replaces, whatever crashed, failed or was edited in between: only       *)
(* keep-local, which the user asked for, may do that.  A copy made by      *)
(* keep-both is exempt, because keep-both restores over an earlier one.    *)
PushKeepsEdits ==
    [][\A s \in Sessions, d \in Devices :
          /\ CopyOf("remote", s) = {}
          /\ manifest'.heads[s] # RemoteHead(s)
          /\ RemoteHead(s) # 0
          /\ call'[d] # call[d]
          /\ cmd[d].kind \in Pushes
          => Body(RemoteHead(s)) \subseteq snapshots'[manifest'.heads[s]].body]_vars

(* Nothing an agent wrote is lost: every edit is in a session file, in the *)
(* remote history or in a backup.                                          *)
EditsSurvive ==
    \A e \in 1..edits :
        \/ \E d \in Devices, s \in Sessions : e \in local[d][s]
        \/ \E s \in Sessions : e \in Published(s)
        \/ \E d \in Devices : \E b \in backups[d] : e \in b.body

(* What state.json calls synchronized is stored: the content it remembers  *)
(* is in the snapshot it remembers.  push skips a session on the strength  *)
(* of this, and pull restores over it.                                     *)
SyncedIsStored ==
    \A d \in Devices, s \in Sessions : state[d][s].remote # 0 =>
        /\ state[d][s].remote \in 1..Len(snapshots)
        /\ state[d][s].local \subseteq Body(state[d][s].remote)

(* Every edit is somewhere, and state.json never claims that one is stored *)
(* which is not.                                                           *)
EditsAreSafe == EditsSurvive /\ SyncedIsStored

(* Snapshot n has been the head of s; or of what s is keep-both's copy of, *)
(* since keep-both records the copy under the original's snapshot.         *)
WasHead(s, n) ==
    \E t \in Sessions : InChain(t, n) /\ s \in {t, Fork("remote", t, n)}

(* The revision state.json holds for a session has been that session's     *)
(* head; a push that names any other base can never succeed.               *)
BaseWasHead ==
    \A d \in Devices, s \in Sessions :
        state[d][s].remote # 0 => WasHead(s, state[d][s].remote)

(* What state.json and the manifest name was stored and was a head,        *)
(* whatever fails or crashes in between (push.go:198-230, state.go).       *)
StateConsistent == TypeOK /\ BaseWasHead /\ HeadsStored

New(d) == conflicts'[d] \ conflicts[d]

(* A conflict is never recorded between two copies that are the same.      *)
ConflictsDiffer ==
    [][\A d \in Devices : \A r \in New(d) : r.remote # 0 => r.local # Body(r.remote)]_vars

(* A conflict is recorded only where this device changed the session since *)
(* it last synchronized it.                                                *)
ConflictsNeedLocalChange ==
    [][\A d \in Devices : \A r \in New(d) : r.local # state[d][r.session].local]_vars

(* push --all and pull --all record a conflict only where the remote head  *)
(* is not the one this device last synchronized: an edit since then is the *)
(* next push's business.                                                   *)
ConflictsNeedRemoteChange ==
    [][\A d \in Devices : cmd[d].kind \notin Singles =>
          \A r \in New(d) : r.remote # state[d][r.session].remote]_vars

(* A divergence from a known head that was resolved in favour of one side  *)
(* is not recorded again, by either command, whatever was pushed and pulled*)
(* since.                                                                  *)
SettledStaysSettled ==
    \A d \in Devices : \A r \in New(d), how \in {"keep-local", "keep-remote"} :
        r.remote # 0 /\ CopyOf("remote", r.session) = {} => <<r, how>> \notin resolved[d]

(* What the user decided or wrote outlives the commands: no pull takes an  *)
(* edit away and none asks again about a divergence that was settled.      *)
CommandsKeepEdits == [][PullKeepsEdits /\ SettledStaysSettled]_vars

(* A divergence that was resolved in any way is not recorded again.        *)
ResolvedStaysResolved ==
    [][\A d \in Devices : \A r \in New(d), how \in Resolutions :
          <<r, how>> \notin resolved[d]]_vars

(* A device has what the manifest names, or has told its user that it does *)
(* not: there is a record of exactly this content against this head.       *)
SyncedOrSurfaced(d, s) ==
    \/ RemoteHead(s) # 0 /\ local[d][s] = Body(RemoteHead(s))
    \/ [session |-> s, local |-> local[d][s], remote |-> RemoteHead(s)] \in conflicts[d]

(* With pushes and pulls running again and again, every session an agent   *)
(* wrote ends up on every device with the head's content, or as a conflict *)
(* the user can see; no edit is left behind in between.                    *)
Converges ==
    \A s \in Originals : \A d \in Devices :
        <>[]((\A e \in Devices : local[e][s] = {}) \/ SyncedOrSurfaced(d, s))
=============================================================================
