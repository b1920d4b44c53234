----------------------------- MODULE SyncEngine -----------------------------
(***************************************************************************)
(* The sync engine (internal/sync/push.go) over the object store that all  *)
(* devices share.  The store holds immutable snapshots and one manifest,   *)
(* which names the head snapshot of every session and is replaced only by  *)
(* conditional writes.  PushSession is a sequence of store requests; the   *)
(* requests of other devices fall between them.                            *)
(*                                                                         *)
(* A snapshot's uuid is its place in the sequence `snapshots`, a payload   *)
(* is a member of Bodies, and the manifest's entity tag is the number of   *)
(* times it was written (0: there is no manifest.age yet).                 *)
(***************************************************************************)
EXTENDS Naturals, Sequences

CONSTANTS Devices,             \* devices that share the profile
          Joined,              \* the ones with RequireRemoteManifest set
          Sessions,            \* session keys
          Bodies,              \* exported session payloads
          MaxManifestRetries,  \* attempts of updateManifest (4 in the code)
          MaxSnapshots,        \* bound: what the bucket's quota admits
          MaxFaults            \* bound: storage requests that go wrong

ASSUME SyncEngineAssumption ==
    /\ Joined \subseteq Devices
    /\ Sessions # {} /\ Bodies # {}
    /\ MaxManifestRetries \in Nat \ {0}
    /\ MaxSnapshots \in Nat
    /\ MaxFaults \in Nat

VARIABLES snapshots,  \* envelopes stored under snapshots/, by id
          manifest,   \* manifest.age: its entity tag and the sessions' heads
          call,       \* call[d]: the PushSession that runs on d
          chain,      \* history: chain[s], every head s has had, oldest first
          faults      \* requests that went wrong so far

engineVars == <<snapshots, manifest, call, chain, faults>>

(* Session heads: 0 where the manifest has no entry.                       *)
RemoteHead(s) == manifest.heads[s]

NoHeads == [s \in Sessions |-> 0]

(* Snapshot ids; 0 is the empty string the code has where there is none.   *)
Ids == 0..MaxSnapshots

Envelopes == [session : Sessions, body : Bodies, parent : Ids]

Manifests == [etag : Nat, heads : [Sessions -> Ids]]

CallPhases == {"idle", "load", "put", "reload", "save", "ok", "conflict", "error"}

Calls == [pc : CallPhases, session : Sessions, body : Bodies, base : Ids,
          parent : Ids, id : Ids, attempt : Nat, seen : Manifests]

NoCall == [pc |-> "idle", session |-> CHOOSE s \in Sessions : TRUE,
           body |-> CHOOSE b \in Bodies : TRUE, base |-> 0, parent |-> 0,
           id |-> 0, attempt |-> 0, seen |-> [etag |-> 0, heads |-> NoHeads]]

Running(d) == call[d].pc \in {"load", "put", "reload", "save"}

Returned(d) == call[d].pc \in {"ok", "conflict", "error"}

(* What each variable of the engine may hold; a manifest never written has *)
(* no heads.                                                               *)
EngineTypeOK ==
    /\ snapshots \in Seq(Envelopes)
    /\ Len(snapshots) <= MaxSnapshots
    /\ manifest \in Manifests
    /\ manifest.etag = 0 => manifest.heads = NoHeads
    /\ call \in [Devices -> Calls]
    /\ chain \in [Sessions -> Seq(Ids)]
    /\ faults \in 0..MaxFaults

EngineInit ==
    /\ snapshots = <<>>
    /\ manifest = [etag |-> 0, heads |-> NoHeads]
    /\ call = [d \in Devices |-> NoCall]
    /\ chain = [s \in Sessions |-> <<>>]
    /\ faults = 0

(* engineFromConfig: a device that joined an existing profile requires its *)
(* manifest.  So does one whose state.json names revisions, but then there *)
(* has been a manifest, and nothing removes it.                            *)
RequireRemoteManifest(d) == d \in Joined

(* loadManifest: where a manifest is required an absent one is an error,   *)
(* elsewhere it reads as an empty manifest.                                *)
ManifestReadable(d) == manifest.etag # 0 \/ ~RequireRemoteManifest(d)

-----------------------------------------------------------------------------
(* Mistakes PushSession and updateManifest could make: the manifest moved  *)
(* before the upload is complete, a retry that does not look at the head   *)
(* again, a write without If-Match, an unchecked base, a lost race that is *)
(* retried from the stale copy without being counted, a manifest written   *)
(* with the new entry only.                                                *)
PutAfterInstall(d) ==
    /\ call[d].pc = "put"
    /\ call' = [call EXCEPT ![d].pc = "reload", ![d].id = Len(snapshots) + 1]
    /\ UNCHANGED <<snapshots, manifest, chain, faults>>

LoadManifestBlindly(d) ==
    /\ call[d].pc = "reload"
    /\ call' = [call EXCEPT ![d].seen = manifest,
                            ![d].pc = IF ManifestReadable(d) THEN "save" ELSE "error"]
    /\ UNCHANGED <<snapshots, manifest, chain, faults>>

AlwaysAccepted(d) == d \in Devices

RetriedFromStale(d) == [call[d] EXCEPT !.attempt = @, !.pc = "save"]

-----------------------------------------------------------------------------
(* The store.  A conditional write of the manifest is accepted when the    *)
(* copy it was made from is still the current one: If-Match with the tag   *)
(* read, or If-None-Match when there was no manifest to read.              *)
Accepted(d) == call[d].seen.etag = manifest.etag

(* The copy the call read, with the new snapshot as its session's head.    *)
Proposed(d) == [call[d].seen.heads EXCEPT ![call[d].session] = call[d].id]

Install(d) ==
    IF Accepted(d)
      THEN /\ manifest' = [etag |-> manifest.etag + 1, heads |-> Proposed(d)]
           /\ chain' = [chain EXCEPT ![call[d].session] = Append(@, call[d].id)]
      ELSE UNCHANGED <<manifest, chain>>

(* Store the encrypted envelope under a fresh uuid.                        *)
Upload(d) ==
    snapshots' = Append(snapshots, [session |-> call[d].session,
                                    body    |-> call[d].body,
                                    parent  |-> call[d].parent])

-----------------------------------------------------------------------------
Failed(d) == call' = [call EXCEPT ![d].pc = "error"]

(* PushSession, up to its first request.  The caller names the head it     *)
(* last synchronized with; the payload is exported and hashed already.     *)
Begin(d, s, b, base) ==
    /\ call[d].pc = "idle"
    /\ call' = [call EXCEPT ![d] = [NoCall EXCEPT !.pc = "load", !.session = s,
                                                  !.body = b, !.base = base]]
    /\ UNCHANGED <<snapshots, manifest, chain, faults>>

(* After a read of the manifest: an error, ErrConflict when the session's  *)
(* head is not the expected one, or on to the next request.                *)
Verdict(d, expected, next) ==
    IF ~ManifestReadable(d) THEN "error"
    ELSE IF RemoteHead(call[d].session) # expected THEN "conflict" ELSE next

(* Load the manifest and take its head as the parent of the new snapshot.  *)
(* ErrConflict when it is not the base the caller expects.                 *)
LoadParent(d) ==
    /\ call[d].pc = "load"
    /\ call' = [call EXCEPT
           ![d].parent = RemoteHead(call[d].session),
           ![d].pc = Verdict(d, call[d].base, "put")]
    /\ UNCHANGED <<snapshots, manifest, chain, faults>>

(* Put of the snapshot, IfNoneMatch.                                       *)
PutSnapshot(d) ==
    /\ call[d].pc = "put"
    /\ Len(snapshots) < MaxSnapshots
    /\ Upload(d)
    /\ call' = [call EXCEPT ![d].pc = "reload", ![d].id = Len(snapshots) + 1]
    /\ UNCHANGED <<manifest, chain, faults>>

(* The store refuses the upload because the bucket is full.                *)
PutRefused(d) ==
    /\ call[d].pc = "put"
    /\ Len(snapshots) = MaxSnapshots
    /\ Failed(d)
    /\ UNCHANGED <<snapshots, manifest, chain, faults>>

(* One round of updateManifest: load the manifest again, stop with         *)
(* ErrConflict when the session's head is no longer the parent...          *)
LoadManifest(d) ==
    /\ call[d].pc = "reload"
    /\ call' = [call EXCEPT
           ![d].seen = manifest,
           ![d].pc = Verdict(d, call[d].parent, "save")]
    /\ UNCHANGED <<snapshots, manifest, chain, faults>>

(* The next round, or ErrConflict after MaxManifestRetries of them.        *)
Retried(d) ==
    [call[d] EXCEPT !.attempt = @ + 1,
                    !.pc = IF call[d].attempt + 1 < MaxManifestRetries
                             THEN "reload" ELSE "conflict"]

(* ...and write it back on the condition that nobody wrote it in between.  *)
SaveManifest(d) ==
    /\ call[d].pc = "save"
    /\ Install(d)
    /\ call' = [call EXCEPT ![d] = IF Accepted(d) THEN [call[d] EXCEPT !.pc = "ok"]
                                                  ELSE Retried(d)]
    /\ UNCHANGED <<snapshots, faults>>

(* The caller takes the result.                                            *)
Return(d) ==
    /\ Returned(d)
    /\ call' = [call EXCEPT ![d] = NoCall]
    /\ UNCHANGED <<snapshots, manifest, chain, faults>>

-----------------------------------------------------------------------------
Fault == faults < MaxFaults /\ faults' = faults + 1

(* A read of the manifest fails.                                           *)
LoadFails(d) ==
    /\ call[d].pc \in {"load", "reload"}
    /\ Fault /\ Failed(d)
    /\ UNCHANGED <<snapshots, manifest, chain>>

(* The upload fails: nothing was stored, or it was and the answer was lost *)
(* (a resend is then refused by IfNoneMatch, which is an error as well).   *)
PutFails(d) ==
    /\ call[d].pc = "put"
    /\ Fault /\ Failed(d)
    /\ \/ Len(snapshots) < MaxSnapshots /\ Upload(d)
       \/ UNCHANGED snapshots
    /\ UNCHANGED <<manifest, chain>>

(* The manifest write fails, before or after it took effect.               *)
SaveFails(d) ==
    /\ call[d].pc = "save"
    /\ Fault /\ Failed(d)
    /\ Install(d) \/ UNCHANGED <<manifest, chain>>
    /\ UNCHANGED snapshots

(* The write takes effect, its answer is lost, and the S3 client sends it  *)
(* again: the resent write meets the tag of the first and is refused.      *)
SaveResent(d) ==
    /\ call[d].pc = "save"
    /\ Accepted(d)
    /\ Fault
    /\ Install(d)
    /\ call' = [call EXCEPT ![d] = Retried(d)]
    /\ UNCHANGED snapshots

(* The process dies, with or without a call under way.                     *)
Abandon(d) ==
    /\ Fault
    /\ call' = [call EXCEPT ![d] = NoCall]
    /\ UNCHANGED <<snapshots, manifest, chain>>

(* A request outside PushSession fails.                                    *)
OtherFault ==
    /\ Fault
    /\ UNCHANGED <<snapshots, manifest, call, chain>>

Step(d) == \/ LoadParent(d) \/ PutSnapshot(d) \/ PutRefused(d)
           \/ LoadManifest(d) \/ SaveManifest(d)

Misfortune(d) == LoadFails(d) \/ PutFails(d) \/ SaveFails(d) \/ SaveResent(d)

EngineNext ==
    \E d \in Devices :
        \/ \E s \in Sessions, b \in Bodies, base \in Ids : Begin(d, s, b, base)
        \/ Step(d)
        \/ Misfortune(d)
        \/ Return(d)
        \/ Abandon(d)
        \/ OtherFault

EngineSpec == EngineInit /\ [][EngineNext]_engineVars

(* Requests are answered or time out, so a call that runs goes on.         *)
FairEngineSpec == EngineSpec /\ \A d \in Devices : WF_engineVars(Step(d))

-----------------------------------------------------------------------------
(* The manifest never runs ahead of the snapshots: every head it names is  *)
(* stored, and is a snapshot of the session it is the head of.  PushSession*)
(* uploads first and points the manifest at the upload second.             *)
HeadsStored ==
    \A s \in Sessions : RemoteHead(s) # 0 =>
        /\ RemoteHead(s) \in 1..Len(snapshots)
        /\ snapshots[RemoteHead(s)].session = s

(* No lost update: a session's head never goes, and is only ever replaced  *)
(* by a snapshot whose parent is the head it replaces, whichever devices   *)
(* raced.                                                                  *)
LinearHistory ==
    [][\A s \in Sessions :
          manifest'.heads[s] # RemoteHead(s) =>
              /\ manifest'.heads[s] # 0
              /\ snapshots'[manifest'.heads[s]].parent = RemoteHead(s)]_engineVars

(* The heads a session has had form one unbroken parent chain, so every    *)
(* snapshot ever acknowledged can be reached from the current head.        *)
ChainLinked ==
    \A s \in Sessions : \A i \in 1..Len(chain[s]) :
        /\ chain[s][i] \in 1..Len(snapshots)
        /\ snapshots[chain[s][i]].session = s
        /\ snapshots[chain[s][i]].parent = IF i = 1 THEN 0 ELSE chain[s][i - 1]

(* An acknowledged push is in the history of its session, directly on top  *)
(* of the base its caller named.                                           *)
AckedOnBase ==
    \A d \in Devices : call[d].pc = "ok" =>
        \E i \in 1..Len(chain[call[d].session]) :
            /\ chain[call[d].session][i] = call[d].id
            /\ call[d].base = IF i = 1 THEN 0 ELSE chain[call[d].session][i - 1]

(* Every call ends, however often other devices win the manifest.          *)
CallsEnd == \A d \in Devices : Running(d) ~> ~Running(d)
-----------------------------------------------------------------------------
(* The engine seen as AtomicPush: a push has taken effect once its         *)
(* snapshot is in the session's chain of heads.                            *)
InChain(s, n) == \E i \in 1..Len(chain[s]) : chain[s][i] = n

ClientPhase(d) ==
    CASE call[d].pc = "idle" -> "idle"
      [] Running(d) -> IF InChain(call[d].session, call[d].id) THEN "published" ELSE "asked"
      [] call[d].pc = "ok" -> "ok"
      [] OTHER -> "refused"

Client == [d \in Devices |-> [phase   |-> ClientPhase(d),
                              session |-> call[d].session,
                              base    |-> call[d].base]]

Atomic == INSTANCE AtomicPush
              WITH Ids <- 1..MaxSnapshots, history <- chain, client <- Client

(* PushSession with its uploads, conditional writes, retries and lost      *)
(* answers implements the atomic push.                                     *)
ImplementsAtomicPush == Atomic!Spec

=============================================================================
