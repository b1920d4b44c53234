-------------------------- MODULE DeviceSyncProofs --------------------------
(* Proofs about the sync engine and about the commands push, pull and      *)
(* conflicts resolve that run on it, for every number of devices, sessions,*)
(* edits, snapshots, retries, resolutions and faults.                      *)
EXTENDS DeviceSync, TLAPS

(***************************************************************************)
(* The engine                                                              *)
(***************************************************************************)

(* Why no update is lost.  The copy of the manifest a call read is the     *)
(* current one whenever the tags agree...                                  *)
CopyHonest ==
    \A d \in Devices :
        /\ call[d].seen.etag <= manifest.etag
        /\ call[d].seen.etag = manifest.etag => call[d].seen.heads = manifest.heads

(* ...the snapshot it will install is stored and has the base as parent... *)
UploadReady ==
    \A d \in Devices :
        /\ call[d].pc = "idle" => call[d] = NoCall
        /\ call[d].pc \in {"load", "put"} => call[d].id = 0
        /\ call[d].pc \in {"put", "reload", "save"} =>
               call[d].parent = call[d].base /\ call[d].parent <= Len(snapshots)
        /\ call[d].pc \in {"reload", "save"} =>
               /\ call[d].id \in 1..Len(snapshots)
               /\ call[d].parent < call[d].id
               /\ snapshots[call[d].id].session = call[d].session
               /\ snapshots[call[d].id].parent = call[d].parent
        /\ call[d].pc = "save" => call[d].seen.heads[call[d].session] = call[d].parent

(* ...no other call has that snapshot...                                   *)
UploadsDistinct ==
    \A d, e \in Devices :
        /\ call[d].pc \in {"reload", "save"}
        /\ call[e].pc \in {"reload", "save"}
        /\ call[d].id = call[e].id
        => d = e

(* ...and the head is the last entry of the session's history and the      *)
(* newest.                                                                 *)
HeadIsTip ==
    \A s \in Sessions :
        /\ RemoteHead(s) = IF Len(chain[s]) = 0 THEN 0 ELSE chain[s][Len(chain[s])]
        /\ \A i \in 1..Len(chain[s]) : chain[s][i] <= RemoteHead(s)

EngineInv == /\ EngineTypeOK
             /\ CopyHonest
             /\ UploadReady
             /\ UploadsDistinct
             /\ HeadIsTip
             /\ ChainLinked
             /\ AckedOnBase

-----------------------------------------------------------------------------
(* NoCall is a call; it exists because there are sessions and payloads.    *)
LEMMA NoCallType ==
  /\ NoCall \in Calls
  /\ NoCall.pc = "idle" /\ NoCall.id = 0 /\ NoCall.base = 0
  /\ NoCall.seen = [etag |-> 0, heads |-> NoHeads]
<1>1. PICK s \in Sessions : s = CHOOSE t \in Sessions : TRUE
  BY SyncEngineAssumption
<1>2. PICK b \in Bodies : b = CHOOSE c \in Bodies : TRUE
  BY SyncEngineAssumption
<1>3. 0 \in Ids /\ NoHeads \in [Sessions -> Ids]
  BY SyncEngineAssumption DEF Ids, NoHeads
<1>4. NoCall = [pc |-> "idle", session |-> s, body |-> b, base |-> 0, parent |-> 0,
                id |-> 0, attempt |-> 0, seen |-> [etag |-> 0, heads |-> NoHeads]]
  BY <1>1, <1>2 DEF NoCall
<1> QED BY <1>3, <1>4 DEF Calls, CallPhases, Manifests

(* What the retry of a call is.                                            *)
LEMMA RetriedType ==
  ASSUME EngineTypeOK, NEW d \in Devices
  PROVE  /\ Retried(d) \in Calls
         /\ Retried(d).pc \in {"reload", "conflict"}
         /\ \E n \in Nat, ph \in CallPhases :
                Retried(d) = [call[d] EXCEPT !.attempt = n, !.pc = ph]
<1>1. call[d] \in Calls
  BY DEF EngineTypeOK
<1>2. PICK n \in Nat : n = call[d].attempt + 1
  BY <1>1 DEF Calls
<1>3. PICK ph \in {"reload", "conflict"} :
          ph = IF call[d].attempt + 1 < MaxManifestRetries THEN "reload" ELSE "conflict"
  OBVIOUS
<1>4. Retried(d) = [call[d] EXCEPT !.attempt = n, !.pc = ph]
  BY <1>1, <1>2, <1>3 DEF Retried, Calls
<1>5. ph \in CallPhases
  BY DEF CallPhases
<1> QED BY <1>1, <1>4, <1>5 DEF Calls

(* The read of the manifest ends in an error, a conflict or goes on.       *)
LEMMA VerdictCases ==
  ASSUME NEW d \in Devices, NEW x, NEW y
  PROVE  \/ Verdict(d, x, y) \in {"error", "conflict"}
         \/ Verdict(d, x, y) = y /\ RemoteHead(call[d].session) = x
  BY DEF Verdict

(* An empty store with idle devices satisfies the invariant.               *)
LEMMA InitEngineInv == EngineInit => EngineInv
<1> SUFFICES ASSUME EngineInit PROVE EngineInv
  OBVIOUS
<1> USE SyncEngineAssumption, NoCallType
<1>1. EngineTypeOK
  <2>1. manifest \in Manifests /\ faults \in 0..MaxFaults
    BY DEF EngineInit, Manifests, NoHeads, Ids
  <2> QED BY <2>1 DEF EngineInit, EngineTypeOK
<1>2. CopyHonest
  <2>1. \A d \in Devices : call[d].seen = manifest
    BY DEF EngineInit
  <2>2. manifest.etag <= manifest.etag
    BY DEF EngineInit
  <2> QED BY <2>1, <2>2 DEF CopyHonest
<1>3. UploadReady /\ UploadsDistinct /\ AckedOnBase
  BY DEF EngineInit, UploadReady, UploadsDistinct, AckedOnBase
<1>4. HeadIsTip /\ ChainLinked
  BY DEF EngineInit, HeadIsTip, ChainLinked, RemoteHead, NoHeads
<1> QED BY <1>1, <1>2, <1>3, <1>4 DEF EngineInv

-----------------------------------------------------------------------------
(* A manifest write keeps the types of the manifest and of the histories,  *)
(* whether the store accepts it or not.                                    *)
LEMMA InstallType ==
  ASSUME EngineTypeOK, NEW d \in Devices, Install(d)
  PROVE  /\ manifest' \in Manifests
         /\ manifest'.etag = 0 => manifest'.heads = NoHeads
         /\ chain' \in [Sessions -> Seq(Ids)]
<1>1. call[d] \in Calls
  BY DEF EngineTypeOK
<1>2. call[d].session \in Sessions /\ call[d].id \in Ids /\ call[d].seen \in Manifests
  BY <1>1 DEF Calls
<1>3. CASE Accepted(d)
  <2>1. Proposed(d) \in [Sessions -> Ids]
    BY <1>2 DEF Proposed, Manifests
  <2>2. manifest.etag + 1 \in Nat \ {0}
    BY DEF EngineTypeOK, Manifests
  <2>3. Append(chain[call[d].session], call[d].id) \in Seq(Ids)
    BY <1>2 DEF EngineTypeOK
  <2>4. manifest' = [etag |-> manifest.etag + 1, heads |-> Proposed(d)]
    BY <1>3 DEF Install
  <2>5. manifest' \in Manifests /\ manifest'.etag # 0
    BY <2>1, <2>2, <2>4 DEF Manifests
  <2>6. chain' \in [Sessions -> Seq(Ids)]
    BY <1>2, <1>3, <2>3 DEF Install, EngineTypeOK
  <2> QED BY <2>5, <2>6
<1>4. CASE ~Accepted(d)
  BY <1>4 DEF Install, EngineTypeOK
<1> QED BY <1>3, <1>4

(* An upload appends one envelope, the call's, and keeps the others.          *)
LEMMA UploadType ==
  ASSUME EngineTypeOK, NEW d \in Devices, Upload(d), Len(snapshots) < MaxSnapshots
  PROVE  /\ snapshots' \in Seq(Envelopes)
         /\ Len(snapshots') = Len(snapshots) + 1
         /\ Len(snapshots') <= MaxSnapshots
         /\ Len(snapshots) + 1 \in Ids
         /\ \A i \in 1..Len(snapshots) : snapshots'[i] = snapshots[i]
         /\ snapshots'[Len(snapshots) + 1] = [session |-> call[d].session,
                                              body    |-> call[d].body,
                                              parent  |-> call[d].parent]
<1>1. call[d] \in Calls
  BY DEF EngineTypeOK
<1>2. [session |-> call[d].session, body |-> call[d].body, parent |-> call[d].parent]
          \in Envelopes
  BY <1>1 DEF Calls, Envelopes
<1> QED BY <1>2, SyncEngineAssumption DEF Upload, EngineTypeOK, Ids

(* An error or the end of a call, as it leaves the calls.                  *)
LEMMA FailedType ==
  ASSUME EngineTypeOK, NEW d \in Devices, Failed(d)
  PROVE  call' \in [Devices -> Calls]
  BY DEF EngineTypeOK, Failed, Calls, CallPhases

(* Every step keeps the types.                                             *)
LEMMA NextEngineTypeOK == EngineTypeOK /\ [EngineNext]_engineVars => EngineTypeOK'
<1> SUFFICES ASSUME EngineTypeOK, [EngineNext]_engineVars
             PROVE  EngineTypeOK'
  OBVIOUS
<1> USE SyncEngineAssumption
<1>0. ASSUME Fault PROVE faults' \in 0..MaxFaults
  BY <1>0 DEF Fault, EngineTypeOK
<1>1. ASSUME NEW d \in Devices, NEW s \in Sessions, NEW b \in Bodies, NEW base \in Ids,
             Begin(d, s, b, base)
      PROVE  EngineTypeOK'
  <2>1. [NoCall EXCEPT !.pc = "load", !.session = s, !.body = b, !.base = base] \in Calls
    BY NoCallType DEF Calls, CallPhases
  <2> QED BY <1>1, <2>1 DEF Begin, EngineTypeOK
<1>2. ASSUME NEW d \in Devices, LoadParent(d) PROVE EngineTypeOK'
  <2>1. Verdict(d, call[d].base, "put") \in CallPhases
    BY VerdictCases DEF CallPhases
  <2>2. RemoteHead(call[d].session) \in Ids
    BY DEF RemoteHead, EngineTypeOK, Manifests, Calls
  <2>3. call' \in [Devices -> Calls]
    <3>1. PICK k : k = [call[d] EXCEPT !.parent = RemoteHead(call[d].session),
                                       !.pc = Verdict(d, call[d].base, "put")]
      OBVIOUS
    <3>2. call \in [Devices -> Calls] /\ call[d] \in Calls
      BY DEF EngineTypeOK
    <3>3. k \in Calls
      BY <2>1, <2>2, <3>1, <3>2, Zenon DEF Calls
    <3>4. call' = [call EXCEPT ![d] = k]
      BY <1>2, <3>1, Zenon DEF LoadParent
    <3> QED BY <3>2, <3>3, <3>4
  <2> QED BY <1>2, <2>3 DEF LoadParent, EngineTypeOK
<1>3. ASSUME NEW d \in Devices, PutSnapshot(d) PROVE EngineTypeOK'
  <2>1. Len(snapshots) + 1 \in Ids /\ "reload" \in CallPhases
    BY <1>3, UploadType DEF PutSnapshot, CallPhases
  <2>2. call' \in [Devices -> Calls]
    <3>1. PICK k : k = [call[d] EXCEPT !.pc = "reload", !.id = Len(snapshots) + 1]
      OBVIOUS
    <3>2. call \in [Devices -> Calls] /\ call[d] \in Calls
      BY DEF EngineTypeOK
    <3>3. k \in Calls
      BY <2>1, <3>1, <3>2, Zenon DEF Calls
    <3>4. call' = [call EXCEPT ![d] = k]
      BY <1>3, <3>1, Zenon DEF PutSnapshot
    <3> QED BY <3>2, <3>3, <3>4
  <2>3. snapshots' \in Seq(Envelopes) /\ Len(snapshots') <= MaxSnapshots
    BY <1>3, UploadType DEF PutSnapshot
  <2> QED BY <1>3, <2>2, <2>3 DEF PutSnapshot, EngineTypeOK
<1>4. ASSUME NEW d \in Devices, PutRefused(d) PROVE EngineTypeOK'
  BY <1>4, FailedType DEF PutRefused, EngineTypeOK
<1>5. ASSUME NEW d \in Devices, LoadManifest(d) PROVE EngineTypeOK'
  <2>1. Verdict(d, call[d].parent, "save") \in CallPhases
    BY VerdictCases DEF CallPhases
  <2>2. call' \in [Devices -> Calls]
    <3>1. PICK k : k = [call[d] EXCEPT !.seen = manifest,
                                       !.pc = Verdict(d, call[d].parent, "save")]
      OBVIOUS
    <3>2. call \in [Devices -> Calls] /\ call[d] \in Calls /\ manifest \in Manifests
      BY DEF EngineTypeOK
    <3>3. k \in Calls
      BY <2>1, <3>1, <3>2, Zenon DEF Calls
    <3>4. call' = [call EXCEPT ![d] = k]
      BY <1>5, <3>1, Zenon DEF LoadManifest
    <3> QED BY <3>2, <3>3, <3>4
  <2> QED BY <1>5, <2>2 DEF LoadManifest, EngineTypeOK
<1>6. ASSUME NEW d \in Devices, SaveManifest(d) PROVE EngineTypeOK'
  <2>1. [call[d] EXCEPT !.pc = "ok"] \in Calls /\ Retried(d) \in Calls
    BY RetriedType DEF EngineTypeOK, Calls, CallPhases
  <2>2. call' \in [Devices -> Calls]
    BY <1>6, <2>1 DEF SaveManifest, EngineTypeOK
  <2> QED BY <1>6, <2>2, InstallType DEF SaveManifest, EngineTypeOK
<1>7. ASSUME NEW d \in Devices, Return(d) PROVE EngineTypeOK'
  BY <1>7, NoCallType DEF Return, EngineTypeOK
<1>8. ASSUME NEW d \in Devices, LoadFails(d) PROVE EngineTypeOK'
  BY <1>0, <1>8, FailedType DEF LoadFails, EngineTypeOK
<1>9. ASSUME NEW d \in Devices, PutFails(d) PROVE EngineTypeOK'
  <2>1. snapshots' \in Seq(Envelopes) /\ Len(snapshots') <= MaxSnapshots
    <3>1. CASE Len(snapshots) < MaxSnapshots /\ Upload(d)
      BY <3>1, UploadType
    <3>2. CASE UNCHANGED snapshots
      BY <3>2 DEF EngineTypeOK
    <3> QED BY <1>9, <3>1, <3>2 DEF PutFails
  <2> QED BY <1>0, <1>9, <2>1, FailedType DEF PutFails, EngineTypeOK
<1>10. ASSUME NEW d \in Devices, SaveFails(d) PROVE EngineTypeOK'
  <2>1. CASE Install(d)
    BY <1>0, <1>10, <2>1, InstallType, FailedType DEF SaveFails, EngineTypeOK
  <2>2. CASE UNCHANGED <<manifest, chain>>
    BY <1>0, <1>10, <2>2, FailedType DEF SaveFails, EngineTypeOK
  <2> QED BY <1>10, <2>1, <2>2 DEF SaveFails
<1>11. ASSUME NEW d \in Devices, SaveResent(d) PROVE EngineTypeOK'
  <2>1. call' \in [Devices -> Calls]
    BY <1>11, RetriedType DEF SaveResent, EngineTypeOK
  <2> QED BY <1>0, <1>11, <2>1, InstallType DEF SaveResent, EngineTypeOK
<1>12. ASSUME NEW d \in Devices, Abandon(d) PROVE EngineTypeOK'
  BY <1>0, <1>12, NoCallType DEF Abandon, EngineTypeOK
<1>13. CASE OtherFault
  BY <1>0, <1>13 DEF OtherFault, EngineTypeOK
<1>14. CASE UNCHANGED engineVars
  BY <1>14 DEF engineVars, EngineTypeOK
<1> QED BY <1>1, <1>2, <1>3, <1>4, <1>5, <1>6, <1>7, <1>8, <1>9, <1>10, <1>11, <1>12,
           <1>13, <1>14 DEF EngineNext, Step, Misfortune

-----------------------------------------------------------------------------
(* Heads are stored snapshots of their own session.                        *)
LEMMA HeadBounded ==
  ASSUME EngineTypeOK, HeadIsTip, ChainLinked, NEW s \in Sessions
  PROVE  /\ Len(snapshots) \in Nat
         /\ RemoteHead(s) \in 0..Len(snapshots)
         /\ RemoteHead(s) # 0 => snapshots[RemoteHead(s)].session = s
<1>1. Len(snapshots) \in Nat /\ Len(chain[s]) \in Nat
  BY DEF EngineTypeOK
<1>2. CASE Len(chain[s]) = 0
  BY <1>1, <1>2 DEF HeadIsTip
<1>3. CASE Len(chain[s]) # 0
  <2>1. Len(chain[s]) \in 1..Len(chain[s])
    BY <1>1, <1>3
  <2> QED BY <1>1, <1>3, <2>1 DEF HeadIsTip, ChainLinked
<1> QED BY <1>2, <1>3

(* A step that changes nothing but one call keeps the invariant when the   *)
(* call has an honest copy and a snapshot only if it had it before.        *)
LEMMA CallOnlyStep ==
  ASSUME EngineInv, EngineTypeOK', NEW d \in Devices, NEW c \in Calls,
         UNCHANGED <<snapshots, manifest, chain>>,
         call' = [call EXCEPT ![d] = c],
         c.seen \in {call[d].seen, manifest, NoCall.seen},
         c.pc = "idle" => c = NoCall,
         c.pc \in {"load", "put"} => c.id = 0,
         c.pc \in {"put", "reload", "save"} => c.parent = c.base /\ c.parent <= Len(snapshots),
         c.pc \in {"reload", "save"} =>
             /\ call[d].pc \in {"reload", "save"}
             /\ c.id = call[d].id /\ c.session = call[d].session /\ c.parent = call[d].parent,
         c.pc = "save" => c.seen.heads[c.session] = c.parent,
         c.pc # "ok"
  PROVE  EngineInv'
<1>0. /\ EngineTypeOK
      /\ call'[d] = c
      /\ \A e \in Devices : e # d => call'[e] = call[e]
  BY DEF EngineInv, EngineTypeOK
<1>1. CopyHonest'
  <2>1. /\ c.seen.etag <= manifest.etag
        /\ c.seen.etag = manifest.etag => c.seen.heads = manifest.heads
    <3>1. manifest.etag \in Nat
      BY <1>0 DEF EngineTypeOK, Manifests
    <3>2. CASE c.seen = call[d].seen
      BY <3>2 DEF EngineInv, CopyHonest
    <3>3. CASE c.seen = manifest
      BY <3>1, <3>3
    <3>4. CASE c.seen = NoCall.seen
      BY <1>0, <3>1, <3>4, NoCallType DEF EngineTypeOK
    <3> QED BY <3>2, <3>3, <3>4
  <2> QED BY <1>0, <2>1 DEF EngineInv, CopyHonest
<1>2. UploadReady'
  BY <1>0 DEF EngineInv, UploadReady
<1>3. UploadsDistinct'
  BY <1>0 DEF EngineInv, UploadsDistinct
<1>4. HeadIsTip' /\ ChainLinked'
  BY DEF EngineInv, HeadIsTip, ChainLinked, RemoteHead
<1>5. AckedOnBase'
  BY <1>0 DEF EngineInv, AckedOnBase
<1> QED BY <1>1, <1>2, <1>3, <1>4, <1>5 DEF EngineInv

(* The upload of a snapshot keeps it, whether or not the call learns of it.*)
LEMMA UploadStep ==
  ASSUME EngineInv, EngineTypeOK', NEW d \in Devices, call[d].pc = "put",
         Len(snapshots) < MaxSnapshots, Upload(d), UNCHANGED <<manifest, chain>>,
         NEW c, call' = [call EXCEPT ![d] = c],
         \/ c = [call[d] EXCEPT !.pc = "reload", !.id = Len(snapshots) + 1]
         \/ c = [call[d] EXCEPT !.pc = "error"]
  PROVE  EngineInv'
<1>0. /\ EngineTypeOK
      /\ call[d] \in Calls
      /\ call'[d] = c
      /\ c.seen = call[d].seen /\ c.session = call[d].session
      /\ c.parent = call[d].parent /\ c.base = call[d].base
      /\ \/ c.pc = "reload" /\ c.id = Len(snapshots) + 1
         \/ c.pc = "error"
      /\ \A e \in Devices : e # d => call'[e] = call[e]
  BY DEF EngineInv, EngineTypeOK, Calls
<1>1. /\ Len(snapshots) \in Nat
      /\ Len(snapshots') = Len(snapshots) + 1
      /\ \A i \in 1..Len(snapshots) : snapshots'[i] = snapshots[i]
      /\ snapshots'[Len(snapshots) + 1].session = call[d].session
      /\ snapshots'[Len(snapshots) + 1].parent = call[d].parent
  <2>1. Len(snapshots) \in Nat
    BY <1>0 DEF EngineTypeOK
  <2>2. /\ Len(snapshots') = Len(snapshots) + 1
        /\ \A i \in 1..Len(snapshots) : snapshots'[i] = snapshots[i]
        /\ snapshots'[Len(snapshots) + 1] = [session |-> call[d].session,
                                             body    |-> call[d].body,
                                             parent  |-> call[d].parent]
    BY <1>0, UploadType, Zenon
  <2> QED BY <2>1, <2>2
<1>2. CopyHonest'
  BY <1>0 DEF EngineInv, CopyHonest
<1>3. UploadReady'
  <2>1. call[d].parent = call[d].base /\ call[d].parent \in Ids
        /\ call[d].parent <= Len(snapshots)
    BY <1>0 DEF EngineInv, UploadReady, Calls
  <2>2. ASSUME NEW e \in Devices, e # d PROVE call'[e] = call[e] /\ call[e] \in Calls
    BY <1>0, <2>2 DEF EngineTypeOK
  <2>3. ASSUME NEW e \in Devices, e # d
        PROVE  /\ call[e].pc \in {"put", "reload", "save"} => call[e].parent <= Len(snapshots')
               /\ call[e].pc \in {"reload", "save"} =>
                     /\ call[e].id \in 1..Len(snapshots')
                     /\ snapshots'[call[e].id] = snapshots[call[e].id]
    BY <1>1, <2>2, <2>3 DEF EngineInv, UploadReady, Calls, Ids
  <2> QED BY <1>0, <1>1, <2>1, <2>2, <2>3 DEF EngineInv, UploadReady, Ids
<1>4. UploadsDistinct'
  <2>1. \A e \in Devices : call[e].pc \in {"reload", "save"} => call[e].id # Len(snapshots) + 1
    BY <1>1 DEF EngineInv, UploadReady
  <2> QED BY <1>0, <2>1 DEF EngineInv, UploadsDistinct
<1>5. HeadIsTip' /\ AckedOnBase'
  BY <1>0 DEF EngineInv, HeadIsTip, RemoteHead, AckedOnBase
<1>6. ChainLinked'
  BY <1>1 DEF EngineInv, ChainLinked
<1> QED BY <1>2, <1>3, <1>4, <1>5, <1>6 DEF EngineInv

(* An accepted manifest write: the copy was current, so the session's head *)
(* was the parent and the base, older than the new snapshot, and nothing   *)
(* but that head changes.                                                  *)
LEMMA AcceptedWrite ==
  ASSUME EngineInv, NEW d \in Devices, call[d].pc = "save", Accepted(d), Install(d),
         NEW s, s = call[d].session, NEW n, n = call[d].id
  PROVE  /\ s \in Sessions /\ n \in 1..Len(snapshots) /\ Len(snapshots) \in Nat
         /\ RemoteHead(s) = call[d].parent /\ RemoteHead(s) = call[d].base
         /\ RemoteHead(s) \in Nat /\ RemoteHead(s) < n
         /\ snapshots[n].session = s /\ snapshots[n].parent = RemoteHead(s)
         /\ manifest' = [etag |-> manifest.etag + 1, heads |-> [manifest.heads EXCEPT ![s] = n]]
         /\ RemoteHead(s)' = n
         /\ \A t \in Sessions : t # s => RemoteHead(t)' = RemoteHead(t)
         /\ chain' = [chain EXCEPT ![s] = Append(chain[s], n)]
<1>0. EngineTypeOK /\ call[d] \in Calls
  BY DEF EngineInv, EngineTypeOK
<1>1. s \in Sessions /\ n \in 1..Len(snapshots) /\ Len(snapshots) \in Nat
  BY <1>0 DEF EngineInv, EngineTypeOK, UploadReady, Calls
<1>2. call[d].seen.heads = manifest.heads
  BY DEF EngineInv, CopyHonest, Accepted
<1>3. /\ call[d].parent = call[d].base /\ call[d].parent < n /\ call[d].parent \in Nat
      /\ snapshots[n].session = s /\ snapshots[n].parent = call[d].parent
      /\ call[d].seen.heads[s] = call[d].parent
  BY <1>0 DEF EngineInv, UploadReady, Calls, Ids
<1>4. manifest' = [etag |-> manifest.etag + 1, heads |-> [manifest.heads EXCEPT ![s] = n]]
  BY <1>2 DEF Install, Proposed
<1>5. manifest.heads \in [Sessions -> Ids]
  BY <1>0 DEF EngineTypeOK, Manifests
<1>6. RemoteHead(s)' = n /\ \A t \in Sessions : t # s => RemoteHead(t)' = RemoteHead(t)
  BY <1>1, <1>4, <1>5 DEF RemoteHead
<1>7. chain' = [chain EXCEPT ![s] = Append(chain[s], n)]
  BY DEF Install
<1> QED BY <1>1, <1>2, <1>3, <1>4, <1>6, <1>7 DEF RemoteHead

(* An accepted save keeps the invariant: the new entry extends the head    *)
(* that its device compared with.                                          *)
LEMMA InstallStep ==
  ASSUME EngineInv, EngineTypeOK', NEW d \in Devices, call[d].pc = "save",
         Accepted(d), Install(d), UNCHANGED snapshots,
         NEW k, NEW ph, ph \in {"ok", "error", "reload", "conflict"},
         call' = [call EXCEPT ![d] = [call[d] EXCEPT !.attempt = k, !.pc = ph]]
  PROVE  EngineInv'
<1>s. PICK s, n : s = call[d].session /\ n = call[d].id
  OBVIOUS
<1>0. /\ EngineTypeOK
      /\ call[d] \in Calls
      /\ \A e \in Devices :
            /\ call'[e].seen = call[e].seen /\ call'[e].session = call[e].session
            /\ call'[e].parent = call[e].parent /\ call'[e].base = call[e].base
            /\ call'[e].id = call[e].id
      /\ call'[d].pc = ph
      /\ \A e \in Devices : e # d => call'[e] = call[e]
  BY DEF EngineInv, EngineTypeOK, Calls
<1>1. /\ s \in Sessions /\ n \in 1..Len(snapshots) /\ Len(snapshots) \in Nat
      /\ RemoteHead(s) = call[d].base
      /\ RemoteHead(s) \in Nat /\ RemoteHead(s) < n
      /\ snapshots[n].session = s /\ snapshots[n].parent = RemoteHead(s)
      /\ manifest' = [etag |-> manifest.etag + 1, heads |-> [manifest.heads EXCEPT ![s] = n]]
      /\ RemoteHead(s)' = n
      /\ \A t \in Sessions : t # s => RemoteHead(t)' = RemoteHead(t)
      /\ chain' = [chain EXCEPT ![s] = Append(chain[s], n)]
  BY <1>s, AcceptedWrite
<1>2. /\ Len(chain[s]) \in Nat
      /\ Len(chain'[s]) = Len(chain[s]) + 1
      /\ \A i \in 1..Len(chain[s]) : chain'[s][i] = chain[s][i]
      /\ chain'[s][Len(chain[s]) + 1] = n
      /\ \A t \in Sessions : t # s => chain'[t] = chain[t]
  <2>1. chain[s] \in Seq(Ids) /\ n \in Ids
    BY <1>0, <1>1, <1>s DEF EngineTypeOK, Calls
  <2>2. chain'[s] = Append(chain[s], n) /\ \A t \in Sessions : t # s => chain'[t] = chain[t]
    BY <1>0, <1>1 DEF EngineTypeOK
  <2> QED BY <2>1, <2>2
<1>3. CopyHonest'
  <2>1. manifest.etag \in Nat /\ manifest'.etag = manifest.etag + 1
    BY <1>0, <1>1 DEF EngineTypeOK, Manifests
  <2>2. \A e \in Devices : call[e].seen.etag \in Nat /\ call[e].seen.etag <= manifest.etag
    BY <1>0 DEF EngineInv, CopyHonest, EngineTypeOK, Calls, Manifests
  <2> QED BY <1>0, <2>1, <2>2 DEF CopyHonest
<1>4. UploadReady'
  BY <1>0 DEF EngineInv, UploadReady
<1>5. UploadsDistinct'
  BY <1>0 DEF EngineInv, UploadsDistinct
<1>6. HeadIsTip'
  <2>1. \A i \in 1..Len(chain'[s]) : chain'[s][i] <= n
    <3>1. \A i \in 1..Len(chain[s]) : chain[s][i] \in Nat /\ chain[s][i] <= RemoteHead(s)
      <4>1. chain[s] \in Seq(Ids) /\ Ids \subseteq Nat
        BY <1>0, <1>1 DEF EngineTypeOK, Ids
      <4> QED BY <1>1, <4>1 DEF EngineInv, HeadIsTip
    <3> QED BY <1>1, <1>2, <3>1
  <2>2. n = chain'[s][Len(chain'[s])] /\ Len(chain'[s]) # 0
    BY <1>2
  <2>3. ASSUME NEW t \in Sessions, t # s
        PROVE  RemoteHead(t)' = RemoteHead(t) /\ chain'[t] = chain[t]
    BY <1>1, <1>2, <2>3
  <2> QED BY <1>1, <2>1, <2>2, <2>3 DEF EngineInv, HeadIsTip
<1>7. RemoteHead(s) = IF Len(chain[s]) = 0 THEN 0 ELSE chain[s][Len(chain[s])]
  BY <1>1 DEF EngineInv, HeadIsTip
<1>8. ChainLinked'
  <2>1. \A i \in 1..Len(chain[s]) :
          /\ chain'[s][i] \in 1..Len(snapshots)
          /\ snapshots[chain'[s][i]].session = s
          /\ snapshots[chain'[s][i]].parent = IF i = 1 THEN 0 ELSE chain'[s][i - 1]
    BY <1>1, <1>2 DEF EngineInv, ChainLinked
  <2>2. snapshots[n].parent =
            IF Len(chain'[s]) = 1 THEN 0 ELSE chain'[s][Len(chain'[s]) - 1]
    BY <1>1, <1>2, <1>7
  <2>3. \A i \in 1..Len(chain'[s]) : i \in 1..Len(chain[s]) \/ i = Len(chain'[s])
    BY <1>2
  <2>4. \A i \in 1..Len(chain'[s]) :
          /\ chain'[s][i] \in 1..Len(snapshots)
          /\ snapshots[chain'[s][i]].session = s
          /\ snapshots[chain'[s][i]].parent = IF i = 1 THEN 0 ELSE chain'[s][i - 1]
    <3>1. ASSUME NEW i \in 1..Len(chain'[s]), i = Len(chain'[s])
          PROVE  /\ chain'[s][i] = n /\ n \in 1..Len(snapshots) /\ snapshots[n].session = s
                 /\ snapshots[n].parent = IF i = 1 THEN 0 ELSE chain'[s][i - 1]
      BY <1>1, <1>2, <2>2, <3>1
    <3> QED BY <2>1, <2>3, <3>1
  <2>5. ASSUME NEW t \in Sessions, t # s, NEW i \in 1..Len(chain'[t])
        PROVE  /\ chain'[t][i] \in 1..Len(snapshots)
               /\ snapshots[chain'[t][i]].session = t
               /\ snapshots[chain'[t][i]].parent = IF i = 1 THEN 0 ELSE chain'[t][i - 1]
    <3>1. chain'[t] = chain[t]
      BY <1>2, <2>5
    <3> QED BY <2>5, <3>1 DEF EngineInv, ChainLinked
  <2>6. snapshots' = snapshots
    OBVIOUS
  <2> QED BY <2>4, <2>5, <2>6 DEF ChainLinked
<1>9. AckedOnBase'
  <2>1. ASSUME NEW e \in Devices, call'[e].pc = "ok", e # d
        PROVE  \E i \in 1..Len(chain'[call[e].session]) :
                  /\ chain'[call[e].session][i] = call[e].id
                  /\ call[e].base = IF i = 1 THEN 0 ELSE chain'[call[e].session][i - 1]
    <3>1. PICK i \in 1..Len(chain[call[e].session]) :
                  /\ chain[call[e].session][i] = call[e].id
                  /\ call[e].base = IF i = 1 THEN 0 ELSE chain[call[e].session][i - 1]
      BY <1>0, <2>1 DEF EngineInv, AckedOnBase
    <3>2. call[e].session \in Sessions
      BY <1>0 DEF EngineTypeOK, Calls
    <3>3. CASE call[e].session = s
      BY <1>2, <3>1, <3>3
    <3>4. CASE call[e].session # s
      BY <1>2, <3>1, <3>2, <3>4
    <3> QED BY <3>3, <3>4
  <2>2. /\ Len(chain'[s]) \in 1..Len(chain'[s])
        /\ chain'[s][Len(chain'[s])] = n
        /\ call[d].base = IF Len(chain'[s]) = 1 THEN 0 ELSE chain'[s][Len(chain'[s]) - 1]
    BY <1>1, <1>2, <1>7
  <2>3. ASSUME NEW e \in Devices, call'[e].pc = "ok"
        PROVE  \E i \in 1..Len(chain'[call'[e].session]) :
                  /\ chain'[call'[e].session][i] = call'[e].id
                  /\ call'[e].base = IF i = 1 THEN 0 ELSE chain'[call'[e].session][i - 1]
    <3>1. /\ call'[e].session = call[e].session /\ call'[e].id = call[e].id
          /\ call'[e].base = call[e].base
      BY <1>0
    <3>2. CASE e = d
      BY <1>s, <2>2, <3>1, <3>2
    <3>3. CASE e # d
      BY <2>1, <2>3, <3>1, <3>3
    <3> QED BY <3>2, <3>3
  <2> QED BY <2>3 DEF AckedOnBase
<1> QED BY <1>3, <1>4, <1>5, <1>6, <1>8, <1>9 DEF EngineInv

(* Every step of every device, failed ones included, keeps the invariant.  *)
LEMMA NextEngineInv == EngineInv /\ [EngineNext]_engineVars => EngineInv'
<1> SUFFICES ASSUME EngineInv, [EngineNext]_engineVars
             PROVE  EngineInv'
  OBVIOUS
<1>0. /\ EngineTypeOK /\ EngineTypeOK'
      /\ \A d \in Devices : call[d] \in Calls
      /\ \A d \in Devices : call'[d] \in Calls
  <2>1. EngineTypeOK /\ EngineTypeOK'
    BY NextEngineTypeOK DEF EngineInv
  <2> QED BY <2>1 DEF EngineTypeOK
<1>1. ASSUME NEW d \in Devices, NEW s \in Sessions, NEW b \in Bodies, NEW base \in Ids,
             Begin(d, s, b, base)
      PROVE  EngineInv'
  <2>1. PICK c : /\ c = [NoCall EXCEPT !.pc = "load", !.session = s, !.body = b, !.base = base]
                 /\ call' = [call EXCEPT ![d] = c]
    BY <1>1 DEF Begin
  <2>2. c \in Calls /\ c.pc = "load" /\ c.id = 0 /\ c.seen = NoCall.seen
    BY <2>1, NoCallType DEF Calls, CallPhases
  <2> QED BY <1>0, <1>1, <2>1, <2>2, CallOnlyStep DEF Begin
<1>2. ASSUME NEW d \in Devices, LoadParent(d) PROVE EngineInv'
  <2>1. PICK c : /\ c = [call[d] EXCEPT !.parent = RemoteHead(call[d].session),
                                       !.pc = Verdict(d, call[d].base, "put")]
                 /\ call' = [call EXCEPT ![d] = c]
    BY <1>0, <1>2 DEF LoadParent, EngineTypeOK
  <2>2. /\ c \in Calls /\ c.seen = call[d].seen /\ c.id = call[d].id
        /\ c.base = call[d].base /\ c.parent = RemoteHead(call[d].session)
        /\ c.pc = Verdict(d, call[d].base, "put")
    BY <1>0, <2>1 DEF Calls, EngineTypeOK
  <2>3. c.parent <= Len(snapshots)
    <3>1. call[d].session \in Sessions
      BY <1>0 DEF Calls
    <3>2. Len(snapshots) \in Nat /\ RemoteHead(call[d].session) \in 0..Len(snapshots)
      BY <1>0, <3>1, HeadBounded DEF EngineInv
    <3> QED BY <2>2, <3>2
  <2>4. c.id = 0
    BY <1>2, <2>2 DEF EngineInv, UploadReady, LoadParent
  <2>5. \/ c.pc \in {"error", "conflict"}
        \/ c.pc = "put" /\ c.parent = c.base
    BY <2>2, VerdictCases
  <2> QED BY <1>0, <1>2, <2>1, <2>2, <2>3, <2>4, <2>5, CallOnlyStep DEF LoadParent
<1>3. ASSUME NEW d \in Devices, PutSnapshot(d) PROVE EngineInv'
  <2>1. PICK c : /\ c = [call[d] EXCEPT !.pc = "reload", !.id = Len(snapshots) + 1]
                 /\ call' = [call EXCEPT ![d] = c]
    BY <1>0, <1>3 DEF PutSnapshot, EngineTypeOK
  <2> QED BY <1>0, <1>3, <2>1, UploadStep DEF PutSnapshot
<1>4. ASSUME NEW d \in Devices, Failed(d), UNCHANGED <<snapshots, manifest, chain>>
      PROVE  EngineInv'
  <2>1. PICK c : /\ c = [call[d] EXCEPT !.pc = "error"]
                 /\ call' = [call EXCEPT ![d] = c]
    BY <1>0, <1>4 DEF Failed, EngineTypeOK
  <2>2. c \in Calls /\ c.pc = "error" /\ c.seen = call[d].seen
    BY <1>0, <2>1 DEF Calls, CallPhases
  <2> QED BY <1>0, <1>4, <2>1, <2>2, CallOnlyStep
<1>5. ASSUME NEW d \in Devices, LoadManifest(d) PROVE EngineInv'
  <2>1. PICK c : /\ c = [call[d] EXCEPT !.seen = manifest,
                                       !.pc = Verdict(d, call[d].parent, "save")]
                 /\ call' = [call EXCEPT ![d] = c]
    BY <1>0, <1>5 DEF LoadManifest, EngineTypeOK
  <2>2. /\ c \in Calls /\ c.seen = manifest /\ c.id = call[d].id
        /\ c.base = call[d].base /\ c.parent = call[d].parent /\ c.session = call[d].session
        /\ c.pc = Verdict(d, call[d].parent, "save")
    BY <1>0, <2>1 DEF Calls, EngineTypeOK
  <2>3. \/ c.pc \in {"error", "conflict"}
        \/ c.pc = "save" /\ c.seen.heads[c.session] = c.parent
    BY <2>2, VerdictCases DEF RemoteHead
  <2>4. c.parent = c.base /\ c.parent <= Len(snapshots) /\ call[d].pc = "reload"
    BY <1>5, <2>2 DEF EngineInv, UploadReady, LoadManifest
  <2> QED BY <1>0, <1>5, <2>1, <2>2, <2>3, <2>4, CallOnlyStep DEF LoadManifest
<1>6. ASSUME NEW d \in Devices, call[d].pc = "save", call' = [call EXCEPT ![d] = Retried(d)],
             UNCHANGED <<snapshots, manifest, chain>>
      PROVE  EngineInv'
  <2>1. PICK k \in Nat, ph \in CallPhases :
            Retried(d) = [call[d] EXCEPT !.attempt = k, !.pc = ph]
    BY <1>0, RetriedType
  <2>2. PICK c : c = Retried(d)
    OBVIOUS
  <2>3. /\ c \in Calls /\ c.pc \in {"reload", "conflict"} /\ c.seen = call[d].seen
        /\ c.id = call[d].id /\ c.base = call[d].base /\ c.parent = call[d].parent
        /\ c.session = call[d].session
    BY <1>0, <2>1, <2>2, RetriedType DEF Calls
  <2>4. c.parent = c.base /\ c.parent <= Len(snapshots)
    BY <1>6, <2>3 DEF EngineInv, UploadReady
  <2> QED BY <1>0, <1>6, <2>2, <2>3, <2>4, CallOnlyStep
<1>7. ASSUME NEW d \in Devices, call[d].pc = "save", Accepted(d), Install(d),
             UNCHANGED snapshots,
             \/ call' = [call EXCEPT ![d].pc = "ok"]
             \/ call' = [call EXCEPT ![d].pc = "error"]
             \/ call' = [call EXCEPT ![d] = Retried(d)]
      PROVE  EngineInv'
  <2>1. PICK k, ph : /\ ph \in {"ok", "error", "reload", "conflict"}
                     /\ call' = [call EXCEPT ![d] = [call[d] EXCEPT !.attempt = k, !.pc = ph]]
    <3>1. CASE call' = [call EXCEPT ![d] = Retried(d)]
      <4>1. PICK k \in Nat, ph \in CallPhases :
                Retried(d) = [call[d] EXCEPT !.attempt = k, !.pc = ph]
        BY <1>0, RetriedType
      <4>2. ph \in {"reload", "conflict"}
        BY <1>0, <4>1, RetriedType DEF Calls
      <4> QED BY <3>1, <4>1, <4>2
    <3>2. ASSUME NEW ph \in {"ok", "error"}, call' = [call EXCEPT ![d].pc = ph]
          PROVE  call' = [call EXCEPT ![d] = [call[d] EXCEPT !.attempt = call[d].attempt, !.pc = ph]]
      BY <1>0, <3>2 DEF EngineTypeOK, Calls
    <3> QED BY <1>7, <3>1, <3>2
  <2> QED BY <1>0, <1>7, <2>1, InstallStep
<1>8. ASSUME NEW d \in Devices, SaveManifest(d) PROVE EngineInv'
  <2>1. CASE Accepted(d)
    <3>1. call' = [call EXCEPT ![d].pc = "ok"]
      BY <1>0, <1>8, <2>1 DEF SaveManifest, EngineTypeOK
    <3> QED BY <1>7, <1>8, <2>1, <3>1 DEF SaveManifest
  <2>2. CASE ~Accepted(d)
    BY <1>6, <1>8, <2>2 DEF SaveManifest, Install
  <2> QED BY <2>1, <2>2
<1>9. ASSUME NEW d \in Devices, call' = [call EXCEPT ![d] = NoCall],
             UNCHANGED <<snapshots, manifest, chain>>
      PROVE  EngineInv'
  BY <1>0, <1>9, NoCallType, CallOnlyStep
<1>10. ASSUME NEW d \in Devices, PutFails(d) PROVE EngineInv'
  <2>1. CASE Len(snapshots) < MaxSnapshots /\ Upload(d)
    <3>1. PICK c : /\ c = [call[d] EXCEPT !.pc = "error"]
                   /\ call' = [call EXCEPT ![d] = c]
      BY <1>0, <1>10 DEF PutFails, Failed, EngineTypeOK
    <3> QED BY <1>0, <1>10, <2>1, <3>1, UploadStep DEF PutFails
  <2>2. CASE UNCHANGED snapshots
    BY <1>4, <1>10, <2>2 DEF PutFails
  <2> QED BY <1>10, <2>1, <2>2 DEF PutFails
<1>11. ASSUME NEW d \in Devices, SaveFails(d) PROVE EngineInv'
  <2>1. CASE Install(d) /\ Accepted(d)
    BY <1>7, <1>11, <2>1 DEF SaveFails, Failed
  <2>2. CASE UNCHANGED <<manifest, chain>>
    BY <1>4, <1>11, <2>2 DEF SaveFails
  <2> QED BY <1>11, <2>1, <2>2 DEF SaveFails, Install
<1>12. ASSUME NEW d \in Devices, SaveResent(d) PROVE EngineInv'
  BY <1>7, <1>12 DEF SaveResent
<1>13. CASE UNCHANGED <<snapshots, manifest, call, chain>>
  BY <1>0, <1>13 DEF EngineInv, CopyHonest, UploadReady, UploadsDistinct, HeadIsTip,
                     ChainLinked, AckedOnBase, RemoteHead
<1> QED
  BY <1>1, <1>2, <1>3, <1>4, <1>5, <1>8, <1>9, <1>10, <1>11, <1>12, <1>13
  DEF EngineNext, Step, Misfortune, PutRefused, Return, LoadFails, Abandon, OtherFault,
      engineVars

(* The invariant holds in every state the devices and the store reach.     *)
LEMMA EngineInvariant == EngineSpec => []EngineInv
  BY InitEngineInv, NextEngineInv, PTL DEF EngineSpec

-----------------------------------------------------------------------------
(* The engine's variables keep their types.                                *)
THEOREM EngineTypeCorrect == EngineSpec => []EngineTypeOK
<1>1. EngineInv => EngineTypeOK
  BY DEF EngineInv
<1> QED BY <1>1, EngineInvariant, PTL

(* The manifest never names a snapshot that is not stored, or one of       *)
(* another session, for any number of devices, races and lost answers.     *)
THEOREM ManifestNeverAhead == EngineSpec => []HeadsStored
<1>1. EngineInv => HeadsStored
  BY HeadBounded DEF EngineInv, HeadsStored
<1> QED BY <1>1, EngineInvariant, PTL

(* The heads of a session form one parent chain without gaps.              *)
THEOREM HistoryIsAChain == EngineSpec => []ChainLinked
<1>1. EngineInv => ChainLinked
  BY DEF EngineInv
<1> QED BY <1>1, EngineInvariant, PTL

(* A push that was acknowledged sits in its session's history right on top *)
(* of the base its caller named.                                           *)
THEOREM AcknowledgedPushIsInHistory == EngineSpec => []AckedOnBase
<1>1. EngineInv => AckedOnBase
  BY DEF EngineInv
<1> QED BY <1>1, EngineInvariant, PTL

(* What a step does to the heads: it leaves a session's head or, with an   *)
(* accepted manifest write, replaces it by a child of it.                  *)
LEMMA HeadStep ==
  ASSUME EngineInv, [EngineNext]_engineVars, NEW s \in Sessions,
         manifest'.heads[s] # RemoteHead(s)
  PROVE  /\ manifest'.heads[s] # 0
         /\ snapshots'[manifest'.heads[s]].parent = RemoteHead(s)
<1>1. PICK d \in Devices : /\ call[d].pc = "save"
                           /\ Install(d) /\ Accepted(d)
                           /\ UNCHANGED snapshots
  <2>1. manifest' # manifest
    BY DEF RemoteHead
  <2>2. ASSUME NEW d \in Devices, NEW t \in Sessions, NEW b \in Bodies, NEW base \in Ids,
               Begin(d, t, b, base)
        PROVE  FALSE
    BY <2>1, <2>2 DEF Begin
  <2>3. PICK d \in Devices : SaveManifest(d) \/ SaveFails(d) \/ SaveResent(d)
    BY <2>1, <2>2 DEF EngineNext, Step, LoadParent, PutSnapshot, PutRefused, LoadManifest,
                      Misfortune, LoadFails, PutFails, Return, Abandon, OtherFault, engineVars
  <2> QED BY <2>1, <2>3 DEF SaveManifest, SaveFails, SaveResent, Install
<1>2. PICK t, n : t = call[d].session /\ n = call[d].id
  OBVIOUS
<1>3. /\ RemoteHead(t)' = n /\ n # 0
      /\ \A u \in Sessions : u # t => RemoteHead(u)' = RemoteHead(u)
      /\ snapshots[n].parent = RemoteHead(t)
  BY <1>1, <1>2, AcceptedWrite
<1>4. s = t
  BY <1>3 DEF RemoteHead
<1> QED BY <1>1, <1>3, <1>4 DEF RemoteHead

(* No update is lost: whichever devices race and whatever fails, a head is *)
(* only ever replaced by a snapshot that was made from it.                 *)
THEOREM NoLostUpdate == EngineSpec => LinearHistory
<1>1. EngineInv /\ [EngineNext]_engineVars =>
        [\A s \in Sessions :
            manifest'.heads[s] # RemoteHead(s) =>
                /\ manifest'.heads[s] # 0
                /\ snapshots'[manifest'.heads[s]].parent = RemoteHead(s)]_engineVars
  BY HeadStep
<1> QED BY <1>1, EngineInvariant, PTL DEF EngineSpec, LinearHistory

-----------------------------------------------------------------------------
(* The refinement.  What the client of a call sees, before and after.      *)
LEMMA PhaseCases ==
  ASSUME NEW d \in Devices
  PROVE  /\ call[d].pc = "idle" => ClientPhase(d) = "idle"
         /\ Running(d) => ClientPhase(d) =
                IF InChain(call[d].session, call[d].id) THEN "published" ELSE "asked"
         /\ call[d].pc = "ok" => ClientPhase(d) = "ok"
         /\ call[d].pc \in {"conflict", "error"} => ClientPhase(d) = "refused"
         /\ call'[d].pc = "idle" => ClientPhase(d)' = "idle"
         /\ Running(d)' => ClientPhase(d)' =
                IF InChain(call[d].session, call[d].id)' THEN "published" ELSE "asked"
         /\ call'[d].pc = "ok" => ClientPhase(d)' = "ok"
         /\ call'[d].pc \in {"conflict", "error"} => ClientPhase(d)' = "refused"
  BY DEF ClientPhase, Running

(* A step of d changes what the client of d sees and nothing else, when it *)
(* leaves the other calls and their places in the histories alone.         *)
LEMMA ClientFrame ==
  ASSUME EngineTypeOK, EngineTypeOK', NEW d \in Devices,
         \A e \in Devices : e # d => call'[e] = call[e],
         \A e \in Devices : e # d /\ Running(e) =>
             (InChain(call[e].session, call[e].id)' <=> InChain(call[e].session, call[e].id))
  PROVE  Client' = [Client EXCEPT ![d] = [phase   |-> ClientPhase(d)',
                                          session |-> call'[d].session,
                                          base    |-> call'[d].base]]
<1>1. ASSUME NEW e \in Devices, e # d PROVE ClientPhase(e)' = ClientPhase(e)
  <2>1. call'[e] = call[e] /\ call[e].pc \in CallPhases
    BY <1>1 DEF EngineTypeOK, Calls
  <2>2. CASE Running(e)
    BY <1>1, <2>1, <2>2, PhaseCases DEF Running
  <2>3. CASE ~Running(e)
    BY <2>1, <2>3, PhaseCases DEF Running, CallPhases
  <2> QED BY <2>2, <2>3
<1>2. \A e \in Devices : e # d => call'[e].session = call[e].session /\ call'[e].base = call[e].base
  OBVIOUS
<1> QED BY <1>1, <1>2 DEF Client

(* A snapshot that is not stored yet, and the empty id, are in no history. *)
LEMMA NotInChain ==
  ASSUME EngineInv, NEW s \in Sessions, NEW n, n \notin 1..Len(snapshots)
  PROVE  ~InChain(s, n)
  BY DEF EngineInv, ChainLinked, InChain

(* Until a manifest write is accepted its snapshot is in no history; then  *)
(* it is, and the other calls' snapshots are where they were.              *)
LEMMA InstalledOnce ==
  ASSUME EngineInv, NEW d \in Devices, call[d].pc = "save", Accepted(d), Install(d),
         \A e \in Devices : e # d => call'[e] = call[e],
         NEW s, s = call[d].session, NEW n, n = call[d].id
  PROVE  /\ \A t \in Sessions : ~InChain(t, n)
         /\ \E i \in 1..Len(chain'[s]) : chain'[s][i] = n
         /\ \A e \in Devices : e # d /\ Running(e) =>
             (InChain(call[e].session, call[e].id)' <=> InChain(call[e].session, call[e].id))
<1>0. EngineTypeOK /\ \A e \in Devices : call[e] \in Calls
  BY DEF EngineInv, EngineTypeOK
<1>1. /\ s \in Sessions /\ n \in 1..Len(snapshots) /\ Len(snapshots) \in Nat
      /\ RemoteHead(s) \in Nat /\ RemoteHead(s) < n
      /\ snapshots[n].session = s
      /\ chain' = [chain EXCEPT ![s] = Append(chain[s], n)]
  BY AcceptedWrite
<1>2. /\ Len(chain[s]) \in Nat
      /\ Len(chain'[s]) = Len(chain[s]) + 1
      /\ \A i \in 1..Len(chain[s]) : chain'[s][i] = chain[s][i] /\ chain[s][i] \in Nat
      /\ chain'[s][Len(chain[s]) + 1] = n
      /\ \A t \in Sessions : t # s => chain'[t] = chain[t]
  <2>1. chain[s] \in Seq(Ids) /\ n \in Ids /\ Ids \subseteq Nat
    BY <1>0, <1>1 DEF EngineTypeOK, Calls, Ids
  <2>2. chain'[s] = Append(chain[s], n) /\ \A t \in Sessions : t # s => chain'[t] = chain[t]
    BY <1>0, <1>1 DEF EngineTypeOK
  <2>3. \A i \in 1..Len(chain[s]) : chain[s][i] \in Nat
    BY <1>1 DEF EngineInv, ChainLinked
  <2> QED BY <2>1, <2>2, <2>3
<1>3. ~InChain(s, n)
  BY <1>1, <1>2 DEF EngineInv, HeadIsTip, InChain
<1>4. ASSUME NEW t \in Sessions, t # s PROVE ~InChain(t, n)
  BY <1>1, <1>4 DEF EngineInv, ChainLinked, InChain
<1>5. \E i \in 1..Len(chain'[s]) : chain'[s][i] = n
  BY <1>2
<1>6. ASSUME NEW e \in Devices, e # d, Running(e)
      PROVE  InChain(call[e].session, call[e].id)' <=> InChain(call[e].session, call[e].id)
  <2>1. call[e].session \in Sessions /\ call'[e] = call[e]
    BY <1>0, <1>6 DEF Calls
  <2>2. call[e].id # n
    BY <1>1, <1>6 DEF EngineInv, UploadReady, UploadsDistinct, Running
  <2>3. CASE call[e].session # s
    BY <1>2, <2>1, <2>3 DEF InChain
  <2>4. CASE call[e].session = s
    <3>1. \A i \in 1..Len(chain'[s]) : i \in 1..Len(chain[s]) \/ i = Len(chain[s]) + 1
      BY <1>2
    <3>2. 1..Len(chain[s]) \subseteq 1..Len(chain'[s])
      BY <1>2
    <3> QED BY <1>2, <2>1, <2>2, <2>4, <3>1, <3>2 DEF InChain
  <2> QED BY <2>3, <2>4
<1> QED BY <1>3, <1>4, <1>5, <1>6

(* Atomic's constants and what its steps are, in the engine's terms.       *)
LEMMA EngineStepImplements ==
  ASSUME EngineInv, EngineInv', [EngineNext]_engineVars
  PROVE  [Atomic!Next]_(Atomic!vars)
<1>0. /\ EngineTypeOK /\ EngineTypeOK'
      /\ \A d \in Devices : call[d] \in Calls /\ call'[d] \in Calls
  BY DEF EngineInv, EngineTypeOK
<1>1. ASSUME NEW d \in Devices, NEW c, call' = [call EXCEPT ![d] = c]
      PROVE  call'[d] = c /\ \A e \in Devices : e # d => call'[e] = call[e]
  BY <1>0, <1>1 DEF EngineTypeOK
<1>2. ASSUME NEW d \in Devices, chain' = chain,
             \A e \in Devices : e # d => call'[e] = call[e]
      PROVE  Client' = [Client EXCEPT ![d] = [phase   |-> ClientPhase(d)',
                                              session |-> call'[d].session,
                                              base    |-> call'[d].base]]
  BY <1>0, <1>2, ClientFrame DEF InChain
<1>3. Client \in [Devices -> [phase : {ClientPhase(d) : d \in Devices},
                             session : Sessions, base : Ids]]
  BY <1>0 DEF Client, Calls
<1>4. ASSUME NEW d \in Devices, chain' = chain,
             \A e \in Devices : e # d => call'[e] = call[e],
             call'[d].session = call[d].session, call'[d].base = call[d].base,
             ClientPhase(d)' = ClientPhase(d)
      PROVE  UNCHANGED Atomic!vars
  BY <1>2, <1>4 DEF Client, Atomic!vars
<1>5. ASSUME NEW d \in Devices, chain' = chain, Running(d),
             \A e \in Devices : e # d => call'[e] = call[e],
             call'[d].session = call[d].session, call'[d].base = call[d].base,
             call'[d].pc \in {"conflict", "error"}
      PROVE  Atomic!Refuse(d)
  <2>1. ClientPhase(d) \in {"asked", "published"} /\ ClientPhase(d)' = "refused"
    BY <1>5, PhaseCases
  <2>2. Client' = [Client EXCEPT ![d].phase = "refused"]
    BY <1>2, <1>5, <2>1 DEF Client
  <2> QED BY <1>5, <2>1, <2>2 DEF Atomic!Refuse, Client
<1>6. ASSUME NEW d \in Devices, NEW s \in Sessions, NEW b \in Bodies, NEW base \in Ids,
             Begin(d, s, b, base)
      PROVE  Atomic!Ask(d)
  <2>1. PICK c : /\ c = [NoCall EXCEPT !.pc = "load", !.session = s, !.body = b, !.base = base]
                 /\ call' = [call EXCEPT ![d] = c]
    BY <1>6 DEF Begin
  <2>2. c.pc = "load" /\ c.id = 0 /\ c.session = s /\ c.base = base
    BY <2>1, NoCallType DEF Calls
  <2>c. call'[d] = c /\ \A e \in Devices : e # d => call'[e] = call[e]
    BY <1>1, <2>1
  <2>3. ~InChain(call[d].session, call[d].id)'
    <3>1. 0 \notin 1..Len(snapshots)
      BY <1>0 DEF EngineTypeOK
    <3>2. ~InChain(s, 0)
      BY <3>1, NotInChain
    <3> QED BY <1>6, <2>2, <2>c, <3>2 DEF InChain, Begin
  <2>4. ClientPhase(d)' = "asked"
    BY <2>2, <2>3, <2>c, PhaseCases DEF Running
  <2>5. ClientPhase(d) = "idle"
    BY <1>6, PhaseCases DEF Begin
  <2>6. Client' = [Client EXCEPT ![d] = [phase |-> "asked", session |-> s, base |-> base]]
    BY <1>2, <1>6, <2>2, <2>4, <2>c DEF Begin
  <2>7. base \in (1..MaxSnapshots) \cup {0}
    BY SyncEngineAssumption DEF Ids
  <2>8. chain' = chain
    BY <1>6 DEF Begin
  <2> QED BY <2>5, <2>6, <2>7, <2>8 DEF Atomic!Ask, Client
<1>7. ASSUME NEW d \in Devices, call' = [call EXCEPT ![d] = NoCall], chain' = chain
      PROVE  Atomic!Leave(d) \/ UNCHANGED Atomic!vars
  <2>1. CASE call[d].pc = "idle"
    <3>1. call[d] = NoCall
      BY <2>1 DEF EngineInv, UploadReady
    <3>2. call' = call
      BY <1>0, <1>7, <3>1 DEF EngineTypeOK
    <3> QED BY <1>7, <3>2 DEF Atomic!vars, Client, ClientPhase, Running, InChain
  <2>2. CASE call[d].pc # "idle"
    <3>1. ClientPhase(d) # "idle"
      <4>1. call[d].pc \in CallPhases
        BY <1>0 DEF Calls
      <4> QED BY <2>2, <4>1, PhaseCases DEF CallPhases, Running
    <3>2. ClientPhase(d)' = "idle"
      BY <1>1, <1>7, NoCallType, PhaseCases
    <3>3. PICK s \in Sessions : s = CHOOSE t \in Sessions : TRUE
      BY SyncEngineAssumption
    <3>4. NoCall.session = s /\ NoCall.base = 0
      BY <3>3 DEF NoCall
    <3>5. Client' = [Client EXCEPT ![d] = [phase |-> "idle", session |-> s, base |-> 0]]
      BY <1>1, <1>2, <1>7, <3>2, <3>4
    <3> QED BY <1>7, <3>1, <3>3, <3>5 DEF Atomic!Leave, Atomic!Quiet, Client
  <2> QED BY <2>1, <2>2
<1>8. ASSUME NEW d \in Devices, call[d].pc = "save", Accepted(d), Install(d),
             \A e \in Devices : e # d => call'[e] = call[e],
             call'[d].session = call[d].session, call'[d].base = call[d].base,
             call'[d].id = call[d].id,
             call'[d].pc \in {"ok", "reload", "conflict", "error"}
      PROVE  Atomic!Publish(d)
  <2>1. PICK s, n : s = call[d].session /\ n = call[d].id
    OBVIOUS
  <2>2. /\ s \in Sessions /\ n \in 1..Len(snapshots) /\ Len(snapshots) \in Nat
        /\ RemoteHead(s) = call[d].base
        /\ chain' = [chain EXCEPT ![s] = Append(chain[s], n)]
    BY <1>8, <2>1, AcceptedWrite
  <2>3. /\ \A t \in Sessions : ~InChain(t, n)
        /\ \E i \in 1..Len(chain'[s]) : chain'[s][i] = n
        /\ \A e \in Devices : e # d /\ Running(e) =>
             (InChain(call[e].session, call[e].id)' <=> InChain(call[e].session, call[e].id))
    BY <1>8, <2>1, InstalledOnce
  <2>4. ClientPhase(d) = "asked"
    BY <1>8, <2>1, <2>2, <2>3, PhaseCases DEF Running
  <2>5. PICK answer : answer \in {"published", "ok", "refused"} /\ answer = ClientPhase(d)'
    <3>1. InChain(call[d].session, call[d].id)'
      BY <1>8, <2>1, <2>3 DEF InChain
    <3> QED BY <1>8, <3>1, PhaseCases DEF Running
  <2>6. Client' = [Client EXCEPT ![d].phase = answer]
    <3>1. Client' = [Client EXCEPT ![d] = [phase |-> answer, session |-> call[d].session,
                                           base |-> call[d].base]]
      BY <1>0, <1>8, <2>3, <2>5, ClientFrame
    <3> QED BY <3>1 DEF Client
  <2>7. n \in 1..MaxSnapshots
    BY <1>0, <2>2, SyncEngineAssumption DEF EngineTypeOK
  <2>8. Atomic!Unused(n)
    BY <2>3 DEF Atomic!Unused, InChain
  <2>9. Atomic!Tip(s) = call[d].base
    <3>1. Atomic!Tip(s) = IF Len(chain[s]) = 0 THEN 0 ELSE chain[s][Len(chain[s])]
      BY <1>0, <2>2 DEF Atomic!Tip, EngineTypeOK
    <3> QED BY <2>2, <3>1 DEF EngineInv, HeadIsTip
  <2>10. Client[d].session = s /\ Client[d].base = call[d].base /\ Client[d].phase = "asked"
    BY <2>1, <2>4 DEF Client
  <2> QED BY <2>2, <2>5, <2>6, <2>7, <2>8, <2>9, <2>10 DEF Atomic!Publish
<1>9. ASSUME NEW d \in Devices, call[d].pc = "save", chain' = chain,
             call' = [call EXCEPT ![d] = Retried(d)]
      PROVE  Atomic!Refuse(d) \/ UNCHANGED Atomic!vars
  <2>1. /\ call'[d].pc \in {"reload", "conflict"} /\ call'[d].id = call[d].id
        /\ call'[d].session = call[d].session /\ call'[d].base = call[d].base
        /\ \A e \in Devices : e # d => call'[e] = call[e]
    <3>1. PICK k \in Nat, ph \in CallPhases :
              Retried(d) = [call[d] EXCEPT !.attempt = k, !.pc = ph]
      BY <1>0, RetriedType
    <3>2. call'[d] = Retried(d) /\ \A e \in Devices : e # d => call'[e] = call[e]
      BY <1>1, <1>9
    <3>3. Retried(d).pc \in {"reload", "conflict"}
      BY <1>0, RetriedType
    <3> QED BY <1>0, <3>1, <3>2, <3>3 DEF Calls
  <2>2. CASE call'[d].pc = "conflict"
    BY <1>5, <1>9, <2>1, <2>2 DEF Running
  <2>3. CASE call'[d].pc = "reload"
    <3>1. ClientPhase(d)' = ClientPhase(d)
      BY <1>9, <2>1, <2>3, PhaseCases DEF Running, InChain
    <3> QED BY <1>4, <1>9, <2>1, <3>1
  <2> QED BY <2>1, <2>2, <2>3
<1>10. ASSUME NEW d \in Devices, LoadParent(d)
       PROVE  Atomic!Refuse(d) \/ UNCHANGED Atomic!vars
  <2>1. /\ chain' = chain /\ call[d].pc = "load"
        /\ call'[d].pc \in {"put", "conflict", "error"} /\ call'[d].id = call[d].id
        /\ call'[d].session = call[d].session /\ call'[d].base = call[d].base
        /\ \A e \in Devices : e # d => call'[e] = call[e]
    <3>1. Verdict(d, call[d].base, "put") \in {"put", "conflict", "error"}
      BY VerdictCases
    <3> QED BY <1>0, <1>10, <3>1 DEF LoadParent, EngineTypeOK, Calls
  <2>2. CASE call'[d].pc = "put"
    <3>1. ClientPhase(d)' = ClientPhase(d)
      BY <2>1, <2>2, PhaseCases DEF Running, InChain
    <3> QED BY <1>4, <2>1, <3>1
  <2> QED BY <1>5, <2>1, <2>2 DEF Running
<1>11. ASSUME NEW d \in Devices, PutSnapshot(d)
       PROVE  UNCHANGED Atomic!vars
  <2>1. /\ chain' = chain /\ call[d].pc = "put"
        /\ call'[d].pc = "reload" /\ call'[d].id = Len(snapshots) + 1
        /\ call'[d].session = call[d].session /\ call'[d].base = call[d].base
        /\ \A e \in Devices : e # d => call'[e] = call[e]
    BY <1>0, <1>11 DEF PutSnapshot, EngineTypeOK, Calls
  <2>2. call[d].id = 0 /\ call[d].session \in Sessions
    BY <1>0, <2>1 DEF EngineInv, UploadReady, Calls
  <2>3. 0 \notin 1..Len(snapshots) /\ Len(snapshots) + 1 \notin 1..Len(snapshots)
    BY <1>0 DEF EngineTypeOK
  <2>4. ~InChain(call[d].session, 0) /\ ~InChain(call[d].session, Len(snapshots) + 1)
    BY <2>2, <2>3, NotInChain
  <2>5. ClientPhase(d) = "asked"
    BY <2>1, <2>2, <2>4, PhaseCases DEF Running
  <2>6. ClientPhase(d)' = "asked"
    <3>1. ~InChain(call[d].session, call[d].id)'
      BY <2>1, <2>4 DEF InChain
    <3> QED BY <2>1, <3>1, PhaseCases DEF Running
  <2> QED BY <1>4, <2>1, <2>5, <2>6
<1>12. ASSUME NEW d \in Devices, Failed(d), Running(d), chain' = chain
       PROVE  Atomic!Refuse(d)
  <2>1. /\ call'[d].pc = "error"
        /\ call'[d].session = call[d].session /\ call'[d].base = call[d].base
        /\ \A e \in Devices : e # d => call'[e] = call[e]
    BY <1>0, <1>12 DEF Failed, EngineTypeOK, Calls
  <2> QED BY <1>5, <1>12, <2>1
<1>13. ASSUME NEW d \in Devices, LoadManifest(d)
       PROVE  Atomic!Refuse(d) \/ UNCHANGED Atomic!vars
  <2>1. /\ chain' = chain /\ call[d].pc = "reload"
        /\ call'[d].pc \in {"save", "conflict", "error"} /\ call'[d].id = call[d].id
        /\ call'[d].session = call[d].session /\ call'[d].base = call[d].base
        /\ \A e \in Devices : e # d => call'[e] = call[e]
    <3>1. Verdict(d, call[d].parent, "save") \in {"save", "conflict", "error"}
      BY VerdictCases
    <3> QED BY <1>0, <1>13, <3>1 DEF LoadManifest, EngineTypeOK, Calls
  <2>2. CASE call'[d].pc = "save"
    <3>1. ClientPhase(d)' = ClientPhase(d)
      BY <2>1, <2>2, PhaseCases DEF Running, InChain
    <3> QED BY <1>4, <2>1, <3>1
  <2> QED BY <1>5, <2>1, <2>2 DEF Running
<1>14. ASSUME NEW d \in Devices, SaveManifest(d)
       PROVE  Atomic!Publish(d) \/ Atomic!Refuse(d) \/ UNCHANGED Atomic!vars
  <2>1. CASE Accepted(d)
    <3>1. /\ call'[d].pc = "ok" /\ call'[d].id = call[d].id
          /\ call'[d].session = call[d].session /\ call'[d].base = call[d].base
          /\ \A e \in Devices : e # d => call'[e] = call[e]
      BY <1>0, <1>14, <2>1 DEF SaveManifest, EngineTypeOK, Calls
    <3> QED BY <1>8, <1>14, <2>1, <3>1 DEF SaveManifest
  <2>2. CASE ~Accepted(d)
    BY <1>9, <1>14, <2>2 DEF SaveManifest, Install
  <2> QED BY <2>1, <2>2
<1>15. ASSUME NEW d \in Devices, SaveFails(d)
       PROVE  Atomic!Publish(d) \/ Atomic!Refuse(d)
  <2>1. CASE Install(d) /\ Accepted(d)
    <3>1. /\ call'[d].pc = "error" /\ call'[d].id = call[d].id
          /\ call'[d].session = call[d].session /\ call'[d].base = call[d].base
          /\ \A e \in Devices : e # d => call'[e] = call[e]
      BY <1>0, <1>15 DEF SaveFails, Failed, EngineTypeOK, Calls
    <3> QED BY <1>8, <1>15, <2>1, <3>1 DEF SaveFails
  <2>2. CASE chain' = chain
    BY <1>12, <1>15, <2>2 DEF SaveFails, Running
  <2> QED BY <1>15, <2>1, <2>2 DEF SaveFails, Install
<1>16. ASSUME NEW d \in Devices, SaveResent(d)
       PROVE  Atomic!Publish(d)
  <2>1. PICK k \in Nat, ph \in CallPhases :
            Retried(d) = [call[d] EXCEPT !.attempt = k, !.pc = ph]
    BY <1>0, RetriedType
  <2>2. call'[d] = Retried(d) /\ \A e \in Devices : e # d => call'[e] = call[e]
    BY <1>1, <1>16 DEF SaveResent
  <2>3. Retried(d).pc \in {"reload", "conflict"}
    BY <1>0, RetriedType
  <2>4. /\ call'[d].id = call[d].id
        /\ call'[d].session = call[d].session /\ call'[d].base = call[d].base
    BY <1>0, <2>1, <2>2 DEF Calls
  <2> QED BY <1>8, <1>16, <2>2, <2>3, <2>4 DEF SaveResent
<1>17. ASSUME UNCHANGED <<call, chain>>
       PROVE  UNCHANGED Atomic!vars
  BY <1>17 DEF Atomic!vars, Client, ClientPhase, Running, InChain
<1>18. ASSUME NEW d \in Devices,
              Atomic!Ask(d) \/ Atomic!Publish(d) \/ Atomic!Refuse(d) \/ Atomic!Leave(d)
       PROVE  Atomic!Next
  BY <1>18 DEF Atomic!Next
<1>19. CASE UNCHANGED engineVars \/ OtherFault
  BY <1>17, <1>19 DEF engineVars, OtherFault
<1>20. ASSUME NEW d \in Devices, Return(d) \/ Abandon(d)
       PROVE  [Atomic!Next]_(Atomic!vars)
  BY <1>7, <1>18, <1>20 DEF Return, Abandon
<1>21. ASSUME NEW d \in Devices, PutRefused(d) \/ LoadFails(d) \/ PutFails(d)
       PROVE  Atomic!Next
  BY <1>12, <1>18, <1>21 DEF PutRefused, LoadFails, PutFails, Running
<1>22. ASSUME NEW d \in Devices, Step(d) \/ Misfortune(d)
       PROVE  [Atomic!Next]_(Atomic!vars)
  BY <1>10, <1>11, <1>13, <1>14, <1>15, <1>16, <1>18, <1>21, <1>22 DEF Step, Misfortune
<1> QED BY <1>6, <1>18, <1>19, <1>20, <1>22 DEF EngineNext

(* PushSession implements the atomic push, for every number of devices,    *)
(* sessions, retries and faults: it takes effect in the one accepted       *)
(* manifest write, at most once, or not at all.                            *)
THEOREM PushIsAtomic == EngineSpec => ImplementsAtomicPush
<1>1. EngineInit => Atomic!Init
  <2> SUFFICES ASSUME EngineInit PROVE Atomic!Init
    OBVIOUS
  <2>1. PICK s \in Sessions : s = CHOOSE t \in Sessions : TRUE
    BY SyncEngineAssumption
  <2>2. NoCall.session = s
    BY <2>1 DEF NoCall
  <2>3. \A d \in Devices : call[d] = NoCall /\ ClientPhase(d) = "idle"
    BY NoCallType, PhaseCases DEF EngineInit
  <2>4. Client = [d \in Devices |-> [phase |-> "idle", session |-> s, base |-> 0]]
    BY <2>2, <2>3, NoCallType DEF Client
  <2> QED BY <2>1, <2>4 DEF EngineInit, Atomic!Init, Atomic!Quiet
<1>2. EngineInv /\ EngineInv' /\ [EngineNext]_engineVars => [Atomic!Next]_(Atomic!vars)
  BY EngineStepImplements
<1> QED BY <1>1, <1>2, EngineInvariant, PTL DEF EngineSpec, ImplementsAtomicPush, Atomic!Spec

(***************************************************************************)
(* The commands                                                            *)
(***************************************************************************)

(* What the store never takes back: snapshots stay as they were uploaded,  *)
(* a history only grows, and a head only gives way to one that is new.     *)
Grows ==
    /\ Len(snapshots) \in Nat /\ Len(snapshots)' \in Nat
    /\ Len(snapshots) <= Len(snapshots)'
    /\ \A i \in 1..Len(snapshots) : snapshots'[i] = snapshots[i]
    /\ \A s \in Sessions : \A n : InChain(s, n) => InChain(s, n)'
    /\ \A s \in Sessions :
           \/ RemoteHead(s)' = RemoteHead(s)
           \/ RemoteHead(s)' # 0 /\ ~InChain(s, RemoteHead(s)')

(* What is in a history is stored.                                         *)
LEMMA InChainStored ==
  ASSUME EngineInv, NEW s \in Sessions, NEW n, InChain(s, n)
  PROVE  n \in 1..Len(snapshots) /\ Len(snapshots) \in Nat /\ n \in Ids /\ n # 0
         /\ snapshots[n] \in Envelopes /\ snapshots[n].session = s
<1>1. n \in 1..Len(snapshots) /\ snapshots[n].session = s
  BY DEF EngineInv, ChainLinked, InChain
<1>2. snapshots \in Seq(Envelopes) /\ Len(snapshots) \in Nat /\ Len(snapshots) <= MaxSnapshots
      /\ MaxSnapshots \in Nat
  BY SyncEngineAssumption DEF EngineInv, EngineTypeOK
<1> QED BY <1>1, <1>2 DEF Ids

(* A head is in its session's history.                                     *)
LEMMA HeadInChain ==
  ASSUME EngineInv, NEW s \in Sessions, RemoteHead(s) # 0
  PROVE  InChain(s, RemoteHead(s))
<1>1. Len(chain[s]) \in Nat
  BY DEF EngineInv, EngineTypeOK
<1>2. Len(chain[s]) # 0 /\ RemoteHead(s) = chain[s][Len(chain[s])]
  BY DEF EngineInv, HeadIsTip
<1> QED BY <1>1, <1>2 DEF InChain

(* An accepted manifest write, seen from the outside.                      *)
LEMMA InstallGrows ==
  ASSUME EngineInv, NEW d \in Devices, call[d].pc = "save", Install(d), UNCHANGED snapshots
  PROVE  Grows
<1>0. EngineTypeOK /\ Len(snapshots) \in Nat
  BY DEF EngineInv, EngineTypeOK
<1>1. CASE ~Accepted(d)
  BY <1>0, <1>1 DEF Install, Grows, InChain, RemoteHead
<1>2. CASE Accepted(d)
  <2>1. PICK s, n : s = call[d].session /\ n = call[d].id
    OBVIOUS
  <2>2. /\ s \in Sessions /\ n \in 1..Len(snapshots)
        /\ RemoteHead(s) \in Nat /\ RemoteHead(s) < n
        /\ RemoteHead(s)' = n
        /\ \A t \in Sessions : t # s => RemoteHead(t)' = RemoteHead(t)
        /\ chain' = [chain EXCEPT ![s] = Append(chain[s], n)]
    BY <1>2, <2>1, AcceptedWrite
  <2>3. chain[s] \in Seq(Ids) /\ Len(chain[s]) \in Nat /\ n \in Ids
    BY <1>0, <2>1, <2>2 DEF EngineTypeOK, Calls
  <2>4. chain'[s] = Append(chain[s], n) /\ \A t \in Sessions : t # s => chain'[t] = chain[t]
    BY <1>0, <2>2 DEF EngineTypeOK
  <2>5. ~InChain(s, n)
    <3>1. SUFFICES ASSUME NEW i \in 1..Len(chain[s]), chain[s][i] = n PROVE FALSE
      BY DEF InChain
    <3>2. n <= RemoteHead(s)
      BY <2>2, <3>1 DEF EngineInv, HeadIsTip
    <3> QED BY <2>2, <3>2
  <2>6. ASSUME NEW t \in Sessions, NEW m, InChain(t, m) PROVE InChain(t, m)'
    <3>1. PICK i \in 1..Len(chain[t]) : chain[t][i] = m
      BY <2>6 DEF InChain
    <3>2. CASE t = s
      <4>1. i \in 1..Len(chain'[s]) /\ chain'[s][i] = m
        BY <2>3, <2>4, <3>1, <3>2
      <4> QED BY <3>2, <4>1 DEF InChain
    <3>3. CASE t # s
      BY <2>4, <3>1, <3>3 DEF InChain
    <3> QED BY <3>2, <3>3
  <2>7. n # 0 /\ \A t \in Sessions : RemoteHead(t)' = RemoteHead(t) \/ (t = s /\ RemoteHead(t)' = n)
    BY <2>2
  <2> QED BY <1>0, <2>5, <2>6, <2>7 DEF Grows
<1> QED BY <1>1, <1>2

(* Every step of the engine is of that kind.                               *)
LEMMA EngineGrows ==
  ASSUME EngineInv, [EngineNext]_engineVars
  PROVE  Grows
<1>0. /\ snapshots \in Seq(Envelopes) /\ Len(snapshots) \in Nat /\ MaxSnapshots \in Nat
      /\ call \in [Devices -> Calls]
  BY SyncEngineAssumption DEF EngineInv, EngineTypeOK
<1>1. CASE UNCHANGED <<snapshots, manifest, chain>>
  BY <1>0, <1>1 DEF Grows, InChain, RemoteHead
<1>2. ASSUME NEW d \in Devices, Upload(d), UNCHANGED <<manifest, chain>>
      PROVE  Grows
  <2>1. PICK v \in Envelopes : snapshots' = Append(snapshots, v)
    BY <1>0, <1>2 DEF Upload, Envelopes, Calls
  <2>2. Len(snapshots)' = Len(snapshots) + 1 /\ \A i \in 1..Len(snapshots) : snapshots'[i] = snapshots[i]
    BY <1>0, <2>1
  <2> QED BY <1>0, <1>2, <2>2 DEF Grows, InChain, RemoteHead
<1>3. ASSUME NEW d \in Devices, SaveManifest(d) \/ SaveFails(d) \/ SaveResent(d)
      PROVE  Grows
  <2>1. CASE Install(d) /\ call[d].pc = "save" /\ UNCHANGED snapshots
    BY <2>1, InstallGrows
  <2> QED BY <1>1, <1>3, <2>1 DEF SaveManifest, SaveFails, SaveResent
<1> QED
  BY <1>1, <1>2, <1>3 DEF EngineNext, Step, Misfortune, Begin, LoadParent, PutSnapshot, PutRefused,
     LoadManifest, LoadFails, PutFails, Return, Abandon, OtherFault, engineVars

-----------------------------------------------------------------------------
(* Commands use the store through the engine only: each of their steps is  *)
(* one of the engine's or leaves the engine alone.                         *)
LEMMA StepOfEngine ==
  ASSUME TypeOK, [Next]_vars
  PROVE  [EngineNext]_engineVars
<1>0. /\ \A d \in Devices : cmd[d].cur \in Sessions /\ cmd[d].hash \in Bodies
      /\ \A d \in Devices, s \in Sessions : local[d][s] \in Bodies /\ cmd[d].mem[s].remote \in Ids
      /\ \A s \in Sessions : RemoteHead(s) \in Ids
  BY DEF TypeOK, EngineTypeOK, Cmds, States, Manifests, RemoteHead
<1>1. CASE UNCHANGED vars
  BY <1>1 DEF vars
<1>2. SUFFICES ASSUME NEW d \in Devices,
                      \/ \E s \in Sessions : Edit(d, s)
                      \/ \E kind \in Pushes : BeginPush(d, kind)
                      \/ \E kind \in Pulls : BeginPull(d, kind)
                      \/ BeginResolve(d)
                      \/ Progress(d)
                      \/ CommandFails(d) \/ Crash(d)
               PROVE  [EngineNext]_engineVars
  BY <1>1 DEF Next
<1>3. CASE (\E s \in Sessions : Edit(d, s)) \/ (\E kind \in Pushes : BeginPush(d, kind))
           \/ (\E kind \in Pulls : BeginPull(d, kind)) \/ BeginResolve(d)
  BY <1>3 DEF Edit, BeginPush, BeginPull, BeginResolve
<1>4. CASE CallStep(d) \/ CommandFails(d) \/ Crash(d)
  BY <1>4 DEF CallStep, CommandFails, Crash, EngineNext
<1>5. CASE Push(d)
  <2>1. CASE PushExport(d)
    <3>1. Begin(d, Cur(d), local[d][Cur(d)], cmd[d].mem[Cur(d)].remote)
      BY <2>1 DEF PushExport
    <3> QED BY <1>0, <3>1 DEF Cur, EngineNext
  <2>2. CASE PushUploaded(d) \/ PushFailed(d) \/ PushRefused(d)
    BY <2>2 DEF PushUploaded, PushFailed, PushRefused, EngineNext
  <2>3. CASE PushRecord(d)
    BY <2>3 DEF PushRecord, EngineNext
  <2> QED BY <1>5, <2>1, <2>2, <2>3 DEF Push, PushFetch, PushSkip, PushHash
<1>6. CASE SaveState(d) \/ Pull(d) \/ Restore(d)
  BY <1>6 DEF SaveState, Pull, PullFetch, PullSkip, PullDiverged, PullSelect, PullRestored,
     Restore, RestoreSkipped, RestorePrepare, RestoreConflicts, RestoreBackup, RestoreVerify,
     RestoreRename
<1>7. CASE Resolve(d)
  <2>1. CASE KeepLocalFetch(d)
    <3>1. Begin(d, Cur(d), cmd[d].hash, RemoteHead(Cur(d)))
      BY <2>1 DEF KeepLocalFetch
    <3> QED BY <1>0, <3>1 DEF Cur, EngineNext
  <2>2. CASE KeepLocalPublished(d) \/ KeepLocalFailed(d)
    BY <2>2 DEF KeepLocalPublished, KeepLocalFailed, EngineNext
  <2> QED BY <1>7, <2>1, <2>2 DEF Resolve, KeepLocalExport, KeepRemoteFetch, ResolveRecord,
          ResolveAudit, ResolveRemove
<1> QED BY <1>2, <1>3, <1>4, <1>5, <1>6, <1>7 DEF Progress

-----------------------------------------------------------------------------
(* What a command is like at each step.  Which phases it has...            *)
PhasesOf(kind) ==
    IF kind \in Pushes THEN {"fetch", "next", "export", "call", "record"}
    ELSE IF kind \in Pulls
      THEN {"fetch", "next", "restore", "backup", "verify", "rename", "hash"}
    ELSE IF kind = "keep-local" THEN {"export", "fetch", "call", "hash", "audit", "remove"}
    ELSE IF kind \in Resolutions
      THEN {"fetch", "restore", "backup", "verify", "rename", "hash", "audit", "remove"}
    ELSE {"-"}

Restoring == {"restore", "backup", "verify", "rename", "hash"}

(* ...that its call is about the session at hand, and a resolution about   *)
(* the session of its conflict...                                          *)
Shaped(d) ==
    /\ cmd[d].phase \in PhasesOf(cmd[d].kind)
    /\ cmd[d].kind = "none" => cmd[d] = NoCmd
    /\ cmd[d].kind \in Kinds \cup {"none"}
    /\ cmd[d].forks # {} => cmd[d].kind \in Pulls /\ cmd[d].phase # "fetch"
    /\ call[d].pc # "idle" => call[d].session = cmd[d].cur
    /\ cmd[d].kind = "keep-both" => cmd[d].cur \in Originals
    /\ cmd[d].kind \in {"keep-local", "keep-remote"} => cmd[d].target = cmd[d].cur
    /\ cmd[d].kind \in Resolutions => cmd[d].about.session = cmd[d].cur

(* ...that the manifest it goes by is one that was there, and names what   *)
(* it restores and where to...                                             *)
Named(d) ==
    /\ \A s \in Sessions : cmd[d].man[s] # 0 => InChain(s, cmd[d].man[s])
    /\ \A s \in cmd[d].forks : Fork("active", s, cmd[d].man[s]) \in Sessions
    /\ cmd[d].kind \in Pulls => \A s \in cmd[d].todo : cmd[d].man[s] # 0
    /\ cmd[d].phase \in Restoring => cmd[d].man[cmd[d].cur] # 0
    /\ cmd[d].kind = "keep-both" /\ cmd[d].phase \in Restoring =>
           cmd[d].target = Fork("remote", cmd[d].cur, cmd[d].man[cmd[d].cur])
    /\ cmd[d].kind \in Pulls /\ cmd[d].phase \in Restoring =>
           cmd[d].target \in {cmd[d].cur, Fork("active", cmd[d].cur, cmd[d].man[cmd[d].cur])}

(* ...and that state.json, and the copy a command keeps of it, remember a  *)
(* revision of a session only with a snapshot that was a head.             *)
WellKept(s, r) ==
    /\ r.remote # 0 => WasHead(s, r.remote)
    /\ r.remote = 0 => r = Unknown

Recorded(d) == \A s \in Sessions : WellKept(s, state[d][s]) /\ WellKept(s, cmd[d].mem[s])

CommandsInv ==
    /\ TypeOK
    /\ EngineInv
    /\ \A d \in Devices : Shaped(d) /\ Named(d) /\ Recorded(d)

(* A device that does not move keeps what it knows.                        *)
Rests(d) ==
    cmd'[d] = cmd[d] /\ state'[d] = state[d] /\ call'[d] = call[d]

LEMMA WellKeptStays ==
  ASSUME Grows, NEW s \in Sessions, NEW r, WellKept(s, r)
  PROVE  WellKept(s, r)'
  BY DEF Grows, WellKept, WasHead

LEMMA RestsSound ==
  ASSUME TypeOK, Grows, NEW d \in Devices, Rests(d), Shaped(d), Named(d), Recorded(d)
  PROVE  Shaped(d)' /\ Named(d)' /\ Recorded(d)'
<1>1. Shaped(d)'
  BY DEF Rests, Shaped
<1>2. Named(d)'
  BY DEF Rests, Named, Grows
<1>3. Recorded(d)'
  BY DEF Rests, Recorded, Grows, WellKept, WasHead, Unknown
<1> QED BY <1>1, <1>2, <1>3

Sound(d) == Shaped(d) /\ Named(d) /\ Recorded(d)

(* The types a step of d has to look after.                                *)
DeviceTypes ==
    /\ local \in [Devices -> [Sessions -> Bodies]]
    /\ state \in [Devices -> States]
    /\ conflicts \in [Devices -> SUBSET Divergences]
    /\ resolved \in [Devices -> SUBSET (Divergences \X Resolutions)]
    /\ backups \in [Devices -> SUBSET [session : Sessions, body : Bodies]]
    /\ cmd \in [Devices -> Cmds]
    /\ edits \in 0..MaxEdits
    /\ resolves \in 0..MaxResolves

(* What the parts of the state belong to.                                  *)
LEMMA Parts ==
  ASSUME TypeOK, NEW d \in Devices
  PROVE  /\ cmd[d] \in Cmds /\ state[d] \in States /\ local[d] \in [Sessions -> Bodies]
         /\ cmd[d].cur \in Sessions /\ cmd[d].target \in Sessions
         /\ cmd[d].man \in [Sessions -> Ids] /\ cmd[d].mem \in States
         /\ cmd[d].todo \subseteq Sessions /\ cmd[d].forks \subseteq Sessions
         /\ cmd[d].hash \in Bodies /\ cmd[d].about \in Divergences
         /\ call[d] \in Calls
         /\ manifest.heads \in [Sessions -> Ids] /\ DeviceTypes
  BY DEF TypeOK, EngineTypeOK, Cmds, Manifests, DeviceTypes

(* A step of one device, for the invariant.                                *)
LEMMA OneMoves ==
  ASSUME CommandsInv, Grows, EngineInv', NEW d \in Devices, DeviceTypes',
         \A e \in Devices : e # d => Rests(e),
         call'[d].pc # "idle" => cmd'[d].phase = "call", Sound(d)'
  PROVE  CommandsInv'
<1>1. ASSUME NEW e \in Devices, e # d PROVE Sound(e)'
  <2>1. Rests(e) /\ TypeOK /\ Shaped(e) /\ Named(e) /\ Recorded(e)
    BY <1>1 DEF CommandsInv
  <2> QED BY <2>1, RestsSound DEF Sound
<1>2. \A e \in Devices : e # d => (call'[e].pc # "idle" => cmd'[e].phase = "call")
  BY DEF Rests, CommandsInv, TypeOK
<1>3. TypeOK'
  BY <1>2 DEF DeviceTypes, TypeOK, EngineInv
<1> QED BY <1>1, <1>3 DEF CommandsInv, Sound

LEMMA NoCmdType == NoCmd \in Cmds /\ NoCall.session \in Sessions
<1>1. NoCall.session \in Sessions
  <2>1. PICK t \in Sessions : t = CHOOSE u \in Sessions : TRUE
    BY SyncEngineAssumption
  <2> QED BY <2>1 DEF NoCall
<1>2. 0 \in Ids /\ {} \in Bodies
  BY SyncEngineAssumption, DeviceSyncAssumption DEF Ids
<1> QED BY <1>1, <1>2 DEF NoCmd, Cmds, Phases, States, Unknown, Divergences, NoDivergence, NoHeads

-----------------------------------------------------------------------------
(* What a command keeps after it has noted something: it is still a        *)
(* command, and the rest of it is as it was.                               *)

(* A new phase.                                                            *)
Phased(k, ph) ==
    [k EXCEPT !.phase = ph]

LEMMA PhasedType ==
  ASSUME NEW k \in Cmds, NEW ph \in Phases,
         NEW c, c = Phased(k, ph)
  PROVE  /\ c \in Cmds
         /\ c.kind = k.kind /\ c.phase = ph /\ c.todo = k.todo /\ c.man = k.man
         /\ c.mem = k.mem /\ c.cur = k.cur /\ c.hash = k.hash /\ c.here = k.here
         /\ c.forks = k.forks /\ c.target = k.target /\ c.about = k.about
<1>1. c \in Cmds
  BY Zenon DEF Cmds, Phases, Phased
<1>2. /\ c.kind = k.kind /\ c.phase = ph /\ c.todo = k.todo /\ c.man = k.man
      /\ c.mem = k.mem /\ c.cur = k.cur /\ c.hash = k.hash /\ c.here = k.here
      /\ c.forks = k.forks /\ c.target = k.target /\ c.about = k.about
  BY SMT DEF Cmds, Phased
<1> QED BY <1>1, <1>2

(* A new phase and what was read of the session.                           *)
Hashed(k, ph, h) ==
    [k EXCEPT !.phase = ph, !.hash = h]

LEMMA HashedType ==
  ASSUME NEW k \in Cmds, NEW ph \in Phases, NEW h \in Bodies,
         NEW c, c = Hashed(k, ph, h)
  PROVE  /\ c \in Cmds
         /\ c.kind = k.kind /\ c.phase = ph /\ c.todo = k.todo /\ c.man = k.man
         /\ c.mem = k.mem /\ c.cur = k.cur /\ c.hash = h /\ c.here = k.here
         /\ c.forks = k.forks /\ c.target = k.target /\ c.about = k.about
<1>1. c \in Cmds
  BY Zenon DEF Cmds, Phases, Hashed
<1>2. /\ c.kind = k.kind /\ c.phase = ph /\ c.todo = k.todo /\ c.man = k.man
      /\ c.mem = k.mem /\ c.cur = k.cur /\ c.hash = h /\ c.here = k.here
      /\ c.forks = k.forks /\ c.target = k.target /\ c.about = k.about
  BY SMT DEF Cmds, Hashed
<1> QED BY <1>1, <1>2

(* The session to export, as it was read.                                  *)
Choosing(k, ph, s, h) ==
    [k EXCEPT !.phase = ph, !.cur = s, !.hash = h]

LEMMA ChoosingType ==
  ASSUME NEW k \in Cmds, NEW ph \in Phases, NEW s \in Sessions, NEW h \in Bodies,
         NEW c, c = Choosing(k, ph, s, h)
  PROVE  /\ c \in Cmds
         /\ c.kind = k.kind /\ c.phase = ph /\ c.todo = k.todo /\ c.man = k.man
         /\ c.mem = k.mem /\ c.cur = s /\ c.hash = h /\ c.here = k.here
         /\ c.forks = k.forks /\ c.target = k.target /\ c.about = k.about
<1>1. c \in Cmds
  BY Zenon DEF Cmds, Phases, Choosing
<1>2. /\ c.kind = k.kind /\ c.phase = ph /\ c.todo = k.todo /\ c.man = k.man
      /\ c.mem = k.mem /\ c.cur = s /\ c.hash = h /\ c.here = k.here
      /\ c.forks = k.forks /\ c.target = k.target /\ c.about = k.about
  BY SMT DEF Cmds, Choosing
<1> QED BY <1>1, <1>2

(* The manifest a push goes by.                                            *)
Given(k, ph, man) ==
    [k EXCEPT !.phase = ph, !.man = man]

LEMMA GivenType ==
  ASSUME NEW k \in Cmds, NEW ph \in Phases, NEW man \in [Sessions -> Ids],
         NEW c, c = Given(k, ph, man)
  PROVE  /\ c \in Cmds
         /\ c.kind = k.kind /\ c.phase = ph /\ c.todo = k.todo /\ c.man = man
         /\ c.mem = k.mem /\ c.cur = k.cur /\ c.hash = k.hash /\ c.here = k.here
         /\ c.forks = k.forks /\ c.target = k.target /\ c.about = k.about
<1>1. c \in Cmds
  BY Zenon DEF Cmds, Phases, Given
<1>2. /\ c.kind = k.kind /\ c.phase = ph /\ c.todo = k.todo /\ c.man = man
      /\ c.mem = k.mem /\ c.cur = k.cur /\ c.hash = k.hash /\ c.here = k.here
      /\ c.forks = k.forks /\ c.target = k.target /\ c.about = k.about
  BY SMT DEF Cmds, Given
<1> QED BY <1>1, <1>2

(* The manifest a pull goes by, and what is there.                         *)
Listing(k, ph, todo, man, here, forks) ==
    [k EXCEPT !.phase = ph, !.todo = todo, !.man = man, !.here = here,
              !.forks = forks]

LEMMA ListingType ==
  ASSUME NEW k \in Cmds, NEW ph \in Phases, NEW todo \in SUBSET Sessions,
         NEW man \in [Sessions -> Ids], NEW here \in SUBSET Sessions,
         NEW forks \in SUBSET Sessions,
         NEW c, c = Listing(k, ph, todo, man, here, forks)
  PROVE  /\ c \in Cmds
         /\ c.kind = k.kind /\ c.phase = ph /\ c.todo = todo /\ c.man = man
         /\ c.mem = k.mem /\ c.cur = k.cur /\ c.hash = k.hash /\ c.here = here
         /\ c.forks = forks /\ c.target = k.target /\ c.about = k.about
<1>1. c \in Cmds
  BY Zenon DEF Cmds, Phases, Listing
<1>2. /\ c.kind = k.kind /\ c.phase = ph /\ c.todo = todo /\ c.man = man
      /\ c.mem = k.mem /\ c.cur = k.cur /\ c.hash = k.hash /\ c.here = here
      /\ c.forks = forks /\ c.target = k.target /\ c.about = k.about
  BY SMT DEF Cmds, Listing
<1> QED BY <1>1, <1>2

(* The session to restore and where.                                       *)
Selecting(k, ph, s, t) ==
    [k EXCEPT !.phase = ph, !.cur = s, !.target = t]

LEMMA SelectingType ==
  ASSUME NEW k \in Cmds, NEW ph \in Phases, NEW s \in Sessions, NEW t \in Sessions,
         NEW c, c = Selecting(k, ph, s, t)
  PROVE  /\ c \in Cmds
         /\ c.kind = k.kind /\ c.phase = ph /\ c.todo = k.todo /\ c.man = k.man
         /\ c.mem = k.mem /\ c.cur = s /\ c.hash = k.hash /\ c.here = k.here
         /\ c.forks = k.forks /\ c.target = t /\ c.about = k.about
<1>1. c \in Cmds
  BY Zenon DEF Cmds, Phases, Selecting
<1>2. /\ c.kind = k.kind /\ c.phase = ph /\ c.todo = k.todo /\ c.man = k.man
      /\ c.mem = k.mem /\ c.cur = s /\ c.hash = k.hash /\ c.here = k.here
      /\ c.forks = k.forks /\ c.target = t /\ c.about = k.about
  BY SMT DEF Cmds, Selecting
<1> QED BY <1>1, <1>2

(* The manifest a resolution goes by and what it restores.                 *)
Aiming(k, ph, man, t) ==
    [k EXCEPT !.phase = ph, !.man = man, !.target = t]

LEMMA AimingType ==
  ASSUME NEW k \in Cmds, NEW ph \in Phases, NEW man \in [Sessions -> Ids], NEW t \in Sessions,
         NEW c, c = Aiming(k, ph, man, t)
  PROVE  /\ c \in Cmds
         /\ c.kind = k.kind /\ c.phase = ph /\ c.todo = k.todo /\ c.man = man
         /\ c.mem = k.mem /\ c.cur = k.cur /\ c.hash = k.hash /\ c.here = k.here
         /\ c.forks = k.forks /\ c.target = t /\ c.about = k.about
<1>1. c \in Cmds
  BY Zenon DEF Cmds, Phases, Aiming
<1>2. /\ c.kind = k.kind /\ c.phase = ph /\ c.todo = k.todo /\ c.man = man
      /\ c.mem = k.mem /\ c.cur = k.cur /\ c.hash = k.hash /\ c.here = k.here
      /\ c.forks = k.forks /\ c.target = t /\ c.about = k.about
  BY SMT DEF Cmds, Aiming
<1> QED BY <1>1, <1>2

(* On to the next session, with the state so far.                          *)
Going(k, s, m) ==
    [k EXCEPT !.phase = "next", !.todo = k.todo \ {s}, !.mem = m]

LEMMA GoingType ==
  ASSUME NEW k \in Cmds, NEW s, NEW m \in States,
         NEW c, c = Going(k, s, m)
  PROVE  /\ c \in Cmds
         /\ c.kind = k.kind /\ c.phase = "next" /\ c.todo = k.todo \ {s}
         /\ c.man = k.man /\ c.mem = m /\ c.cur = k.cur /\ c.hash = k.hash
         /\ c.here = k.here /\ c.forks = k.forks /\ c.target = k.target
         /\ c.about = k.about
<1>1. c \in Cmds
  BY Zenon DEF Cmds, Phases, Going
<1>2. /\ c.kind = k.kind /\ c.phase = "next" /\ c.todo = k.todo \ {s}
      /\ c.man = k.man /\ c.mem = m /\ c.cur = k.cur /\ c.hash = k.hash
      /\ c.here = k.here /\ c.forks = k.forks /\ c.target = k.target
      /\ c.about = k.about
  BY SMT DEF Cmds, Going
<1> QED BY <1>1, <1>2

(* A push is told to start.                                                *)
Pushing(k, kind, ph, todo, m) ==
    [k EXCEPT !.kind = kind, !.phase = ph, !.todo = todo, !.mem = m]

LEMMA PushingType ==
  ASSUME NEW k \in Cmds, NEW kind \in Pushes \cup Pulls \cup Resolutions, NEW ph \in Phases,
         NEW todo \in SUBSET Sessions, NEW m \in States,
         NEW c, c = Pushing(k, kind, ph, todo, m)
  PROVE  /\ c \in Cmds
         /\ c.kind = kind /\ c.phase = ph /\ c.todo = todo /\ c.man = k.man
         /\ c.mem = m /\ c.cur = k.cur /\ c.hash = k.hash /\ c.here = k.here
         /\ c.forks = k.forks /\ c.target = k.target /\ c.about = k.about
<1>1. c \in Cmds
  BY Zenon DEF Cmds, Phases, Pushing
<1>2. /\ c.kind = kind /\ c.phase = ph /\ c.todo = todo /\ c.man = k.man /\ c.mem = m
      /\ c.cur = k.cur /\ c.hash = k.hash /\ c.here = k.here /\ c.forks = k.forks
      /\ c.target = k.target /\ c.about = k.about
  BY SMT DEF Cmds, Pushing
<1> QED BY <1>1, <1>2

(* A pull is told to start.                                                *)
Pulling(k, kind, ph, s, m) ==
    [k EXCEPT !.kind = kind, !.phase = ph, !.cur = s, !.mem = m]

LEMMA PullingType ==
  ASSUME NEW k \in Cmds, NEW kind \in Pushes \cup Pulls \cup Resolutions, NEW ph \in Phases,
         NEW s \in Sessions, NEW m \in States,
         NEW c, c = Pulling(k, kind, ph, s, m)
  PROVE  /\ c \in Cmds
         /\ c.kind = kind /\ c.phase = ph /\ c.todo = k.todo /\ c.man = k.man
         /\ c.mem = m /\ c.cur = s /\ c.hash = k.hash /\ c.here = k.here
         /\ c.forks = k.forks /\ c.target = k.target /\ c.about = k.about
<1>1. c \in Cmds
  BY Zenon DEF Cmds, Phases, Pulling
<1>2. /\ c.kind = kind /\ c.phase = ph /\ c.todo = k.todo /\ c.man = k.man
      /\ c.mem = m /\ c.cur = s /\ c.hash = k.hash /\ c.here = k.here
      /\ c.forks = k.forks /\ c.target = k.target /\ c.about = k.about
  BY SMT DEF Cmds, Pulling
<1> QED BY <1>1, <1>2

(* A resolution is told to start.                                          *)
Resolving(k, kind, ph, s, t, r) ==
    [k EXCEPT !.kind = kind, !.phase = ph, !.cur = s, !.target = t, !.about = r]

LEMMA ResolvingType ==
  ASSUME NEW k \in Cmds, NEW kind \in Pushes \cup Pulls \cup Resolutions, NEW ph \in Phases,
         NEW s \in Sessions, NEW t \in Sessions, NEW r \in Divergences,
         NEW c, c = Resolving(k, kind, ph, s, t, r)
  PROVE  /\ c \in Cmds
         /\ c.kind = kind /\ c.phase = ph /\ c.todo = k.todo /\ c.man = k.man
         /\ c.mem = k.mem /\ c.cur = s /\ c.hash = k.hash /\ c.here = k.here
         /\ c.forks = k.forks /\ c.target = t /\ c.about = r
<1>1. c \in Cmds
  BY Zenon DEF Cmds, Phases, Resolving
<1>2. /\ c.kind = kind /\ c.phase = ph /\ c.todo = k.todo /\ c.man = k.man
      /\ c.mem = k.mem /\ c.cur = s /\ c.hash = k.hash /\ c.here = k.here
      /\ c.forks = k.forks /\ c.target = t /\ c.about = r
  BY SMT DEF Cmds, Resolving
<1> QED BY <1>1, <1>2

-----------------------------------------------------------------------------
(* A command that ends, well or badly.                                     *)
LEMMA EndSound ==
  ASSUME CommandsInv, Grows, EngineInv', NEW d \in Devices,
         End(d), \A e \in Devices : e # d => call'[e] = call[e],
         call'[d].pc = "idle",
         state' = state \/ state' = [state EXCEPT ![d] = cmd[d].mem],
         UNCHANGED <<local, resolved, edits, resolves>>,
         conflicts' \in [Devices -> SUBSET Divergences],
         backups' \in [Devices -> SUBSET [session : Sessions, body : Bodies]]
  PROVE  CommandsInv'
<1>0. TypeOK /\ Sound(d)
  BY DEF CommandsInv, Sound
<1>1. cmd'[d] = NoCmd /\ \A e \in Devices : e # d => cmd'[e] = cmd[e]
  BY <1>0, Parts DEF End, DeviceTypes
<1>2. state'[d] \in {state[d], cmd[d].mem} /\ \A e \in Devices : e # d => state'[e] = state[e]
  BY <1>0, Parts DEF DeviceTypes
<1>3. DeviceTypes'
  BY <1>0, Parts, NoCmdType DEF DeviceTypes, End
<1>4. \A e \in Devices : e # d => Rests(e)
  BY <1>1, <1>2 DEF Rests
<1>5. Shaped(d)' /\ Named(d)'
  BY <1>1 DEF Shaped, Named, NoCmd, PhasesOf, Pushes, Pulls, Resolutions, Restoring, NoHeads
<1>6. Recorded(d)'
  BY <1>0, <1>1, <1>2 DEF Sound, Recorded, WellKept, WasHead, Grows, NoCmd, Unknown
<1> QED BY <1>1, <1>3, <1>4, <1>5, <1>6, OneMoves DEF Sound

(* A command that goes on: the manifest and the state it goes by are the   *)
(* same, it has no more sessions left, and what it restores is named.      *)
LEMMA GoOnSound ==
  ASSUME CommandsInv, Grows, EngineInv', NEW d \in Devices, NEW c \in Cmds,
         cmd' = [cmd EXCEPT ![d] = c], cmd[d].kind # "none",
         c.kind = cmd[d].kind, c.man = cmd[d].man, c.mem = cmd[d].mem, c.forks = cmd[d].forks,
         c.about = cmd[d].about, c.todo \subseteq cmd[d].todo,
         c.phase \in PhasesOf(c.kind), c.kind \in Pulls => c.phase # "fetch",
         c.kind \in Resolutions => c.cur = cmd[d].cur,
         c.kind \in {"keep-local", "keep-remote"} => c.target = c.cur,
         c.phase \in Restoring =>
             \/ /\ cmd[d].phase \in Restoring
                /\ c.cur = cmd[d].cur /\ c.target = cmd[d].target
             \/ /\ c.kind \in Pulls /\ c.man[c.cur] # 0
                /\ c.target \in {c.cur, Fork("active", c.cur, c.man[c.cur])},
         \A e \in Devices : e # d => call'[e] = call[e],
         call'[d].pc # "idle" => c.phase = "call" /\ call'[d].session = c.cur,
         UNCHANGED <<state, edits, resolves>>,
         local' \in [Devices -> [Sessions -> Bodies]],
         conflicts' \in [Devices -> SUBSET Divergences],
         resolved' \in [Devices -> SUBSET (Divergences \X Resolutions)],
         backups' \in [Devices -> SUBSET [session : Sessions, body : Bodies]]
  PROVE  CommandsInv'
<1>0. TypeOK /\ Sound(d)
  BY DEF CommandsInv, Sound
<1>1. cmd'[d] = c /\ \A e \in Devices : e # d => cmd'[e] = cmd[e]
  BY <1>0, Parts DEF DeviceTypes
<1>2. DeviceTypes'
  BY <1>0, Parts DEF DeviceTypes
<1>3. \A e \in Devices : e # d => Rests(e)
  BY <1>1 DEF Rests
<1>4. Shaped(d)'
  BY <1>0, <1>1 DEF Sound, Shaped, Resolutions
<1>5. Named(d)'
  <2>1. c.kind \in Pulls => c.kind # "keep-both"
    BY DEF Pulls
  <2> QED BY <1>0, <1>1, <2>1 DEF Sound, Named, Grows
<1>6. Recorded(d)'
  BY <1>0, <1>1 DEF Sound, Recorded, WellKept, WasHead, Grows, Unknown
<1> QED BY <1>1, <1>2, <1>3, <1>4, <1>5, <1>6, OneMoves DEF Sound

(* An agent writes.                                                        *)
LEMMA EditSound ==
  ASSUME CommandsInv, Grows, EngineInv', NEW d \in Devices, NEW s \in Sessions, Edit(d, s)
  PROVE  CommandsInv'
<1>0. TypeOK /\ Sound(d)
  BY DEF CommandsInv, Sound
<1>1. edits + 1 \in 1..MaxEdits
  BY <1>0, DeviceSyncAssumption DEF TypeOK, Edit
<1>2. local[d][s] \cup {edits + 1} \in Bodies
  BY <1>0, <1>1, Parts, DeviceSyncAssumption
<1>3. DeviceTypes'
  BY <1>0, <1>1, <1>2, Parts DEF DeviceTypes, Edit
<1>4. \A e \in Devices : Rests(e)
  BY DEF Rests, Edit, engineVars
<1>5. Sound(d)' /\ (call'[d].pc # "idle" => cmd'[d].phase = "call")
  BY <1>0, <1>4, RestsSound DEF Sound, Rests, TypeOK
<1> QED BY <1>3, <1>4, <1>5, OneMoves

(* A command starts.                                                       *)
LEMMA StartSound ==
  ASSUME CommandsInv, Grows, EngineInv', NEW d \in Devices, NEW c \in Cmds,
         cmd[d].kind = "none", cmd' = [cmd EXCEPT ![d] = c],
         c.kind \in Kinds, c.phase \in PhasesOf(c.kind) \ Restoring,
         c.man = NoHeads, c.forks = {}, c.kind \in Pulls => c.todo = {},
         c.mem \in {state[d], NoCmd.mem},
         c.kind = "keep-both" => c.cur \in Originals,
         c.kind \in Resolutions => c.about.session = c.cur /\ c.target = c.cur,
         UNCHANGED <<engineVars, local, state, conflicts, resolved, backups, edits>>,
         resolves' \in 0..MaxResolves
  PROVE  CommandsInv'
<1>0. TypeOK /\ Sound(d)
  BY DEF CommandsInv, Sound
<1>1. cmd'[d] = c /\ \A e \in Devices : e # d => cmd'[e] = cmd[e]
  BY <1>0, Parts DEF DeviceTypes
<1>2. DeviceTypes'
  BY <1>0, Parts DEF DeviceTypes
<1>3. \A e \in Devices : e # d => Rests(e)
  BY <1>1 DEF Rests, engineVars
<1>4. call'[d].pc = "idle"
  <2>1. cmd[d].phase = "-"
    BY <1>0 DEF Sound, Shaped, NoCmd
  <2> QED BY <1>0, <2>1 DEF TypeOK, engineVars
<1>5. Shaped(d)'
  <2>1. "none" \notin Kinds
    BY DeviceSyncAssumption DEF Pushes, Pulls, Resolutions
  <2> QED BY <1>1, <1>4, <2>1 DEF Shaped, Resolutions
<1>7. Named(d)'
  <2>1. \A s \in Sessions : c.man[s] = 0
    BY DEF NoHeads
  <2>2. c.phase \notin Restoring
    OBVIOUS
  <2> QED BY <1>1, <2>1, <2>2 DEF Named
<1>6. Recorded(d)'
  <2>1. \A s \in Sessions : WellKept(s, state[d][s]) /\ WellKept(s, c.mem[s])
    <3>1. \A s \in Sessions : NoCmd.mem[s] = [local |-> {}, remote |-> 0]
      BY DEF NoCmd, Unknown
    <3>2. CASE c.mem = state[d]
      BY <1>0, <3>2 DEF Sound, Recorded
    <3>3. CASE c.mem = NoCmd.mem
      BY <1>0, <3>1, <3>3 DEF Sound, Recorded, WellKept, Unknown
    <3> QED BY <3>2, <3>3
  <2>2. state' = state
    OBVIOUS
  <2> QED BY <1>1, <2>1, <2>2 DEF Recorded, WellKept, WasHead, Grows
<1> QED BY <1>1, <1>2, <1>3, <1>4, <1>5, <1>6, <1>7, OneMoves DEF Sound

(* A command that learns something: a manifest, a revision or what to      *)
(* restore.                                                                *)
LEMMA TurnSound ==
  ASSUME CommandsInv, Grows, EngineInv', NEW d \in Devices, NEW c \in Cmds, NEW m \in States,
         cmd' = [cmd EXCEPT ![d] = c], cmd[d].kind # "none",
         c.kind = cmd[d].kind, c.about = cmd[d].about, c.phase \in PhasesOf(c.kind),
         c.kind \in Resolutions => c.cur = cmd[d].cur,
         c.kind \in {"keep-local", "keep-remote"} => c.target = c.cur,
         \A s \in Sessions : c.man[s] # 0 => InChain(s, c.man[s]),
         \A s \in c.forks : Fork("active", s, c.man[s]) \in Sessions,
         c.forks # {} => c.kind \in Pulls /\ c.phase # "fetch",
         c.kind \in Pulls => \A s \in c.todo : c.man[s] # 0,
         c.phase \in Restoring =>
             /\ c.man[c.cur] # 0
             /\ c.kind = "keep-both" => c.target = Fork("remote", c.cur, c.man[c.cur])
             /\ c.kind \in Pulls => c.target \in {c.cur, Fork("active", c.cur, c.man[c.cur])},
         \A s \in Sessions : WellKept(s, c.mem[s]) /\ WellKept(s, m[s]),
         state' = [state EXCEPT ![d] = m],
         \A e \in Devices : e # d => call'[e] = call[e],
         call'[d].pc = "idle",
         UNCHANGED <<local, conflicts, resolved, backups, edits, resolves>>
  PROVE  CommandsInv'
<1>0. TypeOK /\ Sound(d)
  BY DEF CommandsInv, Sound
<1>1. cmd'[d] = c /\ \A e \in Devices : e # d => cmd'[e] = cmd[e]
  BY <1>0, Parts DEF DeviceTypes
<1>2. state'[d] = m /\ \A e \in Devices : e # d => state'[e] = state[e]
  BY <1>0, Parts DEF DeviceTypes
<1>3. DeviceTypes'
  BY <1>0, Parts DEF DeviceTypes
<1>4. \A e \in Devices : e # d => Rests(e)
  BY <1>1, <1>2 DEF Rests
<1>5. Shaped(d)'
  BY <1>0, <1>1 DEF Sound, Shaped, Resolutions
<1>6. Named(d)'
  BY <1>1 DEF Named, Grows
<1>7. Recorded(d)'
  BY <1>1, <1>2 DEF Recorded, WellKept, WasHead, Grows
<1> QED BY <1>1, <1>3, <1>4, <1>5, <1>6, <1>7, OneMoves DEF Sound

(* What a kind of command is not, and its phases.                          *)
LEMMA PushKind ==
  ASSUME NEW k \in Pushes
  PROVE  /\ k # "none" /\ k \notin Pulls /\ k \notin Resolutions
         /\ k \notin {"keep-local", "keep-remote", "keep-both"}
         /\ PhasesOf(k) = {"fetch", "next", "export", "call", "record"}
         /\ PhasesOf(k) \cap Restoring = {}
  BY DEF Pushes, Pulls, Resolutions, PhasesOf, Restoring

LEMMA PullKind ==
  ASSUME NEW k \in Pulls
  PROVE  /\ k # "none" /\ k \notin Pushes /\ k \notin Resolutions
         /\ k \notin {"keep-local", "keep-remote", "keep-both"}
         /\ PhasesOf(k) = {"fetch", "next", "restore", "backup", "verify", "rename", "hash"}
         /\ Restoring = {"restore", "backup", "verify", "rename", "hash"}
  BY DEF Pushes, Pulls, Resolutions, PhasesOf, Restoring

LEMMA ResolveKind ==
  ASSUME NEW k \in Resolutions
  PROVE  /\ k # "none" /\ k \notin Pushes /\ k \notin Pulls
         /\ k \in {"keep-local", "keep-remote", "keep-both"}
         /\ k = "keep-local" =>
                PhasesOf(k) = {"export", "fetch", "call", "hash", "audit", "remove"}
         /\ k # "keep-local" =>
                PhasesOf(k) = {"fetch", "restore", "backup", "verify", "rename", "hash",
                               "audit", "remove"}
         /\ Restoring = {"restore", "backup", "verify", "rename", "hash"}
  BY DEF Pushes, Pulls, Resolutions, PhasesOf, Restoring

(* A call runs in its own phase only.                                      *)
LEMMA IdleUnlessCalling ==
  ASSUME TypeOK, NEW d \in Devices, cmd[d].phase # "call"
  PROVE  call[d].pc = "idle"
  BY DEF TypeOK

(* A call that is over is forgotten.                                       *)
LEMMA Forgotten ==
  ASSUME TypeOK, NEW d \in Devices, call' = [call EXCEPT ![d] = NoCall]
  PROVE  call'[d].pc = "idle" /\ \A e \in Devices : e # d => call'[e] = call[e]
  BY NoCallType DEF TypeOK, EngineTypeOK

(* The upload of an acknowledged call has been a head.                     *)
LEMMA UploadedInChain ==
  ASSUME EngineInv, NEW d \in Devices, call[d].pc = "ok"
  PROVE  call[d].session \in Sessions /\ InChain(call[d].session, call[d].id)
         /\ call[d].id \in Ids /\ call[d].id # 0
<1>1. call[d].session \in Sessions
  BY DEF EngineInv, EngineTypeOK, Calls
<1>2. InChain(call[d].session, call[d].id)
  BY DEF EngineInv, AckedOnBase, InChain
<1> QED BY <1>1, <1>2, InChainStored

(* A push or pull goes on to its next session.                             *)
LEMMA OnSound ==
  ASSUME CommandsInv, Grows, EngineInv', NEW d \in Devices, NEW s \in Sessions,
         cmd[d].kind \in Pushes \cup Pulls, cmd[d].phase # "call",
         NextSession(d, s, cmd[d].mem),
         conflicts' \in [Devices -> SUBSET Divergences],
         UNCHANGED <<call, local, state, resolved, backups, edits, resolves>>
  PROVE  CommandsInv'
<1>0. TypeOK
  BY DEF CommandsInv
<1>1. PICK c : c = Going(cmd[d], s, cmd[d].mem)
  OBVIOUS
<1>P. cmd[d] \in Cmds /\ cmd[d].mem \in States
  BY <1>0, Parts
<1>N. cmd' = [cmd EXCEPT ![d] = c]
  BY <1>1, Zenon DEF NextSession, Going
<1>2. c \in Cmds /\ cmd' = [cmd EXCEPT ![d] = c]
  BY <1>1, <1>P, <1>N, GoingType
<1>3. /\ c.kind = cmd[d].kind /\ c.phase = "next" /\ c.man = cmd[d].man
      /\ c.forks = cmd[d].forks /\ c.mem = cmd[d].mem /\ c.about = cmd[d].about
      /\ c.todo \subseteq cmd[d].todo
  BY <1>1, <1>P, GoingType
<1>4. /\ c.phase \in PhasesOf(c.kind) /\ c.phase \notin Restoring /\ c.kind # "none"
      /\ c.kind \notin Resolutions /\ c.kind \notin {"keep-local", "keep-remote"}
  BY <1>3, PushKind, PullKind DEF Restoring
<1>5. call'[d].pc = "idle" /\ \A e \in Devices : e # d => call'[e] = call[e]
  BY <1>0, IdleUnlessCalling
<1>6. /\ local' \in [Devices -> [Sessions -> Bodies]]
      /\ resolved' \in [Devices -> SUBSET (Divergences \X Resolutions)]
      /\ backups' \in [Devices -> SUBSET [session : Sessions, body : Bodies]]
  BY <1>0, Parts DEF DeviceTypes
<1> QED BY <1>2, <1>3, <1>4, <1>5, <1>6, GoOnSound

-----------------------------------------------------------------------------
(* push.                                                                   *)
LEMMA PushSound ==
  ASSUME CommandsInv, Grows, EngineInv', NEW d \in Devices,
         (\E kind \in Pushes : BeginPush(d, kind)) \/ Push(d)
  PROVE  CommandsInv'
<1>0. /\ TypeOK /\ Sound(d) /\ EngineInv
      /\ cmd[d] \in Cmds /\ state[d] \in States /\ local[d] \in [Sessions -> Bodies]
      /\ cmd[d].cur \in Sessions /\ cmd[d].target \in Sessions
      /\ cmd[d].man \in [Sessions -> Ids] /\ cmd[d].mem \in States
      /\ cmd[d].todo \subseteq Sessions /\ cmd[d].forks \subseteq Sessions
      /\ cmd[d].hash \in Bodies /\ cmd[d].about \in Divergences
      /\ call[d] \in Calls
      /\ manifest.heads \in [Sessions -> Ids] /\ DeviceTypes
  BY Parts DEF CommandsInv, Sound
<1>1. ASSUME NEW kind \in Pushes, BeginPush(d, kind) PROVE CommandsInv'
  <2>1. PICK items \in SUBSET Sessions : cmd' = [cmd EXCEPT ![d] = [NoCmd EXCEPT
            !.kind = kind, !.phase = "fetch", !.todo = items, !.mem = state[d]]]
    BY <1>1 DEF BeginPush, Present
  <2>2. PICK c : c = Pushing(NoCmd, kind, "fetch", items, state[d])
    OBVIOUS
  <2>K. kind \in Pushes \cup Pulls \cup Resolutions /\ "fetch" \in Phases /\ state[d] \in States
    BY <1>0 DEF Phases
  <2>3. c \in Cmds
    BY <2>2, <2>K, NoCmdType, PushingType
  <2>4. /\ c.kind = kind /\ c.phase = "fetch" /\ c.man = NoHeads /\ c.forks = {} /\ c.mem = state[d]
    BY <2>2 DEF NoCmd, Pushing
  <2>C. cmd' = [cmd EXCEPT ![d] = c]
    BY <2>1, <2>2 DEF Pushing
  <2>5. c.kind \in Kinds /\ cmd[d].kind = "none" /\ resolves' \in 0..MaxResolves
    BY <1>0, <1>1, <2>4 DEF BeginPush, Start, DeviceTypes
  <2>6. c.phase \in PhasesOf(c.kind) \ Restoring
    BY <2>4 DEF PhasesOf, Restoring
  <2>7. c.kind \notin Pulls /\ c.kind # "keep-both" /\ c.kind \notin Resolutions
    BY <2>4 DEF Pushes, Pulls, Resolutions
  <2> QED BY <1>1, <2>C, <2>3, <2>4, <2>5, <2>6, <2>7, StartSound DEF BeginPush
<1>2. CASE PushFetch(d)
  <2>1. CASE End(d)
    BY <1>0, <1>2, <2>1, EndSound, IdleUnlessCalling DEF PushFetch, At, engineVars, DeviceTypes
  <2>2. CASE ~End(d)
    <3>1. PICK c : c = Given(cmd[d], "next", manifest.heads)
      OBVIOUS
    <3>2. cmd' = [cmd EXCEPT ![d] = c]
      BY <1>2, <2>2, <3>1, Zenon DEF PushFetch, Given
    <3>K. cmd[d] \in Cmds /\ "next" \in Phases /\ manifest.heads \in [Sessions -> Ids]
      BY <1>0 DEF Phases
    <3>3. c \in Cmds
      BY <3>1, <3>K, GivenType
    <3>4. /\ c.kind = cmd[d].kind /\ c.phase = "next" /\ c.man = manifest.heads
          /\ c.forks = cmd[d].forks /\ c.mem = cmd[d].mem /\ c.about = cmd[d].about
          /\ c.cur = cmd[d].cur /\ c.todo = cmd[d].todo
      BY <3>1, <3>K, GivenType
    <3>5. c.forks = {}
      BY <1>0, <1>2, <3>4 DEF PushFetch, At, Sound, Shaped
    <3>6. c.kind \in Pushes
      BY <1>2, <3>4 DEF PushFetch, At
    <3>7. c.phase \in PhasesOf(c.kind) /\ c.phase \notin Restoring
      BY <3>4, <3>6, PushKind
    <3>8. \A s \in Sessions : c.man[s] # 0 => InChain(s, c.man[s])
      BY <1>0, <3>4, HeadInChain DEF RemoteHead
    <3>9. \A s \in Sessions : WellKept(s, c.mem[s]) /\ WellKept(s, state[d][s])
      BY <1>0, <3>4 DEF Sound, Recorded
    <3>10. state[d] \in States /\ state' = [state EXCEPT ![d] = state[d]]
      BY <1>0, <1>2 DEF DeviceTypes, PushFetch
    <3>11. call' = call /\ call[d].pc = "idle"
      BY <1>0, <1>2, IdleUnlessCalling DEF PushFetch, At, engineVars
    <3> QED BY <1>2, <3>2, <3>3, <3>4, <3>5, <3>6, <3>7, <3>8, <3>9, <3>10, <3>11,
           TurnSound, PushKind DEF PushFetch
  <2> QED BY <2>1, <2>2
<1>4. CASE PushSkip(d)
  BY <1>0, <1>4, OnSound DEF PushSkip, At, engineVars, DeviceTypes
<1>5. CASE PushHash(d)
  <2>1. PICK s \in cmd[d].todo :
            cmd' = [cmd EXCEPT ![d].phase = "export", ![d].cur = s, ![d].hash = local[d][s]]
    BY <1>5 DEF PushHash
  <2>2. PICK c : c = Choosing(cmd[d], "export", s, local[d][s])
    OBVIOUS
  <2>C. cmd' = [cmd EXCEPT ![d] = c]
    BY <2>1, <2>2, Zenon DEF Choosing
  <2>K. cmd[d] \in Cmds /\ "export" \in Phases /\ s \in Sessions /\ local[d][s] \in Bodies
    BY <1>0 DEF Phases
  <2>3. c \in Cmds /\ cmd' = [cmd EXCEPT ![d] = c]
    BY <2>2, <2>C, <2>K, ChoosingType
  <2>4. /\ c.kind = cmd[d].kind /\ c.phase = "export" /\ c.man = cmd[d].man
        /\ c.forks = cmd[d].forks /\ c.mem = cmd[d].mem /\ c.about = cmd[d].about
        /\ c.todo = cmd[d].todo
    BY <2>2, <2>C, <2>K, ChoosingType
  <2>5. c.kind \in Pushes /\ call'[d].pc = "idle" /\ call' = call
    BY <1>0, <1>5, <2>4, IdleUnlessCalling DEF PushHash, At, engineVars
  <2>6. /\ c.phase \in PhasesOf(c.kind) /\ c.phase \notin Restoring
        /\ cmd[d].kind # "none" /\ c.kind \notin Resolutions /\ c.kind \notin Pulls
        /\ c.kind \notin {"keep-local", "keep-remote"}
    BY <2>4, <2>5, PushKind
  <2>7. /\ local' \in [Devices -> [Sessions -> Bodies]]
        /\ conflicts' \in [Devices -> SUBSET Divergences]
        /\ resolved' \in [Devices -> SUBSET (Divergences \X Resolutions)]
        /\ backups' \in [Devices -> SUBSET [session : Sessions, body : Bodies]]
        /\ UNCHANGED <<state, edits, resolves>>
    BY <1>0, <1>5 DEF DeviceTypes, PushHash
  <2> QED BY <2>3, <2>4, <2>5, <2>6, <2>7, GoOnSound
<1>6. ASSUME NEW ph \in {"call", "record"}, cmd[d].kind \in Pushes,
             cmd' = [cmd EXCEPT ![d].phase = ph],
             \A e \in Devices : e # d => call'[e] = call[e],
             call'[d].pc # "idle" => ph = "call" /\ call'[d].session = cmd[d].cur,
             UNCHANGED <<local, state, conflicts, resolved, backups, edits, resolves>>
      PROVE  CommandsInv'
  <2>1. PICK c : c = Phased(cmd[d], ph)
    OBVIOUS
  <2>C. cmd' = [cmd EXCEPT ![d] = c]
    BY <1>6, <2>1, Zenon DEF Phased
  <2>K. cmd[d] \in Cmds /\ ph \in Phases
    BY <1>0 DEF Phases
  <2>2. c \in Cmds /\ cmd' = [cmd EXCEPT ![d] = c]
    BY <2>1, <2>C, <2>K, PhasedType
  <2>3. /\ c.kind = cmd[d].kind /\ c.phase = ph /\ c.man = cmd[d].man
        /\ c.forks = cmd[d].forks /\ c.mem = cmd[d].mem /\ c.about = cmd[d].about
        /\ c.todo = cmd[d].todo /\ c.cur = cmd[d].cur
    BY <2>1, <2>C, <2>K, PhasedType
  <2>4. /\ c.phase \in PhasesOf(c.kind) /\ c.phase # "fetch" /\ c.phase \notin Restoring
        /\ cmd[d].kind # "none" /\ c.kind \notin Resolutions
        /\ c.kind \notin {"keep-local", "keep-remote"}
    BY <1>6, <2>3, PushKind
  <2>5. /\ local' \in [Devices -> [Sessions -> Bodies]]
        /\ conflicts' \in [Devices -> SUBSET Divergences]
        /\ resolved' \in [Devices -> SUBSET (Divergences \X Resolutions)]
        /\ backups' \in [Devices -> SUBSET [session : Sessions, body : Bodies]]
    BY <1>0, <1>6 DEF DeviceTypes
  <2>6. call'[d].pc # "idle" => c.phase = "call" /\ call'[d].session = c.cur
    BY <1>6, <2>3
  <2> QED BY <1>6, <2>2, <2>3, <2>4, <2>5, <2>6, GoOnSound
<1>7. CASE PushExport(d)
  <2>1. call'[d].session = cmd[d].cur /\ \A e \in Devices : e # d => call'[e] = call[e]
    <3>1. NoCall \in Calls /\ call \in [Devices -> Calls]
      BY <1>0, NoCallType DEF TypeOK, EngineTypeOK
    <3> QED BY <1>7, <3>1 DEF PushExport, Begin, Cur, Calls
  <2> QED BY <1>6, <1>7, <2>1 DEF PushExport, At
<1>8. CASE PushRefused(d)
  BY <1>0, <1>6, <1>8, Forgotten DEF PushRefused, At, Return
<1>9. CASE PushFailed(d)
  BY <1>0, <1>9, Forgotten, EndSound DEF PushFailed, At, Return, DeviceTypes
<1>10. CASE PushUploaded(d)
  <2>M. PICK m : m = [cmd[d].mem EXCEPT ![cmd[d].cur] =
                        [local |-> cmd[d].hash, remote |-> call[d].id]]
    OBVIOUS
  <2>1. PICK c : c = Going(cmd[d], cmd[d].cur, m)
    OBVIOUS
  <2>2. /\ call[d].pc = "ok" /\ call[d].session = cmd[d].cur
        /\ InChain(cmd[d].cur, call[d].id) /\ call[d].id \in Ids /\ call[d].id # 0
    BY <1>0, <1>10, UploadedInChain DEF PushUploaded, Sound, Shaped
  <2>3. cmd' = [cmd EXCEPT ![d] = c]
    <3>1. NextSession(d, cmd[d].cur, m)
      BY <1>10, <2>M DEF PushUploaded, Cur
    <3> QED BY <2>1, <3>1, Zenon DEF NextSession, Going
  <2>4. [local |-> cmd[d].hash, remote |-> call[d].id] \in [local : Bodies, remote : Ids]
    BY <1>0, <2>2
  <2>5. cmd[d] \in Cmds /\ m \in States
    BY <1>0, <2>4, <2>M DEF States
  <2>6. c \in Cmds
    BY <2>1, <2>5, GoingType
  <2>7. /\ c.kind = cmd[d].kind /\ c.phase = "next" /\ c.man = cmd[d].man
        /\ c.forks = cmd[d].forks /\ c.about = cmd[d].about /\ c.cur = cmd[d].cur
        /\ c.mem = m /\ c.todo \subseteq cmd[d].todo
    BY <2>1, <2>5, GoingType
  <2>8. \A s \in Sessions : WellKept(s, state[d][s]) /\ WellKept(s, c.mem[s])
    <3>1. WellKept(cmd[d].cur, [local |-> cmd[d].hash, remote |-> call[d].id])
      BY <1>0, <2>2 DEF WellKept, WasHead
    <3> QED BY <1>0, <2>7, <2>M, <3>1 DEF Sound, Recorded, States
  <2>9. c.kind \in Pushes /\ state' = [state EXCEPT ![d] = state[d]] /\ state[d] \in States
    BY <1>0, <1>10, <2>7 DEF PushUploaded, At, DeviceTypes
  <2>10. /\ \A s \in Sessions : c.man[s] # 0 => InChain(s, c.man[s])
         /\ \A s \in c.forks : Fork("active", s, c.man[s]) \in Sessions
         /\ c.forks # {} => c.kind \in Pulls /\ c.phase # "fetch"
    BY <1>0, <2>7 DEF Sound, Named, Shaped
  <2>11. /\ c.phase \in PhasesOf(c.kind) /\ c.phase \notin Restoring /\ cmd[d].kind # "none"
         /\ c.kind \notin Resolutions /\ c.kind \notin Pulls
         /\ c.kind \notin {"keep-local", "keep-remote"}
    BY <2>7, <2>9, PushKind
  <2>12. /\ call'[d].pc = "idle" /\ \A e \in Devices : e # d => call'[e] = call[e]
         /\ UNCHANGED <<local, conflicts, resolved, backups, edits, resolves>>
    BY <1>0, <1>10, Forgotten DEF PushUploaded, Return
  <2> QED BY <2>3, <2>6, <2>7, <2>8, <2>9, <2>10, <2>11, <2>12, TurnSound
<1>11. CASE PushRecord(d)
  <2>1. conflicts' \in [Devices -> SUBSET Divergences]
    <3>1. RemoteHead(cmd[d].cur) \in Ids /\ 0 \in Ids
      BY <1>0, SyncEngineAssumption DEF RemoteHead, Ids
    <3> QED BY <1>0, <1>11, <3>1 DEF PushRecord, SaveConflict, Cur, Divergences, DeviceTypes
  <2>2. call[d].pc = "idle" /\ call' = call /\ cmd[d].kind \in Pushes
    BY <1>0, <1>11, IdleUnlessCalling DEF PushRecord, At, OtherFault, engineVars
  <2>3. CASE End(d)
    BY <1>0, <1>11, <2>1, <2>2, <2>3, EndSound DEF PushRecord, DeviceTypes
  <2>4. CASE ~End(d)
    <3>1. NextSession(d, cmd[d].cur, cmd[d].mem) /\ cmd[d].phase # "call"
      BY <1>11, <2>4 DEF PushRecord, AfterConflict, Cur, At
    <3> QED BY <1>0, <1>11, <2>1, <2>2, <3>1, OnSound DEF PushRecord
  <2> QED BY <2>3, <2>4
<1> QED BY <1>1, <1>2, <1>4, <1>5, <1>7, <1>8, <1>9, <1>10, <1>11 DEF Push

(* state.json is written after the last session, or nothing is.            *)
LEMMA SaveStateSound ==
  ASSUME CommandsInv, Grows, EngineInv', NEW d \in Devices, SaveState(d)
  PROVE  CommandsInv'
<1>0. TypeOK
  BY DEF CommandsInv
<1> QED BY <1>0, Parts, IdleUnlessCalling, EndSound DEF SaveState, At, engineVars, DeviceTypes

(* pull.                                                                   *)
LEMMA PullSound ==
  ASSUME CommandsInv, Grows, EngineInv', NEW d \in Devices,
         (\E kind \in Pulls : BeginPull(d, kind)) \/ Pull(d)
  PROVE  CommandsInv'
<1>0. /\ TypeOK /\ Sound(d) /\ EngineInv
      /\ cmd[d] \in Cmds /\ state[d] \in States /\ local[d] \in [Sessions -> Bodies]
      /\ cmd[d].cur \in Sessions /\ cmd[d].target \in Sessions
      /\ cmd[d].man \in [Sessions -> Ids] /\ cmd[d].mem \in States
      /\ cmd[d].todo \subseteq Sessions /\ cmd[d].forks \subseteq Sessions
      /\ cmd[d].hash \in Bodies /\ cmd[d].about \in Divergences
      /\ call[d] \in Calls
      /\ manifest.heads \in [Sessions -> Ids] /\ DeviceTypes
  BY Parts DEF CommandsInv, Sound
<1>1. ASSUME NEW kind \in Pulls, BeginPull(d, kind) PROVE CommandsInv'
  <2>1. PICK s \in Sessions : cmd' = [cmd EXCEPT ![d] = [NoCmd EXCEPT
            !.kind = kind, !.phase = "fetch", !.cur = s, !.mem = state[d]]]
    BY <1>1 DEF BeginPull
  <2>2. PICK c : c = Pulling(NoCmd, kind, "fetch", s, state[d])
    OBVIOUS
  <2>K. kind \in Pushes \cup Pulls \cup Resolutions /\ "fetch" \in Phases /\ state[d] \in States
    BY <1>0 DEF Phases
  <2>3. c \in Cmds
    BY <2>2, <2>K, NoCmdType, PullingType
  <2>C. cmd' = [cmd EXCEPT ![d] = c]
    BY <2>1, <2>2 DEF Pulling
  <2>4. /\ c.kind = kind /\ c.phase = "fetch" /\ c.man = NoHeads /\ c.forks = {}
        /\ c.mem = state[d] /\ c.todo = {}
    BY <2>2 DEF NoCmd, Pulling
  <2>5. c.kind \in Kinds /\ cmd[d].kind = "none" /\ resolves' \in 0..MaxResolves
    BY <1>0, <1>1, <2>4 DEF BeginPull, Start, DeviceTypes
  <2>6. c.phase \in PhasesOf(c.kind) \ Restoring /\ c.kind # "keep-both" /\ c.kind \notin Resolutions
    BY <2>4, PullKind
  <2> QED BY <1>1, <2>C, <2>3, <2>4, <2>5, <2>6, StartSound DEF BeginPull
<1>2. CASE PullFetch(d)
  <2>0. call[d].pc = "idle" /\ call' = call /\ cmd[d].kind \in Pulls
    BY <1>0, <1>2, IdleUnlessCalling DEF PullFetch, At, engineVars
  <2>1. CASE End(d)
    BY <1>0, <1>2, <2>0, <2>1, EndSound DEF PullFetch, DeviceTypes
  <2>2. CASE ~End(d)
    <3>1. PICK chosen \in SUBSET {s \in Sessions : RemoteHead(s) # 0},
               busy \in SUBSET {s \in Sessions : Fork("active", s, RemoteHead(s)) \in Sessions} :
             cmd' = [cmd EXCEPT ![d].phase = "next", ![d].todo = chosen,
                                ![d].man = manifest.heads, ![d].here = Present(d),
                                ![d].forks = busy]
      BY <1>2, <2>2 DEF PullFetch
    <3>2. PICK c : c = Listing(cmd[d], "next", chosen, manifest.heads, Present(d), busy)
      OBVIOUS
    <3>C. cmd' = [cmd EXCEPT ![d] = c]
      BY <3>1, <3>2, Zenon DEF Listing
    <3>3. Present(d) \subseteq Sessions /\ busy \subseteq Sessions /\ chosen \subseteq Sessions
      BY <3>1 DEF Present
    <3>K. cmd[d] \in Cmds /\ "next" \in Phases /\ manifest.heads \in [Sessions -> Ids]
      BY <1>0 DEF Phases
    <3>4. c \in Cmds /\ cmd' = [cmd EXCEPT ![d] = c]
      BY <3>2, <3>3, <3>C, <3>K, ListingType
    <3>5. /\ c.kind = cmd[d].kind /\ c.phase = "next" /\ c.man = manifest.heads
          /\ c.forks = busy /\ c.mem = cmd[d].mem /\ c.about = cmd[d].about
          /\ c.cur = cmd[d].cur /\ c.todo = chosen
      BY <3>2, <3>3, <3>C, <3>K, ListingType
    <3>6. /\ \A s \in c.forks : Fork("active", s, c.man[s]) \in Sessions
          /\ \A s \in c.todo : c.man[s] # 0
      BY <3>1, <3>5 DEF RemoteHead
    <3>7. c.phase \in PhasesOf(c.kind) /\ c.phase \notin Restoring
      BY <2>0, <3>5, PullKind
    <3>8. \A s \in Sessions : c.man[s] # 0 => InChain(s, c.man[s])
      BY <1>0, <3>5, HeadInChain DEF RemoteHead
    <3>9. \A s \in Sessions : WellKept(s, c.mem[s]) /\ WellKept(s, state[d][s])
      BY <1>0, <3>5 DEF Sound, Recorded
    <3>10. state[d] \in States /\ state' = [state EXCEPT ![d] = state[d]]
      BY <1>0, <1>2 DEF DeviceTypes, PullFetch
    <3> QED BY <1>2, <2>0, <3>4, <3>5, <3>6, <3>7, <3>8, <3>9, <3>10, TurnSound, PullKind
        DEF PullFetch
  <2> QED BY <2>1, <2>2
<1>3. CASE PullSkip(d)
  BY <1>0, <1>3, OnSound DEF PullSkip, At, engineVars, DeviceTypes
<1>4. CASE PullDiverged(d)
  <2>0. call[d].pc = "idle" /\ call' = call /\ cmd[d].kind \in Pulls /\ cmd[d].phase # "call"
    BY <1>0, <1>4, IdleUnlessCalling DEF PullDiverged, At, engineVars
  <2>1. PICK s \in cmd[d].todo : SaveConflict(d, s, local[d][s], cmd[d].man[s]) /\ AfterConflict(d, s)
    BY <1>4 DEF PullDiverged
  <2>2. conflicts' \in [Devices -> SUBSET Divergences]
    <3>1. [session |-> s, local |-> local[d][s], remote |-> cmd[d].man[s]] \in Divergences
      BY <1>0 DEF Divergences
    <3> QED BY <1>0, <2>1, <3>1 DEF SaveConflict, DeviceTypes
  <2>3. CASE End(d)
    BY <1>0, <1>4, <2>0, <2>2, <2>3, EndSound DEF PullDiverged, DeviceTypes
  <2>4. CASE ~End(d)
    <3>1. s \in Sessions /\ NextSession(d, s, cmd[d].mem)
      BY <1>0, <2>1, <2>4 DEF AfterConflict
    <3> QED BY <1>4, <2>0, <2>2, <3>1, OnSound DEF PullDiverged
  <2> QED BY <2>3, <2>4
<1>5. CASE PullSelect(d)
  <2>0. call[d].pc = "idle" /\ call' = call /\ cmd[d].kind \in Pulls
    BY <1>0, <1>5, IdleUnlessCalling DEF PullSelect, At, engineVars
  <2>1. PICK s \in cmd[d].todo :
            cmd' = [cmd EXCEPT ![d].phase = "restore", ![d].cur = s,
                 ![d].target = IF s \in cmd[d].forks
                                 THEN Fork("active", s, cmd[d].man[s]) ELSE s]
    BY <1>5 DEF PullSelect
  <2>2. PICK t \in Sessions : t = IF s \in cmd[d].forks THEN Fork("active", s, cmd[d].man[s]) ELSE s
    BY <1>0 DEF Sound, Named
  <2>3. PICK c : c = Selecting(cmd[d], "restore", s, t)
    OBVIOUS
  <2>C. cmd' = [cmd EXCEPT ![d] = c]
    BY <2>1, <2>2, <2>3, Zenon DEF Selecting
  <2>K. cmd[d] \in Cmds /\ "restore" \in Phases /\ s \in Sessions
    BY <1>0 DEF Phases
  <2>4. c \in Cmds /\ cmd' = [cmd EXCEPT ![d] = c]
    BY <2>3, <2>C, <2>K, SelectingType
  <2>5. /\ c.kind = cmd[d].kind /\ c.phase = "restore" /\ c.man = cmd[d].man
        /\ c.forks = cmd[d].forks /\ c.mem = cmd[d].mem /\ c.about = cmd[d].about
        /\ c.todo = cmd[d].todo /\ c.cur = s /\ c.target = t
    BY <2>3, <2>C, <2>K, SelectingType
  <2>6. c.man[c.cur] # 0 /\ c.target \in {c.cur, Fork("active", c.cur, c.man[c.cur])}
    BY <1>0, <2>0, <2>2, <2>5 DEF Sound, Named
  <2>7. /\ c.phase \in PhasesOf(c.kind) /\ c.kind # "none" /\ c.kind \notin Resolutions
        /\ c.kind \notin {"keep-local", "keep-remote"}
    BY <2>0, <2>5, PullKind
  <2> QED BY <1>0, <1>5, <2>0, <2>4, <2>5, <2>6, <2>7, GoOnSound DEF DeviceTypes, PullSelect
<1>6. CASE PullRestored(d)
  <2>0. call[d].pc = "idle" /\ call' = call /\ cmd[d].kind \in Pulls
    BY <1>0, <1>6, IdleUnlessCalling DEF PullRestored, At, engineVars
  <2>1. /\ cmd[d].man[cmd[d].cur] # 0 /\ InChain(cmd[d].cur, cmd[d].man[cmd[d].cur])
    BY <1>0, <1>6, <2>0, PullKind DEF PullRestored, At, Sound, Named
  <2>2. PICK m \in States :
            /\ NextSession(d, cmd[d].cur, m)
            /\ m = cmd[d].mem \/ m = [cmd[d].mem EXCEPT ![cmd[d].cur] =
                     [local |-> local[d][cmd[d].cur], remote |-> cmd[d].man[cmd[d].cur]]]
    BY <1>0, <1>6 DEF PullRestored, Cur, States
  <2>3. PICK c : c = Going(cmd[d], cmd[d].cur, m)
    OBVIOUS
  <2>C. cmd' = [cmd EXCEPT ![d] = c]
    BY <2>2, <2>3, Zenon DEF NextSession, Going
  <2>K. cmd[d] \in Cmds
    BY <1>0
  <2>4. c \in Cmds /\ cmd' = [cmd EXCEPT ![d] = c]
    BY <2>3, <2>C, <2>K, GoingType
  <2>5. /\ c.kind = cmd[d].kind /\ c.phase = "next" /\ c.man = cmd[d].man
        /\ c.forks = cmd[d].forks /\ c.mem = m /\ c.about = cmd[d].about
        /\ c.todo \subseteq cmd[d].todo
    BY <2>3, <2>C, <2>K, GoingType
  <2>6. \A s \in Sessions : WellKept(s, state[d][s]) /\ WellKept(s, c.mem[s])
    <3>1. WellKept(cmd[d].cur, [local |-> local[d][cmd[d].cur], remote |-> cmd[d].man[cmd[d].cur]])
      BY <1>0, <2>1 DEF WellKept, WasHead
    <3> QED BY <1>0, <2>2, <2>5, <3>1 DEF Sound, Recorded, States
  <2>7. state' = [state EXCEPT ![d] = state[d]] /\ state[d] \in States
    BY <1>0, <1>6 DEF PullRestored, DeviceTypes
  <2>8. /\ \A s \in Sessions : c.man[s] # 0 => InChain(s, c.man[s])
        /\ \A s \in c.forks : Fork("active", s, c.man[s]) \in Sessions
        /\ \A s \in c.todo : c.man[s] # 0
    BY <1>0, <2>0, <2>5 DEF Sound, Named, Shaped
  <2>9. c.phase \in PhasesOf(c.kind) /\ c.phase \notin Restoring
    BY <2>0, <2>5, PullKind
  <2> QED BY <1>6, <2>0, <2>4, <2>5, <2>6, <2>7, <2>8, <2>9, PullKind, TurnSound
      DEF PullRestored
<1> QED BY <1>1, <1>2, <1>3, <1>4, <1>5, <1>6 DEF Pull

(* A restore.                                                              *)
LEMMA RestoreSound ==
  ASSUME CommandsInv, Grows, EngineInv', NEW d \in Devices, Restore(d)
  PROVE  CommandsInv'
<1>0. /\ TypeOK /\ Sound(d) /\ EngineInv
      /\ cmd[d] \in Cmds /\ state[d] \in States /\ local[d] \in [Sessions -> Bodies]
      /\ cmd[d].cur \in Sessions /\ cmd[d].target \in Sessions
      /\ cmd[d].man \in [Sessions -> Ids] /\ cmd[d].mem \in States
      /\ cmd[d].todo \subseteq Sessions /\ cmd[d].forks \subseteq Sessions
      /\ cmd[d].hash \in Bodies /\ cmd[d].about \in Divergences
      /\ call[d] \in Calls
      /\ manifest.heads \in [Sessions -> Ids] /\ DeviceTypes
  BY Parts DEF CommandsInv, Sound
<1>1. cmd[d].phase \in Restoring /\ cmd[d].phase # "call" /\ call[d].pc = "idle"
      /\ cmd[d].kind # "none" /\ UNCHANGED engineVars /\ cmd[d].kind \in Restores
  BY <1>0, IdleUnlessCalling DEF Restore, RestoreSkipped, RestorePrepare, RestoreConflicts,
     RestoreBackup, RestoreVerify, RestoreRename, At, Restoring, Restores, Pulls
<1>2. call' = call /\ InChain(cmd[d].cur, cmd[d].man[cmd[d].cur])
  BY <1>0, <1>1 DEF engineVars, Sound, Named
<1>3. ASSUME NEW ph \in {"backup", "verify", "rename", "hash"}, NEW h \in Bodies,
             cmd' = [cmd EXCEPT ![d].phase = ph, ![d].hash = h],
             local' \in [Devices -> [Sessions -> Bodies]],
             backups' \in [Devices -> SUBSET [session : Sessions, body : Bodies]],
             UNCHANGED <<state, conflicts, resolved, edits, resolves>>
      PROVE  CommandsInv'
  <2>1. PICK c : c = Hashed(cmd[d], ph, h)
    OBVIOUS
  <2>C. cmd' = [cmd EXCEPT ![d] = c]
    BY <1>3, <2>1, Zenon DEF Hashed
  <2>K. cmd[d] \in Cmds /\ ph \in Phases
    BY <1>0 DEF Phases
  <2>2. c \in Cmds /\ cmd' = [cmd EXCEPT ![d] = c]
    BY <2>1, <2>C, <2>K, HashedType
  <2>3. /\ c.kind = cmd[d].kind /\ c.phase = ph /\ c.man = cmd[d].man
        /\ c.forks = cmd[d].forks /\ c.mem = cmd[d].mem /\ c.about = cmd[d].about
        /\ c.todo = cmd[d].todo /\ c.cur = cmd[d].cur /\ c.target = cmd[d].target
    BY <2>1, <2>C, <2>K, HashedType
  <2>4. c.phase \in PhasesOf(c.kind) /\ c.phase # "fetch"
    BY <1>1, <2>3, PullKind, ResolveKind DEF Restores, Resolutions
  <2>5. c.kind \in {"keep-local", "keep-remote"} => c.target = c.cur
    BY <1>0, <2>3 DEF Sound, Shaped
  <2>6. /\ conflicts' \in [Devices -> SUBSET Divergences]
        /\ resolved' \in [Devices -> SUBSET (Divergences \X Resolutions)]
    BY <1>0, <1>3 DEF DeviceTypes
  <2> QED BY <1>1, <1>2, <1>3, <2>2, <2>3, <2>4, <2>5, <2>6, GoOnSound
<1>4. CASE RestoreSkipped(d)
  BY <1>0, <1>1, <1>2, <1>4, OnSound DEF RestoreSkipped, ForkExists, Cur, DeviceTypes
<1>5. CASE RestorePrepare(d)
  <2>1. local[d][cmd[d].target] \in Bodies
    BY <1>0
  <2> QED BY <1>0, <1>3, <1>5, <2>1 DEF RestorePrepare, DeviceTypes
<1>6. ASSUME NEW ph \in {"verify", "rename", "hash"}, cmd' = [cmd EXCEPT ![d].phase = ph]
      PROVE  cmd' = [cmd EXCEPT ![d].phase = ph, ![d].hash = cmd[d].hash] /\ cmd[d].hash \in Bodies
  BY <1>0, <1>6 DEF Cmds, DeviceTypes
<1>7. CASE RestoreConflicts(d)
  BY <1>0, <1>1, <1>2, <1>7, EndSound DEF RestoreConflicts, GiveUp, DeviceTypes
<1>8. CASE RestoreBackup(d)
  <2>1. {[session |-> t, body |-> local[d][t]] : t \in {cmd[d].target} \cap Present(d)}
            \subseteq [session : Sessions, body : Bodies]
    BY <1>0 DEF Present
  <2>2. backups' \in [Devices -> SUBSET [session : Sessions, body : Bodies]]
    BY <1>0, <1>8, <2>1 DEF RestoreBackup, DeviceTypes
  <2> QED BY <1>0, <1>3, <1>6, <1>8, <2>2 DEF RestoreBackup, DeviceTypes
<1>9. CASE RestoreVerify(d)
  BY <1>0, <1>3, <1>6, <1>9 DEF RestoreVerify, DeviceTypes
<1>10. CASE RestoreRename(d)
  <2>1. snapshots[cmd[d].man[cmd[d].cur]].body \in Bodies
    BY <1>0, <1>2, InChainStored DEF Envelopes
  <2>2. local' \in [Devices -> [Sessions -> Bodies]]
    BY <1>0, <1>10, <2>1 DEF RestoreRename, PullArtifact, Body, Cur, DeviceTypes
  <2> QED BY <1>0, <1>3, <1>6, <1>10, <2>2 DEF RestoreRename, DeviceTypes
<1> QED BY <1>4, <1>5, <1>7, <1>8, <1>9, <1>10 DEF Restore

(* What can go wrong at any time.                                          *)
LEMMA FailureSound ==
  ASSUME CommandsInv, Grows, EngineInv', NEW d \in Devices, CommandFails(d) \/ Crash(d)
  PROVE  CommandsInv'
<1>0. /\ TypeOK /\ Sound(d)
      /\ cmd[d] \in Cmds /\ state[d] \in States /\ local[d] \in [Sessions -> Bodies]
      /\ cmd[d].cur \in Sessions /\ cmd[d].target \in Sessions
      /\ cmd[d].man \in [Sessions -> Ids] /\ cmd[d].mem \in States
      /\ cmd[d].todo \subseteq Sessions /\ cmd[d].forks \subseteq Sessions
      /\ cmd[d].hash \in Bodies /\ cmd[d].about \in Divergences
      /\ call[d] \in Calls
      /\ manifest.heads \in [Sessions -> Ids] /\ DeviceTypes
  BY Parts DEF CommandsInv, Sound
<1>1. CASE CommandFails(d)
  BY <1>0, <1>1, IdleUnlessCalling, EndSound DEF CommandFails, OtherFault, GiveUp, DeviceTypes
<1>2. CASE Crash(d)
  BY <1>0, <1>2, Forgotten, EndSound DEF Crash, Abandon, DeviceTypes
<1> QED BY <1>1, <1>2

(* The engine at work for a command.                                       *)
LEMMA CallSound ==
  ASSUME CommandsInv, Grows, EngineInv', NEW d \in Devices, CallStep(d)
  PROVE  CommandsInv'
<1>0. /\ TypeOK /\ Sound(d)
      /\ cmd[d] \in Cmds /\ state[d] \in States /\ local[d] \in [Sessions -> Bodies]
      /\ cmd[d].cur \in Sessions /\ cmd[d].target \in Sessions
      /\ cmd[d].man \in [Sessions -> Ids] /\ cmd[d].mem \in States
      /\ cmd[d].todo \subseteq Sessions /\ cmd[d].forks \subseteq Sessions
      /\ cmd[d].hash \in Bodies /\ cmd[d].about \in Divergences
      /\ call[d] \in Calls
      /\ manifest.heads \in [Sessions -> Ids] /\ DeviceTypes
  BY Parts DEF CommandsInv, Sound
<1>1. call \in [Devices -> Calls] /\ UNCHANGED deviceVars
  BY <1>0 DEF TypeOK, EngineTypeOK, CallStep
<1>2. call[d].pc # "idle"
  BY DEF CallStep, Step, Misfortune, LoadParent, PutSnapshot, PutRefused, LoadManifest,
     SaveManifest, LoadFails, PutFails, SaveFails, SaveResent
<1>3. call'[d].session = call[d].session /\ \A e \in Devices : e # d => call'[e] = call[e]
  <2>1. call[d] \in Calls
    BY <1>1
  <2>2. CASE LoadParent(d) \/ PutSnapshot(d) \/ PutRefused(d) \/ LoadManifest(d)
    BY <1>1, <2>1, <2>2 DEF LoadParent, PutSnapshot, PutRefused, LoadManifest, Failed, Calls
  <2>3. CASE SaveManifest(d) \/ SaveResent(d)
    <3>1. /\ [call[d] EXCEPT !.pc = "ok"].session = call[d].session
          /\ Retried(d).session = call[d].session
      BY <2>1 DEF Retried, Calls
    <3> QED BY <1>1, <2>3, <3>1 DEF SaveManifest, SaveResent
  <2>4. CASE LoadFails(d) \/ PutFails(d) \/ SaveFails(d)
    BY <1>1, <2>1, <2>4 DEF LoadFails, PutFails, SaveFails, Failed, Calls
  <2> QED BY <2>2, <2>3, <2>4 DEF CallStep, Step, Misfortune
<1>4. cmd' = cmd /\ state' = state /\ DeviceTypes'
  BY <1>0, <1>1 DEF deviceVars, DeviceTypes
<1>5. cmd[d].phase = "call"
  BY <1>0, <1>2 DEF TypeOK
<1>6. Sound(d)'
  <2>1. Shaped(d)'
    BY <1>0, <1>2, <1>3, <1>4 DEF Sound, Shaped
  <2>2. Named(d)'
    BY <1>0, <1>4 DEF Sound, Named, Grows
  <2>3. Recorded(d)'
    BY <1>0, <1>4 DEF Sound, Recorded, WellKept, WasHead, Grows, Unknown
  <2> QED BY <2>1, <2>2, <2>3 DEF Sound
<1>7. \A e \in Devices : e # d => Rests(e)
  BY <1>3, <1>4 DEF Rests
<1> QED BY <1>4, <1>5, <1>6, <1>7, OneMoves

-----------------------------------------------------------------------------
(* conflicts resolve.                                                      *)
LEMMA BeginResolveSound ==
  ASSUME CommandsInv, Grows, EngineInv', NEW d \in Devices, BeginResolve(d)
  PROVE  CommandsInv'
<1>0. /\ TypeOK /\ Sound(d) /\ EngineInv
      /\ cmd[d] \in Cmds /\ state[d] \in States /\ local[d] \in [Sessions -> Bodies]
      /\ cmd[d].cur \in Sessions /\ cmd[d].target \in Sessions
      /\ cmd[d].man \in [Sessions -> Ids] /\ cmd[d].mem \in States
      /\ cmd[d].todo \subseteq Sessions /\ cmd[d].forks \subseteq Sessions
      /\ cmd[d].hash \in Bodies /\ cmd[d].about \in Divergences
      /\ call[d] \in Calls
      /\ manifest.heads \in [Sessions -> Ids] /\ DeviceTypes
  BY Parts DEF CommandsInv, Sound
<1>1. PICK how \in Resolutions, r \in conflicts[d] :
          /\ Start(d, how)
          /\ how = "keep-both" => r.session \in Originals
          /\ cmd' = [cmd EXCEPT ![d] = [NoCmd EXCEPT
                 !.kind = how, !.phase = IF how = "keep-local" THEN "export" ELSE "fetch",
                 !.cur = r.session, !.target = r.session, !.about = r]]
  BY DEF BeginResolve
<1>2. r \in Divergences /\ r.session \in Sessions
  BY <1>0, <1>1 DEF DeviceTypes, Divergences
<1>F. PICK ph \in Phases : ph = IF how = "keep-local" THEN "export" ELSE "fetch"
  BY DEF Phases
<1>3. PICK c : c = Resolving(NoCmd, how, ph, r.session, r.session, r)
  OBVIOUS
<1>C. cmd' = [cmd EXCEPT ![d] = c]
  BY <1>1, <1>3, <1>F DEF Resolving
<1>4. c \in Cmds
  BY <1>2, <1>3, NoCmdType, ResolvingType
<1>5. /\ c.kind = how /\ c.phase = IF how = "keep-local" THEN "export" ELSE "fetch"
      /\ c.man = NoHeads /\ c.forks = {} /\ c.mem = NoCmd.mem /\ c.about = r
      /\ c.cur = r.session /\ c.target = r.session
  BY <1>3, <1>F DEF NoCmd, Resolving
<1>6. c.phase \in PhasesOf(c.kind) \ Restoring /\ c.kind \notin Pulls
  BY <1>5, ResolveKind
<1>7. c.kind \in Kinds /\ cmd[d].kind = "none"
  BY <1>1, <1>5 DEF Start
<1>8. resolves' \in 0..MaxResolves
  BY <1>0, DeviceSyncAssumption DEF BeginResolve, DeviceTypes
<1>9. UNCHANGED <<engineVars, local, state, conflicts, resolved, backups, edits>>
  BY DEF BeginResolve
<1>10. /\ c.kind = "keep-both" => c.cur \in Originals
       /\ c.about.session = c.cur /\ c.target = c.cur
       /\ c.mem \in {state[d], NoCmd.mem}
  BY <1>1, <1>5
<1> QED BY <1>C, <1>4, <1>5, <1>6, <1>7, <1>8, <1>9, <1>10, StartSound

LEMMA ResolveSound ==
  ASSUME CommandsInv, Grows, EngineInv', NEW d \in Devices, Resolve(d)
  PROVE  CommandsInv'
<1>0. /\ TypeOK /\ Sound(d) /\ EngineInv
      /\ cmd[d] \in Cmds /\ state[d] \in States /\ local[d] \in [Sessions -> Bodies]
      /\ cmd[d].cur \in Sessions /\ cmd[d].target \in Sessions
      /\ cmd[d].man \in [Sessions -> Ids] /\ cmd[d].mem \in States
      /\ cmd[d].todo \subseteq Sessions /\ cmd[d].forks \subseteq Sessions
      /\ cmd[d].hash \in Bodies /\ cmd[d].about \in Divergences
      /\ call[d] \in Calls
      /\ manifest.heads \in [Sessions -> Ids] /\ DeviceTypes
  BY Parts DEF CommandsInv, Sound
<1>1. cmd[d].kind \in Resolutions /\ cmd[d].kind # "none" /\ cmd[d].kind \notin Pulls
      /\ cmd[d].forks = {} /\ cmd[d].about.session = cmd[d].cur
  <2>1. cmd[d].kind \in Resolutions
    BY DEF Resolve, KeepLocalExport, KeepLocalFetch, KeepLocalPublished, KeepLocalFailed,
       KeepRemoteFetch, ResolveRecord, ResolveAudit, ResolveRemove, At, Resolutions
  <2> QED BY <1>0, <2>1, ResolveKind DEF Sound, Shaped
(* A step from one phase to the next, with a call perhaps.                 *)
<1>2. ASSUME NEW ph \in {"fetch", "call", "remove"}, NEW h \in Bodies,
             cmd' = [cmd EXCEPT ![d].phase = ph, ![d].hash = h], ph \in PhasesOf(cmd[d].kind),
             \A e \in Devices : e # d => call'[e] = call[e],
             call'[d].pc # "idle" => ph = "call" /\ call'[d].session = cmd[d].cur,
             resolved' \in [Devices -> SUBSET (Divergences \X Resolutions)],
             UNCHANGED <<local, state, conflicts, backups, edits, resolves>>
      PROVE  CommandsInv'
  <2>1. PICK c : c = Hashed(cmd[d], ph, h)
    OBVIOUS
  <2>C. cmd' = [cmd EXCEPT ![d] = c]
    BY <1>2, <2>1, Zenon DEF Hashed
  <2>K. cmd[d] \in Cmds /\ ph \in Phases
    BY <1>0 DEF Phases
  <2>2. c \in Cmds /\ cmd' = [cmd EXCEPT ![d] = c]
    BY <2>1, <2>C, <2>K, HashedType
  <2>3. /\ c.kind = cmd[d].kind /\ c.phase = ph /\ c.man = cmd[d].man
        /\ c.forks = cmd[d].forks /\ c.mem = cmd[d].mem /\ c.about = cmd[d].about
        /\ c.todo = cmd[d].todo /\ c.cur = cmd[d].cur /\ c.target = cmd[d].target
    BY <2>1, <2>C, <2>K, HashedType
  <2>4. c.phase \notin Restoring
    BY <2>3 DEF Restoring
  <2>5. c.kind \in {"keep-local", "keep-remote"} => c.target = c.cur
    BY <1>0, <2>3 DEF Sound, Shaped
  <2>6. /\ local' \in [Devices -> [Sessions -> Bodies]]
        /\ conflicts' \in [Devices -> SUBSET Divergences]
        /\ backups' \in [Devices -> SUBSET [session : Sessions, body : Bodies]]
    BY <1>0, <1>2 DEF DeviceTypes
  <2>7. call'[d].pc # "idle" => c.phase = "call" /\ call'[d].session = c.cur
    BY <1>2, <2>3
  <2>8. /\ cmd[d].kind # "none" /\ c.kind \notin Pulls /\ c.phase \in PhasesOf(c.kind)
        /\ c.todo \subseteq cmd[d].todo
    BY <1>1, <1>2, <2>3
  <2>9. /\ UNCHANGED <<state, edits, resolves>> /\ \A e \in Devices : e # d => call'[e] = call[e]
        /\ resolved' \in [Devices -> SUBSET (Divergences \X Resolutions)]
    BY <1>2
  <2> QED BY <2>2, <2>3, <2>4, <2>5, <2>6, <2>7, <2>8, <2>9, GoOnSound
<1>3. ASSUME NEW ph \in {"fetch", "call", "remove"}, cmd' = [cmd EXCEPT ![d].phase = ph]
      PROVE  cmd' = [cmd EXCEPT ![d].phase = ph, ![d].hash = cmd[d].hash] /\ cmd[d].hash \in Bodies
  BY <1>0, <1>3 DEF Cmds, DeviceTypes
<1>4. cmd[d].phase # "call" => call[d].pc = "idle"
  BY <1>0, IdleUnlessCalling
<1>5. "fetch" \in PhasesOf("keep-local") /\ "call" \in PhasesOf("keep-local")
      /\ "remove" \in PhasesOf(cmd[d].kind)
  BY <1>1, ResolveKind DEF Resolutions
<1>6. CASE KeepLocalExport(d)
  <2>1. local[d][cmd[d].cur] \in Bodies
    BY <1>0
  <2> QED BY <1>0, <1>2, <1>4, <1>5, <1>6, <2>1 DEF KeepLocalExport, At, Cur, engineVars, DeviceTypes
<1>7. CASE KeepLocalFetch(d)
  <2>1. call'[d].session = cmd[d].cur /\ \A e \in Devices : e # d => call'[e] = call[e]
    <3>1. NoCall \in Calls /\ call \in [Devices -> Calls]
      BY <1>0, NoCallType DEF TypeOK, EngineTypeOK
    <3> QED BY <1>7, <3>1 DEF KeepLocalFetch, Begin, Cur, Calls
  <2> QED BY <1>0, <1>2, <1>3, <1>5, <1>7, <2>1 DEF KeepLocalFetch, At, DeviceTypes
<1>8. CASE KeepLocalPublished(d)
  <2>1. /\ call[d].session = cmd[d].cur /\ cmd[d].target = cmd[d].cur
        /\ InChain(cmd[d].cur, call[d].id) /\ call[d].id \in Ids /\ call[d].id # 0
    BY <1>0, <1>8, UploadedInChain DEF KeepLocalPublished, At, Sound, Shaped
  <2>2. PICK m : m = [cmd[d].man EXCEPT ![cmd[d].cur] = call[d].id]
    OBVIOUS
  <2>3. PICK c : c = Given(cmd[d], "hash", m)
    OBVIOUS
  <2>4. m \in [Sessions -> Ids] /\ m[cmd[d].cur] = call[d].id
        /\ \A s \in Sessions : m[s] # 0 => InChain(s, m[s])
    BY <1>0, <2>1, <2>2 DEF Sound, Named
  <2>5. c \in Cmds /\ cmd' = [cmd EXCEPT ![d] = c]
    <3>1. cmd' = [cmd EXCEPT ![d].phase = "hash", ![d].man[cmd[d].cur] = call[d].id]
      BY <1>8 DEF KeepLocalPublished, Cur
    <3>2. cmd[d] \in Cmds /\ "hash" \in Phases
      BY <1>0 DEF Phases
    <3>3. cmd' = [cmd EXCEPT ![d] = c]
      BY <2>2, <2>3, <3>1, Zenon DEF Given
    <3> QED BY <2>3, <2>4, <3>2, <3>3, GivenType
  <2>6. /\ c.kind = cmd[d].kind /\ c.phase = "hash" /\ c.man = m /\ c.cur = cmd[d].cur
        /\ c.forks = {} /\ c.mem = cmd[d].mem /\ c.about = cmd[d].about
        /\ c.target = cmd[d].target
    <3>1. cmd[d] \in Cmds /\ "hash" \in Phases
      BY <1>0 DEF Phases
    <3> QED BY <1>1, <2>3, <2>4, <3>1, GivenType
  <2>7. c.kind = "keep-local" /\ c.phase \in PhasesOf(c.kind) /\ c.man[c.cur] # 0
    BY <1>1, <1>8, <2>1, <2>4, <2>6, ResolveKind DEF KeepLocalPublished, At
  <2>8. \A s \in Sessions : WellKept(s, c.mem[s]) /\ WellKept(s, state[d][s])
    BY <1>0, <2>6 DEF Sound, Recorded
  <2>9. state' = [state EXCEPT ![d] = state[d]] /\ state[d] \in States
        /\ UNCHANGED <<local, conflicts, resolved, backups, edits, resolves>>
    BY <1>0, <1>8 DEF KeepLocalPublished, DeviceTypes
  <2>10. call'[d].pc = "idle" /\ \A e \in Devices : e # d => call'[e] = call[e]
    BY <1>0, <1>8, Forgotten DEF KeepLocalPublished, Return
  <2> QED BY <1>1, <2>1, <2>4, <2>5, <2>6, <2>7, <2>8, <2>9, <2>10, TurnSound
<1>9. CASE KeepLocalFailed(d)
  BY <1>0, <1>9, Forgotten, EndSound DEF KeepLocalFailed, Return, DeviceTypes
<1>10. CASE KeepRemoteFetch(d)
  <2>0. call[d].pc = "idle" /\ call' = call /\ cmd[d].kind \in {"keep-remote", "keep-both"}
    BY <1>0, <1>4, <1>10 DEF KeepRemoteFetch, At, engineVars
  <2>1. CASE End(d)
    BY <1>0, <1>10, <2>0, <2>1, EndSound DEF KeepRemoteFetch, DeviceTypes
  <2>2. CASE ~End(d)
    <3>1. PICK head : head = RemoteHead(cmd[d].cur)
      OBVIOUS
    <3>2. head # 0 /\ InChain(cmd[d].cur, head) /\ head \in 1..MaxSnapshots
      <4>1. head # 0
        BY <1>10, <2>2, <3>1 DEF KeepRemoteFetch, Cur
      <4>2. head \in Ids
        BY <1>0, <3>1 DEF RemoteHead
      <4> QED BY <1>0, <3>1, <4>1, <4>2, HeadInChain, SyncEngineAssumption DEF Ids
    <3>3. PICK t \in Sessions : t = IF cmd[d].kind = "keep-both"
                                      THEN Fork("remote", cmd[d].cur, head) ELSE cmd[d].cur
      BY <1>0, <2>0, <3>2, DeviceSyncAssumption DEF Sound, Shaped
    <3>4. PICK c : c = Aiming(cmd[d], "restore", manifest.heads, t)
      OBVIOUS
    <3>K. cmd[d] \in Cmds /\ "restore" \in Phases /\ manifest.heads \in [Sessions -> Ids]
      BY <1>0 DEF Phases
    <3>5. c \in Cmds /\ cmd' = [cmd EXCEPT ![d] = c]
      <4>2. cmd' = [cmd EXCEPT ![d].phase = "restore", ![d].man = manifest.heads, ![d].target = t]
        BY <1>10, <2>2, <3>1, <3>2, <3>3 DEF KeepRemoteFetch, Cur
      <4>3. cmd' = [cmd EXCEPT ![d] = c]
        BY <3>4, <4>2, Zenon DEF Aiming
      <4> QED BY <3>4, <3>K, <4>3, AimingType
    <3>6. /\ c.kind = cmd[d].kind /\ c.phase = "restore" /\ c.man = manifest.heads
          /\ c.cur = cmd[d].cur /\ c.forks = {} /\ c.mem = cmd[d].mem
          /\ c.about = cmd[d].about /\ c.target = t
      BY <1>1, <3>4, <3>K, AimingType
    <3>7. /\ c.man[c.cur] # 0 /\ c.phase \in PhasesOf(c.kind)
          /\ c.kind = "keep-both" => c.target = Fork("remote", c.cur, c.man[c.cur])
          /\ c.kind \in {"keep-local", "keep-remote"} => c.target = c.cur
      BY <1>1, <2>0, <3>1, <3>2, <3>3, <3>6, ResolveKind DEF RemoteHead
    <3>8. \A s \in Sessions : c.man[s] # 0 => InChain(s, c.man[s])
      BY <1>0, <3>6, HeadInChain DEF RemoteHead
    <3>9. \A s \in Sessions : WellKept(s, c.mem[s]) /\ WellKept(s, state[d][s])
      BY <1>0, <3>6 DEF Sound, Recorded
    <3>10. state' = [state EXCEPT ![d] = state[d]] /\ state[d] \in States
           /\ UNCHANGED <<local, conflicts, resolved, backups, edits, resolves>>
      BY <1>0, <1>10 DEF KeepRemoteFetch, DeviceTypes
    <3> QED BY <1>1, <2>0, <3>5, <3>6, <3>7, <3>8, <3>9, <3>10, TurnSound
  <2> QED BY <2>1, <2>2
<1>11. CASE ResolveRecord(d)
  <2>0. call[d].pc = "idle" /\ call' = call /\ cmd[d].phase = "hash"
    BY <1>0, <1>4, <1>11 DEF ResolveRecord, At, engineVars
  <2>1. cmd[d].man[cmd[d].cur] # 0 /\ InChain(cmd[d].cur, cmd[d].man[cmd[d].cur])
        /\ cmd[d].man[cmd[d].cur] \in Ids
    BY <1>0, <2>0 DEF Sound, Named, Restoring
  <2>2. WasHead(cmd[d].target, cmd[d].man[cmd[d].cur])
    <3>1. cmd[d].target \in {cmd[d].cur, Fork("remote", cmd[d].cur, cmd[d].man[cmd[d].cur])}
      BY <1>0, <1>1, <2>0, ResolveKind DEF Sound, Shaped, Named, Restoring
    <3> QED BY <1>0, <2>1, <3>1 DEF WasHead
  <2>3. PICK r \in [local : Bodies, remote : Ids] :
            /\ r = [local |-> local[d][cmd[d].target], remote |-> cmd[d].man[cmd[d].cur]]
            /\ WellKept(cmd[d].target, r)
    <3>1. local[d][cmd[d].target] \in Bodies
      BY <1>0
    <3>2. PICK r : r = [local |-> local[d][cmd[d].target], remote |-> cmd[d].man[cmd[d].cur]]
      OBVIOUS
    <3>3. r \in [local : Bodies, remote : Ids] /\ r.remote = cmd[d].man[cmd[d].cur]
      BY <2>1, <3>1, <3>2
    <3>4. WellKept(cmd[d].target, r)
      BY <2>1, <2>2, <3>3 DEF WellKept
    <3> QED BY <3>2, <3>3, <3>4
  <2>4. PICK m : m = [state[d] EXCEPT ![cmd[d].target] = r]
    OBVIOUS
  <2>5. /\ m \in States /\ \A s \in Sessions : WellKept(s, m[s])
        /\ state' = [state EXCEPT ![d] = m]
    BY <1>0, <1>11, <2>3, <2>4
       DEF ResolveRecord, updateSessionState, Cur, States, Sound, Recorded, DeviceTypes
  <2>6. PICK c : c = Phased(cmd[d], "audit")
    OBVIOUS
  <2>K. cmd[d] \in Cmds /\ "audit" \in Phases
    BY <1>0 DEF Phases
  <2>7. c \in Cmds /\ cmd' = [cmd EXCEPT ![d] = c]
    <3>1. cmd' = [cmd EXCEPT ![d].phase = "audit"]
      BY <1>11 DEF ResolveRecord
    <3>2. cmd' = [cmd EXCEPT ![d] = c]
      BY <2>6, <3>1, Zenon DEF Phased
    <3> QED BY <2>6, <2>K, <3>2, PhasedType
  <2>8. /\ c.kind = cmd[d].kind /\ c.phase = "audit" /\ c.man = cmd[d].man
        /\ c.cur = cmd[d].cur /\ c.forks = {} /\ c.mem = cmd[d].mem
        /\ c.about = cmd[d].about /\ c.target = cmd[d].target
    BY <1>1, <2>6, <2>K, PhasedType
  <2>9. /\ c.phase \in PhasesOf(c.kind) /\ c.phase \notin Restoring
        /\ c.kind \in {"keep-local", "keep-remote"} => c.target = c.cur
        /\ \A s \in Sessions : c.man[s] # 0 => InChain(s, c.man[s])
        /\ \A s \in Sessions : WellKept(s, c.mem[s])
    BY <1>0, <1>1, <2>8, ResolveKind DEF Sound, Shaped, Named, Recorded
  <2>10. UNCHANGED <<local, conflicts, resolved, backups, edits, resolves>>
    BY <1>11 DEF ResolveRecord
  <2> QED BY <1>1, <2>0, <2>5, <2>7, <2>8, <2>9, <2>10, TurnSound
<1>12. CASE ResolveAudit(d)
  <2>1. resolved' \in [Devices -> SUBSET (Divergences \X Resolutions)]
    BY <1>0, <1>1, <1>12 DEF ResolveAudit, DeviceTypes
  <2> QED BY <1>0, <1>2, <1>3, <1>4, <1>5, <1>12, <2>1 DEF ResolveAudit, At, engineVars, DeviceTypes
<1>13. CASE ResolveRemove(d)
  <2>1. conflicts' \in [Devices -> SUBSET Divergences]
    BY <1>0, <1>13 DEF ResolveRemove, DeviceTypes
  <2> QED BY <1>0, <1>4, <1>13, <2>1, EndSound DEF ResolveRemove, At, engineVars, DeviceTypes
<1> QED BY <1>6, <1>7, <1>8, <1>9, <1>10, <1>11, <1>12, <1>13 DEF Resolve

-----------------------------------------------------------------------------
LEMMA InitCommandsInv == Init => CommandsInv
<1> SUFFICES ASSUME Init PROVE CommandsInv
  OBVIOUS
<1>1. EngineInv
  BY InitEngineInv DEF Init
<1>2. 0 \in Ids /\ {} \in Bodies /\ 0 \in 0..MaxEdits /\ 0 \in 0..MaxResolves
  BY SyncEngineAssumption, DeviceSyncAssumption DEF Ids
<1>3. /\ [d \in Devices |-> {}] \in [Devices -> SUBSET Divergences]
      /\ [d \in Devices |-> {}] \in [Devices -> SUBSET (Divergences \X Resolutions)]
      /\ [d \in Devices |-> {}] \in [Devices -> SUBSET [session : Sessions, body : Bodies]]
  OBVIOUS
<1>4. /\ [d \in Devices |-> [s \in Sessions |-> {}]] \in [Devices -> [Sessions -> Bodies]]
      /\ [d \in Devices |-> [s \in Sessions |-> Unknown]] \in [Devices -> States]
      /\ [d \in Devices |-> NoCmd] \in [Devices -> Cmds]
  BY <1>2, NoCmdType DEF States, Unknown
<1>5. \A d \in Devices : call[d].pc = "idle"
  BY DEF Init, EngineInit, NoCall
<1>6. TypeOK
  BY <1>1, <1>2, <1>3, <1>4, <1>5 DEF Init, TypeOK, EngineInv
<1>7. ASSUME NEW d \in Devices PROVE Shaped(d) /\ Named(d) /\ Recorded(d)
  <2>1. cmd[d] = NoCmd /\ state[d] = [s \in Sessions |-> Unknown]
    BY DEF Init
  <2>2. Shaped(d) /\ Named(d)
    BY <1>5, <2>1 DEF Shaped, Named, NoCmd, PhasesOf, Pushes, Pulls, Resolutions, Restoring, NoHeads
  <2>3. Recorded(d)
    BY <2>1 DEF Recorded, WellKept, NoCmd, Unknown
  <2> QED BY <2>2, <2>3
<1> QED BY <1>1, <1>6, <1>7 DEF CommandsInv

LEMMA NextCommandsInv == CommandsInv /\ [Next]_vars => CommandsInv'
<1> SUFFICES ASSUME CommandsInv, [Next]_vars PROVE CommandsInv'
  OBVIOUS
<1>1. TypeOK /\ EngineInv
  BY DEF CommandsInv
<1>2. [EngineNext]_engineVars
  BY <1>1, StepOfEngine
<1>3. Grows /\ EngineInv'
  BY <1>1, <1>2, EngineGrows, NextEngineInv
<1>4. CASE UNCHANGED vars
  <2>1. TypeOK'
    BY <1>1, <1>4 DEF vars, engineVars, deviceVars, TypeOK, EngineTypeOK
  <2>2. \A d \in Devices : Rests(d)
    BY <1>4 DEF vars, engineVars, deviceVars, Rests
  <2> QED BY <1>1, <1>3, <2>1, <2>2, RestsSound DEF CommandsInv
<1>5. ASSUME NEW d \in Devices,
             \/ \E s \in Sessions : Edit(d, s)
             \/ \E kind \in Pushes : BeginPush(d, kind)
             \/ \E kind \in Pulls : BeginPull(d, kind)
             \/ BeginResolve(d)
             \/ Progress(d)
             \/ CommandFails(d) \/ Crash(d)
      PROVE  CommandsInv'
  BY <1>3, <1>5, EditSound, PushSound, PullSound, BeginResolveSound, CallSound, SaveStateSound,
     RestoreSound, ResolveSound, FailureSound DEF Progress
<1> QED BY <1>4, <1>5 DEF Next

LEMMA CommandsInvariant == Spec => []CommandsInv
BY InitCommandsInv, NextCommandsInv, PTL DEF Spec

(* The commands, with their crashes and failures, use the engine as it is  *)
(* meant to be used: whatever is proved of every behaviour of the engine   *)
(* holds for them (commands_impl.go calls PushSession and FetchManifest).  *)
THEOREM CommandsUseEngine == Spec => EngineSpec
<1>1. CommandsInv /\ [Next]_vars => [EngineNext]_engineVars
  BY StepOfEngine DEF CommandsInv
<1>2. Init => EngineInit
  BY DEF Init
<1> QED BY <1>1, <1>2, CommandsInvariant, PTL DEF Spec, EngineSpec

(* No session's head is lost or replaced by a snapshot that was not made   *)
(* on top of it, whatever commands run on whatever devices.                *)
THEOREM CommandsLoseNoUpdate == Spec => LinearHistory
BY CommandsUseEngine, NoLostUpdate

(* Every push of a command is one atomic push on the shared history.       *)
THEOREM CommandsPushAtomically == Spec => ImplementsAtomicPush
BY CommandsUseEngine, PushIsAtomic

(* What state.json and the manifest name has been stored and has been a    *)
(* head, whatever fails or crashes in between.                             *)
THEOREM StateStaysConsistent == Spec => []StateConsistent
<1>1. CommandsInv => StateConsistent
  <2>1. CommandsInv => BaseWasHead
    BY DEF CommandsInv, Recorded, WellKept, BaseWasHead
  <2>2. EngineInv => HeadsStored
    BY HeadBounded DEF EngineInv, HeadsStored
  <2> QED BY <2>1, <2>2 DEF CommandsInv, StateConsistent
<1> QED BY <1>1, CommandsInvariant, PTL

-----------------------------------------------------------------------------
(* Why no push takes an edit out of a head.  A device that remembers the   *)
(* head of a session has what the head contains...                         *)
Carries(s, n, b) == n # 0 /\ n = RemoteHead(s) => Body(n) \subseteq b

Remembers(d) ==
    \A s \in Sessions : CopyOf("remote", s) = {} =>
        /\ Carries(s, state[d][s].remote, local[d][s])
        /\ Carries(s, cmd[d].mem[s].remote, local[d][s])

(* ...what it sends is what it has, on top of what it remembers...         *)
Sends(d) ==
    call[d].pc # "idle" =>
        /\ call[d].body \subseteq local[d][cmd[d].cur]
        /\ cmd[d].kind \in Pushes =>
               /\ call[d].base = cmd[d].mem[cmd[d].cur].remote
               /\ CopyOf("remote", cmd[d].cur) = {} =>
                      Carries(cmd[d].cur, call[d].base, call[d].body)

(* ...what it is about to remember is here, and a copy it is about to make *)
(* replaces nothing...                                                     *)
Ready(d) ==
    /\ cmd[d].kind \in Resolutions => cmd[d].mem = NoCmd.mem
    /\ cmd[d].kind = "keep-local" /\ cmd[d].phase = "fetch" =>
           cmd[d].hash \subseteq local[d][cmd[d].cur]
    /\ cmd[d].phase = "hash" => Body(cmd[d].man[cmd[d].cur]) \subseteq local[d][cmd[d].target]
    /\ /\ cmd[d].kind \in Pulls
       /\ cmd[d].phase \in {"backup", "verify", "rename"}
       /\ cmd[d].target # cmd[d].cur
       => /\ Carries(cmd[d].target, state[d][cmd[d].target].remote, {})
          /\ Carries(cmd[d].target, cmd[d].mem[cmd[d].target].remote, {})

(* ...and the manifest a command goes by is not older than what the device *)
(* remembers.                                                              *)
Fetched(d) ==
    /\ cmd[d].kind \in Pushes \cup Restores
    /\ cmd[d].phase \notin {"fetch", "audit", "remove"}

Newest(d) ==
    Fetched(d) =>
        \A s \in Sessions :
            /\ RemoteHead(s) # 0 /\ CopyOf("remote", s) = {}
            /\ \/ RemoteHead(s) = state[d][s].remote
               \/ cmd[d].kind \in Pulls /\ RemoteHead(s) = cmd[d].mem[s].remote
            => cmd[d].man[s] = RemoteHead(s)

(* An upload holds what its call was asked to send.                        *)
CallBody ==
    \A d \in Devices : call[d].pc \in {"reload", "save", "ok"} =>
        snapshots[call[d].id].body = call[d].body

RememberInv ==
    /\ CommandsInv /\ CallBody
    /\ \A d \in Devices : Remembers(d) /\ Sends(d) /\ Ready(d) /\ Newest(d)

(* A head that was remembered is the head after a step only if it was one  *)
(* before.                                                                 *)
LEMMA HeadKept ==
  ASSUME EngineInv, Grows, NEW s \in Sessions, NEW n, n # 0 => InChain(s, n)
  PROVE  n # 0 => /\ RemoteHead(s)' = n => RemoteHead(s) = n
                  /\ snapshots'[n] = snapshots[n]
<1> HAVE n # 0
<1>1. n \in 1..Len(snapshots)
  BY InChainStored
<1> QED BY <1>1 DEF Grows

(* What state.json and its copy remember of a session that is no copy.     *)
LEMMA RememberedInChain ==
  ASSUME CommandsInv, NEW d \in Devices, NEW s \in Sessions, CopyOf("remote", s) = {}
  PROVE  /\ state[d][s].remote # 0 => InChain(s, state[d][s].remote)
         /\ cmd[d].mem[s].remote # 0 => InChain(s, cmd[d].mem[s].remote)
<1>1. ASSUME NEW n, n \in Ids, WasHead(s, n) PROVE InChain(s, n)
  BY <1>1 DEF WasHead, CopyOf
<1>2. state[d][s].remote \in Ids /\ cmd[d].mem[s].remote \in Ids
  BY Parts DEF CommandsInv, States
<1> QED BY <1>1, <1>2 DEF CommandsInv, Recorded, WellKept

LEMMA RemembersStays ==
  ASSUME RememberInv, Grows, NEW d \in Devices,
         state'[d] \in {state[d], cmd[d].mem},
         cmd'[d].mem \in {cmd[d].mem, state[d], NoCmd.mem},
         \A s \in Sessions : local[d][s] \subseteq local'[d][s]
  PROVE  Remembers(d)'
<1>1. ASSUME NEW s \in Sessions, CopyOf("remote", s) = {},
             NEW n, n \in {state[d][s].remote, cmd[d].mem[s].remote},
             n # 0, n = RemoteHead(s)'
      PROVE  snapshots'[n].body \subseteq local'[d][s]
  <2>1. RemoteHead(s) = n /\ snapshots'[n] = snapshots[n]
    BY <1>1, HeadKept, RememberedInChain DEF RememberInv, CommandsInv
  <2>2. snapshots[n].body \subseteq local[d][s]
    BY <1>1, <2>1 DEF RememberInv, Remembers, Carries, Body
  <2> QED BY <2>1, <2>2
<1>2. ASSUME NEW s \in Sessions PROVE NoCmd.mem[s].remote = 0
  BY DEF NoCmd, Unknown
<1>3. ASSUME NEW s \in Sessions
      PROVE  /\ state'[d][s].remote \in {state[d][s].remote, cmd[d].mem[s].remote}
             /\ cmd'[d].mem[s].remote \in {state[d][s].remote, cmd[d].mem[s].remote, 0}
  BY <1>2
<1>4. ASSUME NEW s \in Sessions, CopyOf("remote", s)' = {} PROVE CopyOf("remote", s) = {}
  BY <1>4 DEF CopyOf
<1>5. \A s \in Sessions : CopyOf("remote", s)' = {} =>
          /\ (state'[d][s].remote # 0 /\ state'[d][s].remote = RemoteHead(s)'
                => snapshots'[state'[d][s].remote].body \subseteq local'[d][s])
          /\ (cmd'[d].mem[s].remote # 0 /\ cmd'[d].mem[s].remote = RemoteHead(s)'
                => snapshots'[cmd'[d].mem[s].remote].body \subseteq local'[d][s])
  BY <1>1, <1>3, <1>4
<1> QED BY <1>5 DEF Remembers, Carries, Body

LEMMA NewestStays ==
  ASSUME RememberInv, Grows, NEW d \in Devices,
         state'[d] = state[d], cmd'[d].mem = cmd[d].mem, cmd'[d].man = cmd[d].man,
         cmd'[d].kind = cmd[d].kind, Fetched(d)' => Fetched(d)
  PROVE  Newest(d)'
<1>1. ASSUME Fetched(d), NEW s \in Sessions, RemoteHead(s)' # 0, CopyOf("remote", s) = {},
             \/ RemoteHead(s)' = state[d][s].remote
             \/ cmd[d].kind \in Pulls /\ RemoteHead(s)' = cmd[d].mem[s].remote
      PROVE  cmd[d].man[s] = RemoteHead(s)'
  <2>1. RemoteHead(s) = RemoteHead(s)'
    BY <1>1, HeadKept, RememberedInChain DEF RememberInv, CommandsInv
  <2> QED BY <1>1, <2>1 DEF RememberInv, Newest
<1> QED BY <1>1 DEF Newest, CopyOf

(* A command that has just fetched the manifest.                           *)
LEMMA NewestFetched ==
  ASSUME NEW d \in Devices, cmd'[d].man = manifest.heads, manifest' = manifest
  PROVE  Newest(d)'
BY DEF Newest, RemoteHead

(* A command that does not move, while agents write or its call goes on.   *)
LEMMA RestsRemember ==
  ASSUME RememberInv, Grows, NEW d \in Devices, cmd'[d] = cmd[d], state'[d] = state[d],
         call'[d].body = call[d].body, call'[d].base = call[d].base,
         call'[d].pc # "idle" => call[d].pc # "idle",
         \A s \in Sessions : local[d][s] \subseteq local'[d][s]
  PROVE  Remembers(d)' /\ Sends(d)' /\ Ready(d)' /\ Newest(d)'
<1>0. /\ TypeOK /\ EngineInv /\ CommandsInv /\ Shaped(d) /\ Named(d)
      /\ Remembers(d) /\ Sends(d) /\ Ready(d)
  BY DEF RememberInv, CommandsInv
<1>1. /\ cmd'[d] = cmd[d] /\ state'[d] = state[d] /\ cmd[d].cur \in Sessions
      /\ local[d][cmd[d].cur] \subseteq local'[d][cmd[d].cur]
      /\ local[d][cmd[d].target] \subseteq local'[d][cmd[d].target]
  BY <1>0, Parts
<1>2. Remembers(d)'
  BY <1>1, RemembersStays
<1>3. Newest(d)'
  BY <1>1, NewestStays DEF Fetched
<1>4. Sends(d)'
  <2>1. ASSUME call[d].pc # "idle", cmd[d].kind \in Pushes, CopyOf("remote", cmd[d].cur) = {},
               call[d].base # 0, call[d].base = RemoteHead(cmd[d].cur)'
        PROVE  snapshots'[call[d].base].body \subseteq call[d].body
    <3>1. call[d].base = cmd[d].mem[cmd[d].cur].remote /\ InChain(cmd[d].cur, call[d].base)
      BY <1>0, <1>1, <2>1, RememberedInChain DEF Sends
    <3>2. RemoteHead(cmd[d].cur) = call[d].base /\ snapshots'[call[d].base] = snapshots[call[d].base]
      BY <1>0, <1>1, <2>1, <3>1, HeadKept
    <3> QED BY <1>0, <2>1, <3>2 DEF Sends, Carries, Body
  <2> QED BY <1>0, <1>1, <2>1 DEF Sends, Carries, Body, CopyOf
<1>5. Ready(d)'
  <2>1. cmd[d].phase = "hash" =>
            snapshots'[cmd[d].man[cmd[d].cur]] = snapshots[cmd[d].man[cmd[d].cur]]
    BY <1>0, <1>1, HeadKept DEF Named, Restoring
  <2>2. ASSUME cmd[d].kind \in Pulls, cmd[d].phase \in {"backup", "verify", "rename"},
               cmd[d].target # cmd[d].cur,
               NEW n, n \in {state[d][cmd[d].target].remote, cmd[d].mem[cmd[d].target].remote},
               n # 0, n = RemoteHead(cmd[d].target)'
        PROVE  snapshots'[n].body \subseteq {}
    <3>1. cmd[d].target = Fork("active", cmd[d].cur, cmd[d].man[cmd[d].cur])
          /\ cmd[d].target \in Sessions
      BY <1>0, <2>2, Parts DEF Named, Restoring
    <3>2. CopyOf("remote", cmd[d].target) = {}
      BY <3>1 DEF CopyOf, Fork
    <3>3. InChain(cmd[d].target, n)
      <4>1. cmd[d].target \in Sessions
        BY <3>1
      <4>2. /\ state[d][cmd[d].target].remote # 0
                  => InChain(cmd[d].target, state[d][cmd[d].target].remote)
            /\ cmd[d].mem[cmd[d].target].remote # 0
                  => InChain(cmd[d].target, cmd[d].mem[cmd[d].target].remote)
        BY <1>0, <3>2, <4>1, RememberedInChain
      <4> QED BY <2>2, <4>2
    <3>4. RemoteHead(cmd[d].target) = n /\ snapshots'[n] = snapshots[n]
      BY <1>0, <1>1, <2>2, <3>1, <3>3, HeadKept DEF RemoteHead
    <3> QED BY <1>0, <2>2, <3>4 DEF Ready, Carries, Body
  <2> QED BY <1>0, <1>1, <2>1, <2>2 DEF Ready, Carries, Body
<1> QED BY <1>2, <1>3, <1>4, <1>5

(* The engine keeps what an upload holds.                                  *)
LEMMA CallBodyStep ==
  ASSUME EngineInv, EngineInv', CallBody, [EngineNext]_engineVars
  PROVE  CallBody'
<1>1. Grows /\ call \in [Devices -> Calls] /\ snapshots \in Seq(Envelopes)
  BY EngineGrows DEF EngineInv, EngineTypeOK
<1>2. ASSUME NEW d \in Devices, call[d].pc \in {"reload", "save", "ok"}
      PROVE  call[d].id \in 1..Len(snapshots) /\ snapshots'[call[d].id] = snapshots[call[d].id]
  <2>1. call[d].id \in 1..Len(snapshots)
    <3>1. CASE call[d].pc = "ok"
      BY <3>1, UploadedInChain, InChainStored
    <3>2. CASE call[d].pc # "ok"
      BY <1>2, <3>2 DEF EngineInv, UploadReady
    <3> QED BY <3>1, <3>2
  <2> QED BY <1>1, <2>1 DEF Grows
<1>3. ASSUME NEW d \in Devices, call'[d].pc \in {"reload", "save", "ok"}
      PROVE  \/ /\ call[d].pc \in {"reload", "save", "ok"}
                /\ call'[d].id = call[d].id /\ call'[d].body = call[d].body
             \/ snapshots'[call'[d].id].body = call'[d].body
  <2>0. call[d] \in Calls /\ NoCall.pc = "idle"
    BY <1>1 DEF NoCall
  <2>1. CASE UNCHANGED engineVars
    BY <1>3, <2>1 DEF engineVars
  <2>2. PICK e \in Devices :
            \/ \E s \in Sessions, b \in Bodies, base \in Ids : Begin(e, s, b, base)
            \/ Step(e) \/ Misfortune(e) \/ Return(e) \/ Abandon(e) \/ OtherFault
        \/ UNCHANGED engineVars
    BY DEF EngineNext
  <2>3. CASE PutSnapshot(e)
    <3>1. call'[d] = IF d = e THEN [call[d] EXCEPT !.pc = "reload", !.id = Len(snapshots) + 1]
                              ELSE call[d]
      BY <1>1, <2>3 DEF PutSnapshot
    <3>2. d = e => snapshots'[Len(snapshots) + 1].body = call[d].body
      BY <1>1, <2>3 DEF PutSnapshot, Upload, Envelopes, Calls
    <3> QED BY <1>3, <2>0, <3>1, <3>2 DEF Calls
  <2>4. CASE LoadManifest(e)
    BY <1>1, <1>3, <2>0, <2>4 DEF LoadManifest, Verdict, Calls
  <2>5. CASE SaveManifest(e) \/ SaveResent(e)
    <3>1. call'[d] \in {call[d], [call[d] EXCEPT !.pc = "ok"], Retried(d)}
          /\ (call'[d] = call[d] \/ call[d].pc = "save")
      BY <1>1, <2>5 DEF SaveManifest, SaveResent
    <3> QED BY <1>3, <2>0, <3>1 DEF Retried, Calls
  <2>6. CASE \E s \in Sessions, b \in Bodies, base \in Ids : Begin(e, s, b, base)
    BY <1>1, <1>3, <2>0, <2>6 DEF Begin, NoCall, Calls
  <2>7. CASE LoadParent(e) \/ PutRefused(e) \/ LoadFails(e) \/ PutFails(e) \/ SaveFails(e)
             \/ Return(e) \/ Abandon(e) \/ OtherFault
    BY <1>1, <1>3, <2>0, <2>7 DEF LoadParent, Verdict, PutRefused, LoadFails, PutFails, SaveFails,
       Return, Abandon, OtherFault, Failed, Calls
  <2> QED BY <2>1, <2>2, <2>3, <2>4, <2>5, <2>6, <2>7 DEF Step, Misfortune
<1> QED BY <1>2, <1>3 DEF CallBody

(* One device moves.                                                       *)
LEMMA OneRemembers ==
  ASSUME RememberInv, CommandsInv', CallBody', Grows, NEW d \in Devices,
         \A e \in Devices : e # d => Rests(e) /\ local'[e] = local[e],
         Remembers(d)', Sends(d)', Ready(d)', Newest(d)'
  PROVE  RememberInv'
BY RestsRemember DEF RememberInv, Rests

(* A command ends.                                                         *)
LEMMA EndRemembers ==
  ASSUME RememberInv, CommandsInv', CallBody', Grows, NEW d \in Devices,
         End(d), \A e \in Devices : e # d => call'[e] = call[e],
         call'[d].pc = "idle", local' = local,
         state' = state \/ state' = [state EXCEPT ![d] = cmd[d].mem]
  PROVE  RememberInv'
<1>0. TypeOK
  BY DEF RememberInv, CommandsInv
<1>1. cmd'[d] = NoCmd /\ \A e \in Devices : e # d => cmd'[e] = cmd[e]
  BY <1>0, Parts DEF End, DeviceTypes
<1>2. state'[d] \in {state[d], cmd[d].mem} /\ \A e \in Devices : e # d => state'[e] = state[e]
  BY <1>0, Parts DEF DeviceTypes
<1>3. Remembers(d)'
  BY <1>1, <1>2, RemembersStays
<1>4. Sends(d)' /\ Ready(d)' /\ Newest(d)'
  BY <1>1 DEF Sends, Ready, Newest, Fetched, NoCmd, Pushes, Pulls, Resolutions, Restores
<1> QED BY <1>1, <1>2, <1>3, <1>4, OneRemembers DEF Rests

(* What one device does leaves the others as they are.                     *)
StepOf(d) ==
    \/ \E s \in Sessions : Edit(d, s)
    \/ \E kind \in Pushes : BeginPush(d, kind)
    \/ \E kind \in Pulls : BeginPull(d, kind)
    \/ BeginResolve(d)
    \/ Progress(d)
    \/ CommandFails(d) \/ Crash(d)

Others(d) ==
    \A e \in Devices : e # d =>
        /\ Rests(e) /\ local'[e] = local[e] /\ conflicts'[e] = conflicts[e]
        /\ resolved'[e] = resolved[e] /\ backups'[e] = backups[e]

LEMMA OthersRest ==
  ASSUME TypeOK, NEW d \in Devices, StepOf(d)
  PROVE  Others(d)
<1>0. DeviceTypes /\ call \in [Devices -> Calls] /\ cmd \in [Devices -> Cmds]
      /\ state \in [Devices -> States]
  BY Parts DEF TypeOK, EngineTypeOK
<1>1. ASSUME NEW e \in Devices, e # d PROVE local'[e] = local[e] /\ state'[e] = state[e]
  <2>1. CASE \E s \in Sessions : Edit(d, s)
    BY <1>0, <1>1, <2>1 DEF Edit, DeviceTypes
  <2>2. CASE (\E kind \in Pushes : BeginPush(d, kind)) \/ (\E kind \in Pulls : BeginPull(d, kind))
             \/ BeginResolve(d) \/ Crash(d) \/ CallStep(d)
    BY <2>2 DEF BeginPush, BeginPull, BeginResolve, Crash, CallStep, deviceVars
  <2>3. CASE Push(d) \/ Pull(d)
    BY <2>3 DEF Push, PushFetch, PushSkip, PushHash, PushExport, PushUploaded, PushFailed,
       PushRefused, PushRecord, Pull, PullFetch, PullSkip, PullDiverged, PullSelect, PullRestored
  <2>4. CASE Restore(d) \/ CommandFails(d) \/ SaveState(d)
    BY <1>0, <1>1, <2>4 DEF Restore, RestoreSkipped, RestorePrepare, RestoreConflicts, RestoreBackup,
       RestoreVerify, RestoreRename, CommandFails, GiveUp, SaveState, DeviceTypes
  <2>5. CASE Resolve(d)
    BY <1>0, <1>1, <2>5 DEF Resolve, KeepLocalExport, KeepLocalFetch, KeepLocalPublished,
       KeepLocalFailed, KeepRemoteFetch, ResolveRecord, updateSessionState, ResolveAudit,
       ResolveRemove, DeviceTypes
  <2> QED BY <2>1, <2>2, <2>3, <2>4, <2>5 DEF StepOf, Progress
<1>2. ASSUME NEW e \in Devices, e # d PROVE cmd'[e] = cmd[e]
  <2>1. CASE (\E s \in Sessions : Edit(d, s)) \/ CallStep(d)
    BY <2>1 DEF Edit, CallStep, deviceVars
  <2>2. CASE (\E kind \in Pushes : BeginPush(d, kind)) \/ (\E kind \in Pulls : BeginPull(d, kind))
             \/ BeginResolve(d) \/ Crash(d) \/ CommandFails(d) \/ SaveState(d)
    BY <1>0, <1>2, <2>2 DEF BeginPush, BeginPull, BeginResolve, Crash, CommandFails, GiveUp,
       SaveState, End
  <2>3. CASE Push(d)
    BY <1>0, <1>2, <2>3 DEF Push, PushFetch, PushSkip, PushHash, PushExport, PushUploaded, PushFailed,
       PushRefused, PushRecord, NextSession, AfterConflict, End
  <2>4. CASE Pull(d)
    BY <1>0, <1>2, <2>4 DEF Pull, PullFetch, PullSkip, PullDiverged, PullSelect, PullRestored,
       NextSession, AfterConflict, End
  <2>5. CASE Restore(d)
    BY <1>0, <1>2, <2>5 DEF Restore, RestoreSkipped, RestorePrepare, RestoreConflicts, RestoreBackup,
       RestoreVerify, RestoreRename, GiveUp, NextSession, End
  <2>6. CASE Resolve(d)
    BY <1>0, <1>2, <2>6 DEF Resolve, KeepLocalExport, KeepLocalFetch, KeepLocalPublished,
       KeepLocalFailed, KeepRemoteFetch, ResolveRecord, ResolveAudit, ResolveRemove, End
  <2> QED BY <2>1, <2>2, <2>3, <2>4, <2>5, <2>6 DEF StepOf, Progress
<1>3. ASSUME NEW e \in Devices, e # d PROVE call'[e] = call[e]
  <2>1. CASE (\E s \in Sessions : Edit(d, s)) \/ (\E kind \in Pushes : BeginPush(d, kind))
             \/ (\E kind \in Pulls : BeginPull(d, kind)) \/ BeginResolve(d) \/ SaveState(d)
             \/ Pull(d) \/ Restore(d)
    BY <2>1 DEF Edit, BeginPush, BeginPull, BeginResolve, SaveState, Pull, PullFetch, PullSkip,
       PullDiverged, PullSelect, PullRestored, Restore, RestoreSkipped, RestorePrepare,
       RestoreConflicts, RestoreBackup, RestoreVerify, RestoreRename, engineVars
  <2>2. CASE Crash(d) \/ CommandFails(d)
    BY <1>0, <1>3, <2>2 DEF Crash, Abandon, CommandFails, OtherFault
  <2>3. CASE CallStep(d)
    BY <1>0, <1>3, <2>3 DEF CallStep, Step, Misfortune, LoadParent, PutSnapshot, PutRefused,
       LoadManifest, SaveManifest, LoadFails, PutFails, SaveFails, SaveResent, Failed
  <2>4. CASE Push(d)
    BY <1>0, <1>3, <2>4 DEF Push, PushFetch, PushSkip, PushHash, PushExport, PushUploaded, PushFailed,
       PushRefused, PushRecord, OtherFault, Begin, Return, engineVars
  <2>5. CASE Resolve(d)
    BY <1>0, <1>3, <2>5 DEF Resolve, KeepLocalExport, KeepLocalFetch, KeepLocalPublished,
       KeepLocalFailed, KeepRemoteFetch, ResolveRecord, ResolveAudit, ResolveRemove,
       Begin, Return, engineVars
  <2> QED BY <2>1, <2>2, <2>3, <2>4, <2>5 DEF StepOf, Progress
<1>4. ASSUME NEW e \in Devices, e # d
      PROVE  conflicts'[e] = conflicts[e] /\ resolved'[e] = resolved[e] /\ backups'[e] = backups[e]
  <2>1. CASE (\E s \in Sessions : Edit(d, s)) \/ (\E kind \in Pushes : BeginPush(d, kind))
             \/ (\E kind \in Pulls : BeginPull(d, kind)) \/ BeginResolve(d) \/ SaveState(d)
             \/ CommandFails(d) \/ Crash(d) \/ CallStep(d)
    BY <2>1 DEF Edit, BeginPush, BeginPull, BeginResolve, SaveState, CommandFails, Crash, CallStep,
       deviceVars
  <2>2. CASE Push(d)
    BY <1>0, <1>4, <2>2 DEF Push, PushFetch, PushSkip, PushHash, PushExport, PushUploaded, PushFailed,
       PushRefused, PushRecord, SaveConflict, DeviceTypes
  <2>3. CASE Pull(d)
    BY <1>0, <1>4, <2>3 DEF Pull, PullFetch, PullSkip, PullDiverged, PullSelect, PullRestored,
       SaveConflict, DeviceTypes
  <2>4. CASE Restore(d)
    BY <1>0, <1>4, <2>4 DEF Restore, RestoreSkipped, RestorePrepare, RestoreConflicts, RestoreBackup,
       RestoreVerify, RestoreRename, DeviceTypes
  <2>5. CASE Resolve(d)
    BY <1>0, <1>4, <2>5 DEF Resolve, KeepLocalExport, KeepLocalFetch, KeepLocalPublished,
       KeepLocalFailed, KeepRemoteFetch, ResolveRecord, ResolveAudit, ResolveRemove, DeviceTypes
  <2> QED BY <2>1, <2>2, <2>3, <2>4, <2>5 DEF StepOf, Progress
<1> QED BY <1>1, <1>2, <1>3, <1>4 DEF Others, Rests

(* A command goes on with what it knows.                                   *)
LEMMA MoveRemembers ==
  ASSUME RememberInv, CommandsInv', CallBody', Grows, NEW d \in Devices, Others(d),
         cmd[d].kind # "none", call'[d].pc = "idle",
         cmd'[d].kind = cmd[d].kind, cmd'[d].mem = cmd[d].mem,
         \/ cmd'[d].man = cmd[d].man /\ (Fetched(d)' => Fetched(d))
         \/ cmd'[d].man = manifest.heads /\ manifest' = manifest,
         state'[d] = state[d], local'[d] = local[d],
         cmd'[d].kind = "keep-local" /\ cmd'[d].phase = "fetch" =>
             cmd'[d].hash \subseteq local[d][cmd'[d].cur],
         cmd'[d].phase \notin {"hash", "backup", "verify", "rename"}
  PROVE  RememberInv'
<1>1. Remembers(d)'
  BY RemembersStays
<1>2. Sends(d)'
  BY DEF Sends
<1>3. Ready(d)'
  BY DEF RememberInv, Ready, NoCmd
<1>4. Newest(d)'
  BY NewestStays, NewestFetched
<1> QED BY <1>1, <1>2, <1>3, <1>4, OneRemembers DEF Others

(* push.                                                                   *)
LEMMA PushRemembers ==
  ASSUME RememberInv, CommandsInv', CallBody', Grows, NEW d \in Devices, Push(d)
  PROVE  RememberInv'
<1>0. TypeOK /\ EngineInv /\ Shaped(d) /\ Named(d) /\ Remembers(d) /\ Sends(d) /\ CommandsInv
      /\ Others(d)
  BY OthersRest DEF RememberInv, CommandsInv, StepOf, Progress
<1> USE Parts
<1>1. cmd[d].kind \in Pushes /\ cmd[d].kind # "none" /\ cmd[d].kind \notin Pulls
      /\ cmd[d].kind # "keep-local" /\ cmd \in [Devices -> Cmds] /\ cmd[d] \in Cmds
      /\ call \in [Devices -> Calls]
  <2>1. cmd[d].kind \in Pushes
    BY DEF Push, PushFetch, PushSkip, PushHash, PushExport, PushUploaded, PushFailed, PushRefused,
       PushRecord, At
  <2> QED BY <1>0, <2>1, PushKind DEF TypeOK, EngineTypeOK
<1>2. CASE End(d)
  <2>1. call'[d].pc = "idle"
    <3>1. CASE call' = call /\ cmd[d].phase # "call"
      BY <1>0, <3>1, IdleUnlessCalling
    <3>2. CASE ~(call' = call /\ cmd[d].phase # "call")
      <4>1. cmd'[d].phase = "-"
        BY <1>1, <1>2 DEF End, NoCmd
      <4> QED BY <4>1 DEF CommandsInv, TypeOK
    <3> QED BY <3>1, <3>2
  <2>2. local' = local /\ state' = state
    BY DEF Push, PushFetch, PushSkip, PushHash, PushExport, PushUploaded, PushFailed,
       PushRefused, PushRecord
  <2> QED BY <1>0, <1>2, <2>1, <2>2, EndRemembers DEF Others, Rests
<1>3. CASE PushFetch(d) /\ ~End(d)
  <2>1. cmd'[d] = [cmd[d] EXCEPT !.phase = "next", !.man = manifest.heads]
    BY <1>1, <1>3 DEF PushFetch
  <2>2. call'[d].pc = "idle" /\ manifest' = manifest /\ state' = state /\ local' = local
    BY <1>0, <1>3, IdleUnlessCalling DEF PushFetch, At, engineVars
  <2> QED BY <1>0, <1>1, <2>1, <2>2, MoveRemembers DEF Cmds
<1>4. CASE PushSkip(d) \/ PushHash(d) \/ (PushRecord(d) /\ ~End(d))
  <2>1. /\ cmd'[d].kind = cmd[d].kind /\ cmd'[d].mem = cmd[d].mem /\ cmd'[d].man = cmd[d].man
        /\ cmd'[d].phase \in {"next", "export"}
    <3>1. CASE PushHash(d)
      BY <1>1, <3>1 DEF PushHash, Cmds
    <3>2. CASE ~PushHash(d)
      <4>1. PICK s : NextSession(d, s, cmd[d].mem)
        BY <1>4, <3>2 DEF PushSkip, PushRecord, AfterConflict
      <4> QED BY <1>1, <4>1 DEF NextSession, Cmds
    <3> QED BY <3>1, <3>2
  <2>2. call'[d].pc = "idle" /\ state' = state /\ local' = local
    BY <1>0, <1>4, IdleUnlessCalling DEF PushSkip, PushHash, PushRecord, At, OtherFault, engineVars
  <2>3. Fetched(d)
    BY <1>1, <1>4 DEF PushSkip, PushHash, PushRecord, At, Fetched
  <2> QED BY <1>0, <1>1, <2>1, <2>2, <2>3, MoveRemembers
<1>5. CASE PushExport(d)
  <2>1. /\ cmd'[d] = [cmd[d] EXCEPT !.phase = "call"] /\ state' = state /\ local' = local
        /\ call'[d].body = local[d][cmd[d].cur] /\ call'[d].base = cmd[d].mem[cmd[d].cur].remote
        /\ manifest' = manifest /\ snapshots' = snapshots
    <3>1. NoCall \in Calls
      BY NoCallType
    <3> QED BY <1>1, <1>5, <3>1 DEF PushExport, Begin, Cur, Calls
  <2>2. Remembers(d)'
    BY <1>1, <2>1, RemembersStays DEF Cmds
  <2>3. Sends(d)'
    <3>1. cmd'[d].cur = cmd[d].cur /\ cmd'[d].mem = cmd[d].mem /\ cmd'[d].kind = cmd[d].kind
      BY <1>1, <2>1 DEF Cmds
    <3>2. ASSUME CopyOf("remote", cmd[d].cur) = {}
          PROVE  Carries(cmd[d].cur, cmd[d].mem[cmd[d].cur].remote, local[d][cmd[d].cur])
      BY <1>0, <3>2 DEF Remembers
    <3>3. /\ call'[d].body \subseteq local'[d][cmd'[d].cur]
          /\ call'[d].base = cmd'[d].mem[cmd'[d].cur].remote
      BY <2>1, <3>1
    <3>4. PICK s, n, b : s = cmd[d].cur /\ n = call'[d].base /\ b = call'[d].body
      OBVIOUS
    <3>5. CopyOf("remote", s) = {} => Carries(s, n, b)
      BY <2>1, <3>2, <3>4
    <3>6. CopyOf("remote", s) = {} => Carries(s, n, b)'
      BY <2>1, <3>5 DEF Carries, Body, RemoteHead
    <3>7. s = cmd'[d].cur
      BY <3>1, <3>4
    <3>8. (CopyOf("remote", s) = {})' <=> CopyOf("remote", s) = {}
      BY DEF CopyOf
    <3> QED BY <3>3, <3>4, <3>6, <3>7, <3>8 DEF Sends
  <2>4. Ready(d)'
    BY <1>1, <2>1, PushKind DEF Ready, Cmds
  <2>5. Newest(d)'
    <3>1. Fetched(d)
      BY <1>1, <1>5 DEF Fetched, PushExport, At
    <3> QED BY <1>1, <2>1, <3>1, NewestStays DEF Cmds
  <2> QED BY <1>0, <2>2, <2>3, <2>4, <2>5, OneRemembers DEF Others
<1>6. CASE PushRefused(d)
  <2>1. cmd'[d] = [cmd[d] EXCEPT !.phase = "record"] /\ state' = state /\ local' = local
    BY <1>1, <1>6 DEF PushRefused
  <2>2. call'[d].pc = "idle" /\ Fetched(d)
    BY <1>0, <1>1, <1>6, Forgotten DEF PushRefused, At, Return, Fetched
  <2> QED BY <1>0, <1>1, <2>1, <2>2, MoveRemembers DEF Cmds
<1>7. CASE PushUploaded(d)
  <2>1. /\ cmd'[d] = [cmd[d] EXCEPT !.phase = "next", !.todo = cmd[d].todo \ {cmd[d].cur},
            !.mem = [cmd[d].mem EXCEPT ![cmd[d].cur] =
                        [local |-> cmd[d].hash, remote |-> call[d].id]]]
        /\ state' = state /\ local' = local /\ snapshots' = snapshots /\ manifest' = manifest
        /\ call[d].pc = "ok" /\ call'[d].pc = "idle"
    BY <1>0, <1>1, <1>7, Forgotten DEF PushUploaded, NextSession, Cur, Return
  <2>2. Body(call[d].id) \subseteq local[d][cmd[d].cur]
    BY <1>0, <2>1 DEF RememberInv, CallBody, Body, Sends
  <2>3. Remembers(d)'
    <3>1. \A s \in Sessions : cmd'[d].mem[s] =
             IF s = cmd[d].cur THEN [local |-> cmd[d].hash, remote |-> call[d].id] ELSE cmd[d].mem[s]
      BY <1>0, <1>1, <2>1 DEF Cmds, States
    <3> QED BY <1>0, <2>1, <2>2, <3>1 DEF Remembers, Carries, Body, RemoteHead, CopyOf
  <2>4. Sends(d)' /\ Ready(d)'
    BY <1>1, <2>1, PushKind DEF Sends, Ready, Cmds
  <2>5. Newest(d)'
    <3>1. Fetched(d) /\ cmd'[d].kind = cmd[d].kind /\ cmd'[d].man = cmd[d].man
      BY <1>1, <1>7, <2>1 DEF Fetched, PushUploaded, At, Cmds
    <3> QED BY <1>1, <2>1, <3>1 DEF RememberInv, Newest, RemoteHead, CopyOf
  <2> QED BY <1>0, <2>3, <2>4, <2>5, OneRemembers DEF Others
<1>8. CASE PushFailed(d)
  BY <1>2, <1>8 DEF PushFailed
<1> QED BY <1>2, <1>3, <1>4, <1>5, <1>6, <1>7, <1>8 DEF Push

(* pull.                                                                   *)
LEMMA PullRemembers ==
  ASSUME RememberInv, CommandsInv', CallBody', Grows, NEW d \in Devices, Pull(d)
  PROVE  RememberInv'
<1>0. TypeOK /\ EngineInv /\ Shaped(d) /\ Named(d) /\ Remembers(d) /\ Ready(d) /\ CommandsInv
      /\ Others(d)
  BY OthersRest DEF RememberInv, CommandsInv, StepOf, Progress
<1> USE Parts
<1>1. cmd[d].kind \in Pulls /\ cmd[d].kind # "none" /\ cmd[d].kind \notin Pushes
      /\ cmd[d].kind # "keep-local" /\ cmd \in [Devices -> Cmds] /\ cmd[d] \in Cmds
      /\ cmd[d].kind \notin Resolutions /\ call[d].pc = "idle" /\ call' = call
      /\ UNCHANGED <<snapshots, manifest, chain, state, local>>
  <2>1. cmd[d].kind \in Pulls /\ cmd[d].phase # "call" /\ UNCHANGED <<engineVars, state, local>>
    BY DEF Pull, PullFetch, PullSkip, PullDiverged, PullSelect, PullRestored, At
  <2> QED BY <1>0, <2>1, PullKind, IdleUnlessCalling DEF TypeOK, engineVars
<1>2. CASE End(d)
  BY <1>0, <1>1, <1>2, EndRemembers
<1>3. CASE PullFetch(d) /\ ~End(d)
  <2>1. /\ cmd'[d].kind = cmd[d].kind /\ cmd'[d].mem = cmd[d].mem /\ cmd'[d].man = manifest.heads
        /\ cmd'[d].phase = "next"
    <3>1. PICK busy, chosen : cmd' = [cmd EXCEPT ![d].phase = "next", ![d].todo = chosen,
              ![d].man = manifest.heads, ![d].here = Present(d), ![d].forks = busy]
      BY <1>3 DEF PullFetch
    <3> QED BY <1>1, <3>1 DEF Cmds
  <2> QED BY <1>0, <1>1, <2>1, MoveRemembers
<1>4. CASE PullSkip(d) \/ PullSelect(d) \/ (PullDiverged(d) /\ ~End(d))
  <2>1. /\ cmd'[d].kind = cmd[d].kind /\ cmd'[d].mem = cmd[d].mem /\ cmd'[d].man = cmd[d].man
        /\ cmd'[d].phase \in {"next", "restore"}
    <3>1. CASE PullSelect(d)
      BY <1>1, <3>1 DEF PullSelect, Cmds
    <3>2. CASE ~PullSelect(d)
      <4>1. PICK s : NextSession(d, s, cmd[d].mem)
        BY <1>4, <3>2 DEF PullSkip, PullDiverged, AfterConflict
      <4> QED BY <1>1, <4>1 DEF NextSession, Cmds
    <3> QED BY <3>1, <3>2
  <2>2. Fetched(d)
    BY <1>1, <1>4 DEF PullSkip, PullSelect, PullDiverged, At, Fetched, Restores
  <2> QED BY <1>0, <1>1, <2>1, <2>2, MoveRemembers
<1>5. CASE PullRestored(d)
  <2>1. PICK m : /\ NextSession(d, cmd[d].cur, m)
                 /\ m = IF cmd[d].target = cmd[d].cur
                          THEN [cmd[d].mem EXCEPT ![cmd[d].cur] =
                                   [local |-> local[d][cmd[d].cur], remote |-> cmd[d].man[cmd[d].cur]]]
                          ELSE cmd[d].mem
    BY <1>5 DEF PullRestored, Cur
  <2>2. /\ cmd'[d].kind = cmd[d].kind /\ cmd'[d].mem = m /\ cmd'[d].man = cmd[d].man
        /\ cmd'[d].phase = "next"
    BY <1>1, <2>1 DEF NextSession, Cmds
  <2>3. CASE cmd[d].target # cmd[d].cur
    <3>1. cmd'[d].mem = cmd[d].mem /\ Fetched(d)
      BY <1>1, <1>5, <2>1, <2>2, <2>3 DEF PullRestored, At, Fetched, Restores
    <3> QED BY <1>0, <1>1, <2>2, <3>1, MoveRemembers
  <2>4. CASE cmd[d].target = cmd[d].cur
    <3>1. \A s \in Sessions : cmd'[d].mem[s] =
             IF s = cmd[d].cur
               THEN [local |-> local[d][cmd[d].cur], remote |-> cmd[d].man[cmd[d].cur]]
               ELSE cmd[d].mem[s]
      BY <1>0, <2>1, <2>2, <2>4 DEF States
    <3>2. Body(cmd[d].man[cmd[d].cur]) \subseteq local[d][cmd[d].cur]
      BY <1>0, <1>5, <2>4 DEF PullRestored, At, Ready
    <3>3. Remembers(d)'
      BY <1>0, <1>1, <3>1, <3>2 DEF Remembers, Carries, Body, RemoteHead, CopyOf
    <3>4. Sends(d)' /\ Ready(d)'
      BY <1>1, <2>2 DEF Sends, Ready
    <3>5. Fetched(d)
      BY <1>1, <1>5 DEF Fetched, PullRestored, At, Restores
    <3>6. Newest(d)'
      BY <1>0, <1>1, <2>2, <3>1, <3>5 DEF RememberInv, Newest, RemoteHead, CopyOf
    <3> QED BY <1>0, <3>3, <3>4, <3>6, OneRemembers DEF Others
  <2> QED BY <2>3, <2>4
<1> QED BY <1>2, <1>3, <1>4, <1>5 DEF Pull

(* A restore.                                                              *)
LEMMA RestoreRemembers ==
  ASSUME RememberInv, CommandsInv', CallBody', Grows, NEW d \in Devices, Restore(d)
  PROVE  RememberInv'
<1>0. TypeOK /\ EngineInv /\ Shaped(d) /\ Named(d) /\ Remembers(d) /\ Ready(d) /\ CommandsInv
      /\ Others(d) /\ Newest(d)
  BY OthersRest DEF RememberInv, CommandsInv, StepOf, Progress
<1> USE Parts
<1>1. /\ cmd[d].kind \in Restores /\ cmd[d].kind # "none" /\ cmd[d].kind \notin Pushes
      /\ cmd[d].kind # "keep-local" /\ cmd \in [Devices -> Cmds] /\ cmd[d] \in Cmds
      /\ cmd[d].phase \in {"restore", "backup", "verify", "rename"} /\ Fetched(d)
      /\ call[d].pc = "idle" /\ call' = call /\ UNCHANGED <<snapshots, manifest, chain>>
  <2>1. /\ cmd[d].kind \in Restores /\ UNCHANGED engineVars
        /\ cmd[d].phase \in {"restore", "backup", "verify", "rename"}
    BY DEF Restore, RestoreSkipped, RestorePrepare, RestoreConflicts, RestoreBackup, RestoreVerify,
       RestoreRename, At
  <2>2. cmd[d].kind # "none" /\ cmd[d].kind \notin Pushes /\ cmd[d].kind # "keep-local"
    BY <2>1 DEF Restores, Pulls, Pushes
  <2> QED BY <1>0, <2>1, <2>2, IdleUnlessCalling DEF TypeOK, Fetched, engineVars
(* A copy that pull makes.                                                 *)
<1>2. ASSUME cmd[d].kind \in Pulls, cmd[d].target # cmd[d].cur
      PROVE  CopyOf("remote", cmd[d].target) = {} /\ cmd[d].target \in Sessions
  <2>1. cmd[d].target = Fork("active", cmd[d].cur, cmd[d].man[cmd[d].cur])
    BY <1>0, <1>1, <1>2 DEF Named, Restoring
  <2> QED BY <1>0, <2>1 DEF CopyOf, Fork
<1>3. CASE RestoreSkipped(d)
  <2>1. NextSession(d, cmd[d].cur, cmd[d].mem) /\ local' = local /\ state' = state
    BY <1>3 DEF RestoreSkipped, Cur
  <2>2. /\ cmd'[d].kind = cmd[d].kind /\ cmd'[d].mem = cmd[d].mem /\ cmd'[d].man = cmd[d].man
        /\ cmd'[d].phase = "next"
    BY <1>1, <2>1 DEF NextSession, Cmds
  <2> QED BY <1>0, <1>1, <2>1, <2>2, MoveRemembers
<1>4. CASE RestoreConflicts(d)
  <2>1. /\ End(d) /\ local' = local
        /\ state' = state \/ state' = [state EXCEPT ![d] = cmd[d].mem]
    BY <1>4 DEF RestoreConflicts, GiveUp
  <2> QED BY <1>0, <1>1, <2>1, EndRemembers
<1>5. CASE RestorePrepare(d) \/ RestoreBackup(d) \/ RestoreVerify(d)
  <2>1. /\ cmd'[d].kind = cmd[d].kind /\ cmd'[d].mem = cmd[d].mem /\ cmd'[d].man = cmd[d].man
        /\ cmd'[d].cur = cmd[d].cur /\ cmd'[d].target = cmd[d].target
        /\ cmd'[d].phase \in {"backup", "verify", "rename"}
        /\ cmd[d].phase \in {"backup", "verify"} \/ ~ForkExists(d)
        /\ local' = local /\ state' = state
    BY <1>1, <1>5 DEF RestorePrepare, RestoreBackup, RestoreVerify, At, Cmds
  <2>2. Remembers(d)' /\ Newest(d)' /\ Sends(d)'
    BY <1>1, <2>1, RemembersStays, NewestStays DEF Sends
  <2>3. ASSUME cmd[d].kind \in Pulls, cmd[d].target # cmd[d].cur
        PROVE  /\ Carries(cmd[d].target, state[d][cmd[d].target].remote, {})
               /\ Carries(cmd[d].target, cmd[d].mem[cmd[d].target].remote, {})
    <3>1. CASE cmd[d].phase \in {"backup", "verify"}
      BY <1>0, <2>3, <3>1 DEF Ready
    <3>2. CASE ~ForkExists(d)
      <4>1. local[d][cmd[d].target] = {}
        BY <2>3, <3>2 DEF ForkExists, Cur
      <4> QED BY <1>0, <1>2, <2>3, <4>1 DEF Remembers
    <3> QED BY <2>1, <3>1, <3>2
  <2>4. Ready(d)'
    BY <1>0, <1>1, <2>1, <2>3 DEF Ready, NoCmd, Carries, Body, RemoteHead
  <2> QED BY <1>0, <2>2, <2>4, OneRemembers DEF Others
<1>6. CASE RestoreRename(d)
  <2>1. /\ cmd'[d].kind = cmd[d].kind /\ cmd'[d].mem = cmd[d].mem /\ cmd'[d].man = cmd[d].man
        /\ cmd'[d].cur = cmd[d].cur /\ cmd'[d].target = cmd[d].target
        /\ cmd'[d].phase = "hash" /\ state' = state
        /\ local'[d] = [local[d] EXCEPT ![cmd[d].target] = Body(cmd[d].man[cmd[d].cur])]
    BY <1>0, <1>1, <1>6 DEF RestoreRename, PullArtifact, Cur, Cmds, DeviceTypes
  <2>2. \A s \in Sessions : local'[d][s] =
            IF s = cmd[d].target THEN Body(cmd[d].man[cmd[d].cur]) ELSE local[d][s]
    BY <1>0, <2>1
  <2>3. Newest(d)' /\ Sends(d)'
    BY <1>1, <2>1, NewestStays DEF Sends
  <2>4. Ready(d)'
    BY <1>0, <1>1, <2>1, <2>2 DEF Ready, NoCmd, Body
  <2>5. ASSUME CopyOf("remote", cmd[d].target) = {}, NEW n,
               n \in {state[d][cmd[d].target].remote, cmd[d].mem[cmd[d].target].remote},
               n # 0, n = RemoteHead(cmd[d].target)
        PROVE  Body(n) \subseteq Body(cmd[d].man[cmd[d].cur])
    <3>1. CASE cmd[d].kind \in Pulls /\ cmd[d].target # cmd[d].cur
      <4>1. cmd[d].phase = "rename"
        BY <1>6 DEF RestoreRename, At
      <4>2. Body(n) \subseteq {}
        BY <1>0, <2>5, <3>1, <4>1 DEF Ready, Carries
      <4> QED BY <4>2
    <3>2. CASE cmd[d].target = cmd[d].cur
      <4>1. n = state[d][cmd[d].cur].remote \/ cmd[d].kind \in Pulls
        <5>1. ASSUME cmd[d].kind \notin Pulls PROVE cmd[d].mem[cmd[d].cur].remote = 0
          <6>1. cmd[d].kind \in Resolutions
            BY <1>1, <5>1 DEF Restores, Resolutions
          <6> QED BY <1>0, <6>1 DEF Ready, NoCmd, Unknown
        <5> QED BY <2>5, <3>2, <5>1
      <4>2. cmd[d].man[cmd[d].cur] = n
        BY <1>0, <1>1, <2>5, <3>2, <4>1 DEF Newest
      <4> QED BY <4>2
    <3>3. CASE cmd[d].kind \notin Pulls /\ cmd[d].target # cmd[d].cur
      <4>1. cmd[d].kind = "keep-both"
        BY <1>0, <1>1, <3>3 DEF Shaped, Restores
      <4>2. cmd[d].target = Fork("remote", cmd[d].cur, cmd[d].man[cmd[d].cur])
        BY <1>0, <1>1, <4>1 DEF Named, Restoring
      <4> QED BY <1>0, <2>5, <4>2 DEF CopyOf
    <3> QED BY <3>1, <3>2, <3>3
  <2>6. Remembers(d)'
    <3>1. /\ snapshots' = snapshots /\ manifest' = manifest
          /\ state' = state /\ cmd'[d].mem = cmd[d].mem
      BY <1>1, <2>1
    <3>2. ASSUME NEW s \in Sessions, CopyOf("remote", s) = {},
                 NEW n \in {state[d][s].remote, cmd[d].mem[s].remote}
          PROVE  Carries(s, n, local'[d][s])
      <4>1. CASE s = cmd[d].target
        BY <2>2, <2>5, <3>2, <4>1 DEF Carries
      <4>2. CASE s # cmd[d].target
        BY <1>0, <2>2, <3>2, <4>2 DEF Remembers
      <4> QED BY <4>1, <4>2
    <3>3. ASSUME NEW s \in Sessions, CopyOf("remote", s)' = {},
                 NEW n \in {state'[d][s].remote, cmd'[d].mem[s].remote},
                 NEW b, b = local'[d][s]
          PROVE  Carries(s, n, b)'
      <4>1. CopyOf("remote", s) = {} /\ n \in {state[d][s].remote, cmd[d].mem[s].remote}
        BY <3>1, <3>3 DEF CopyOf
      <4>2. Carries(s, n, b)
        BY <3>2, <3>3, <4>1
      <4> QED BY <3>1, <4>2 DEF Carries, Body, RemoteHead
    <3> QED BY <3>3 DEF Remembers
  <2> QED BY <1>0, <2>3, <2>4, <2>6, OneRemembers DEF Others
<1> QED BY <1>3, <1>4, <1>5, <1>6 DEF Restore

(* An agent writes, or the engine works for the command.                   *)
LEMMA WaitRemembers ==
  ASSUME RememberInv, CommandsInv', CallBody', Grows, NEW d \in Devices,
         CallStep(d) \/ \E s \in Sessions : Edit(d, s)
  PROVE  RememberInv'
<1>0. TypeOK /\ CommandsInv /\ Others(d) /\ DeviceTypes /\ call \in [Devices -> Calls]
      /\ call[d] \in Calls
  BY OthersRest, Parts DEF RememberInv, CommandsInv, StepOf, Progress, TypeOK, EngineTypeOK
<1>1. cmd' = cmd /\ state' = state
  BY DEF CallStep, deviceVars, Edit
<1>2. \A s \in Sessions : local[d][s] \subseteq local'[d][s]
  BY <1>0 DEF CallStep, deviceVars, Edit, DeviceTypes
<1>3. /\ call'[d].body = call[d].body /\ call'[d].base = call[d].base
      /\ call'[d].pc # "idle" => call[d].pc # "idle"
  <2>1. CASE \E s \in Sessions : Edit(d, s)
    BY <2>1 DEF Edit, engineVars
  <2>2. CASE LoadParent(d) \/ PutSnapshot(d) \/ PutRefused(d) \/ LoadManifest(d)
    BY <1>0, <2>2 DEF LoadParent, PutSnapshot, PutRefused, LoadManifest, Failed, Calls
  <2>3. CASE SaveManifest(d) \/ SaveResent(d)
    <3>1. /\ [call[d] EXCEPT !.pc = "ok"].body = call[d].body
          /\ [call[d] EXCEPT !.pc = "ok"].base = call[d].base
          /\ Retried(d).body = call[d].body /\ Retried(d).base = call[d].base
      BY <1>0 DEF Retried, Calls
    <3> QED BY <1>0, <2>3, <3>1 DEF SaveManifest, SaveResent
  <2>4. CASE LoadFails(d) \/ PutFails(d) \/ SaveFails(d)
    BY <1>0, <2>4 DEF LoadFails, PutFails, SaveFails, Failed, Calls
  <2> QED BY <2>1, <2>2, <2>3, <2>4 DEF CallStep, Step, Misfortune
<1>4. Remembers(d)' /\ Sends(d)' /\ Ready(d)' /\ Newest(d)'
  BY <1>1, <1>2, <1>3, RestsRemember
<1> QED BY <1>0, <1>4, OneRemembers DEF Others

(* How a command starts.                                                   *)
LEMMA Started ==
  ASSUME TypeOK, NEW d \in Devices, Shaped(d),
         \/ \E kind \in Pushes : BeginPush(d, kind)
         \/ \E kind \in Pulls : BeginPull(d, kind)
         \/ BeginResolve(d)
  PROVE  /\ UNCHANGED <<engineVars, local, state, conflicts, resolved, backups, edits>>
         /\ cmd[d].kind = "none" /\ call'[d].pc = "idle"
         /\ cmd'[d].phase \in {"fetch", "export"}
         /\ cmd'[d].phase = "export" <=> cmd'[d].kind = "keep-local"
         /\ cmd'[d].mem \in {state[d], NoCmd.mem}
         /\ cmd'[d].kind \in Resolutions => cmd'[d].mem = NoCmd.mem
<1>0. DeviceTypes
  BY Parts
<1>1. UNCHANGED <<engineVars, local, state, conflicts, resolved, backups, edits>> /\ cmd[d].kind = "none"
  BY DEF BeginPush, BeginPull, BeginResolve, Start
<1>2. call'[d].pc = "idle"
  BY <1>1, IdleUnlessCalling DEF Shaped, NoCmd, engineVars
<1>3. CASE \E kind \in Pushes : BeginPush(d, kind)
  <2>1. PICK kind \in Pushes, items \in SUBSET Sessions : cmd' = [cmd EXCEPT ![d] = [NoCmd EXCEPT
            !.kind = kind, !.phase = "fetch", !.todo = items, !.mem = state[d]]]
    BY <1>3 DEF BeginPush, Present
  <2>2. cmd'[d].kind = kind /\ cmd'[d].phase = "fetch" /\ cmd'[d].mem = state[d]
    BY <1>0, <2>1 DEF NoCmd, DeviceTypes
  <2> QED BY <1>1, <1>2, <2>2, PushKind
<1>4. CASE \E kind \in Pulls : BeginPull(d, kind)
  <2>1. PICK kind \in Pulls, s \in Sessions : cmd' = [cmd EXCEPT ![d] = [NoCmd EXCEPT
            !.kind = kind, !.phase = "fetch", !.cur = s, !.mem = state[d]]]
    BY <1>4 DEF BeginPull
  <2>2. cmd'[d].kind = kind /\ cmd'[d].phase = "fetch" /\ cmd'[d].mem = state[d]
    BY <1>0, <2>1 DEF NoCmd, DeviceTypes
  <2> QED BY <1>1, <1>2, <2>2, PullKind
<1>5. CASE BeginResolve(d)
  <2>1. PICK how \in Resolutions, r \in conflicts[d] : cmd' = [cmd EXCEPT ![d] = [NoCmd EXCEPT
            !.kind = how, !.phase = IF how = "keep-local" THEN "export" ELSE "fetch",
            !.cur = r.session, !.target = r.session, !.about = r]]
    BY <1>5 DEF BeginResolve
  <2>2. cmd'[d].kind = how /\ cmd'[d].mem = NoCmd.mem
        /\ cmd'[d].phase = IF how = "keep-local" THEN "export" ELSE "fetch"
    BY <1>0, <2>1 DEF NoCmd, DeviceTypes
  <2> QED BY <1>1, <1>2, <2>2
<1> QED BY <1>3, <1>4, <1>5

(* A command starts...                                                     *)
LEMMA StartRemembers ==
  ASSUME RememberInv, CommandsInv', CallBody', Grows, NEW d \in Devices,
         \/ \E kind \in Pushes : BeginPush(d, kind)
         \/ \E kind \in Pulls : BeginPull(d, kind)
         \/ BeginResolve(d)
  PROVE  RememberInv'
<1>0. TypeOK /\ CommandsInv /\ Others(d) /\ DeviceTypes /\ Shaped(d)
  BY OthersRest, Parts DEF RememberInv, CommandsInv, StepOf
<1>1. state' = state /\ local' = local /\ call'[d].pc = "idle"
  BY <1>0, Started
<1>3. /\ cmd'[d].phase \in {"fetch", "export"}
      /\ cmd'[d].phase = "export" <=> cmd'[d].kind = "keep-local"
      /\ cmd'[d].mem \in {state[d], NoCmd.mem}
      /\ cmd'[d].kind \in Resolutions => cmd'[d].mem = NoCmd.mem
  BY <1>0, Started
<1>4. Remembers(d)'
  BY <1>1, <1>3, RemembersStays
<1>5. Sends(d)' /\ Ready(d)'
  BY <1>1, <1>3 DEF Sends, Ready
<1>6. Newest(d)'
  BY <1>3 DEF Newest, Fetched, Restores, Pushes, Pulls
<1> QED BY <1>0, <1>4, <1>5, <1>6, OneRemembers DEF Others

(* ...and ends.                                                            *)
LEMMA StopRemembers ==
  ASSUME RememberInv, CommandsInv', CallBody', Grows, NEW d \in Devices,
         SaveState(d) \/ CommandFails(d) \/ Crash(d)
  PROVE  RememberInv'
<1>0. TypeOK /\ Others(d) /\ DeviceTypes
  BY OthersRest, Parts DEF RememberInv, CommandsInv, StepOf, Progress
<1>1. End(d) /\ local' = local
  BY DEF SaveState, CommandFails, Crash, GiveUp
<1>2. state' = state \/ state' = [state EXCEPT ![d] = cmd[d].mem]
  BY DEF SaveState, CommandFails, Crash, GiveUp
<1>3. call'[d].pc = "idle"
  BY <1>0, IdleUnlessCalling, Forgotten DEF SaveState, CommandFails, Crash, At, OtherFault, Abandon,
     engineVars
<1> QED BY <1>0, <1>1, <1>2, <1>3, EndRemembers DEF Others, Rests

(* conflicts resolve.                                                      *)
LEMMA ResolveRemembers ==
  ASSUME RememberInv, CommandsInv', CallBody', Grows, NEW d \in Devices, Resolve(d)
  PROVE  RememberInv'
<1>0. TypeOK /\ EngineInv /\ Shaped(d) /\ Named(d) /\ Remembers(d) /\ Ready(d) /\ Sends(d)
      /\ CommandsInv /\ Others(d)
  BY OthersRest DEF RememberInv, CommandsInv, StepOf, Progress
<1> USE Parts
<1>1. /\ cmd[d].kind \in Resolutions /\ cmd[d].kind # "none" /\ cmd[d].kind \notin Pushes \cup Pulls
      /\ cmd \in [Devices -> Cmds] /\ cmd[d] \in Cmds /\ call \in [Devices -> Calls]
      /\ cmd[d].mem = NoCmd.mem
  <2>1. cmd[d].kind \in Resolutions
    BY DEF Resolve, KeepLocalExport, KeepLocalFetch, KeepLocalPublished, KeepLocalFailed,
       KeepRemoteFetch, ResolveRecord, ResolveAudit, ResolveRemove, At, Resolutions
  <2> QED BY <1>0, <2>1, ResolveKind DEF TypeOK, EngineTypeOK, Ready
<1>2. cmd[d].phase # "call" => call[d].pc = "idle"
  BY <1>0, IdleUnlessCalling
<1>3. CASE End(d)
  <2>1. call'[d].pc = "idle"
    <3>1. cmd'[d].phase = "-"
      BY <1>1, <1>3 DEF End, NoCmd
    <3> QED BY <3>1 DEF CommandsInv, TypeOK
  <2>2. local' = local /\ (state' = state \/ ResolveRecord(d))
    BY DEF Resolve, KeepLocalExport, KeepLocalFetch, KeepLocalPublished, KeepLocalFailed,
       KeepRemoteFetch, ResolveRecord, ResolveAudit, ResolveRemove
  <2>3. ~ResolveRecord(d)
    <3>1. cmd'[d].phase = "-"
      BY <1>1, <1>3 DEF End, NoCmd
    <3> QED BY <1>1, <3>1 DEF ResolveRecord, Cmds
  <2> QED BY <1>0, <1>3, <2>1, <2>2, <2>3, EndRemembers DEF Others, Rests
<1>4. CASE KeepLocalExport(d)
  <2>1. /\ cmd'[d].kind = cmd[d].kind /\ cmd'[d].mem = cmd[d].mem /\ cmd'[d].man = cmd[d].man
        /\ cmd'[d].phase = "fetch" /\ cmd'[d].hash = local[d][cmd[d].cur]
        /\ cmd'[d].cur = cmd[d].cur
        /\ local' = local /\ state' = state /\ call'[d].pc = "idle"
    BY <1>1, <1>2, <1>4 DEF KeepLocalExport, At, Cur, Cmds, engineVars
  <2>2. ~Fetched(d)'
    BY <2>1 DEF Fetched
  <2> QED BY <1>0, <1>1, <2>1, <2>2, MoveRemembers
<1>5. CASE KeepLocalFetch(d)
  <2>1. /\ cmd'[d].kind = cmd[d].kind /\ cmd'[d].mem = cmd[d].mem /\ cmd'[d].man = cmd[d].man
        /\ cmd'[d].phase = "call" /\ cmd'[d].cur = cmd[d].cur
        /\ local' = local /\ state' = state /\ cmd[d].kind = "keep-local"
        /\ call'[d].body = cmd[d].hash /\ cmd[d].phase = "fetch"
    <3>1. NoCall \in Calls
      BY NoCallType
    <3> QED BY <1>1, <1>5, <3>1 DEF KeepLocalFetch, Begin, Cur, At, Cmds, Calls
  <2>2. Remembers(d)'
    BY <2>1, RemembersStays
  <2>3. Sends(d)' /\ Ready(d)'
    BY <1>0, <1>1, <2>1 DEF Sends, Ready, NoCmd
  <2>4. Newest(d)'
    BY <2>1 DEF Newest, Fetched, Pushes, Pulls, Restores
  <2> QED BY <1>0, <2>2, <2>3, <2>4, OneRemembers DEF Others
<1>6. CASE KeepLocalPublished(d)
  <2>1. /\ cmd'[d].kind = cmd[d].kind /\ cmd'[d].mem = cmd[d].mem
        /\ cmd'[d].phase = "hash" /\ cmd'[d].cur = cmd[d].cur /\ cmd'[d].target = cmd[d].target
        /\ cmd'[d].man[cmd[d].cur] = call[d].id /\ snapshots' = snapshots
        /\ local' = local /\ state' = state /\ cmd[d].kind = "keep-local"
        /\ call[d].pc = "ok" /\ call'[d].pc = "idle"
    <3>1. cmd' = [cmd EXCEPT ![d].phase = "hash", ![d].man[cmd[d].cur] = call[d].id]
      BY <1>6 DEF KeepLocalPublished, Cur
    <3>2. cmd'[d] = [cmd[d] EXCEPT !.phase = "hash", !.man[cmd[d].cur] = call[d].id]
      BY <1>1, <3>1 DEF Cmds
    <3>3. /\ cmd'[d].kind = cmd[d].kind /\ cmd'[d].mem = cmd[d].mem /\ cmd'[d].phase = "hash"
          /\ cmd'[d].cur = cmd[d].cur /\ cmd'[d].target = cmd[d].target
          /\ cmd'[d].man[cmd[d].cur] = call[d].id
      BY <1>0, <1>1, <3>2 DEF Cmds
    <3> QED BY <1>0, <1>6, <3>3, Forgotten DEF KeepLocalPublished, Return, At
  <2>2. Remembers(d)'
    BY <2>1, RemembersStays
  <2>3. Body(call[d].id) \subseteq local[d][cmd[d].cur] /\ cmd[d].target = cmd[d].cur
    BY <1>0, <2>1 DEF RememberInv, CallBody, Body, Sends, Shaped
  <2>4. Sends(d)' /\ Ready(d)'
    BY <1>1, <2>1, <2>3 DEF Sends, Ready, NoCmd, Body
  <2>5. Newest(d)'
    BY <2>1 DEF Newest, Fetched, Pushes, Pulls, Restores
  <2> QED BY <1>0, <2>2, <2>4, <2>5, OneRemembers DEF Others
<1>7. CASE KeepRemoteFetch(d) /\ ~End(d)
  <2>1. /\ cmd'[d].kind = cmd[d].kind /\ cmd'[d].mem = cmd[d].mem /\ cmd'[d].man = manifest.heads
        /\ cmd'[d].phase = "restore" /\ manifest' = manifest
        /\ local' = local /\ state' = state /\ call'[d].pc = "idle"
    <3>1. PICK t : cmd' = [cmd EXCEPT ![d].phase = "restore", ![d].man = manifest.heads, ![d].target = t]
      BY <1>7 DEF KeepRemoteFetch
    <3> QED BY <1>1, <1>2, <1>7, <3>1 DEF KeepRemoteFetch, At, Cmds, engineVars
  <2> QED BY <1>0, <1>1, <2>1, MoveRemembers
<1>8. CASE ResolveRecord(d)
  <2>1. /\ cmd'[d].kind = cmd[d].kind /\ cmd'[d].mem = cmd[d].mem /\ cmd'[d].man = cmd[d].man
        /\ cmd'[d].phase = "audit" /\ local' = local /\ call'[d].pc = "idle"
        /\ snapshots' = snapshots /\ manifest' = manifest
    BY <1>1, <1>2, <1>8 DEF ResolveRecord, At, Cmds, engineVars
  <2>2. \A s \in Sessions : state'[d][s] =
            IF s = cmd[d].target
              THEN [local |-> local[d][cmd[d].target], remote |-> cmd[d].man[cmd[d].cur]]
              ELSE state[d][s]
    BY <1>0, <1>8 DEF ResolveRecord, updateSessionState, Cur, States, DeviceTypes
  <2>3. Body(cmd[d].man[cmd[d].cur]) \subseteq local[d][cmd[d].target]
    BY <1>0, <1>8 DEF ResolveRecord, At, Ready
  <2>4. Remembers(d)'
    BY <1>0, <2>1, <2>2, <2>3 DEF Remembers, Carries, Body, RemoteHead, CopyOf
  <2>5. Sends(d)' /\ Ready(d)'
    BY <1>1, <2>1 DEF Sends, Ready, NoCmd
  <2>6. Newest(d)'
    BY <2>1 DEF Newest, Fetched
  <2> QED BY <1>0, <2>4, <2>5, <2>6, OneRemembers DEF Others
<1>9. CASE ResolveAudit(d)
  <2>1. /\ cmd'[d].kind = cmd[d].kind /\ cmd'[d].mem = cmd[d].mem /\ cmd'[d].man = cmd[d].man
        /\ cmd'[d].phase = "remove" /\ local' = local /\ state' = state /\ call'[d].pc = "idle"
    BY <1>1, <1>2, <1>9 DEF ResolveAudit, At, Cmds, engineVars
  <2>2. ~Fetched(d)'
    BY <2>1 DEF Fetched
  <2> QED BY <1>0, <1>1, <2>1, <2>2, MoveRemembers
<1>10. CASE KeepLocalFailed(d) \/ ResolveRemove(d)
  BY <1>3, <1>10 DEF KeepLocalFailed, ResolveRemove
<1> QED BY <1>3, <1>4, <1>5, <1>6, <1>7, <1>8, <1>9, <1>10 DEF Resolve

LEMMA InitRememberInv == Init => RememberInv
<1> SUFFICES ASSUME Init PROVE RememberInv
  OBVIOUS
<1>1. CommandsInv
  BY InitCommandsInv
<1>2. ASSUME NEW d \in Devices PROVE call[d].pc = "idle" /\ cmd[d] = NoCmd
  BY DEF Init, EngineInit, NoCall
<1>3. CallBody
  BY <1>2 DEF CallBody
<1>4. ASSUME NEW d \in Devices PROVE Remembers(d) /\ Sends(d) /\ Ready(d) /\ Newest(d)
  <2>1. \A s \in Sessions : state[d][s].remote = 0 /\ cmd[d].mem[s].remote = 0
    BY <1>2 DEF Init, Unknown, NoCmd
  <2>2. Remembers(d)
    BY <2>1 DEF Remembers, Carries
  <2>3. cmd[d].kind = "none" /\ cmd[d].phase = "-"
    BY <1>2 DEF NoCmd
  <2>4. Sends(d)
    BY <1>2 DEF Sends
  <2>5. Ready(d)
    BY <2>3 DEF Ready, Resolutions
  <2>6. Newest(d)
    BY <2>3 DEF Newest, Fetched, Pushes, Pulls, Restores
  <2> QED BY <2>2, <2>4, <2>5, <2>6
<1> QED BY <1>1, <1>3, <1>4 DEF RememberInv

LEMMA NextRememberInv == RememberInv /\ [Next]_vars => RememberInv'
<1> SUFFICES ASSUME RememberInv, [Next]_vars PROVE RememberInv'
  OBVIOUS
<1>1. CommandsInv /\ CommandsInv' /\ EngineInv /\ EngineInv' /\ TypeOK
  BY NextCommandsInv DEF RememberInv, CommandsInv
<1>2. Grows /\ CallBody'
  <2>1. [EngineNext]_engineVars
    BY <1>1, StepOfEngine
  <2> QED BY <1>1, <2>1, EngineGrows, CallBodyStep DEF RememberInv
<1>3. CASE UNCHANGED vars
  <2>1. ASSUME NEW d \in Devices
        PROVE  /\ cmd'[d] = cmd[d] /\ state'[d] = state[d] /\ call'[d] = call[d]
               /\ local'[d] = local[d]
    BY <1>3 DEF vars, engineVars, deviceVars
  <2> QED BY <1>1, <1>2, <2>1, RestsRemember DEF RememberInv
<1>4. ASSUME NEW d \in Devices, StepOf(d) PROVE RememberInv'
  BY <1>1, <1>2, <1>4, WaitRemembers, StartRemembers, StopRemembers, PushRemembers, PullRemembers,
     RestoreRemembers, ResolveRemembers DEF StepOf, Progress
<1> QED BY <1>3, <1>4 DEF Next, StepOf

LEMMA RememberInvariant == Spec => []RememberInv
BY InitRememberInv, NextRememberInv, PTL DEF Spec

(* The head that a push replaces, and the one it makes.                    *)
LEMMA PushStep ==
  ASSUME RememberInv, [Next]_vars, NEW s \in Sessions, NEW d \in Devices,
         CopyOf("remote", s) = {}, manifest'.heads[s] # RemoteHead(s), RemoteHead(s) # 0,
         call'[d] # call[d], cmd[d].kind \in Pushes
  PROVE  Body(RemoteHead(s)) \subseteq snapshots'[manifest'.heads[s]].body
<1>0. CommandsInv /\ TypeOK /\ EngineInv /\ Shaped(d) /\ Sends(d) /\ CallBody
  BY DEF RememberInv, CommandsInv
<1>1. manifest' # manifest /\ StepOf(d)
  <2>1. manifest' # manifest
    BY DEF RemoteHead
  <2>2. PICK e \in Devices : StepOf(e)
    BY <2>1 DEF Next, StepOf, vars, engineVars
  <2>3. d = e
    BY <1>0, <2>2, OthersRest DEF Others, Rests
  <2> QED BY <2>1, <2>2, <2>3
<1>2. CallStep(d)
  BY <1>1 DEF StepOf, Edit, BeginPush, BeginPull, BeginResolve, Progress, CommandFails, Crash, Abandon,
     OtherFault, SaveState, Push, PushFetch, PushSkip, PushHash, PushExport, PushUploaded, PushFailed,
     PushRefused, PushRecord, Begin, Return, Pull, PullFetch, PullSkip, PullDiverged, PullSelect,
     PullRestored, Restore, RestoreSkipped, RestorePrepare, RestoreConflicts, RestoreBackup,
     RestoreVerify, RestoreRename, Resolve, KeepLocalExport, KeepLocalFetch, KeepLocalPublished,
     KeepLocalFailed, KeepRemoteFetch, ResolveRecord, ResolveAudit, ResolveRemove, engineVars
<1>3. call[d].pc = "save" /\ Install(d) /\ Accepted(d) /\ UNCHANGED snapshots
  BY <1>1, <1>2 DEF CallStep, Step, Misfortune, LoadParent, PutSnapshot, PutRefused, LoadManifest,
     SaveManifest, LoadFails, PutFails, SaveFails, SaveResent, Install
<1>4. PICK t, n : t = call[d].session /\ n = call[d].id
  OBVIOUS
<1>5. /\ t \in Sessions /\ RemoteHead(t) = call[d].base
      /\ RemoteHead(t)' = n /\ \A u \in Sessions : u # t => RemoteHead(u)' = RemoteHead(u)
  BY <1>0, <1>3, <1>4, AcceptedWrite
<1>6. s = t /\ t = cmd[d].cur
  BY <1>0, <1>3, <1>4, <1>5 DEF RemoteHead, Shaped
<1>7. Body(RemoteHead(s)) \subseteq call[d].body
  BY <1>0, <1>3, <1>5, <1>6 DEF Sends, Carries
<1>8. snapshots[n].body = call[d].body
  BY <1>0, <1>3, <1>4 DEF CallBody
<1> QED BY <1>3, <1>5, <1>6, <1>7, <1>8 DEF RemoteHead

(* A push replaces a head only by a snapshot that contains all of its      *)
(* edits: the device that remembers the head has them in its session file, *)
(* whatever crashed, failed or was edited before and while the push ran.   *)
THEOREM NoPushDropsEdits == Spec => PushKeepsEdits
<1>1. RememberInv /\ [Next]_vars =>
        [\A s \in Sessions, d \in Devices :
            /\ CopyOf("remote", s) = {}
            /\ manifest'.heads[s] # RemoteHead(s)
            /\ RemoteHead(s) # 0
            /\ call'[d] # call[d]
            /\ cmd[d].kind \in Pushes
            => Body(RemoteHead(s)) \subseteq snapshots'[manifest'.heads[s]].body]_vars
  BY PushStep
<1> QED BY <1>1, RememberInvariant, PTL DEF Spec, PushKeepsEdits

-----------------------------------------------------------------------------
(* Why no edit is lost while agents do not write under a running command.  *)
(* What a device remembers as synchronized is in the snapshot that it      *)
(* remembers...                                                            *)
StoredIn(r) == r.remote # 0 => r.local \subseteq Body(r.remote)

Stores(d) == \A s \in Sessions : StoredIn(state[d][s]) /\ StoredIn(cmd[d].mem[s])

(* ...what a command read is still what is there, and what it restores     *)
(* over has been copied...                                                 *)
Reads(d) ==
    /\ cmd[d].kind \in Pushes /\ cmd[d].phase \in {"export", "call", "record"} =>
           cmd[d].hash = local[d][cmd[d].cur]
    /\ cmd[d].kind = "keep-local" /\ cmd[d].phase \in {"fetch", "call"} =>
           cmd[d].hash = local[d][cmd[d].cur]
    /\ call[d].pc # "idle" => call[d].body = cmd[d].hash
    /\ cmd[d].phase = "hash" => local[d][cmd[d].target] = Body(cmd[d].man[cmd[d].cur])
    /\ cmd[d].phase \in {"verify", "rename"} =>
           \/ local[d][cmd[d].target] = {}
           \/ [session |-> cmd[d].target, body |-> local[d][cmd[d].target]] \in backups[d]

(* ...and what a pull restores over is in the history.                     *)
Over(d) ==
    cmd[d].kind \in Pulls =>
        \A s \in Sessions :
            \/ cmd[d].phase # "fetch" /\ s \notin cmd[d].here
            \/ cmd[d].phase = "restore" /\ s = cmd[d].target /\ s = cmd[d].cur
            \/ cmd[d].phase \in {"backup", "verify", "rename"} /\ s = cmd[d].target
            => local[d][s] \subseteq PublishedFor(s)

SafeInv ==
    /\ CommandsInv /\ CallBody /\ EditsSurvive
    /\ \A d \in Devices : Stores(d) /\ Reads(d) /\ Over(d)

LEMMA PublishedGrows ==
  ASSUME EngineInv, Grows, NEW s \in Sessions
  PROVE  Published(s) \subseteq Published(s)' /\ PublishedFor(s) \subseteq PublishedFor(s)'
<1>1. ASSUME NEW t \in Sessions, NEW e, e \in Published(t) PROVE e \in Published(t)'
  <2>1. PICK i \in 1..Len(chain[t]) : e \in Body(chain[t][i])
    BY <1>1 DEF Published
  <2>2. PICK n : n = chain[t][i]
    OBVIOUS
  <2>3. InChain(t, n) /\ e \in snapshots[n].body
    BY <2>1, <2>2 DEF InChain, Body
  <2>4. InChain(t, n)' /\ snapshots'[n] = snapshots[n]
    BY <2>3, InChainStored DEF Grows
  <2>5. PICK j \in 1..Len(chain'[t]) : chain'[t][j] = n
    BY <2>4 DEF InChain
  <2> QED BY <2>3, <2>4, <2>5 DEF Published, Body
<1>2. ASSUME NEW why, NEW t, t \in CopyOf(why, s)' PROVE t \in CopyOf(why, s)
  BY <1>2 DEF CopyOf
<1>3. CopyOf("active", s)' = CopyOf("active", s) /\ CopyOf("remote", s)' = CopyOf("remote", s)
  BY DEF CopyOf
<1>4. \A t \in {s} \cup CopyOf("active", s) \cup CopyOf("remote", s) : t \in Sessions
  BY DEF CopyOf
<1> QED BY <1>1, <1>3, <1>4 DEF PublishedFor

(* What has been a head is published.                                      *)
LEMMA PublishedBody ==
  ASSUME NEW s \in Sessions, NEW t \in Sessions, NEW n, InChain(t, n),
         t = s \/ t \in CopyOf("active", s) \/ t \in CopyOf("remote", s)
  PROVE  Body(n) \subseteq PublishedFor(s)
<1>1. Body(n) \subseteq Published(t)
  BY DEF InChain, Published
<1> QED BY <1>1 DEF PublishedFor

(* What was a head has its content as it was.                              *)
LEMMA BodyStays ==
  ASSUME CommandsInv, Grows, NEW d \in Devices, NEW s \in Sessions, NEW r,
         r \in {state[d][s], cmd[d].mem[s]}, r.remote # 0
  PROVE  /\ snapshots'[r.remote] = snapshots[r.remote] /\ r.remote \in 1..Len(snapshots)
         /\ Body(r.remote) \subseteq PublishedFor(s)
<1>1. EngineInv /\ WasHead(s, r.remote) /\ r.remote \in Ids
  BY Parts DEF CommandsInv, Recorded, WellKept, States
<1>2. PICK t \in Sessions : InChain(t, r.remote) /\ s \in {t, Fork("remote", t, r.remote)}
  BY <1>1 DEF WasHead
<1>3. r.remote \in 1..Len(snapshots)
  BY <1>1, <1>2, InChainStored
<1>4. t = s \/ t \in CopyOf("remote", s)
  BY <1>1, <1>2 DEF CopyOf
<1> QED BY <1>2, <1>3, <1>4, PublishedBody DEF Grows

LEMMA StoresStays ==
  ASSUME SafeInv, Grows, NEW d \in Devices,
         state'[d] \in {state[d], cmd[d].mem},
         cmd'[d].mem \in {cmd[d].mem, state[d], NoCmd.mem}
  PROVE  Stores(d)'
<1>1. CommandsInv /\ Stores(d)
  BY DEF SafeInv
<1>2. ASSUME NEW s \in Sessions, NEW r, r \in {state[d][s], cmd[d].mem[s], NoCmd.mem[s]}
      PROVE  r.remote # 0 => r.local \subseteq snapshots'[r.remote].body
  <2>1. NoCmd.mem[s].remote = 0
    BY DEF NoCmd, Unknown
  <2> QED BY <1>1, <1>2, <2>1, BodyStays DEF Stores, StoredIn, Body
<1>3. ASSUME NEW s \in Sessions
      PROVE  /\ state'[d][s] \in {state[d][s], cmd[d].mem[s], NoCmd.mem[s]}
             /\ cmd'[d].mem[s] \in {state[d][s], cmd[d].mem[s], NoCmd.mem[s]}
  OBVIOUS
<1> QED BY <1>2, <1>3 DEF Stores, StoredIn, Body

(* A command that does not move, while its call goes on.                   *)
LEMMA RestsSafe ==
  ASSUME SafeInv, Grows, NEW d \in Devices, cmd'[d] = cmd[d], state'[d] = state[d],
         call'[d].body = call[d].body, call'[d].pc # "idle" => call[d].pc # "idle",
         local'[d] = local[d] \/ cmd[d] = NoCmd, backups[d] \subseteq backups'[d]
  PROVE  Stores(d)' /\ Reads(d)' /\ Over(d)'
<1>0. /\ TypeOK /\ EngineInv /\ Named(d) /\ Reads(d) /\ Over(d)
      /\ cmd[d].cur \in Sessions
  BY Parts DEF SafeInv, CommandsInv
<1>1. Stores(d)'
  BY StoresStays
<1>2. CASE cmd[d] = NoCmd
  <2>1. cmd'[d].kind = "none" /\ cmd'[d].phase = "-" /\ call[d].pc = "idle"
    <3>1. cmd[d].phase # "call"
      BY <1>2 DEF NoCmd
    <3> QED BY <1>0, <1>2, <3>1, IdleUnlessCalling DEF NoCmd
  <2>2. cmd'[d].kind \notin Pushes \cup Pulls
    BY <2>1 DEF Pushes, Pulls
  <2> QED BY <1>1, <2>1, <2>2 DEF Reads, Over
<1>3. CASE local'[d] = local[d]
  <2>1. cmd[d].phase = "hash" =>
            snapshots'[cmd[d].man[cmd[d].cur]] = snapshots[cmd[d].man[cmd[d].cur]]
    BY <1>0, HeadKept DEF Named, Restoring
  <2>2. Reads(d)'
    BY <1>0, <1>3, <2>1 DEF Reads, Body
  <2>3. Over(d)'
    BY <1>0, <1>3, PublishedGrows DEF Over
  <2> QED BY <1>1, <2>2, <2>3
<1> QED BY <1>2, <1>3

(* One device moves.  Edits are where they were, unless its step takes     *)
(* them out of a session file.                                             *)
LEMMA OneSafe ==
  ASSUME SafeInv, CommandsInv', CallBody', Grows, NEW d \in Devices, Others(d),
         backups[d] \subseteq backups'[d],
         \A s \in Sessions : \A e \in local[d][s] :
             \/ e \in local'[d][s]
             \/ \E b \in backups'[d] : e \in b.body,
         edits' = edits \/ (edits' = edits + 1 /\ \E s \in Sessions : edits' \in local'[d][s]),
         Stores(d)', Reads(d)', Over(d)'
  PROVE  SafeInv'
<1>1. ASSUME NEW e \in Devices, e # d PROVE Stores(e)' /\ Reads(e)' /\ Over(e)'
  BY <1>1, RestsSafe DEF Others, Rests
<1>2. ASSUME NEW e \in 1..edits'
      PROVE  \/ \E c \in Devices, s \in Sessions : e \in local'[c][s]
             \/ \E s \in Sessions : e \in Published(s)'
             \/ \E c \in Devices : \E b \in backups'[c] : e \in b.body
  <2>0. edits \in Nat /\ EngineInv
    BY DeviceSyncAssumption DEF SafeInv, CommandsInv, TypeOK
  <2>1. CASE e \notin 1..edits
    <3>1. e = edits' /\ \E s \in Sessions : edits' \in local'[d][s]
      BY <1>2, <2>0, <2>1
    <3> QED BY <3>1
  <2>2. CASE \E s \in Sessions : e \in Published(s)
    BY <2>0, <2>2, PublishedGrows
  <2>3. ASSUME NEW c \in Devices, NEW s \in Sessions, e \in local[c][s]
        PROVE  \/ e \in local'[c][s]
               \/ \E b \in backups'[c] : e \in b.body
    BY <2>3 DEF Others
  <2>4. ASSUME NEW c \in Devices, NEW b \in backups[c], e \in b.body
        PROVE  b \in backups'[c]
    BY <2>4 DEF Others
  <2> QED BY <2>1, <2>2, <2>3, <2>4 DEF SafeInv, EditsSurvive
<1>3. EditsSurvive'
  BY <1>2 DEF EditsSurvive
<1> QED BY <1>1, <1>3 DEF SafeInv

LEMMA MoveSafe ==
  ASSUME SafeInv, CommandsInv', CallBody', Grows, NEW d \in Devices, Others(d),
         state'[d] \in {state[d], cmd[d].mem},
         cmd'[d].mem \in {cmd[d].mem, state[d], NoCmd.mem},
         local'[d] = local[d], backups[d] \subseteq backups'[d], edits' = edits,
         Reads(d)', Over(d)'
  PROVE  SafeInv'
BY StoresStays, OneSafe

(* An agent writes, or the engine works for the command.                   *)
LEMMA WaitSafe ==
  ASSUME SafeInv, CommandsInv', CallBody', Grows, ~MidEdits, NEW d \in Devices,
         CallStep(d) \/ \E s \in Sessions : Edit(d, s)
  PROVE  SafeInv'
<1>0. /\ TypeOK /\ CommandsInv /\ Others(d) /\ DeviceTypes /\ call \in [Devices -> Calls]
      /\ call[d] \in Calls /\ Shaped(d)
  BY OthersRest, Parts DEF SafeInv, CommandsInv, StepOf, Progress, TypeOK, EngineTypeOK
<1>1. cmd' = cmd /\ state' = state /\ backups' = backups
  BY DEF CallStep, deviceVars, Edit
<1>2. CASE \E s \in Sessions : Edit(d, s)
  <2>1. PICK s \in Sessions : Edit(d, s)
    BY <1>2
  <2>2. cmd[d] = NoCmd /\ call' = call
    BY <1>0, <2>1 DEF Edit, Shaped, engineVars
  <2>3. /\ edits' = edits + 1 /\ edits' \in local'[d][s]
        /\ \A t \in Sessions : local[d][t] \subseteq local'[d][t]
    BY <1>0, <2>1 DEF Edit, DeviceTypes
  <2>4. Stores(d)' /\ Reads(d)' /\ Over(d)'
    BY <1>1, <2>2, RestsSafe
  <2> QED BY <1>0, <1>1, <2>3, <2>4, OneSafe
<1>3. CASE CallStep(d)
  <2>1. local' = local /\ edits' = edits
    BY <1>3 DEF CallStep, deviceVars
  <2>2. call'[d].body = call[d].body /\ (call'[d].pc # "idle" => call[d].pc # "idle")
    <3>1. CASE LoadParent(d) \/ PutSnapshot(d) \/ PutRefused(d) \/ LoadManifest(d)
      BY <1>0, <3>1 DEF LoadParent, PutSnapshot, PutRefused, LoadManifest, Failed, Calls
    <3>2. CASE SaveManifest(d) \/ SaveResent(d)
      <4>1. [call[d] EXCEPT !.pc = "ok"].body = call[d].body /\ Retried(d).body = call[d].body
        BY <1>0 DEF Retried, Calls
      <4> QED BY <1>0, <3>2, <4>1 DEF SaveManifest, SaveResent
    <3>3. CASE LoadFails(d) \/ PutFails(d) \/ SaveFails(d)
      BY <1>0, <3>3 DEF LoadFails, PutFails, SaveFails, Failed, Calls
    <3> QED BY <1>3, <3>1, <3>2, <3>3 DEF CallStep, Step, Misfortune
  <2>3. Stores(d)' /\ Reads(d)' /\ Over(d)'
    BY <1>1, <2>1, <2>2, RestsSafe
  <2> QED BY <1>0, <1>1, <2>1, <2>3, OneSafe
<1> QED BY <1>2, <1>3

(* A command ends...                                                       *)
LEMMA EndSafe ==
  ASSUME SafeInv, CommandsInv', CallBody', Grows, NEW d \in Devices, Others(d), End(d),
         call'[d].pc = "idle", UNCHANGED <<local, edits>>, backups[d] \subseteq backups'[d],
         state' = state \/ state' = [state EXCEPT ![d] = cmd[d].mem]
  PROVE  SafeInv'
<1>0. TypeOK
  BY DEF SafeInv, CommandsInv
<1>1. cmd'[d] = NoCmd /\ state'[d] \in {state[d], cmd[d].mem}
  BY <1>0, Parts DEF End, DeviceTypes
<1>2. cmd'[d].kind = "none" /\ cmd'[d].phase = "-" /\ cmd'[d].mem = NoCmd.mem
  BY <1>1 DEF NoCmd
<1>3. cmd'[d].kind \notin Pushes \cup Pulls
  BY <1>2 DEF Pushes, Pulls
<1>4. Reads(d)' /\ Over(d)'
  BY <1>2, <1>3 DEF Reads, Over
<1> QED BY <1>1, <1>2, <1>4, MoveSafe

LEMMA StopSafe ==
  ASSUME SafeInv, CommandsInv', CallBody', Grows, NEW d \in Devices,
         SaveState(d) \/ CommandFails(d) \/ Crash(d)
  PROVE  SafeInv'
<1>0. TypeOK /\ Others(d) /\ DeviceTypes
  BY OthersRest, Parts DEF SafeInv, CommandsInv, StepOf, Progress
<1>1. End(d) /\ UNCHANGED <<local, edits, backups>>
  BY DEF SaveState, CommandFails, Crash, GiveUp
<1>2. state' = state \/ state' = [state EXCEPT ![d] = cmd[d].mem]
  BY DEF SaveState, CommandFails, Crash, GiveUp
<1>3. call'[d].pc = "idle"
  BY <1>0, IdleUnlessCalling, Forgotten DEF SaveState, CommandFails, Crash, At, OtherFault, Abandon,
     engineVars
<1> QED BY <1>0, <1>1, <1>2, <1>3, EndSafe

(* ...or starts.                                                           *)
LEMMA StartSafe ==
  ASSUME SafeInv, CommandsInv', CallBody', Grows, NEW d \in Devices,
         \/ \E kind \in Pushes : BeginPush(d, kind)
         \/ \E kind \in Pulls : BeginPull(d, kind)
         \/ BeginResolve(d)
  PROVE  SafeInv'
<1>0. TypeOK /\ Others(d) /\ Shaped(d)
  BY OthersRest DEF SafeInv, CommandsInv, StepOf
<1>1. Reads(d)' /\ Over(d)'
  <2>1. call'[d].pc = "idle" /\ cmd'[d].phase \in {"fetch", "export"}
        /\ (cmd'[d].phase = "export" <=> cmd'[d].kind = "keep-local")
    BY <1>0, Started
  <2>2. cmd'[d].kind \in Pushes \cup Pulls => cmd'[d].phase = "fetch"
    BY <2>1 DEF Pushes, Pulls
  <2> QED BY <2>1, <2>2 DEF Reads, Over
<1>2. /\ UNCHANGED <<engineVars, local, state, conflicts, resolved, backups, edits>>
      /\ cmd'[d].mem \in {state[d], NoCmd.mem}
  BY <1>0, Started
<1> QED BY <1>0, <1>1, <1>2, MoveSafe

LEMMA PushSafe ==
  ASSUME SafeInv, CommandsInv', CallBody', Grows, NEW d \in Devices, Push(d)
  PROVE  SafeInv'
<1>0. TypeOK /\ EngineInv /\ Shaped(d) /\ Stores(d) /\ Reads(d) /\ CommandsInv /\ Others(d)
  BY OthersRest DEF SafeInv, CommandsInv, StepOf, Progress
<1> USE Parts
<1>1. /\ cmd[d].kind \in Pushes /\ cmd[d].kind # "none" /\ cmd[d].kind \notin Pulls
      /\ cmd[d].kind # "keep-local" /\ cmd \in [Devices -> Cmds] /\ cmd[d] \in Cmds
      /\ call \in [Devices -> Calls] /\ UNCHANGED <<local, state, backups, edits, snapshots>>
  <2>1. cmd[d].kind \in Pushes /\ UNCHANGED <<local, state, backups, edits, snapshots>>
    BY DEF Push, PushFetch, PushSkip, PushHash, PushExport, PushUploaded, PushFailed, PushRefused,
       PushRecord, At, Begin, Return, OtherFault, engineVars
  <2> QED BY <1>0, <2>1, PushKind DEF TypeOK, EngineTypeOK
<1>2. CASE End(d)
  <2>1. cmd'[d].phase = "-"
    BY <1>1, <1>2 DEF End, NoCmd
  <2>2. call'[d].pc = "idle"
    BY <2>1 DEF CommandsInv, TypeOK
  <2> QED BY <1>0, <1>1, <1>2, <2>2, EndSafe
(* On to the next phase or session.                                        *)
<1>3. ASSUME cmd'[d].kind = cmd[d].kind,
             cmd'[d].phase \in {"export", "call", "record"} =>
                 cmd'[d].hash = local[d][cmd'[d].cur],
             cmd'[d].phase \notin {"hash", "verify", "rename"},
             call'[d].pc # "idle" => call'[d].body = cmd'[d].hash
      PROVE  Reads(d)' /\ Over(d)'
  BY <1>1, <1>3 DEF Reads, Over
<1>4. CASE PushFetch(d) /\ ~End(d)
  <2>1. /\ cmd'[d].kind = cmd[d].kind /\ cmd'[d].mem = cmd[d].mem /\ cmd'[d].phase = "next"
        /\ call'[d].pc = "idle"
    <3>1. cmd'[d] = [cmd[d] EXCEPT !.phase = "next", !.man = manifest.heads]
      BY <1>1, <1>4 DEF PushFetch
    <3> QED BY <1>0, <1>1, <1>4, <3>1, IdleUnlessCalling DEF PushFetch, At, Cmds, engineVars
  <2>2. Reads(d)' /\ Over(d)'
    BY <1>3, <2>1
  <2> QED BY <1>0, <1>1, <2>1, <2>2, MoveSafe
<1>5. CASE PushSkip(d) \/ (PushRecord(d) /\ ~End(d))
  <2>1. PICK s : NextSession(d, s, cmd[d].mem)
    BY <1>5 DEF PushSkip, PushRecord, AfterConflict
  <2>2. cmd'[d].kind = cmd[d].kind /\ cmd'[d].mem = cmd[d].mem /\ cmd'[d].phase = "next"
    BY <1>1, <2>1 DEF NextSession, Cmds
  <2>3. call'[d].pc = "idle"
    BY <1>0, <1>5, IdleUnlessCalling DEF PushSkip, PushRecord, At, OtherFault, engineVars
  <2>4. Reads(d)' /\ Over(d)'
    BY <1>3, <2>2, <2>3
  <2> QED BY <1>0, <1>1, <2>2, <2>4, MoveSafe
<1>6. CASE PushHash(d)
  <2>1. /\ cmd'[d].kind = cmd[d].kind /\ cmd'[d].mem = cmd[d].mem /\ cmd'[d].phase = "export"
        /\ cmd'[d].hash = local[d][cmd'[d].cur] /\ call'[d].pc = "idle"
    BY <1>0, <1>1, <1>6, IdleUnlessCalling DEF PushHash, At, Cmds, engineVars
  <2>2. Reads(d)' /\ Over(d)'
    BY <1>3, <2>1
  <2> QED BY <1>0, <1>1, <2>1, <2>2, MoveSafe
<1>7. CASE PushExport(d)
  <2>1. /\ cmd'[d].kind = cmd[d].kind /\ cmd'[d].mem = cmd[d].mem /\ cmd'[d].phase = "call"
        /\ cmd'[d].hash = cmd[d].hash /\ cmd'[d].cur = cmd[d].cur
        /\ call'[d].body = local[d][cmd[d].cur] /\ cmd[d].phase = "export"
    <3>1. NoCall \in Calls
      BY NoCallType
    <3> QED BY <1>1, <1>7, <3>1 DEF PushExport, Begin, Cur, At, Cmds, Calls
  <2>2. cmd[d].hash = local[d][cmd[d].cur]
    BY <1>0, <1>1, <2>1 DEF Reads
  <2>3. Reads(d)' /\ Over(d)'
    BY <1>3, <2>1, <2>2
  <2> QED BY <1>0, <1>1, <2>1, <2>3, MoveSafe
<1>8. CASE PushRefused(d)
  <2>1. /\ cmd'[d].kind = cmd[d].kind /\ cmd'[d].mem = cmd[d].mem /\ cmd'[d].phase = "record"
        /\ cmd'[d].hash = cmd[d].hash /\ cmd'[d].cur = cmd[d].cur
        /\ call'[d].pc = "idle" /\ cmd[d].phase = "call"
    BY <1>0, <1>1, <1>8, Forgotten DEF PushRefused, At, Return, Cmds
  <2>2. cmd[d].hash = local[d][cmd[d].cur]
    BY <1>0, <1>1, <2>1 DEF Reads
  <2>3. Reads(d)' /\ Over(d)'
    BY <1>3, <2>1, <2>2
  <2> QED BY <1>0, <1>1, <2>1, <2>3, MoveSafe
<1>9. CASE PushUploaded(d)
  <2>1. PICK m : /\ NextSession(d, cmd[d].cur, m)
                 /\ m = [cmd[d].mem EXCEPT ![cmd[d].cur] =
                            [local |-> cmd[d].hash, remote |-> call[d].id]]
    BY <1>9 DEF PushUploaded, Cur
  <2>2. /\ cmd'[d].kind = cmd[d].kind /\ cmd'[d].phase = "next" /\ cmd'[d].mem = m
        /\ call[d].pc = "ok" /\ call'[d].pc = "idle"
    <3>1. PICK n : NextSession(d, cmd[d].cur, n) /\ n = m
      BY <2>1
    <3>2. cmd'[d].kind = cmd[d].kind /\ cmd'[d].phase = "next" /\ cmd'[d].mem = n
      <4>1. NextSession(d, cmd[d].cur, n)
        BY <3>1
      <4> QED BY <1>1, <4>1 DEF NextSession, Cmds
    <3>3. call[d].pc = "ok" /\ call'[d].pc = "idle"
      BY <1>0, <1>1, <1>9, Forgotten DEF PushUploaded, Return
    <3> QED BY <3>1, <3>2, <3>3
  <2>3. Reads(d)' /\ Over(d)'
    BY <1>3, <2>2
  <2>4. snapshots[call[d].id].body = cmd[d].hash
    BY <1>0, <2>2 DEF SafeInv, CallBody, Reads
  <2>5. Stores(d)'
    <3>1. \A s \in Sessions : cmd'[d].mem[s] =
             IF s = cmd[d].cur THEN [local |-> cmd[d].hash, remote |-> call[d].id] ELSE cmd[d].mem[s]
      BY <1>0, <2>1, <2>2 DEF States
    <3> QED BY <1>0, <1>1, <2>4, <3>1 DEF Stores, StoredIn, Body
  <2> QED BY <1>0, <1>1, <2>3, <2>5, OneSafe
<1>10. CASE PushFailed(d)
  BY <1>2, <1>10 DEF PushFailed
<1> QED BY <1>2, <1>4, <1>5, <1>6, <1>7, <1>8, <1>9, <1>10 DEF Push

LEMMA PullSafe ==
  ASSUME SafeInv, CommandsInv', CallBody', Grows, NEW d \in Devices, Pull(d)
  PROVE  SafeInv'
<1>0. TypeOK /\ EngineInv /\ Shaped(d) /\ Named(d) /\ Recorded(d) /\ Stores(d) /\ Reads(d) /\ Over(d)
      /\ CommandsInv /\ Others(d)
  BY OthersRest DEF SafeInv, CommandsInv, StepOf, Progress
<1> USE Parts
<1>1. /\ cmd[d].kind \in Pulls /\ cmd[d].kind # "none" /\ cmd[d].kind \notin Pushes
      /\ cmd[d].kind # "keep-local" /\ cmd \in [Devices -> Cmds] /\ cmd[d] \in Cmds
      /\ call[d].pc = "idle" /\ call' = call
      /\ UNCHANGED <<snapshots, manifest, chain, state, local, backups, edits>>
  <2>1. cmd[d].kind \in Pulls /\ cmd[d].phase # "call"
        /\ UNCHANGED <<engineVars, state, local, backups, edits>>
    BY DEF Pull, PullFetch, PullSkip, PullDiverged, PullSelect, PullRestored, At
  <2> QED BY <1>0, <2>1, PullKind, IdleUnlessCalling DEF TypeOK, engineVars
<1>2. CASE End(d)
  BY <1>0, <1>1, <1>2, EndSafe
(* On to the next session.                                                 *)
<1>3. ASSUME cmd'[d].kind = cmd[d].kind, cmd'[d].here = cmd[d].here, cmd[d].phase # "fetch",
             \/ cmd'[d].phase = "next"
             \/ /\ cmd'[d].phase = "restore"
                /\ \A s \in Sessions : s = cmd'[d].target /\ s = cmd'[d].cur
                      => local[d][s] \subseteq PublishedFor(s)
      PROVE  Reads(d)' /\ Over(d)'
  <2>1. Reads(d)'
    BY <1>1, <1>3 DEF Reads
  <2>2. \A s \in Sessions : s \notin cmd[d].here => local[d][s] \subseteq PublishedFor(s)
    BY <1>0, <1>1, <1>3 DEF Over
  <2>3. Over(d)'
    BY <1>0, <1>1, <1>3, <2>2, PublishedGrows DEF Over
  <2> QED BY <2>1, <2>3
<1>4. CASE PullFetch(d) /\ ~End(d)
  <2>1. /\ cmd'[d].kind = cmd[d].kind /\ cmd'[d].mem = cmd[d].mem /\ cmd'[d].here = Present(d)
        /\ cmd'[d].phase = "next"
    <3>1. PICK busy, chosen : cmd' = [cmd EXCEPT ![d].phase = "next", ![d].todo = chosen,
              ![d].man = manifest.heads, ![d].here = Present(d), ![d].forks = busy]
      BY <1>4 DEF PullFetch
    <3> QED BY <1>1, <3>1 DEF Cmds
  <2>2. Reads(d)' /\ Over(d)'
    BY <1>1, <2>1 DEF Reads, Over, Present
  <2> QED BY <1>0, <1>1, <2>1, <2>2, MoveSafe
<1>5. CASE PullSkip(d) \/ (PullDiverged(d) /\ ~End(d))
  <2>1. PICK s : NextSession(d, s, cmd[d].mem)
    BY <1>5 DEF PullSkip, PullDiverged, AfterConflict
  <2>2. /\ cmd'[d].kind = cmd[d].kind /\ cmd'[d].mem = cmd[d].mem /\ cmd'[d].phase = "next"
        /\ cmd'[d].here = cmd[d].here
    BY <1>1, <2>1 DEF NextSession, Cmds
  <2>3. cmd[d].phase # "fetch"
    BY <1>5 DEF PullSkip, PullDiverged, At
  <2> QED BY <1>0, <1>1, <1>3, <2>2, <2>3, MoveSafe
<1>6. CASE PullSelect(d)
  <2>1. PICK s \in cmd[d].todo :
            /\ ~Synced(d, s) /\ ~Diverged(d, s)
            /\ cmd' = [cmd EXCEPT ![d].phase = "restore", ![d].cur = s,
                   ![d].target = IF s \in cmd[d].forks
                                   THEN Fork("active", s, cmd[d].man[s]) ELSE s]
    BY <1>6 DEF PullSelect
  <2>2. /\ cmd'[d].kind = cmd[d].kind /\ cmd'[d].mem = cmd[d].mem /\ cmd'[d].phase = "restore"
        /\ cmd'[d].here = cmd[d].here /\ cmd'[d].cur = s
        /\ cmd'[d].target = IF s \in cmd[d].forks THEN Fork("active", s, cmd[d].man[s]) ELSE s
    BY <1>1, <2>1 DEF Cmds
  <2>3. cmd[d].phase = "next" /\ s \in Sessions /\ cmd[d].man[s] \in Ids
    BY <1>0, <1>6 DEF PullSelect, At
  <2>4. ASSUME s = cmd'[d].target PROVE local[d][s] \subseteq PublishedFor(s)
    <3>1. s \notin cmd[d].forks
      BY <2>2, <2>3, <2>4, ForkAssumption
    <3>2. CASE s \notin cmd[d].here
      BY <1>0, <1>1, <2>3, <3>2 DEF Over
    <3>3. CASE s \in cmd[d].here
      <4>1. cmd[d].mem[s] # Unknown /\ cmd[d].mem[s].local = local[d][s]
        BY <2>1, <3>1, <3>3 DEF Diverged, Guarded
      <4>2. cmd[d].mem[s].remote # 0 /\ cmd[d].mem[s].local \subseteq Body(cmd[d].mem[s].remote)
        BY <1>0, <2>3, <4>1 DEF Recorded, WellKept, Stores, StoredIn
      <4>3. Body(cmd[d].mem[s].remote) \subseteq PublishedFor(s)
        BY <1>0, <2>3, <4>2, BodyStays
      <4> QED BY <4>1, <4>2, <4>3
    <3> QED BY <3>2, <3>3
  <2>5. Reads(d)' /\ Over(d)'
    BY <1>3, <2>2, <2>3, <2>4
  <2> QED BY <1>0, <1>1, <2>2, <2>5, MoveSafe
<1>7. CASE PullRestored(d)
  <2>1. PICK m : /\ NextSession(d, cmd[d].cur, m)
                 /\ m = IF cmd[d].target = cmd[d].cur
                          THEN [cmd[d].mem EXCEPT ![cmd[d].cur] =
                                   [local |-> local[d][cmd[d].cur], remote |-> cmd[d].man[cmd[d].cur]]]
                          ELSE cmd[d].mem
    BY <1>7 DEF PullRestored, Cur
  <2>2. /\ cmd'[d].kind = cmd[d].kind /\ cmd'[d].mem = m /\ cmd'[d].here = cmd[d].here
        /\ cmd'[d].phase = "next"
    BY <1>1, <2>1 DEF NextSession, Cmds
  <2>3. cmd[d].phase = "hash" /\ local[d][cmd[d].target] = Body(cmd[d].man[cmd[d].cur])
    BY <1>0, <1>7 DEF PullRestored, At, Reads
  <2>4. Reads(d)' /\ Over(d)'
    BY <1>3, <2>2, <2>3
  <2>5. Stores(d)'
    <3>1. \A s \in Sessions : \/ cmd'[d].mem[s] = cmd[d].mem[s]
                              \/ cmd'[d].mem[s] = [local |-> Body(cmd[d].man[cmd[d].cur]),
                                                   remote |-> cmd[d].man[cmd[d].cur]]
      BY <1>0, <2>1, <2>2, <2>3 DEF States
    <3> QED BY <1>0, <1>1, <3>1 DEF Stores, StoredIn, Body
  <2> QED BY <1>0, <1>1, <2>4, <2>5, OneSafe
<1> QED BY <1>2, <1>4, <1>5, <1>6, <1>7 DEF Pull

LEMMA RestoreSafe ==
  ASSUME SafeInv, CommandsInv', CallBody', Grows, NEW d \in Devices, Restore(d)
  PROVE  SafeInv'
<1>0. TypeOK /\ EngineInv /\ Shaped(d) /\ Named(d) /\ Stores(d) /\ Reads(d) /\ Over(d)
      /\ CommandsInv /\ Others(d)
  BY OthersRest DEF SafeInv, CommandsInv, StepOf, Progress
<1> USE Parts
<1>1. /\ cmd[d].kind \in Restores /\ cmd[d].kind \notin Pushes
      /\ cmd[d].kind # "keep-local" /\ cmd \in [Devices -> Cmds] /\ cmd[d] \in Cmds
      /\ cmd[d].phase \in {"restore", "backup", "verify", "rename"}
      /\ call[d].pc = "idle" /\ call' = call /\ edits' = edits
      /\ UNCHANGED <<snapshots, manifest, chain>>
  <2>1. /\ cmd[d].kind \in Restores /\ UNCHANGED engineVars /\ edits' = edits
        /\ cmd[d].phase \in {"restore", "backup", "verify", "rename"}
    BY DEF Restore, RestoreSkipped, RestorePrepare, RestoreConflicts, RestoreBackup, RestoreVerify,
       RestoreRename, At
  <2>2. cmd[d].kind \notin Pushes /\ cmd[d].kind # "keep-local"
    BY <2>1 DEF Restores, Pulls, Pushes
  <2> QED BY <1>0, <2>1, <2>2, IdleUnlessCalling DEF TypeOK, engineVars
<1>2. CASE RestoreSkipped(d)
  <2>1. NextSession(d, cmd[d].cur, cmd[d].mem) /\ UNCHANGED <<local, state, backups>>
    BY <1>2 DEF RestoreSkipped, Cur
  <2>2. /\ cmd'[d].kind = cmd[d].kind /\ cmd'[d].mem = cmd[d].mem /\ cmd'[d].here = cmd[d].here
        /\ cmd'[d].phase = "next"
    BY <1>1, <2>1 DEF NextSession, Cmds
  <2>3. Reads(d)'
    BY <1>1, <2>2 DEF Reads
  <2>4. Over(d)'
    BY <1>0, <1>1, <2>1, <2>2, PublishedGrows DEF Over
  <2> QED BY <1>0, <1>1, <2>1, <2>2, <2>3, <2>4, MoveSafe
<1>3. CASE RestoreConflicts(d)
  <2>1. /\ End(d) /\ UNCHANGED <<local, backups>>
        /\ state' = state \/ state' = [state EXCEPT ![d] = cmd[d].mem]
    BY <1>3 DEF RestoreConflicts, GiveUp
  <2> QED BY <1>0, <1>1, <2>1, EndSafe
<1>4. CASE RestorePrepare(d) \/ RestoreBackup(d) \/ RestoreVerify(d)
  <2>1. /\ cmd'[d].kind = cmd[d].kind /\ cmd'[d].mem = cmd[d].mem /\ cmd'[d].man = cmd[d].man
        /\ cmd'[d].cur = cmd[d].cur /\ cmd'[d].target = cmd[d].target
        /\ cmd'[d].here = cmd[d].here /\ local' = local /\ state' = state
    BY <1>1, <1>4 DEF RestorePrepare, RestoreBackup, RestoreVerify, At, Cmds
  <2>2. \/ cmd[d].phase = "restore" /\ ~ForkExists(d) /\ cmd'[d].phase = "backup" /\ backups' = backups
        \/ /\ cmd[d].phase = "backup" /\ cmd'[d].phase = "verify"
           /\ backups'[d] = backups[d] \cup
                {[session |-> t, body |-> local[d][t]] : t \in {cmd[d].target} \cap Present(d)}
        \/ cmd[d].phase = "verify" /\ cmd'[d].phase = "rename" /\ backups' = backups
    BY <1>0, <1>1, <1>4 DEF RestorePrepare, RestoreBackup, RestoreVerify, At, Cmds, DeviceTypes
  <2>3. Reads(d)'
    BY <1>0, <1>1, <2>1, <2>2 DEF Reads, Present
  <2>4. ASSUME cmd[d].kind \in Pulls, cmd[d].phase = "restore", ~ForkExists(d)
        PROVE  local[d][cmd[d].target] \subseteq PublishedFor(cmd[d].target)
    <3>1. CASE cmd[d].target = cmd[d].cur
      BY <1>0, <2>4, <3>1 DEF Over
    <3>2. CASE cmd[d].target # cmd[d].cur
      BY <2>4, <3>2 DEF ForkExists, Cur
    <3> QED BY <3>1, <3>2
  <2>5. Over(d)'
    <3>1. ASSUME cmd[d].kind \in Pulls, NEW s \in Sessions, s \notin cmd[d].here \/ s = cmd[d].target
          PROVE  local[d][s] \subseteq PublishedFor(s)
      BY <1>0, <1>1, <2>2, <2>4, <3>1 DEF Over
    <3> QED BY <2>1, <2>2, <3>1, PublishedGrows, <1>0 DEF Over
  <2>6. backups[d] \subseteq backups'[d]
    BY <2>2
  <2> QED BY <1>0, <1>1, <2>1, <2>3, <2>5, <2>6, MoveSafe
<1>5. CASE RestoreRename(d)
  <2>1. /\ cmd'[d].kind = cmd[d].kind /\ cmd'[d].mem = cmd[d].mem /\ cmd'[d].man = cmd[d].man
        /\ cmd'[d].cur = cmd[d].cur /\ cmd'[d].target = cmd[d].target
        /\ cmd'[d].here = cmd[d].here /\ cmd'[d].phase = "hash" /\ cmd[d].phase = "rename"
        /\ state' = state /\ backups' = backups
        /\ local'[d] = [local[d] EXCEPT ![cmd[d].target] = Body(cmd[d].man[cmd[d].cur])]
    BY <1>0, <1>1, <1>5 DEF RestoreRename, PullArtifact, At, Cur, Cmds, DeviceTypes
  <2>2. \A s \in Sessions : local'[d][s] =
            IF s = cmd[d].target THEN Body(cmd[d].man[cmd[d].cur]) ELSE local[d][s]
    BY <1>0, <2>1
  <2>3. Reads(d)'
    BY <1>0, <1>1, <2>1, <2>2 DEF Reads, Body
  <2>4. ASSUME cmd[d].kind \in Pulls
        PROVE  Body(cmd[d].man[cmd[d].cur]) \subseteq PublishedFor(cmd[d].target)
    <3>1. InChain(cmd[d].cur, cmd[d].man[cmd[d].cur]) /\ cmd[d].man[cmd[d].cur] \in Ids
      BY <1>0, <1>1 DEF Named, Restoring
    <3>2. cmd[d].target \in {cmd[d].cur, Fork("active", cmd[d].cur, cmd[d].man[cmd[d].cur])}
      BY <1>0, <1>1, <2>4 DEF Named, Restoring
    <3>3. cmd[d].cur = cmd[d].target \/ cmd[d].cur \in CopyOf("active", cmd[d].target)
      BY <1>0, <3>1, <3>2 DEF CopyOf
    <3> QED BY <1>0, <3>1, <3>3, PublishedBody
  <2>5. Over(d)'
    <3>1. ASSUME cmd[d].kind \in Pulls, NEW s \in Sessions, s \notin cmd[d].here
          PROVE  local'[d][s] \subseteq PublishedFor(s)
      BY <1>0, <2>1, <2>2, <2>4, <3>1 DEF Over
    <3> QED BY <2>1, <3>1, PublishedGrows, <1>0 DEF Over
  <2>6. \A s \in Sessions : \A e \in local[d][s] :
            \/ e \in local'[d][s]
            \/ \E b \in backups'[d] : e \in b.body
    <3>1. \/ local[d][cmd[d].target] = {}
          \/ [session |-> cmd[d].target, body |-> local[d][cmd[d].target]] \in backups[d]
      BY <1>0, <2>1 DEF Reads
    <3> QED BY <2>1, <2>2, <3>1
  <2>7. Stores(d)'
    BY <2>1, StoresStays
  <2> QED BY <1>0, <1>1, <2>1, <2>3, <2>5, <2>6, <2>7, OneSafe
<1> QED BY <1>2, <1>3, <1>4, <1>5 DEF Restore

LEMMA ResolveSafe ==
  ASSUME SafeInv, CommandsInv', CallBody', Grows, NEW d \in Devices, Resolve(d)
  PROVE  SafeInv'
<1>0. TypeOK /\ EngineInv /\ Shaped(d) /\ Named(d) /\ Stores(d) /\ Reads(d) /\ Over(d)
      /\ CommandsInv /\ Others(d)
  BY OthersRest DEF SafeInv, CommandsInv, StepOf, Progress
<1> USE Parts
<1>1. /\ cmd[d].kind \in Resolutions /\ cmd[d].kind \notin Pushes /\ cmd[d].kind \notin Pulls
      /\ cmd \in [Devices -> Cmds] /\ cmd[d] \in Cmds /\ call \in [Devices -> Calls]
      /\ UNCHANGED <<local, backups, edits>>
  <2>1. cmd[d].kind \in Resolutions /\ UNCHANGED <<local, backups, edits>>
    BY DEF Resolve, KeepLocalExport, KeepLocalFetch, KeepLocalPublished, KeepLocalFailed,
       KeepRemoteFetch, ResolveRecord, ResolveAudit, ResolveRemove, At, Resolutions
  <2> QED BY <1>0, <2>1, ResolveKind DEF TypeOK, EngineTypeOK
<1>2. cmd[d].phase # "call" => call[d].pc = "idle"
  BY <1>0, IdleUnlessCalling
<1>3. CASE End(d)
  <2>1. cmd'[d].phase = "-"
    BY <1>1, <1>3 DEF End, NoCmd
  <2>2. call'[d].pc = "idle"
    BY <2>1 DEF CommandsInv, TypeOK
  <2>3. ~ResolveRecord(d)
    BY <1>1, <2>1 DEF ResolveRecord, Cmds
  <2>4. state' = state
    BY <2>3 DEF Resolve, KeepLocalExport, KeepLocalFetch, KeepLocalPublished, KeepLocalFailed,
       KeepRemoteFetch, ResolveAudit, ResolveRemove
  <2> QED BY <1>0, <1>1, <1>3, <2>2, <2>4, EndSafe
(* On to the next phase.                                                   *)
<1>4. ASSUME cmd'[d].kind = cmd[d].kind,
             cmd[d].kind = "keep-local" /\ cmd'[d].phase \in {"fetch", "call"} =>
                 cmd'[d].hash = local[d][cmd'[d].cur],
             cmd'[d].phase \notin {"verify", "rename"},
             call'[d].pc # "idle" => call'[d].body = cmd'[d].hash,
             cmd'[d].phase = "hash" =>
                 local[d][cmd'[d].target] = snapshots'[cmd'[d].man[cmd'[d].cur]].body,
             cmd'[d].mem = cmd[d].mem, state' = state
      PROVE  SafeInv'
  <2>1. Reads(d)'
    BY <1>1, <1>4 DEF Reads, Body
  <2>2. Over(d)'
    BY <1>1, <1>4 DEF Over
  <2> QED BY <1>0, <1>1, <1>4, <2>1, <2>2, MoveSafe
<1>5. CASE KeepLocalExport(d)
  <2>1. /\ cmd'[d].kind = cmd[d].kind /\ cmd'[d].mem = cmd[d].mem
        /\ cmd'[d].phase = "fetch" /\ cmd'[d].hash = local[d][cmd[d].cur]
        /\ cmd'[d].cur = cmd[d].cur /\ state' = state /\ call'[d].pc = "idle"
    BY <1>1, <1>2, <1>5 DEF KeepLocalExport, At, Cur, Cmds, engineVars
  <2> QED BY <1>4, <2>1
<1>6. CASE KeepLocalFetch(d)
  <2>1. /\ cmd'[d].kind = cmd[d].kind /\ cmd'[d].mem = cmd[d].mem /\ cmd'[d].hash = cmd[d].hash
        /\ cmd'[d].phase = "call" /\ cmd'[d].cur = cmd[d].cur /\ state' = state
        /\ cmd[d].kind = "keep-local" /\ call'[d].body = cmd[d].hash /\ cmd[d].phase = "fetch"
    <3>1. NoCall \in Calls
      BY NoCallType
    <3> QED BY <1>1, <1>6, <3>1 DEF KeepLocalFetch, Begin, Cur, At, Cmds, Calls
  <2>2. cmd[d].hash = local[d][cmd[d].cur]
    BY <1>0, <2>1 DEF Reads
  <2> QED BY <1>4, <2>1, <2>2
<1>7. CASE KeepLocalPublished(d)
  <2>1. /\ cmd'[d].kind = cmd[d].kind /\ cmd'[d].mem = cmd[d].mem
        /\ cmd'[d].phase = "hash" /\ cmd'[d].cur = cmd[d].cur /\ cmd'[d].target = cmd[d].target
        /\ cmd'[d].man[cmd[d].cur] = call[d].id /\ snapshots' = snapshots
        /\ state' = state /\ cmd[d].kind = "keep-local" /\ cmd[d].phase = "call"
        /\ call[d].pc = "ok" /\ call'[d].pc = "idle"
    <3>1. cmd' = [cmd EXCEPT ![d].phase = "hash", ![d].man[cmd[d].cur] = call[d].id]
      BY <1>7 DEF KeepLocalPublished, Cur
    <3>2. cmd'[d] = [cmd[d] EXCEPT !.phase = "hash", !.man[cmd[d].cur] = call[d].id]
      BY <1>1, <3>1 DEF Cmds
    <3>3. /\ cmd'[d].kind = cmd[d].kind /\ cmd'[d].mem = cmd[d].mem /\ cmd'[d].phase = "hash"
          /\ cmd'[d].cur = cmd[d].cur /\ cmd'[d].target = cmd[d].target
          /\ cmd'[d].man[cmd[d].cur] = call[d].id
      BY <1>0, <1>1, <3>2 DEF Cmds
    <3> QED BY <1>0, <1>7, <3>3, Forgotten DEF KeepLocalPublished, Return, At
  <2>2. snapshots[call[d].id].body = local[d][cmd[d].cur] /\ cmd[d].target = cmd[d].cur
    BY <1>0, <2>1 DEF SafeInv, CallBody, Reads, Shaped
  <2>3. local[d][cmd'[d].target] = snapshots'[cmd'[d].man[cmd'[d].cur]].body
    BY <2>1, <2>2
  <2> QED BY <1>4, <2>1, <2>3
<1>8. CASE KeepRemoteFetch(d) /\ ~End(d)
  <2>1. /\ cmd'[d].kind = cmd[d].kind /\ cmd'[d].mem = cmd[d].mem
        /\ cmd'[d].phase = "restore" /\ state' = state /\ call'[d].pc = "idle"
    <3>1. PICK t : cmd' = [cmd EXCEPT ![d].phase = "restore", ![d].man = manifest.heads, ![d].target = t]
      BY <1>8 DEF KeepRemoteFetch
    <3> QED BY <1>1, <1>2, <1>8, <3>1 DEF KeepRemoteFetch, At, Cmds, engineVars
  <2> QED BY <1>4, <2>1
<1>9. CASE ResolveRecord(d)
  <2>1. /\ cmd'[d].kind = cmd[d].kind /\ cmd'[d].mem = cmd[d].mem
        /\ cmd'[d].phase = "audit" /\ call'[d].pc = "idle" /\ snapshots' = snapshots
        /\ cmd[d].phase = "hash"
    BY <1>1, <1>2, <1>9 DEF ResolveRecord, At, Cmds, engineVars
  <2>2. \A s \in Sessions : state'[d][s] =
            IF s = cmd[d].target
              THEN [local |-> local[d][cmd[d].target], remote |-> cmd[d].man[cmd[d].cur]]
              ELSE state[d][s]
    BY <1>0, <1>9 DEF ResolveRecord, updateSessionState, Cur, States, DeviceTypes
  <2>3. local[d][cmd[d].target] = Body(cmd[d].man[cmd[d].cur])
    BY <1>0, <2>1 DEF Reads
  <2>4. Stores(d)'
    <3>1. ASSUME NEW s \in Sessions PROVE StoredIn(state'[d][s])
      <4>1. CASE s = cmd[d].target
        <5>1. /\ state'[d][s].local = Body(cmd[d].man[cmd[d].cur])
              /\ state'[d][s].remote = cmd[d].man[cmd[d].cur]
          BY <2>2, <2>3, <4>1
        <5> QED BY <5>1 DEF StoredIn
      <4>2. CASE s # cmd[d].target
        BY <1>0, <2>2, <4>2 DEF Stores
      <4> QED BY <4>1, <4>2
    <3>2. \A s \in Sessions : StoredIn(cmd'[d].mem[s])
      BY <1>0, <2>1 DEF Stores
    <3> QED BY <2>1, <3>1, <3>2 DEF Stores, StoredIn, Body
  <2>5. Reads(d)'
    BY <1>1, <2>1 DEF Reads
  <2>6. Over(d)'
    BY <1>1, <2>1 DEF Over
  <2> QED BY <1>0, <1>1, <2>4, <2>5, <2>6, OneSafe
<1>10. CASE ResolveAudit(d)
  <2>1. /\ cmd'[d].kind = cmd[d].kind /\ cmd'[d].mem = cmd[d].mem
        /\ cmd'[d].phase = "remove" /\ state' = state /\ call'[d].pc = "idle"
    BY <1>1, <1>2, <1>10 DEF ResolveAudit, At, Cmds, engineVars
  <2> QED BY <1>4, <2>1
<1>11. CASE KeepLocalFailed(d) \/ ResolveRemove(d)
  BY <1>3, <1>11 DEF KeepLocalFailed, ResolveRemove
<1> QED BY <1>3, <1>5, <1>6, <1>7, <1>8, <1>9, <1>10, <1>11 DEF Resolve

LEMMA InitSafeInv == Init => SafeInv
<1> SUFFICES ASSUME Init PROVE SafeInv
  OBVIOUS
<1>1. CommandsInv /\ CallBody
  BY InitRememberInv DEF RememberInv
<1>2. EditsSurvive
  BY DEF Init, EditsSurvive
<1>3. ASSUME NEW d \in Devices PROVE Stores(d) /\ Reads(d) /\ Over(d)
  <2>1. call[d].pc = "idle" /\ cmd[d] = NoCmd
    BY DEF Init, EngineInit, NoCall
  <2>2. \A s \in Sessions : state[d][s].remote = 0 /\ cmd[d].mem[s].remote = 0
    BY <2>1 DEF Init, Unknown, NoCmd
  <2>3. cmd[d].kind = "none" /\ cmd[d].phase = "-"
    BY <2>1 DEF NoCmd
  <2>4. cmd[d].kind \notin Pushes \cup Pulls
    BY <2>3 DEF Pushes, Pulls
  <2> QED BY <2>1, <2>2, <2>3, <2>4 DEF Stores, StoredIn, Reads, Over
<1> QED BY <1>1, <1>2, <1>3 DEF SafeInv

LEMMA NextSafeInv == ~MidEdits => (SafeInv /\ [Next]_vars => SafeInv')
<1> SUFFICES ASSUME ~MidEdits, SafeInv, [Next]_vars PROVE SafeInv'
  OBVIOUS
<1>1. CommandsInv /\ CommandsInv' /\ EngineInv /\ EngineInv' /\ TypeOK
  BY NextCommandsInv DEF SafeInv, CommandsInv
<1>2. Grows /\ CallBody'
  <2>1. [EngineNext]_engineVars
    BY <1>1, StepOfEngine
  <2> QED BY <1>1, <2>1, EngineGrows, CallBodyStep DEF SafeInv
<1>3. CASE UNCHANGED vars
  <2>1. ASSUME NEW d \in Devices
        PROVE  /\ cmd'[d] = cmd[d] /\ state'[d] = state[d] /\ call'[d] = call[d]
               /\ local'[d] = local[d] /\ backups'[d] = backups[d]
    BY <1>3 DEF vars, engineVars, deviceVars
  <2>2. \A d \in Devices : Stores(d)' /\ Reads(d)' /\ Over(d)'
    BY <1>2, <2>1, RestsSafe
  <2>3. EditsSurvive'
    BY <1>3 DEF SafeInv, EditsSurvive, Published, Body, vars, engineVars, deviceVars
  <2> QED BY <1>1, <1>2, <2>2, <2>3 DEF SafeInv
<1>4. ASSUME NEW d \in Devices, StepOf(d) PROVE SafeInv'
  BY <1>1, <1>2, <1>4, WaitSafe, StartSafe, StopSafe, PushSafe, PullSafe, RestoreSafe, ResolveSafe
     DEF StepOf, Progress
<1> QED BY <1>3, <1>4 DEF Next, StepOf

LEMMA SafeInvariant == ~MidEdits => (Spec => []SafeInv)
<1> SUFFICES ASSUME ~MidEdits PROVE Spec => []SafeInv
  OBVIOUS
<1>1. SafeInv /\ [Next]_vars => SafeInv'
  BY NextSafeInv
<1> QED BY <1>1, InitSafeInv, PTL DEF Spec

LEMMA SafeIsStored ==
  ASSUME SafeInv
  PROVE  SyncedIsStored
<1> SUFFICES ASSUME NEW d \in Devices, NEW s \in Sessions, state[d][s].remote # 0
             PROVE  /\ state[d][s].remote \in 1..Len(snapshots)
                    /\ state[d][s].local \subseteq Body(state[d][s].remote)
  BY DEF SyncedIsStored
<1>1. EngineInv /\ WasHead(s, state[d][s].remote) /\ Stores(d)
  BY DEF SafeInv, CommandsInv, Recorded, WellKept
<1>2. PICK t \in Sessions : InChain(t, state[d][s].remote)
  BY <1>1 DEF WasHead
<1> QED BY <1>1, <1>2, InChainStored DEF Stores, StoredIn

(* While agents leave the files of a device alone as long as one of its    *)
(* commands runs, every edit an agent makes is in a session file, in the   *)
(* remote history or in a backup, and state.json never calls content       *)
(* synchronized that is not stored (push.go, commands_impl.go,             *)
(* writer.go); whatever crashes, fails or interleaves between devices.     *)
THEOREM EditsAreKept == ~MidEdits => (Spec => []EditsAreSafe)
<1> SUFFICES ASSUME ~MidEdits PROVE Spec => []EditsAreSafe
  OBVIOUS
<1>1. SafeInv => EditsAreSafe
  BY SafeIsStored DEF SafeInv, EditsAreSafe
<1> QED BY <1>1, SafeInvariant, PTL

-----------------------------------------------------------------------------
(* A pull takes an edit out of a session file only when the history has it.*)
LEMMA PullStep ==
  ASSUME SafeInv, SafeInv', [Next]_vars
  PROVE  PullKeepsEdits
<1> SUFFICES ASSUME NEW d \in Devices, NEW s \in Sessions, cmd[d].kind \in Pulls
             PROVE  local[d][s] \subseteq local'[d][s] \cup PublishedFor(s)
  BY DEF PullKeepsEdits
<1>0. TypeOK /\ DeviceTypes /\ Over(d)
  BY Parts DEF SafeInv, CommandsInv
<1>1. CASE local' = local
  BY <1>1
<1>2. ASSUME NEW e \in Devices, StepOf(e), local' # local
      PROVE  local[d][s] \subseteq local'[d][s] \cup PublishedFor(s)
  <2>1. CASE e # d
    BY <1>0, <1>2, <2>1, OthersRest DEF Others
  <2>2. CASE RestoreRename(d)
    <3>1. local'[d] = [local[d] EXCEPT ![cmd[d].target] = Body(cmd[d].man[cmd[d].cur])]
      BY <1>0, <2>2 DEF RestoreRename, PullArtifact, Cur, DeviceTypes
    <3>2. s # cmd[d].target => local'[d][s] = local[d][s]
      BY <1>0, <3>1, Parts
    <3>3. s = cmd[d].target => local[d][s] \subseteq PublishedFor(s)
      BY <1>0, <2>2 DEF Over, RestoreRename, At
    <3> QED BY <3>2, <3>3
  <2>3. CASE \E t \in Sessions : Edit(d, t)
    <3>1. PICK t \in Sessions : Edit(d, t)
      BY <2>3
    <3> QED BY <1>0, <3>1 DEF Edit, DeviceTypes
  <2> QED BY <1>2, <2>1, <2>2, <2>3 DEF StepOf, Progress, Push, Pull, Restore, Resolve, CallStep,
         deviceVars, BeginPush, BeginPull, BeginResolve, PushFetch, PushSkip, PushHash, PushExport,
         PushUploaded, PushFailed, PushRefused, PushRecord, SaveState, PullFetch, PullSkip,
         PullDiverged, PullSelect, PullRestored, RestoreSkipped, RestorePrepare, RestoreConflicts,
         RestoreBackup, RestoreVerify, KeepLocalExport, KeepLocalFetch, KeepLocalPublished,
         KeepLocalFailed, KeepRemoteFetch, ResolveRecord, ResolveAudit, ResolveRemove,
         CommandFails, Crash
<1> QED BY <1>1, <1>2 DEF Next, StepOf, vars, deviceVars

-----------------------------------------------------------------------------
(* Why a settled divergence is not recorded again.  Every edit is one that *)
(* was made, and what is stored is not empty...                            *)
Filled ==
    /\ \A i \in 1..Len(snapshots) : snapshots[i].body # {} /\ snapshots[i].body \subseteq 1..edits
    /\ \A d \in Devices, s \in Sessions : local[d][s] \subseteq 1..edits

(* ...a divergence is between content that was here and a head...          *)
Genuine(d, r) ==
    /\ r.remote # 0 => InChain(r.session, r.remote)
    /\ r.local \subseteq 1..edits
    /\ local[d][r.session] # {}

Records(d) ==
    /\ \A r \in conflicts[d] : Genuine(d, r)
    /\ \A r \in Divergences, how \in Resolutions : <<r, how>> \in resolved[d] => Genuine(d, r)
    /\ cmd[d].kind \in Resolutions => Genuine(d, cmd[d].about)

(* ...push takes up what is here and has changed...                        *)
Changed(d) ==
    cmd[d].kind \in Pushes =>
        /\ \A s \in cmd[d].todo : local[d][s] # {}
        /\ cmd[d].phase \in {"export", "call", "record"} =>
               /\ local[d][cmd[d].cur] # {}
               /\ \/ cmd[d].mem[cmd[d].cur].remote = 0
                  \/ cmd[d].mem[cmd[d].cur].remote # cmd[d].man[cmd[d].cur]
                  \/ cmd[d].mem[cmd[d].cur].local # cmd[d].hash

(* ...pull knows what is here, and makes a copy where nothing is...        *)
Found(d) ==
    cmd[d].kind \in Pulls =>
        /\ cmd[d].phase # "fetch" => \A s \in cmd[d].here : local[d][s] # {}
        /\ cmd[d].phase \in {"backup", "verify", "rename"} /\ cmd[d].target # cmd[d].cur =>
               local[d][cmd[d].target] = {}

(* ...a resolution leaves the head of its divergence behind or takes it    *)
(* over...                                                                 *)
Settled(d, r) ==
    /\ r.remote # 0 /\ CopyOf("remote", r.session) = {}
    /\ \E how \in {"keep-local", "keep-remote"} : <<r, how>> \in resolved[d]

Pair(n) == [local |-> Body(n), remote |-> n]

Behind(d) ==
    call[d].pc = "ok" \/ (cmd[d].kind = "keep-local" /\ cmd[d].phase \in {"hash", "audit"}) =>
        \A r \in Divergences :
            /\ Settled(d, r) \/ (cmd[d].kind = "keep-local" /\ r = cmd[d].about)
            /\ r.session = cmd[d].cur /\ r.remote # 0
            => RemoteHead(cmd[d].cur) # r.remote

TakenOver(d) ==
    /\ cmd[d].kind = "keep-remote" /\ cmd[d].phase \in Restoring \cup {"audit"} =>
           (cmd[d].about.remote # 0 /\ RemoteHead(cmd[d].cur) = cmd[d].about.remote =>
                cmd[d].man[cmd[d].cur] = cmd[d].about.remote)
    /\ cmd[d].kind = "keep-remote" /\ cmd[d].phase = "audit" =>
           /\ state[d][cmd[d].cur] = Pair(cmd[d].man[cmd[d].cur])
           /\ local[d][cmd[d].cur] = Body(cmd[d].man[cmd[d].cur])

(* ...and as long as its head is the head, or a pull takes it for that,    *)
(* the device is at this head but for edits made since.                    *)
AtHead(d, r) ==
    \/ RemoteHead(r.session) = r.remote
    \/ cmd[d].kind \in Pulls /\ cmd[d].phase # "fetch" /\ cmd[d].man[r.session] = r.remote

Held(d, r) ==
    /\ state[d][r.session] = Pair(r.remote)
    /\ cmd[d].kind \in Pushes \cup Pulls => cmd[d].mem[r.session] = Pair(r.remote)
    /\ Body(r.remote) \subseteq local[d][r.session]
    /\ (local[d][r.session] \ Body(r.remote)) \cap r.local = {}

Holds(d) == \A r \in Divergences : Settled(d, r) /\ AtHead(d, r) => Held(d, r)

KeepInv ==
    /\ RememberInv /\ SafeInv /\ Filled
    /\ \A d \in Devices : /\ Records(d) /\ Changed(d) /\ Found(d)
                          /\ Behind(d) /\ TakenOver(d) /\ Holds(d)

(* Time only adds edits, and a session file that is here stays.            *)
Later ==
    /\ 1..edits \subseteq 1..edits'
    /\ \A d \in Devices, s \in Sessions : local[d][s] # {} => local'[d][s] # {}

LEMMA FilledStep ==
  ASSUME KeepInv, Grows, NEW d \in Devices, StepOf(d)
  PROVE  Filled' /\ Later
<1>0. /\ TypeOK /\ EngineInv /\ Named(d) /\ Shaped(d) /\ Reads(d) /\ Filled /\ Changed(d)
      /\ Records(d) /\ DeviceTypes /\ call[d] \in Calls /\ edits \in Nat /\ cmd[d].cur \in Sessions
      /\ Len(snapshots) \in Nat /\ snapshots \in Seq(Envelopes)
  BY Parts, DeviceSyncAssumption
     DEF KeepInv, SafeInv, CommandsInv, TypeOK, EngineTypeOK
<1>1. CASE \E s \in Sessions : Edit(d, s)
  <2>1. PICK s \in Sessions : Edit(d, s)
    BY <1>1
  <2>2. /\ edits' = edits + 1 /\ snapshots' = snapshots
        /\ local' = [local EXCEPT ![d][s] = local[d][s] \cup {edits + 1}]
    BY <2>1 DEF Edit, engineVars
  <2>3. 1..edits \subseteq 1..edits' /\ edits + 1 \in 1..edits'
    BY <1>0, <2>2
  <2>4. \A e \in Devices, t \in Sessions : local'[e][t] \in {local[e][t], local[e][t] \cup {edits + 1}}
    BY <1>0, <2>2 DEF DeviceTypes
  <2> QED BY <1>0, <2>2, <2>3, <2>4 DEF Filled, Later
<1>2. CASE RestoreRename(d)
  <2>1. cmd[d].man[cmd[d].cur] \in 1..Len(snapshots)
    BY <1>0, <1>2, InChainStored DEF Named, Restoring, RestoreRename, At
  <2>2. /\ edits' = edits /\ snapshots' = snapshots
        /\ local' = [local EXCEPT ![d][cmd[d].target] = Body(cmd[d].man[cmd[d].cur])]
    BY <1>2 DEF RestoreRename, PullArtifact, Cur, engineVars
  <2>3. \A e \in Devices, t \in Sessions :
            local'[e][t] \in {local[e][t], snapshots[cmd[d].man[cmd[d].cur]].body}
    BY <1>0, <2>2 DEF DeviceTypes, Body
  <2> QED BY <1>0, <2>1, <2>2, <2>3 DEF Filled, Later
<1>3. CASE CallStep(d) /\ snapshots' # snapshots
  <2>1. Upload(d) /\ call[d].pc = "put" /\ local' = local /\ edits' = edits
    BY <1>3 DEF CallStep, deviceVars, Step, Misfortune, LoadParent, PutSnapshot, PutRefused,
       LoadManifest, SaveManifest, LoadFails, PutFails, SaveFails, SaveResent
  <2>2. cmd[d].phase = "call" /\ (cmd[d].kind \in Pushes \/ cmd[d].kind = "keep-local")
    <3>1. cmd[d].phase = "call"
      BY <1>0, <2>1 DEF TypeOK
    <3> QED BY <1>0, <3>1 DEF Shaped, PhasesOf
  <2>3. call[d].body = local[d][cmd[d].cur]
    BY <1>0, <2>1, <2>2 DEF Reads
  <2>4. local[d][cmd[d].cur] # {} /\ local[d][cmd[d].cur] \subseteq 1..edits
    <3>1. CASE cmd[d].kind \in Pushes
      BY <1>0, <2>2, <3>1 DEF Changed, Filled
    <3>2. CASE cmd[d].kind = "keep-local"
      BY <1>0, <3>2 DEF Records, Genuine, Shaped, Resolutions, Filled
    <3> QED BY <2>2, <3>1, <3>2
  <2>5. PICK v : snapshots' = Append(snapshots, v) /\ v.body = call[d].body
    BY <2>1 DEF Upload
  <2>6. \A i \in 1..Len(snapshots') : \/ i \in 1..Len(snapshots) /\ snapshots'[i] = snapshots[i]
                                      \/ snapshots'[i] = v
    BY <1>0, <2>5
  <2> QED BY <1>0, <2>1, <2>3, <2>4, <2>5, <2>6 DEF Filled, Later
<1>4. CASE UNCHANGED <<local, edits, snapshots>>
  BY <1>0, <1>4 DEF Filled, Later
<1> QED BY <1>1, <1>2, <1>3, <1>4 DEF StepOf, Progress, Push, Pull, Restore, Resolve, CallStep,
         deviceVars, BeginPush, BeginPull, BeginResolve, PushFetch, PushSkip, PushHash, PushExport,
         PushUploaded, PushFailed, PushRefused, PushRecord, SaveState, PullFetch, PullSkip,
         PullDiverged, PullSelect, PullRestored, RestoreSkipped, RestorePrepare, RestoreConflicts,
         RestoreBackup, RestoreVerify, KeepLocalExport, KeepLocalFetch, KeepLocalPublished,
         KeepLocalFailed, KeepRemoteFetch, ResolveRecord, ResolveAudit, ResolveRemove,
         CommandFails, Crash, Abandon, OtherFault, Begin, Return, engineVars

(* What a step adds to the records of conflicts and of resolutions.        *)
LEMMA NewRecords ==
  ASSUME TypeOK, NEW d \in Devices, StepOf(d)
  PROVE  /\ \A r \in conflicts'[d] \ conflicts[d] :
                \/ /\ PushRecord(d) /\ r.session = cmd[d].cur /\ r.local = cmd[d].hash
                   /\ r.remote \in {RemoteHead(cmd[d].cur), 0}
                \/ /\ At(d, Pulls, "next") /\ r.session \in cmd[d].todo /\ Diverged(d, r.session)
                   /\ r.local = local[d][r.session] /\ r.remote = cmd[d].man[r.session]
         /\ \A p \in resolved'[d] \ resolved[d] :
                ResolveAudit(d) /\ p = <<cmd[d].about, cmd[d].kind>>
<1>0. DeviceTypes
  BY Parts
<1>1. CASE PushRecord(d)
  <2>1. PICK n : n \in {RemoteHead(cmd[d].cur), 0} /\ SaveConflict(d, cmd[d].cur, cmd[d].hash, n)
    BY <1>1 DEF PushRecord, Cur
  <2>2. conflicts'[d] = conflicts[d] \cup
            {[session |-> cmd[d].cur, local |-> cmd[d].hash, remote |-> n]}
    BY <1>0, <2>1 DEF SaveConflict, DeviceTypes
  <2> QED BY <1>1, <2>1, <2>2 DEF PushRecord
<1>2. CASE PullDiverged(d)
  <2>1. PICK s \in cmd[d].todo :
            Diverged(d, s) /\ SaveConflict(d, s, local[d][s], cmd[d].man[s])
    BY <1>2 DEF PullDiverged
  <2>2. conflicts'[d] = conflicts[d] \cup
            {[session |-> s, local |-> local[d][s], remote |-> cmd[d].man[s]]}
    BY <1>0, <2>1 DEF SaveConflict, DeviceTypes
  <2> QED BY <1>2, <2>1, <2>2 DEF PullDiverged
<1>3. CASE ResolveAudit(d)
  <2>1. resolved'[d] = resolved[d] \cup {<<cmd[d].about, cmd[d].kind>>}
    BY <1>0, <1>3 DEF ResolveAudit, DeviceTypes
  <2> QED BY <1>3, <2>1 DEF ResolveAudit
<1>4. CASE ResolveRemove(d)
  <2>1. conflicts'[d] = conflicts[d] \ {cmd[d].about}
    BY <1>0, <1>4 DEF ResolveRemove, DeviceTypes
  <2> QED BY <1>4, <2>1 DEF ResolveRemove
<1>5. CASE UNCHANGED <<conflicts, resolved>>
  BY <1>5
<1> QED BY <1>1, <1>2, <1>3, <1>4, <1>5 DEF StepOf, Progress, Push, Pull, Restore, Resolve, CallStep,
         deviceVars, Edit, BeginPush, BeginPull, BeginResolve, PushFetch, PushSkip, PushHash,
         PushExport, PushUploaded, PushFailed, PushRefused, SaveState, PullFetch, PullSkip,
         PullSelect, PullRestored, RestoreSkipped, RestorePrepare, RestoreConflicts, RestoreBackup,
         RestoreVerify, RestoreRename, KeepLocalExport, KeepLocalFetch, KeepLocalPublished,
         KeepLocalFailed, KeepRemoteFetch, ResolveRecord, CommandFails, Crash

(* A command stays the one it is until it ends.                            *)
LEMMA SameCommand ==
  ASSUME TypeOK, NEW d \in Devices, StepOf(d)
  PROVE  \/ cmd[d].kind = "none"
         \/ cmd'[d] = NoCmd
         \/ /\ cmd'[d].kind = cmd[d].kind /\ cmd'[d].about = cmd[d].about
            /\ cmd'[d].here = cmd[d].here \/ PullFetch(d)
            /\ cmd'[d].todo \subseteq cmd[d].todo \/ PullFetch(d)
<1>0. cmd \in [Devices -> Cmds] /\ cmd[d] \in Cmds
  BY DEF TypeOK
<1>1. CASE End(d)
  BY <1>0, <1>1 DEF End
<1>2. CASE \E s, m : NextSession(d, s, m)
  BY <1>0, <1>2 DEF NextSession, Cmds
<1>3. CASE (\E s \in Sessions : Edit(d, s)) \/ CallStep(d)
  BY <1>3 DEF Edit, CallStep, deviceVars
<1>4. CASE (\E kind \in Pushes : BeginPush(d, kind)) \/ (\E kind \in Pulls : BeginPull(d, kind))
           \/ BeginResolve(d)
  BY <1>4 DEF BeginPush, BeginPull, BeginResolve, Start
<1>5. CASE (PushFetch(d) /\ ~End(d)) \/ PushHash(d) \/ PushExport(d) \/ PushRefused(d)
  <2>1. CASE PushFetch(d) /\ ~End(d)
    <3>1. cmd' = [cmd EXCEPT ![d].phase = "next", ![d].man = manifest.heads]
      BY <2>1 DEF PushFetch
    <3> QED BY <1>0, <3>1 DEF Cmds
  <2>2. CASE PushHash(d)
    <3>1. PICK s : cmd' = [cmd EXCEPT ![d].phase = "export", ![d].cur = s, ![d].hash = local[d][s]]
      BY <2>2 DEF PushHash
    <3>2. cmd'[d] = [cmd[d] EXCEPT !.phase = "export", !.cur = s, !.hash = local[d][s]]
      BY <1>0, <3>1, Zenon
    <3> QED BY <1>0, <3>2 DEF Cmds
  <2>3. CASE PushExport(d) \/ PushRefused(d)
    <3>1. \A ph : cmd' = [cmd EXCEPT ![d].phase = ph] =>
                     cmd'[d] = [cmd[d] EXCEPT !.phase = ph]
      BY <1>0
    <3>2. \E ph : cmd'[d] = [cmd[d] EXCEPT !.phase = ph]
      BY <2>3, <3>1 DEF PushExport, PushRefused
    <3> QED BY <1>0, <3>2 DEF Cmds
  <2> QED BY <1>5, <2>1, <2>2, <2>3
<1>6. CASE (PullFetch(d) /\ ~End(d)) \/ PullSelect(d)
  <2>1. CASE PullFetch(d) /\ ~End(d)
    <3>1. PICK busy, chosen : cmd' = [cmd EXCEPT ![d].phase = "next", ![d].todo = chosen,
              ![d].man = manifest.heads, ![d].here = Present(d), ![d].forks = busy]
      BY <2>1 DEF PullFetch
    <3> QED BY <1>0, <2>1, <3>1 DEF Cmds
  <2>2. CASE PullSelect(d)
    <3>1. PICK s, u : cmd' = [cmd EXCEPT ![d].phase = "restore", ![d].cur = s, ![d].target = u]
      BY <2>2 DEF PullSelect
    <3> QED BY <1>0, <3>1 DEF Cmds
  <2> QED BY <1>6, <2>1, <2>2
<1>7. CASE RestorePrepare(d) \/ RestoreBackup(d) \/ RestoreVerify(d) \/ RestoreRename(d)
  BY <1>0, <1>7 DEF RestorePrepare, RestoreBackup, RestoreVerify, RestoreRename, Cmds
<1>8. CASE KeepLocalExport(d) \/ KeepLocalFetch(d) \/ KeepRemoteFetch(d) \/ ResolveRecord(d)
           \/ ResolveAudit(d)
  BY <1>0, <1>1, <1>8 DEF KeepLocalExport, KeepLocalFetch, KeepRemoteFetch, ResolveRecord,
     ResolveAudit, Cmds
<1>9. CASE KeepLocalPublished(d)
  <2>1. cmd' = [cmd EXCEPT ![d].phase = "hash", ![d].man[cmd[d].cur] = call[d].id]
    BY <1>9 DEF KeepLocalPublished, Cur
  <2>2. cmd'[d] = [cmd[d] EXCEPT !.phase = "hash", !.man[cmd[d].cur] = call[d].id]
    BY <1>0, <2>1 DEF Cmds
  <2> QED BY <1>0, <2>2 DEF Cmds
<1> QED BY <1>1, <1>2, <1>3, <1>4, <1>5, <1>6, <1>7, <1>8, <1>9
     DEF StepOf, Progress, Push, PushSkip, PushUploaded, PushFailed, PushRecord, AfterConflict,
         SaveState, Pull, PullSkip, PullDiverged, PullRestored, Restore, RestoreSkipped,
         RestoreConflicts, GiveUp, Resolve, KeepLocalFailed, ResolveRemove, CommandFails, Crash

(* What starts on a device where no command runs.                          *)
LEMMA FromIdle ==
  ASSUME TypeOK, NEW d \in Devices, Shaped(d), StepOf(d), cmd[d].kind = "none"
  PROVE  /\ cmd' = cmd \/ UNCHANGED <<engineVars, local, state, conflicts, resolved, backups, edits>>
         /\ \/ cmd' = cmd
            \/ /\ cmd'[d].kind \in Pushes /\ cmd'[d].phase = "fetch" /\ cmd'[d].mem = state[d]
               /\ cmd'[d].todo \subseteq Present(d)
            \/ cmd'[d].kind \in Pulls /\ cmd'[d].phase = "fetch" /\ cmd'[d].mem = state[d]
            \/ /\ cmd'[d].kind \in Resolutions /\ cmd'[d].phase \in {"fetch", "export"}
               /\ cmd'[d].about \in conflicts[d]
<1>0. DeviceTypes
  BY Parts
<1>1. ASSUME NEW kind \in Pushes, BeginPush(d, kind)
      PROVE  /\ cmd'[d].kind = kind /\ cmd'[d].phase = "fetch" /\ cmd'[d].mem = state[d]
             /\ cmd'[d].todo \subseteq Present(d)
  <2>1. PICK items : /\ items \subseteq Present(d)
                     /\ cmd' = [cmd EXCEPT ![d] = [NoCmd EXCEPT
                           !.kind = kind, !.phase = "fetch", !.todo = items, !.mem = state[d]]]
    BY <1>1 DEF BeginPush
  <2> QED BY <1>0, <2>1 DEF DeviceTypes, NoCmd
<1>2. ASSUME NEW kind \in Pulls, BeginPull(d, kind)
      PROVE  cmd'[d].kind = kind /\ cmd'[d].phase = "fetch" /\ cmd'[d].mem = state[d]
  <2>1. PICK s : cmd' = [cmd EXCEPT ![d] = [NoCmd EXCEPT
                    !.kind = kind, !.phase = "fetch", !.cur = s, !.mem = state[d]]]
    BY <1>2 DEF BeginPull
  <2> QED BY <1>0, <2>1 DEF DeviceTypes, NoCmd
<1>3. ASSUME BeginResolve(d)
      PROVE  /\ cmd'[d].kind \in Resolutions /\ cmd'[d].phase \in {"fetch", "export"}
             /\ cmd'[d].about \in conflicts[d]
  <2>1. PICK how \in Resolutions, r \in conflicts[d] :
            cmd' = [cmd EXCEPT ![d] = [NoCmd EXCEPT
               !.kind = how, !.phase = IF how = "keep-local" THEN "export" ELSE "fetch",
               !.cur = r.session, !.target = r.session, !.about = r]]
    BY <1>3 DEF BeginResolve
  <2> QED BY <1>0, <2>1 DEF DeviceTypes, NoCmd
<1>4. CASE (\E s \in Sessions : Edit(d, s)) \/ CallStep(d)
  BY <1>4 DEF Edit, CallStep, deviceVars
<1>5. ASSUME CommandFails(d) \/ Crash(d) \/ Progress(d), ~CallStep(d) PROVE FALSE
  <2>1. cmd[d].phase = "-"
    BY <1>0 DEF Shaped, NoCmd
  <2>2. cmd[d].kind \notin Pushes \cup Pulls \cup Resolutions
    BY DEF Pushes, Pulls, Resolutions
  <2> QED BY <1>5, <2>1, <2>2 DEF CommandFails, Crash, Progress, Push, PushFetch, PushSkip, PushHash,
         PushExport, PushUploaded, PushFailed, PushRefused, PushRecord, SaveState, Pull, PullFetch,
         PullSkip, PullDiverged, PullSelect, PullRestored, Restore, RestoreSkipped, RestorePrepare,
         RestoreConflicts, RestoreBackup, RestoreVerify, RestoreRename, Resolve, KeepLocalExport,
         KeepLocalFetch, KeepLocalPublished, KeepLocalFailed, KeepRemoteFetch, ResolveRecord,
         ResolveAudit, ResolveRemove, At, Restores, Resolutions
<1>6. CASE (\E kind \in Pushes : BeginPush(d, kind)) \/ (\E kind \in Pulls : BeginPull(d, kind))
           \/ BeginResolve(d)
  <2>1. UNCHANGED <<engineVars, local, state, conflicts, resolved, backups, edits>>
    BY <1>6 DEF BeginPush, BeginPull, BeginResolve
  <2> QED BY <1>1, <1>2, <1>3, <1>6, <2>1
<1> QED BY <1>4, <1>5, <1>6 DEF StepOf

LEMMA GenuineStays ==
  ASSUME Grows, Later, NEW d \in Devices, NEW r \in Divergences, Genuine(d, r)
  PROVE  Genuine(d, r)'
BY DEF Genuine, Later, Grows, Divergences

LEMMA RecordsStep ==
  ASSUME KeepInv, Grows, Later, NEW d \in Devices, StepOf(d)
  PROVE  Records(d)'
<1>0. /\ TypeOK /\ EngineInv /\ Named(d) /\ Shaped(d) /\ Reads(d) /\ Filled /\ Changed(d)
      /\ Records(d) /\ Found(d) /\ DeviceTypes /\ cmd[d].cur \in Sessions
      /\ cmd[d].about \in Divergences /\ cmd[d].todo \subseteq Sessions
  BY Parts DEF KeepInv, SafeInv, CommandsInv
<1>1. ASSUME NEW r, r \in conflicts'[d] PROVE Genuine(d, r)'
  <2>1. CASE r \in conflicts[d]
    <3>1. r \in Divergences /\ Genuine(d, r)
      BY <1>0, <2>1 DEF Records, DeviceTypes
    <3> QED BY <3>1, GenuineStays
  <2>2. ASSUME PushRecord(d), r.session = cmd[d].cur, r.local = cmd[d].hash,
               r.remote \in {RemoteHead(cmd[d].cur), 0}
        PROVE  Genuine(d, r)'
    <3>1. cmd[d].hash = local[d][cmd[d].cur] /\ local[d][cmd[d].cur] # {}
      BY <1>0, <2>2 DEF PushRecord, At, Reads, Changed
    <3>2. r.remote # 0 => InChain(r.session, r.remote)
      BY <1>0, <2>2, HeadInChain
    <3>3. r.remote # 0 => InChain(r.session, r.remote)'
      BY <1>0, <2>2, <3>2 DEF Grows
    <3>4. local[d][cmd[d].cur] \subseteq 1..edits'
      BY <1>0 DEF Filled, Later
    <3>5. local'[d][cmd[d].cur] # {}
      BY <1>0, <3>1 DEF Later
    <3> QED BY <2>2, <3>1, <3>3, <3>4, <3>5 DEF Genuine
  <2>3. ASSUME At(d, Pulls, "next"), r.session \in cmd[d].todo, Diverged(d, r.session),
               r.local = local[d][r.session], r.remote = cmd[d].man[r.session]
        PROVE  Genuine(d, r)'
    <3>1. r.session \in Sessions /\ local[d][r.session] # {}
      BY <1>0, <2>3 DEF Diverged, Guarded, Found, At
    <3>2. r.remote # 0 => InChain(r.session, r.remote)'
      BY <1>0, <2>3, <3>1 DEF Named, Grows
    <3>3. local[d][r.session] \subseteq 1..edits'
      BY <1>0, <3>1 DEF Filled, Later
    <3>4. local'[d][r.session] # {}
      BY <1>0, <3>1 DEF Later
    <3> QED BY <2>3, <3>2, <3>3, <3>4 DEF Genuine
  <2> QED BY <1>0, <1>1, <2>1, <2>2, <2>3, NewRecords
<1>2. ASSUME NEW r \in Divergences, NEW how \in Resolutions, <<r, how>> \in resolved'[d]
      PROVE  Genuine(d, r)'
  <2>1. Genuine(d, r)
    <3>1. CASE <<r, how>> \in resolved[d]
      BY <1>0, <3>1 DEF Records
    <3>2. CASE <<r, how>> \notin resolved[d]
      <4>1. ResolveAudit(d) /\ r = cmd[d].about
        BY <1>0, <1>2, <3>2, NewRecords
      <4> QED BY <1>0, <4>1 DEF Records, ResolveAudit, At
    <3> QED BY <3>1, <3>2
  <2> QED BY <2>1, GenuineStays
<1>3. ASSUME cmd'[d].kind \in Resolutions PROVE Genuine(d, cmd[d].about)'
  <2>1. cmd'[d].about \in Divergences /\ Genuine(d, cmd'[d].about)
    <3>1. CASE cmd[d].kind = "none"
      <4>1. CASE cmd'[d].about \in conflicts[d]
        BY <1>0, <4>1 DEF Records, DeviceTypes
      <4> QED BY <1>0, <1>3, <3>1, <4>1, FromIdle, PushKind, PullKind, ResolveKind
    <3>2. CASE cmd'[d] = NoCmd
      <4>1. cmd'[d].kind = "none"
        BY <3>2 DEF NoCmd
      <4> QED BY <1>3, <4>1, ResolveKind
    <3>3. CASE cmd'[d].kind = cmd[d].kind /\ cmd'[d].about = cmd[d].about
      BY <1>0, <1>3, <3>3 DEF Records
    <3> QED BY <1>0, <3>1, <3>2, <3>3, SameCommand
  <2>2. PICK r \in Divergences : r = cmd'[d].about /\ Genuine(d, r)
    BY <2>1
  <2>3. Genuine(d, r)'
    BY <2>2, GenuineStays
  <2> QED BY <2>2, <2>3 DEF Genuine
<1> QED BY <1>1, <1>2, <1>3 DEF Records, Genuine

(* What a command that goes on may do.                                     *)
LEMMA ByKind ==
  ASSUME TypeOK, ~MidEdits, NEW d \in Devices, Shaped(d), StepOf(d), cmd[d].kind # "none",
         cmd'[d] # NoCmd
  PROVE  /\ cmd[d].kind \in Pushes => Push(d) \/ CallStep(d)
         /\ cmd[d].kind \in Pulls => Pull(d) \/ Restore(d)
         /\ cmd[d].kind \in Resolutions => CallStep(d) \/ Restore(d) \/ Resolve(d)
<1>0. cmd \in [Devices -> Cmds]
  BY DEF TypeOK
<1>1. ~End(d)
  BY <1>0 DEF End
<1>2. Progress(d) /\ ~SaveState(d)
  BY <1>1 DEF StepOf, Edit, BeginPush, BeginPull, BeginResolve, Start, CommandFails, Crash, GiveUp,
     SaveState
<1>3. CallStep(d) => cmd[d].kind \notin Pulls
  <2>1. CallStep(d) => call[d].pc # "idle"
    BY DEF CallStep, Step, Misfortune, LoadParent, PutSnapshot, PutRefused, LoadManifest,
       SaveManifest, LoadFails, PutFails, SaveFails, SaveResent
  <2>2. CallStep(d) => cmd[d].phase = "call"
    BY <2>1 DEF TypeOK
  <2> QED BY <2>2, PullKind DEF Shaped
<1>4. Push(d) => cmd[d].kind \in Pushes
  BY DEF Push, PushFetch, PushSkip, PushHash, PushExport, PushUploaded, PushFailed, PushRefused,
     PushRecord, At
<1>5. Pull(d) => cmd[d].kind \in Pulls
  BY DEF Pull, PullFetch, PullSkip, PullDiverged, PullSelect, PullRestored, At
<1>6. Restore(d) => cmd[d].kind \in Pulls \/ cmd[d].kind \in {"keep-remote", "keep-both"}
  BY DEF Restore, RestoreSkipped, RestorePrepare, RestoreConflicts, RestoreBackup, RestoreVerify,
     RestoreRename, At, Restores
<1>7. Resolve(d) => cmd[d].kind \in Resolutions
  BY DEF Resolve, KeepLocalExport, KeepLocalFetch, KeepLocalPublished, KeepLocalFailed,
     KeepRemoteFetch, ResolveRecord, ResolveAudit, ResolveRemove, At, Resolutions
<1>8. cmd[d].kind \in Pushes => ~Pull(d) /\ ~Restore(d) /\ ~Resolve(d)
  BY <1>5, <1>6, <1>7, PushKind
<1>9. cmd[d].kind \in Pulls => ~Push(d) /\ ~Resolve(d) /\ ~CallStep(d)
  BY <1>3, <1>4, <1>7, PullKind
<1>10. cmd[d].kind \in Resolutions => ~Push(d) /\ ~Pull(d)
  BY <1>4, <1>5, ResolveKind
<1> QED BY <1>2, <1>8, <1>9, <1>10 DEF Progress

LEMMA ChangedStep ==
  ASSUME KeepInv, ~MidEdits, Later, NEW d \in Devices, StepOf(d)
  PROVE  Changed(d)'
<1>0. /\ TypeOK /\ Shaped(d) /\ Changed(d) /\ DeviceTypes /\ cmd \in [Devices -> Cmds]
      /\ cmd[d] \in Cmds /\ cmd[d].cur \in Sessions /\ cmd[d].todo \subseteq Sessions
  BY Parts DEF KeepInv, SafeInv, CommandsInv, TypeOK
<1>1. SUFFICES ASSUME cmd'[d].kind \in Pushes PROVE Changed(d)'
  BY DEF Changed
<1>2. CASE cmd[d].kind = "none"
  <2>1. /\ cmd'[d].phase = "fetch" /\ cmd'[d].todo \subseteq Present(d)
    BY <1>0, <1>1, <1>2, FromIdle, PushKind, PullKind, ResolveKind
  <2> QED BY <1>0, <2>1 DEF Changed, Later, Present
<1>3. CASE cmd[d].kind # "none"
  <2>1. cmd'[d] # NoCmd
    BY <1>1, PushKind DEF NoCmd
  <2>2. cmd[d].kind = cmd'[d].kind /\ (cmd'[d].todo \subseteq cmd[d].todo \/ PullFetch(d))
    BY <1>0, <1>3, <2>1, SameCommand
  <2>3. (Push(d) \/ CallStep(d)) /\ ~End(d)
    BY <1>0, <1>1, <1>3, <2>1, <2>2, ByKind DEF End
  <2>4. local' = local
    BY <2>3 DEF CallStep, deviceVars, Push, PushFetch, PushSkip, PushHash, PushExport, PushUploaded,
       PushFailed, PushRefused, PushRecord
  <2>5. \A s \in cmd'[d].todo : local'[d][s] # {}
    <3>1. ~PullFetch(d)
      BY <1>1, <2>2, PushKind DEF PullFetch, At
    <3> QED BY <1>0, <1>1, <2>2, <2>4, <3>1 DEF Changed
  <2>6. CASE PushHash(d)
    <3>1. PICK s \in cmd[d].todo :
              /\ ~Unchanged(d, s)
              /\ cmd' = [cmd EXCEPT ![d].phase = "export", ![d].cur = s, ![d].hash = local[d][s]]
      BY <2>6 DEF PushHash
    <3>2. /\ cmd'[d].cur = s /\ cmd'[d].hash = local[d][s] /\ cmd'[d].mem = cmd[d].mem
          /\ cmd'[d].man = cmd[d].man
      BY <1>0, <3>1 DEF Cmds
    <3>3. local[d][s] # {}
      BY <1>0, <1>1, <2>2, <3>1 DEF Changed
    <3> QED BY <2>4, <2>5, <3>1, <3>2, <3>3 DEF Changed, Unchanged
  <2>7. CASE PushExport(d) \/ PushRefused(d) \/ CallStep(d)
    <3>1. /\ cmd'[d].cur = cmd[d].cur /\ cmd'[d].hash = cmd[d].hash /\ cmd'[d].mem = cmd[d].mem
          /\ cmd'[d].man = cmd[d].man
      BY <1>0, <2>7 DEF PushExport, PushRefused, CallStep, deviceVars, Cmds
    <3>2. cmd[d].phase \in {"export", "call", "record"}
      <4>1. CallStep(d) => call[d].pc # "idle"
        BY DEF CallStep, Step, Misfortune, LoadParent, PutSnapshot, PutRefused, LoadManifest,
           SaveManifest, LoadFails, PutFails, SaveFails, SaveResent
      <4> QED BY <1>0, <2>7, <4>1 DEF PushExport, PushRefused, At, TypeOK
    <3> QED BY <1>0, <1>1, <2>2, <2>4, <2>5, <3>1, <3>2 DEF Changed
  <2>8. CASE PushFetch(d) \/ PushSkip(d) \/ PushUploaded(d) \/ PushFailed(d) \/ PushRecord(d)
    <3>1. cmd'[d].phase = "next"
      <4>1. CASE \E s, m : NextSession(d, s, m)
        BY <1>0, <4>1 DEF NextSession, Cmds
      <4>2. CASE PushFetch(d)
        BY <1>0, <2>3, <4>2 DEF PushFetch, Cmds
      <4> QED BY <2>3, <2>8, <4>1, <4>2 DEF PushSkip, PushUploaded, PushFailed, PushRecord,
             AfterConflict
    <3> QED BY <2>5, <3>1 DEF Changed
  <2> QED BY <2>3, <2>6, <2>7, <2>8 DEF Push
<1> QED BY <1>2, <1>3

LEMMA FoundStep ==
  ASSUME KeepInv, ~MidEdits, Later, NEW d \in Devices, StepOf(d)
  PROVE  Found(d)'
<1>0. /\ TypeOK /\ Shaped(d) /\ Found(d) /\ DeviceTypes /\ cmd \in [Devices -> Cmds]
      /\ cmd[d] \in Cmds /\ cmd[d].cur \in Sessions /\ cmd[d].target \in Sessions
      /\ cmd[d].here \subseteq Sessions
  BY Parts DEF KeepInv, SafeInv, CommandsInv, TypeOK, Cmds
<1>1. SUFFICES ASSUME cmd'[d].kind \in Pulls PROVE Found(d)'
  BY DEF Found
<1>2. CASE cmd[d].kind = "none"
  <2>1. cmd'[d].phase = "fetch"
    BY <1>0, <1>1, <1>2, FromIdle, PushKind, PullKind, ResolveKind
  <2> QED BY <2>1 DEF Found
<1>3. CASE cmd[d].kind # "none"
  <2>1. cmd'[d] # NoCmd
    BY <1>1, PullKind DEF NoCmd
  <2>2. cmd[d].kind = cmd'[d].kind /\ (cmd'[d].here = cmd[d].here \/ PullFetch(d))
    BY <1>0, <1>3, <2>1, SameCommand
  <2>3. (Pull(d) \/ Restore(d)) /\ ~End(d)
    BY <1>0, <1>1, <1>3, <2>1, <2>2, ByKind DEF End
  <2>4. CASE PullFetch(d)
    <3>1. cmd'[d].phase = "next" /\ cmd'[d].here = Present(d)
      <4>1. PICK busy, chosen : cmd' = [cmd EXCEPT ![d].phase = "next", ![d].todo = chosen,
                ![d].man = manifest.heads, ![d].here = Present(d), ![d].forks = busy]
        BY <2>3, <2>4 DEF PullFetch
      <4> QED BY <1>0, <4>1 DEF Cmds
    <3> QED BY <3>1 DEF Found, Present, Later
  <2>5. CASE ~PullFetch(d)
    <3>1. cmd[d].phase # "fetch"
      BY <2>3, <2>5 DEF Pull, PullSkip, PullDiverged, PullSelect, PullRestored, Restore,
         RestoreSkipped, RestorePrepare, RestoreConflicts, RestoreBackup, RestoreVerify,
         RestoreRename, At
    <3>2. \A s \in cmd'[d].here : local'[d][s] # {}
      BY <1>0, <1>1, <2>2, <2>5, <3>1 DEF Found, Later
    <3>3. CASE RestorePrepare(d) \/ RestoreBackup(d) \/ RestoreVerify(d)
      <4>1. /\ cmd'[d].cur = cmd[d].cur /\ cmd'[d].target = cmd[d].target /\ local' = local
            /\ cmd[d].phase \in {"backup", "verify"} \/ ~ForkExists(d)
        BY <1>0, <3>3 DEF RestorePrepare, RestoreBackup, RestoreVerify, At, Cmds
      <4>2. cmd[d].target # cmd[d].cur => local[d][cmd[d].target] = {}
        BY <1>0, <1>1, <2>2, <4>1 DEF Found, ForkExists, Cur
      <4> QED BY <3>2, <4>1, <4>2 DEF Found
    <3>4. CASE ~(RestorePrepare(d) \/ RestoreBackup(d) \/ RestoreVerify(d))
      <4>1. cmd'[d].phase \in {"next", "restore", "hash"}
        <5>1. CASE \E s, m : NextSession(d, s, m)
          BY <1>0, <5>1 DEF NextSession, Cmds
        <5>2. CASE PullSelect(d)
          <6>1. PICK s, t : cmd' = [cmd EXCEPT ![d].phase = "restore", ![d].cur = s, ![d].target = t]
            BY <5>2 DEF PullSelect
          <6> QED BY <1>0, <6>1 DEF Cmds
        <5>3. CASE RestoreRename(d)
          BY <1>0, <5>3 DEF RestoreRename, Cmds
        <5> QED BY <2>3, <2>5, <3>4, <5>1, <5>2, <5>3 DEF Pull, PullSkip, PullDiverged, PullRestored,
               AfterConflict, Restore, RestoreSkipped, RestoreConflicts, GiveUp
      <4> QED BY <3>2, <4>1 DEF Found
    <3> QED BY <3>3, <3>4
  <2> QED BY <2>4, <2>5
<1> QED BY <1>2, <1>3

(* A head that a genuine divergence is from is the head after a step only  *)
(* if it was the head before.                                              *)
LEMMA HeadBefore ==
  ASSUME EngineInv, Grows, NEW d \in Devices, NEW r \in Divergences, Genuine(d, r), r.remote # 0
  PROVE  /\ RemoteHead(r.session)' = r.remote => RemoteHead(r.session) = r.remote
         /\ Body(r.remote)' = Body(r.remote)
         /\ r.session \in Sessions
<1>1. r.session \in Sessions /\ InChain(r.session, r.remote)
  BY DEF Divergences, Genuine
<1> QED BY <1>1, HeadKept DEF Body

LEMMA SettledGenuine ==
  ASSUME NEW d \in Devices, Records(d), NEW r \in Divergences,
         Settled(d, r) \/ (cmd[d].kind \in Resolutions /\ r = cmd[d].about)
  PROVE  Genuine(d, r)
BY DEF Records, Settled, Resolutions

(* What is settled after a step was settled before, unless the step says so.*)
LEMMA SettledBefore ==
  ASSUME TypeOK, NEW d \in Devices, StepOf(d), NEW r, Settled(d, r)'
  PROVE  /\ r.remote # 0 /\ CopyOf("remote", r.session) = {}
         /\ \/ Settled(d, r)
            \/ ResolveAudit(d) /\ r = cmd[d].about /\ cmd[d].kind \in {"keep-local", "keep-remote"}
<1>1. PICK how \in {"keep-local", "keep-remote"} : <<r, how>> \in resolved'[d]
  BY DEF Settled
<1>2. r.remote # 0 /\ CopyOf("remote", r.session) = {}
  BY DEF Settled, CopyOf
<1>3. CASE <<r, how>> \in resolved[d]
  BY <1>2, <1>3 DEF Settled
<1>4. CASE <<r, how>> \notin resolved[d]
  <2>1. ResolveAudit(d) /\ <<r, how>> = <<cmd[d].about, cmd[d].kind>>
    BY <1>1, <1>4, NewRecords
  <2> QED BY <1>2, <2>1
<1> QED BY <1>3, <1>4

LEMMA BehindStep ==
  ASSUME KeepInv, ~MidEdits, SafeInv', Grows, NEW d \in Devices, StepOf(d)
  PROVE  Behind(d)'
<1>0. /\ TypeOK /\ Shaped(d) /\ Behind(d) /\ Records(d) /\ DeviceTypes /\ EngineInv /\ TypeOK'
      /\ Shaped(d)' /\ cmd \in [Devices -> Cmds] /\ cmd[d] \in Cmds /\ cmd[d].cur \in Sessions
      /\ call \in [Devices -> Calls]
  BY Parts DEF KeepInv, SafeInv, CommandsInv, TypeOK, EngineTypeOK
<1>1. SUFFICES ASSUME \/ call'[d].pc = "ok"
                      \/ cmd'[d].kind = "keep-local" /\ cmd'[d].phase \in {"hash", "audit"},
                      NEW r \in Divergences,
                      Settled(d, r)' \/ (cmd'[d].kind = "keep-local" /\ r = cmd'[d].about),
                      r.session = cmd'[d].cur, r.remote # 0
               PROVE  RemoteHead(r.session)' # r.remote
  BY DEF Behind
<1>2. cmd'[d].kind # "none" /\ cmd'[d].phase \in {"call", "hash", "audit"} /\ cmd'[d] # NoCmd
  <2>1. cmd'[d].phase \in {"call", "hash", "audit"}
    BY <1>0, <1>1 DEF TypeOK
  <2> QED BY <1>0, <2>1 DEF Shaped, NoCmd
<1>3. cmd[d].kind # "none"
  <2>1. cmd[d].kind = "none" => cmd' = cmd
    BY <1>0, <1>2, FromIdle
  <2> QED BY <1>0, <1>2, <2>1 DEF Shaped
<1>4. cmd'[d].kind = cmd[d].kind /\ cmd'[d].about = cmd[d].about
  BY <1>0, <1>2, <1>3, SameCommand
<1>5. ASSUME call[d].pc # "ok", call'[d].pc = "ok" PROVE RemoteHead(r.session)' # r.remote
  <2>1. SaveManifest(d) /\ CallStep(d)
    <3>2. CallStep(d)
      <4>1. ~Abandon(d) /\ ~Return(d) /\ ~(\E s, b, n : Begin(d, s, b, n))
        <5>1. call' # [call EXCEPT ![d] = NoCall]
          BY <1>0, <1>5, Forgotten
        <5>2. ASSUME NEW s, NEW b, NEW n, Begin(d, s, b, n) PROVE FALSE
          <6>1. call'[d] = [NoCall EXCEPT !.pc = "load", !.session = s, !.body = b, !.base = n]
            BY <1>0, <5>2 DEF Begin
          <6> QED BY <1>5, <6>1 DEF NoCall
        <5> QED BY <5>1, <5>2 DEF Abandon, Return
      <4>2. call' # call
        BY <1>5
      <4> QED BY <4>1, <4>2 DEF StepOf, Edit, BeginPush, BeginPull, BeginResolve, Progress,
         CommandFails, Crash, OtherFault, SaveState, Push, PushFetch, PushSkip, PushHash,
         PushExport, PushUploaded, PushFailed, PushRefused, PushRecord, Pull, PullFetch, PullSkip,
         PullDiverged, PullSelect, PullRestored, Restore, RestoreSkipped, RestorePrepare,
         RestoreConflicts, RestoreBackup, RestoreVerify, RestoreRename, Resolve, KeepLocalExport,
         KeepLocalFetch, KeepLocalPublished, KeepLocalFailed, KeepRemoteFetch, ResolveRecord,
         ResolveAudit, ResolveRemove, engineVars
    <3>3. \A ph : call' = [call EXCEPT ![d].pc = ph] => call'[d].pc = ph
      BY <1>0 DEF Calls
    <3>4. ~LoadFails(d) /\ ~PutFails(d) /\ ~SaveFails(d) /\ ~PutRefused(d)
      BY <1>5, <3>3 DEF LoadFails, PutFails, SaveFails, PutRefused, Failed
    <3>5. ~LoadParent(d) /\ ~PutSnapshot(d) /\ ~LoadManifest(d)
      BY <1>0, <1>5 DEF LoadParent, PutSnapshot, LoadManifest, Verdict, Calls
    <3>6. ~SaveResent(d)
      BY <1>0, <1>5 DEF SaveResent, Retried, Calls
    <3> QED BY <3>2, <3>4, <3>5, <3>6 DEF CallStep, Step, Misfortune
  <2>2. Accepted(d) /\ Install(d) /\ call[d].pc = "save" /\ UNCHANGED snapshots
    BY <1>0, <1>5, <2>1 DEF SaveManifest, Retried, Calls
  <2>3. cmd' = cmd /\ resolved' = resolved
    BY <2>1 DEF CallStep, deviceVars
  <2>4. Settled(d, r) \/ (cmd[d].kind \in Resolutions /\ r = cmd[d].about)
    BY <1>1, <2>3 DEF Settled, CopyOf, Resolutions
  <2>5. InChain(r.session, r.remote) /\ r.session \in Sessions
    BY <1>0, <1>1, <2>4, SettledGenuine DEF Genuine, Divergences
  <2>6. call[d].session = r.session
    BY <1>0, <1>1, <2>2, <2>3 DEF Shaped
  <2>7. PICK s, n : s = call[d].session /\ n = call[d].id
    OBVIOUS
  <2>8. RemoteHead(s)' = n /\ RemoteHead(s) < n /\ RemoteHead(s) \in Nat
    BY <1>0, <2>2, <2>7, AcceptedWrite
  <2>9. RemoteHead(s)' # RemoteHead(s)
    BY <2>8
  <2> QED BY <2>5, <2>6, <2>7, <2>9 DEF Grows
<1>6. ASSUME RemoteHead(r.session) # r.remote,
             Settled(d, r) \/ (cmd[d].kind \in Resolutions /\ r = cmd[d].about)
      PROVE  RemoteHead(r.session)' # r.remote
  BY <1>0, <1>1, <1>6, SettledGenuine, HeadBefore
<1>7. ASSUME cmd[d].kind = "keep-local",
             call[d].pc = "ok" \/ cmd[d].phase \in {"hash", "audit"},
             cmd'[d].cur = cmd[d].cur, ~ResolveAudit(d)
      PROVE  RemoteHead(r.session)' # r.remote
  <2>1. Settled(d, r) \/ r = cmd[d].about
    BY <1>0, <1>1, <1>4, <1>7, SettledBefore
  <2>2. RemoteHead(r.session) # r.remote
    BY <1>0, <1>1, <1>7, <2>1 DEF Behind
  <2> QED BY <1>6, <1>7, <2>1, <2>2 DEF Resolutions
<1>8. CASE call[d].pc = "ok" /\ call'[d].pc = "ok"
  <2>1. cmd[d].phase = "call" /\ call' [d] # NoCall
    BY <1>0, <1>8 DEF TypeOK, NoCall
  <2>2. FALSE
    <3>1. ~CallStep(d) /\ ~Abandon(d) /\ ~Return(d) /\ ~(\E s, b, n : Begin(d, s, b, n))
      BY <1>0, <1>8 DEF CallStep, Step, Misfortune, LoadParent, PutSnapshot, PutRefused,
         LoadManifest, SaveManifest, LoadFails, PutFails, SaveFails, SaveResent, Abandon, Return,
         Begin, NoCall
    <3> QED BY <1>0, <1>3, <2>1, <3>1
         DEF StepOf, Edit, BeginPush, BeginPull, BeginResolve, Start, Progress, CommandFails, Crash,
         SaveState, Push, PushFetch, PushSkip, PushHash, PushExport, PushUploaded, PushFailed,
         PushRefused, PushRecord, Pull, PullFetch, PullSkip, PullDiverged, PullSelect,
         PullRestored, Restore, RestoreSkipped, RestorePrepare, RestoreConflicts, RestoreBackup,
         RestoreVerify, RestoreRename, Resolve, KeepLocalExport, KeepLocalFetch,
         KeepLocalPublished, KeepLocalFailed, KeepRemoteFetch, ResolveRecord, ResolveAudit,
         ResolveRemove, At
  <2> QED BY <2>2
<1>9. ASSUME cmd'[d].kind = "keep-local", cmd'[d].phase \in {"hash", "audit"}
      PROVE  RemoteHead(r.session)' # r.remote
  <2>0. cmd[d].kind = "keep-local" /\ cmd[d].kind \in Resolutions /\ ~Restore(d)
    <3>1. cmd[d].kind = "keep-local"
      BY <1>4, <1>9
    <3> QED BY <3>1 DEF Resolutions, Restore, RestoreSkipped, RestorePrepare, RestoreConflicts,
           RestoreBackup, RestoreVerify, RestoreRename, At, Restores, Pulls
  <2>1. CallStep(d) \/ Resolve(d)
    BY <1>0, <1>2, <1>3, <2>0, ByKind
  <2>2. ~CallStep(d)
    <3>1. CallStep(d) => call[d].pc # "idle" /\ cmd' = cmd
      BY DEF CallStep, deviceVars, Step, Misfortune, LoadParent, PutSnapshot, PutRefused, LoadManifest,
         SaveManifest, LoadFails, PutFails, SaveFails, SaveResent
    <3> QED BY <1>0, <1>9, <3>1 DEF TypeOK
  <2>3. CASE KeepLocalPublished(d)
    <3>1. cmd' = [cmd EXCEPT ![d].phase = "hash", ![d].man[cmd[d].cur] = call[d].id]
      BY <2>3 DEF KeepLocalPublished, Cur
    <3>2. cmd'[d] = [cmd[d] EXCEPT !.phase = "hash", !.man[cmd[d].cur] = call[d].id]
      BY <1>0, <3>1 DEF Cmds
    <3>3. cmd'[d].cur = cmd[d].cur /\ call[d].pc = "ok"
      BY <1>0, <2>3, <3>2 DEF Cmds, KeepLocalPublished
    <3>4. ~ResolveAudit(d)
      BY <2>3 DEF KeepLocalPublished, ResolveAudit, At
    <3> QED BY <1>7, <2>0, <3>3, <3>4
  <2>4. CASE ResolveRecord(d)
    <3>1. cmd'[d].cur = cmd[d].cur /\ cmd[d].phase = "hash" /\ ~ResolveAudit(d)
      BY <1>0, <2>4 DEF ResolveRecord, ResolveAudit, At, Cmds
    <3> QED BY <1>7, <2>0, <3>1
  <2>5. CASE KeepLocalExport(d) \/ KeepLocalFetch(d) \/ ResolveAudit(d)
    BY <1>0, <1>9, <2>5 DEF KeepLocalExport, KeepLocalFetch, ResolveAudit, Cmds
  <2>6. ~KeepLocalFailed(d) /\ ~ResolveRemove(d) /\ ~KeepRemoteFetch(d)
    <3>1. ~End(d)
      BY <1>0, <1>2 DEF End
    <3> QED BY <2>0, <3>1 DEF KeepLocalFailed, ResolveRemove, KeepRemoteFetch, At
  <2> QED BY <2>1, <2>2, <2>3, <2>4, <2>5, <2>6 DEF Resolve
<1> QED BY <1>1, <1>5, <1>8, <1>9

LEMMA TakenOverStep ==
  ASSUME KeepInv, ~MidEdits, SafeInv', Grows, NEW d \in Devices, StepOf(d)
  PROVE  TakenOver(d)'
<1>0. /\ TypeOK /\ Shaped(d) /\ TakenOver(d) /\ Records(d) /\ DeviceTypes /\ EngineInv /\ Reads(d)
      /\ Shaped(d)' /\ cmd \in [Devices -> Cmds] /\ cmd[d] \in Cmds /\ cmd[d].cur \in Sessions
      /\ cmd[d].about \in Divergences /\ cmd[d].target \in Sessions /\ Named(d)
  BY Parts DEF KeepInv, SafeInv, CommandsInv, TypeOK
<1>1. SUFFICES ASSUME cmd'[d].kind = "keep-remote", cmd'[d].phase \in Restoring \cup {"audit"}
               PROVE  TakenOver(d)'
  BY DEF TakenOver
<1>2. cmd'[d].kind # "none" /\ cmd'[d] # NoCmd
  BY <1>1 DEF NoCmd
<1>3. cmd[d].kind # "none"
  <2>1. CASE cmd[d].kind = "none"
    <3>1. cmd' = cmd \/ cmd'[d].phase \in {"fetch", "export"}
      BY <1>0, <2>1, FromIdle
    <3> QED BY <1>1, <2>1, <3>1 DEF Restoring
  <2> QED BY <2>1
<1>4. cmd[d].kind = "keep-remote" /\ cmd'[d].about = cmd[d].about /\ cmd[d].kind \in Resolutions
  BY <1>0, <1>1, <1>2, <1>3, SameCommand DEF Resolutions
<1>5. cmd[d].about.session = cmd[d].cur /\ cmd[d].target = cmd[d].cur
  BY <1>0, <1>4 DEF Shaped
<1>6. ~End(d) /\ ~CallStep(d)
  <2>1. CallStep(d) => call[d].pc # "idle" /\ cmd' = cmd
    BY DEF CallStep, deviceVars, Step, Misfortune, LoadParent, PutSnapshot, PutRefused, LoadManifest,
       SaveManifest, LoadFails, PutFails, SaveFails, SaveResent
  <2> QED BY <1>0, <1>1, <1>2, <2>1 DEF TypeOK, End, Restoring
<1>7. Restore(d) \/ Resolve(d)
  BY <1>0, <1>2, <1>3, <1>4, <1>6, ByKind
<1>8. CASE KeepRemoteFetch(d)
  <2>1. PICK t : cmd' = [cmd EXCEPT ![d].phase = "restore", ![d].man = manifest.heads, ![d].target = t]
    BY <1>6, <1>8 DEF KeepRemoteFetch
  <2>2. cmd'[d].cur = cmd[d].cur /\ cmd'[d].man = manifest.heads /\ cmd'[d].phase = "restore"
    BY <1>0, <2>1 DEF Cmds
  <2>3. manifest' = manifest
    BY <1>8 DEF KeepRemoteFetch, engineVars
  <2> QED BY <1>1, <2>2, <2>3 DEF TakenOver, RemoteHead
<1>9. CASE RestorePrepare(d) \/ RestoreBackup(d) \/ RestoreVerify(d) \/ RestoreRename(d)
  <2>1. /\ cmd'[d].cur = cmd[d].cur /\ cmd'[d].man = cmd[d].man /\ cmd[d].phase \in Restoring
        /\ cmd'[d].phase # "audit" /\ manifest' = manifest
    BY <1>0, <1>9 DEF RestorePrepare, RestoreBackup, RestoreVerify, RestoreRename, At, Cmds,
       Restoring, engineVars
  <2> QED BY <1>0, <1>4, <2>1 DEF TakenOver, RemoteHead
<1>10. CASE ResolveRecord(d)
  <2>1. /\ cmd'[d].cur = cmd[d].cur /\ cmd'[d].man = cmd[d].man /\ cmd[d].phase = "hash"
        /\ cmd[d].phase \in Restoring /\ manifest' = manifest /\ local' = local
        /\ snapshots' = snapshots
    BY <1>0, <1>10 DEF ResolveRecord, At, Cmds, Restoring, engineVars
  <2>2. state'[d][cmd[d].cur] = [local |-> local[d][cmd[d].cur], remote |-> cmd[d].man[cmd[d].cur]]
    BY <1>0, <1>5, <1>10 DEF ResolveRecord, updateSessionState, Cur, DeviceTypes, States
  <2>3. local[d][cmd[d].cur] = Body(cmd[d].man[cmd[d].cur])
    BY <1>0, <1>5, <2>1 DEF Reads
  <2> QED BY <1>0, <1>4, <2>1, <2>2, <2>3 DEF TakenOver, RemoteHead, Pair, Body
<1>11. CASE RestoreSkipped(d) \/ RestoreConflicts(d)
  <2>1. cmd[d].kind \notin Pulls
    BY <1>4, ResolveKind
  <2> QED BY <1>6, <1>11, <2>1 DEF RestoreSkipped, ForkExists, RestoreConflicts, GiveUp
<1>12. CASE ResolveAudit(d)
  BY <1>0, <1>1, <1>12 DEF ResolveAudit, Cmds, Restoring
<1>13. CASE KeepLocalExport(d) \/ KeepLocalFetch(d) \/ KeepLocalPublished(d) \/ KeepLocalFailed(d)
            \/ ResolveRemove(d)
  BY <1>4, <1>6, <1>13 DEF KeepLocalExport, KeepLocalFetch, KeepLocalPublished, KeepLocalFailed,
     ResolveRemove, At
<1> QED BY <1>7, <1>8, <1>9, <1>10, <1>11, <1>12, <1>13 DEF Restore, Resolve

(* What a device that holds a settled head fetched is this head.           *)
LEMMA HeldIsFetched ==
  ASSUME KeepInv, NEW d \in Devices, NEW r \in Divergences, Settled(d, r), AtHead(d, r), Fetched(d)
  PROVE  cmd[d].man[r.session] = r.remote
<1>1. r.session \in Sessions /\ CopyOf("remote", r.session) = {} /\ r.remote # 0
      /\ Holds(d) /\ Newest(d)
  BY DEF KeepInv, RememberInv, Settled, Divergences
<1>2. state[d][r.session].remote = r.remote
  <2>1. Held(d, r)
    BY <1>1 DEF Holds
  <2>2. PICK n : n = r.remote /\ state[d][r.session] = [local |-> Body(n), remote |-> n]
    BY <2>1 DEF Held, Pair
  <2> QED BY <2>2
<1>3. CASE RemoteHead(r.session) = r.remote
  BY <1>1, <1>2, <1>3 DEF Newest
<1> QED BY <1>3 DEF AtHead

(* What a step does to a device's session files and to its state.json.     *)
LEMMA FilesStep ==
  ASSUME TypeOK, NEW d \in Devices, StepOf(d)
  PROVE  /\ \/ local'[d] = local[d]
            \/ (\E s \in Sessions : Edit(d, s)) \/ RestoreRename(d)
         /\ \/ state'[d] = state[d] \/ ResolveRecord(d)
            \/ state'[d] = cmd[d].mem /\ cmd[d].kind \in Pushes \cup Pulls
<1>0. DeviceTypes
  BY Parts
<1>1. local'[d] = local[d] \/ (\E s \in Sessions : Edit(d, s)) \/ RestoreRename(d)
  BY DEF StepOf, Progress, Push, Pull, Restore, Resolve, CallStep, deviceVars, BeginPush, BeginPull,
     BeginResolve, PushFetch, PushSkip, PushHash, PushExport, PushUploaded, PushFailed, PushRefused,
     PushRecord, SaveState, PullFetch, PullSkip, PullDiverged, PullSelect, PullRestored,
     RestoreSkipped, RestorePrepare, RestoreConflicts, RestoreBackup, RestoreVerify,
     KeepLocalExport, KeepLocalFetch, KeepLocalPublished, KeepLocalFailed, KeepRemoteFetch,
     ResolveRecord, ResolveAudit, ResolveRemove, CommandFails, Crash
<1>2. CASE SaveState(d) \/ CommandFails(d) \/ RestoreConflicts(d)
  <2>1. \/ state' = state
        \/ state' = [state EXCEPT ![d] = cmd[d].mem] /\ cmd[d].kind \in Pushes \cup Pulls
    BY <1>2 DEF SaveState, At, CommandFails, RestoreConflicts, GiveUp
  <2> QED BY <1>0, <1>1, <2>1 DEF DeviceTypes
<1>3. CASE ~(SaveState(d) \/ CommandFails(d) \/ RestoreConflicts(d))
  <2>1. state'[d] = state[d] \/ ResolveRecord(d)
    BY <1>3 DEF StepOf, Edit, Progress, Push, Pull, Restore, Resolve, CallStep, deviceVars, BeginPush,
       BeginPull, BeginResolve, PushFetch, PushSkip, PushHash, PushExport, PushUploaded, PushFailed,
       PushRefused, PushRecord, PullFetch, PullSkip, PullDiverged, PullSelect, PullRestored,
       RestoreSkipped, RestorePrepare, RestoreBackup, RestoreVerify, RestoreRename,
       KeepLocalExport, KeepLocalFetch, KeepLocalPublished, KeepLocalFailed, KeepRemoteFetch,
       ResolveAudit, ResolveRemove, Crash
  <2> QED BY <1>1, <2>1
<1> QED BY <1>2, <1>3

(* What a step of a push or a pull does to its copy of state.json, and a   *)
(* pull to the manifest it goes by.                                        *)
LEMMA CopyStep ==
  ASSUME TypeOK, ~MidEdits, NEW d \in Devices, Shaped(d), StepOf(d), cmd'[d].kind \in Pushes \cup Pulls
  PROVE  /\ \/ cmd'[d].mem = cmd[d].mem /\ cmd[d].kind \in Pushes \cup Pulls
            \/ cmd'[d].mem = state[d]
            \/ /\ PushUploaded(d)
               /\ \A s \in Sessions : s # cmd[d].cur => cmd'[d].mem[s] = cmd[d].mem[s]
            \/ /\ PullRestored(d)
               /\ \A s \in Sessions :
                      \/ cmd'[d].mem[s] = cmd[d].mem[s]
                      \/ /\ s = cmd[d].cur /\ s = cmd[d].target
                         /\ cmd'[d].mem[s] = [local |-> local[d][s], remote |-> cmd[d].man[s]]
         /\ cmd[d].kind \in Pushes \cup Pulls => cmd'[d].kind = cmd[d].kind
         /\ cmd'[d].kind \in Pulls /\ cmd'[d].phase # "fetch" =>
                \/ PullFetch(d) /\ cmd'[d].man = manifest.heads
                \/ cmd[d].kind \in Pulls /\ cmd[d].phase # "fetch" /\ cmd'[d].man = cmd[d].man
<1>0. /\ DeviceTypes /\ cmd \in [Devices -> Cmds] /\ cmd[d] \in Cmds /\ cmd[d].cur \in Sessions
      /\ cmd[d].mem \in States /\ cmd[d].man \in [Sessions -> Ids]
  BY Parts DEF TypeOK
<1>1. CASE cmd[d].kind = "none"
  <2>1. cmd' # cmd /\ cmd'[d].kind \notin Resolutions
    BY <1>1, PushKind, PullKind
  <2>2. cmd'[d].phase = "fetch" /\ cmd'[d].mem = state[d]
    BY <1>1, <2>1, FromIdle
  <2> QED BY <1>1, <2>2, PushKind, PullKind
<1>2. CASE cmd[d].kind # "none"
  <2>1. cmd'[d] # NoCmd /\ ~End(d)
    <3>1. cmd'[d] # NoCmd
      BY PushKind, PullKind DEF NoCmd
    <3> QED BY <1>0, <3>1 DEF End
  <2>2. cmd'[d].kind = cmd[d].kind
    BY <1>2, <2>1, SameCommand
  <2>3. ASSUME NEW s, NEW m, NextSession(d, s, m)
        PROVE  cmd'[d].mem = m /\ cmd'[d].man = cmd[d].man
    BY <1>0, <2>3 DEF NextSession, Cmds
  <2>4. CASE cmd[d].kind \in Pushes
    <3>1. Push(d) \/ CallStep(d)
      BY <1>2, <2>1, <2>4, ByKind
    <3>2. cmd'[d].kind \notin Pulls
      BY <2>2, <2>4, PushKind
    <3>3. CASE PushUploaded(d)
      <4>1. PICK m : /\ NextSession(d, cmd[d].cur, m)
                     /\ m = [cmd[d].mem EXCEPT ![cmd[d].cur] =
                                [local |-> cmd[d].hash, remote |-> call[d].id]]
        BY <3>3 DEF PushUploaded, Cur
      <4>2. \A s \in Sessions : s # cmd[d].cur => m[s] = cmd[d].mem[s]
        BY <1>0, <4>1 DEF States
      <4>3. PICK n : n = m /\ NextSession(d, cmd[d].cur, n)
        BY <4>1
      <4>4. cmd'[d].mem = m
        BY <2>3, <4>3
      <4> QED BY <2>2, <3>2, <3>3, <2>4, <4>2, <4>4
    <3>4. CASE ~PushUploaded(d)
      <4>1. CASE PushSkip(d) \/ PushRecord(d)
        <5>1. PICK s : NextSession(d, s, cmd[d].mem)
          BY <2>1, <4>1 DEF PushSkip, PushRecord, AfterConflict
        <5> QED BY <2>2, <2>3, <2>4, <3>2, <5>1
      <4>2. CASE PushFetch(d)
        <5>1. cmd' = [cmd EXCEPT ![d].phase = "next", ![d].man = manifest.heads]
          BY <2>1, <4>2 DEF PushFetch
        <5>2. cmd'[d].mem = cmd[d].mem
          BY <1>0, <5>1 DEF Cmds
        <5> QED BY <2>2, <2>4, <3>2, <5>2
      <4>3. CASE PushHash(d) \/ PushExport(d) \/ PushRefused(d) \/ CallStep(d)
        <5>1. cmd'[d].mem = cmd[d].mem
          <6>1. ASSUME NEW s,
                       cmd' = [cmd EXCEPT ![d].phase = "export", ![d].cur = s, ![d].hash = local[d][s]]
                PROVE  cmd'[d].mem = cmd[d].mem
            <7>1. cmd'[d] = [cmd[d] EXCEPT !.phase = "export", !.cur = s, !.hash = local[d][s]]
              BY <1>0, <6>1, Zenon
            <7> QED BY <1>0, <7>1 DEF Cmds
          <6>2. CASE PushHash(d)
            BY <6>1, <6>2 DEF PushHash
          <6>3. CASE PushExport(d) \/ PushRefused(d)
            BY <1>0, <6>3 DEF PushExport, PushRefused, Cmds
          <6>4. CASE CallStep(d)
            BY <6>4 DEF CallStep, deviceVars
          <6> QED BY <4>3, <6>2, <6>3, <6>4
        <5> QED BY <2>2, <2>4, <3>2, <5>1
      <4> QED BY <2>1, <3>1, <3>4, <4>1, <4>2, <4>3 DEF Push, PushFailed
    <3> QED BY <3>3, <3>4
  <2>5. CASE cmd[d].kind \in Pulls
    <3>1. Pull(d) \/ Restore(d)
      BY <1>2, <2>1, <2>5, ByKind
    <3>2. CASE PullFetch(d)
      <4>1. PICK busy, chosen : cmd' = [cmd EXCEPT ![d].phase = "next", ![d].todo = chosen,
                ![d].man = manifest.heads, ![d].here = Present(d), ![d].forks = busy]
        BY <2>1, <3>2 DEF PullFetch
      <4>2. cmd'[d].man = manifest.heads /\ cmd'[d].mem = cmd[d].mem
        BY <1>0, <4>1 DEF Cmds
      <4> QED BY <2>2, <2>5, <3>2, <4>2
    <3>3. ~PullFetch(d) => cmd[d].phase # "fetch"
      BY <3>1 DEF Pull, PullSkip, PullDiverged, PullSelect, PullRestored, Restore,
         RestoreSkipped, RestorePrepare, RestoreConflicts, RestoreBackup, RestoreVerify,
         RestoreRename, At
    <3>4. CASE PullRestored(d)
      <4>1. PICK m : /\ NextSession(d, cmd[d].cur, m)
                     /\ m = IF cmd[d].target = cmd[d].cur
                              THEN [cmd[d].mem EXCEPT ![cmd[d].cur] =
                                       [local |-> local[d][cmd[d].cur], remote |-> cmd[d].man[cmd[d].cur]]]
                              ELSE cmd[d].mem
        BY <3>4 DEF PullRestored, Cur
      <4>2. \A s \in Sessions :
                \/ m[s] = cmd[d].mem[s]
                \/ /\ s = cmd[d].cur /\ s = cmd[d].target
                   /\ m[s] = [local |-> local[d][s], remote |-> cmd[d].man[s]]
        BY <1>0, <4>1 DEF States
      <4>3. ~PullFetch(d)
        BY <3>4 DEF PullRestored, PullFetch, At
      <4>4. PICK n : n = m /\ NextSession(d, cmd[d].cur, n)
        BY <4>1
      <4>5. cmd'[d].mem = m /\ cmd'[d].man = cmd[d].man
        BY <2>3, <4>4
      <4> QED BY <2>2, <2>5, <3>3, <3>4, <4>2, <4>3, <4>5
    <3>5. CASE ~PullFetch(d) /\ ~PullRestored(d)
      <4>1. cmd'[d].mem = cmd[d].mem /\ cmd'[d].man = cmd[d].man
        <5>1. CASE \E s : NextSession(d, s, cmd[d].mem)
          BY <2>3, <5>1
        <5>2. CASE PullSelect(d)
          <6>1. PICK s, t : cmd' = [cmd EXCEPT ![d].phase = "restore", ![d].cur = s, ![d].target = t]
            BY <5>2 DEF PullSelect
          <6> QED BY <1>0, <6>1 DEF Cmds
        <5>3. CASE RestorePrepare(d) \/ RestoreBackup(d) \/ RestoreVerify(d) \/ RestoreRename(d)
          BY <1>0, <5>3 DEF RestorePrepare, RestoreBackup, RestoreVerify, RestoreRename, Cmds
        <5> QED BY <2>1, <3>1, <3>5, <5>1, <5>2, <5>3 DEF Pull, PullSkip, PullDiverged,
               AfterConflict, Restore, RestoreSkipped, RestoreConflicts, GiveUp
      <4> QED BY <2>2, <2>5, <3>3, <3>5, <4>1
    <3> QED BY <3>2, <3>4, <3>5
  <2> QED BY <2>2, <2>4, <2>5
<1> QED BY <1>1, <1>2

LEMMA AtHeadBefore ==
  ASSUME KeepInv, ~MidEdits, Grows, NEW d \in Devices, StepOf(d), NEW r \in Divergences,
         Settled(d, r), AtHead(d, r)'
  PROVE  AtHead(d, r) /\ Held(d, r) /\ Body(r.remote)' = Body(r.remote) /\ Genuine(d, r)
<1>0. TypeOK /\ Shaped(d) /\ EngineInv /\ Records(d) /\ Holds(d) /\ r.remote # 0
  BY DEF KeepInv, SafeInv, CommandsInv, Settled
<1>1. Genuine(d, r)
  BY <1>0, SettledGenuine
<1>2. Body(r.remote)' = Body(r.remote)
  BY <1>0, <1>1, HeadBefore
<1>3. AtHead(d, r)
  <2>1. CASE RemoteHead(r.session)' = r.remote
    BY <1>0, <1>1, <2>1, HeadBefore DEF AtHead
  <2>2. CASE cmd'[d].kind \in Pulls /\ cmd'[d].phase # "fetch" /\ cmd'[d].man[r.session] = r.remote
    <3>1. CASE PullFetch(d) /\ cmd'[d].man = manifest.heads
      BY <2>2, <3>1 DEF AtHead, RemoteHead
    <3>2. CASE cmd[d].kind \in Pulls /\ cmd[d].phase # "fetch" /\ cmd'[d].man = cmd[d].man
      BY <2>2, <3>2 DEF AtHead
    <3> QED BY <1>0, <2>2, <3>1, <3>2, CopyStep
  <2> QED BY <2>1, <2>2 DEF AtHead
<1> QED BY <1>0, <1>1, <1>2, <1>3 DEF Holds

LEMMA HoldsStep ==
  ASSUME KeepInv, ~MidEdits, SafeInv', Grows, Later, NEW d \in Devices, StepOf(d)
  PROVE  Holds(d)'
<1>0. /\ TypeOK /\ Shaped(d) /\ Records(d) /\ DeviceTypes /\ EngineInv /\ Reads(d) /\ Filled
      /\ Behind(d) /\ TakenOver(d) /\ Found(d) /\ Named(d)
      /\ cmd \in [Devices -> Cmds] /\ cmd[d] \in Cmds /\ cmd[d].cur \in Sessions
      /\ cmd[d].about \in Divergences /\ cmd[d].target \in Sessions
      /\ cmd[d].man \in [Sessions -> Ids]
      /\ local[d] \in [Sessions -> Bodies] /\ state[d] \in States
  BY Parts DEF KeepInv, SafeInv, CommandsInv, TypeOK
<1>1. SUFFICES ASSUME NEW r \in Divergences, Settled(d, r)', AtHead(d, r)' PROVE Held(d, r)'
  BY DEF Holds
<1>2. r.session \in Sessions /\ r.remote # 0 /\ CopyOf("remote", r.session) = {}
  BY <1>0, <1>1, SettledBefore DEF Divergences
<1>3. CASE ResolveAudit(d) /\ r = cmd[d].about /\ cmd[d].kind \in {"keep-local", "keep-remote"}
  <2>1. /\ cmd[d].kind \in Resolutions /\ r.session = cmd[d].cur /\ cmd[d].phase = "audit"
        /\ cmd'[d].kind = cmd[d].kind /\ UNCHANGED <<snapshots, manifest, local, state>>
    BY <1>0, <1>3 DEF ResolveAudit, At, Cmds, Shaped, engineVars
  <2>2. RemoteHead(r.session)' = RemoteHead(r.session) /\ cmd[d].kind \notin Pushes \cup Pulls
    BY <2>1, ResolveKind DEF RemoteHead
  <2>3. RemoteHead(r.session) = r.remote
    BY <1>1, <2>1, <2>2 DEF AtHead
  <2>4. cmd[d].kind = "keep-remote"
    BY <1>0, <1>2, <1>3, <2>1, <2>3 DEF Behind
  <2>5. cmd[d].man[cmd[d].cur] = r.remote
    BY <1>0, <1>2, <1>3, <2>1, <2>3, <2>4 DEF TakenOver
  <2>6. state[d][r.session] = Pair(r.remote) /\ local[d][r.session] = Body(r.remote)
    BY <1>0, <2>1, <2>4, <2>5 DEF TakenOver
  <2> QED BY <2>1, <2>2, <2>6 DEF Held, Pair, Body
<1>4. CASE Settled(d, r)
  <2>1. AtHead(d, r) /\ Held(d, r) /\ Body(r.remote)' = Body(r.remote) /\ Genuine(d, r)
    BY <1>1, <1>4, AtHeadBefore
  <2>2. Fetched(d) => cmd[d].man[r.session] = r.remote
    BY <1>4, <2>1, HeldIsFetched
  <2>3. PICK s, n, p : s = r.session /\ n = r.remote /\ p = Pair(n)
    OBVIOUS
  <2>4. /\ state[d][s] = p /\ Body(n) \subseteq local[d][s] /\ (local[d][s] \ Body(n)) \cap r.local = {}
        /\ cmd[d].kind \in Pushes \cup Pulls => cmd[d].mem[s] = p
        /\ p = [local |-> Body(n), remote |-> n]
    BY <2>1, <2>3 DEF Held, Pair
  <2>5. Pair(r.remote)' = p
    BY <2>1, <2>3 DEF Pair
  <2>6. cmd[d].kind \notin Pulls => RemoteHead(s) = n
    BY <2>1, <2>3 DEF AtHead
  (* What state.json says.                                                 *)
  <2>7. state'[d][s] = p
    <3>1. CASE ResolveRecord(d)
      <4>1. /\ cmd[d].kind \in Resolutions /\ cmd[d].phase = "hash"
            /\ state'[d][s] = IF s = cmd[d].target
                                THEN [local |-> local[d][s], remote |-> cmd[d].man[cmd[d].cur]]
                                ELSE state[d][s]
        BY <1>0, <1>2, <2>3, <3>1 DEF ResolveRecord, At, updateSessionState, Cur, DeviceTypes, States
      <4>2. cmd[d].kind \notin Pulls /\ cmd[d].kind \in {"keep-local", "keep-remote", "keep-both"}
        BY <4>1, ResolveKind
      <4>3. CASE s = cmd[d].target
        <5>1. cmd[d].kind # "keep-both"
          <6>1. cmd[d].kind = "keep-both" => s = Fork("remote", cmd[d].cur, cmd[d].man[cmd[d].cur])
            BY <1>0, <4>1, <4>3 DEF Named, Restoring
          <6> QED BY <1>0, <1>2, <2>3, <6>1 DEF CopyOf
        <5>2. s = cmd[d].cur
          BY <1>0, <4>2, <4>3, <5>1 DEF Shaped
        <5>3. cmd[d].kind # "keep-local"
          BY <1>0, <1>2, <1>4, <2>3, <2>6, <4>1, <4>2, <5>2 DEF Behind
        <5>4. Fetched(d)
          BY <4>1, <4>2, <5>1, <5>3 DEF Fetched, Restores
        <5>5. cmd[d].man[cmd[d].cur] = n /\ local[d][s] = Body(n)
          BY <1>0, <2>2, <2>3, <4>1, <4>3, <5>2, <5>4 DEF Reads
        <5> QED BY <2>4, <4>1, <5>5
      <4> QED BY <2>4, <4>1, <4>3
    <3>2. CASE state'[d] = state[d]
      BY <2>4, <3>2
    <3>3. CASE state'[d] = cmd[d].mem /\ cmd[d].kind \in Pushes \cup Pulls
      BY <2>4, <3>3
    <3> QED BY <1>0, <3>1, <3>2, <3>3, FilesStep
  (* What a push or a pull remembers.                                      *)
  <2>8. ASSUME cmd'[d].kind \in Pushes \cup Pulls PROVE cmd'[d].mem[s] = p
    <3>1. CASE cmd'[d].mem = cmd[d].mem /\ cmd[d].kind \in Pushes \cup Pulls
      BY <2>4, <3>1
    <3>2. CASE cmd'[d].mem = state[d]
      BY <2>4, <3>2
    <3>3. CASE PushUploaded(d) /\ \A t \in Sessions : t # cmd[d].cur => cmd'[d].mem[t] = cmd[d].mem[t]
      <4>1. cmd[d].kind \in Pushes /\ call[d].pc = "ok"
        BY <3>3 DEF PushUploaded, At
      <4>2. s # cmd[d].cur
        BY <1>0, <1>2, <1>4, <2>3, <2>6, <4>1, PushKind DEF Behind
      <4> QED BY <1>2, <2>3, <2>4, <3>3, <4>1, <4>2
    <3>4. CASE /\ PullRestored(d)
               /\ \A t \in Sessions :
                      \/ cmd'[d].mem[t] = cmd[d].mem[t]
                      \/ /\ t = cmd[d].cur /\ t = cmd[d].target
                         /\ cmd'[d].mem[t] = [local |-> local[d][t], remote |-> cmd[d].man[t]]
      <4>1. cmd[d].kind \in Pulls /\ cmd[d].phase = "hash"
        BY <3>4 DEF PullRestored, At
      <4>2. cmd[d].man[s] = n
        BY <2>2, <2>3, <4>1 DEF Fetched, Restores
      <4>3. s = cmd[d].cur /\ s = cmd[d].target => local[d][s] = Body(n)
        BY <1>0, <4>1, <4>2 DEF Reads
      <4> QED BY <1>2, <2>3, <2>4, <3>4, <4>1, <4>2, <4>3
    <3> QED BY <1>0, <2>8, <3>1, <3>2, <3>3, <3>4, CopyStep
  (* What is in the session file.                                          *)
  <2>9. Body(n) \subseteq local'[d][s] /\ (local'[d][s] \ Body(n)) \cap r.local = {}
    <3>1. CASE local'[d] = local[d]
      BY <2>4, <3>1
    <3>2. CASE \E t \in Sessions : Edit(d, t)
      <4>1. PICK t \in Sessions : Edit(d, t)
        BY <3>2
      <4>2. local'[d][s] \in {local[d][s], local[d][s] \cup {edits + 1}}
        BY <1>0, <1>2, <2>3, <4>1 DEF Edit, DeviceTypes
      <4>3. edits + 1 \notin r.local
        <5>1. edits \in Nat
          BY <1>0, DeviceSyncAssumption DEF DeviceTypes
        <5> QED BY <2>1, <5>1 DEF Genuine
      <4> QED BY <2>4, <4>2, <4>3
    <3>3. CASE RestoreRename(d)
      <4>1. /\ cmd[d].kind \in Restores /\ cmd[d].phase = "rename"
            /\ local'[d][s] = IF s = cmd[d].target THEN Body(cmd[d].man[cmd[d].cur]) ELSE local[d][s]
        BY <1>0, <1>2, <2>3, <3>3 DEF RestoreRename, PullArtifact, At, Cur, DeviceTypes
      <4>2. cmd[d].man[s] = n
        BY <2>2, <2>3, <4>1 DEF Fetched
      <4>3. CASE s = cmd[d].target
        <5>1. CASE cmd[d].kind \in Pulls
          <6>1. local[d][s] # {}
            BY <2>1, <2>3 DEF Genuine
          <6>2. s = cmd[d].cur
            BY <1>0, <4>1, <4>3, <5>1, <6>1 DEF Found
          <6> QED BY <4>1, <4>2, <4>3, <6>2
        <5>2. CASE cmd[d].kind = "keep-remote"
          BY <1>0, <4>1, <4>2, <4>3, <5>2 DEF Shaped
        <5>3. CASE cmd[d].kind = "keep-both"
          <6>1. s = Fork("remote", cmd[d].cur, cmd[d].man[cmd[d].cur])
            BY <1>0, <4>1, <4>3, <5>3 DEF Named, Restoring
          <6> QED BY <1>0, <1>2, <2>3, <6>1 DEF CopyOf
        <5> QED BY <4>1, <5>1, <5>2, <5>3 DEF Restores
      <4> QED BY <2>4, <4>1, <4>3
    <3> QED BY <1>0, <3>1, <3>2, <3>3, FilesStep
  <2>10. Body(r.remote)' = Body(n)
    BY <2>1, <2>3
  <2> QED BY <2>3, <2>5, <2>7, <2>8, <2>9, <2>10 DEF Held
<1> QED BY <1>0, <1>1, <1>3, <1>4, SettledBefore

(* A device that does not move.                                            *)
LEMMA RestsKeep ==
  ASSUME KeepInv, Grows, Later, NEW d \in Devices, Rests(d), local'[d] = local[d],
         conflicts'[d] = conflicts[d], resolved'[d] = resolved[d]
  PROVE  Records(d)' /\ Changed(d)' /\ Found(d)' /\ Behind(d)' /\ TakenOver(d)' /\ Holds(d)'
<1>0. /\ TypeOK /\ Shaped(d) /\ Records(d) /\ DeviceTypes /\ EngineInv /\ Changed(d)
      /\ Behind(d) /\ TakenOver(d) /\ Found(d) /\ Named(d) /\ Holds(d)
      /\ cmd[d].cur \in Sessions /\ cmd[d].about \in Divergences
  BY Parts DEF KeepInv, SafeInv, CommandsInv
<1>1. cmd'[d] = cmd[d] /\ state'[d] = state[d] /\ call'[d] = call[d]
  BY DEF Rests
<1>2. Records(d)'
  <2>1. \A r \in Divergences : Genuine(d, r) => Genuine(d, r)'
    BY GenuineStays
  <2>2. \A r \in conflicts[d] : r \in Divergences
    BY <1>0 DEF DeviceTypes
  <2> QED BY <1>0, <1>1, <2>1, <2>2 DEF Records, Genuine
<1>3. Changed(d)' /\ Found(d)'
  BY <1>0, <1>1 DEF Changed, Found
<1>4. ASSUME NEW r \in Divergences
      PROVE  /\ Settled(d, r)' <=> Settled(d, r)
             /\ Settled(d, r) \/ (cmd[d].kind \in Resolutions /\ r = cmd[d].about /\ r.remote # 0) =>
                    /\ RemoteHead(r.session)' = r.remote => RemoteHead(r.session) = r.remote
                    /\ Body(r.remote)' = Body(r.remote)
  <2>1. Settled(d, r)' <=> Settled(d, r)
    BY DEF Settled, CopyOf
  <2>2. ASSUME Settled(d, r) \/ (cmd[d].kind \in Resolutions /\ r = cmd[d].about /\ r.remote # 0)
        PROVE  /\ RemoteHead(r.session)' = r.remote => RemoteHead(r.session) = r.remote
               /\ Body(r.remote)' = Body(r.remote)
    <3>1. r.remote # 0
      BY <2>2 DEF Settled
    <3> QED BY <1>0, <2>2, <3>1, SettledGenuine, HeadBefore
  <2> QED BY <2>1, <2>2
<1>5. Behind(d)'
  <2>1. SUFFICES ASSUME \/ call[d].pc = "ok"
                        \/ cmd[d].kind = "keep-local" /\ cmd[d].phase \in {"hash", "audit"},
                        NEW r \in Divergences,
                        Settled(d, r)' \/ (cmd[d].kind = "keep-local" /\ r = cmd[d].about),
                        r.session = cmd[d].cur, r.remote # 0
                 PROVE  RemoteHead(r.session)' # r.remote
    BY <1>1 DEF Behind
  <2>2. RemoteHead(r.session) # r.remote
    BY <1>0, <1>4, <2>1 DEF Behind
  <2> QED BY <1>4, <2>1, <2>2 DEF Resolutions
<1>6. TakenOver(d)'
  <2>1. SUFFICES ASSUME cmd[d].kind = "keep-remote", cmd[d].phase \in Restoring \cup {"audit"}
                 PROVE  TakenOver(d)'
    BY <1>1 DEF TakenOver
  <2>2. cmd[d].about.session = cmd[d].cur /\ cmd[d].kind \in Resolutions
    BY <1>0, <2>1 DEF Shaped, Resolutions
  <2>3. cmd[d].about.remote # 0 /\ RemoteHead(cmd[d].cur)' = cmd[d].about.remote =>
            RemoteHead(cmd[d].cur) = cmd[d].about.remote
    <3>1. PICK r \in Divergences : r = cmd[d].about
      BY <1>0
    <3>2. r.remote # 0 => (RemoteHead(r.session)' = r.remote => RemoteHead(r.session) = r.remote)
      BY <1>4, <2>2, <3>1
    <3> QED BY <1>1, <2>2, <3>1, <3>2 DEF RemoteHead
  <2>4. cmd[d].phase = "audit" => Body(cmd[d].man[cmd[d].cur])' = Body(cmd[d].man[cmd[d].cur])
    <3>1. cmd[d].man[cmd[d].cur] # 0 =>
              snapshots'[cmd[d].man[cmd[d].cur]] = snapshots[cmd[d].man[cmd[d].cur]]
      BY <1>0, HeadKept DEF Named
    <3>2. ASSUME cmd[d].phase = "audit" PROVE cmd[d].man[cmd[d].cur] # 0
      <4>1. PICK n, b : /\ n = cmd[d].man[cmd[d].cur] /\ b = local[d][cmd[d].cur]
                        /\ state[d][cmd[d].cur] = [local |-> b, remote |-> n]
        BY <1>0, <2>1, <3>2 DEF TakenOver, Pair
      <4>2. b # {}
        BY <1>0, <2>2, <4>1 DEF Records, Genuine
      <4>3. WellKept(cmd[d].cur, state[d][cmd[d].cur])
        BY <1>0 DEF KeepInv, SafeInv, CommandsInv, Recorded
      <4> QED BY <4>1, <4>2, <4>3 DEF WellKept, Unknown
    <3> QED BY <1>1, <3>1, <3>2 DEF Body
  <2> QED BY <1>0, <1>1, <2>1, <2>3, <2>4 DEF TakenOver, Pair, RemoteHead
<1>7. Holds(d)'
  <2>1. SUFFICES ASSUME NEW r \in Divergences, Settled(d, r)', AtHead(d, r)' PROVE Held(d, r)'
    BY DEF Holds
  <2>2. Settled(d, r)
    BY <1>4, <2>1
  <2>3. AtHead(d, r) /\ Body(r.remote)' = Body(r.remote)
    BY <1>1, <1>4, <2>1, <2>2 DEF AtHead
  <2>4. Held(d, r)
    BY <1>0, <2>2, <2>3 DEF Holds
  <2> QED BY <1>1, <2>3, <2>4 DEF Held, Pair
<1> QED BY <1>2, <1>3, <1>5, <1>6, <1>7

LEMMA InitKeepInv == Init => KeepInv
<1> SUFFICES ASSUME Init PROVE KeepInv
  OBVIOUS
<1>1. RememberInv /\ SafeInv
  BY InitRememberInv, InitSafeInv
<1>2. Filled
  BY DEF Init, EngineInit, Filled
<1>3. ASSUME NEW d \in Devices
      PROVE  Records(d) /\ Changed(d) /\ Found(d) /\ Behind(d) /\ TakenOver(d) /\ Holds(d)
  <2>1. /\ conflicts[d] = {} /\ resolved[d] = {} /\ cmd[d].kind = "none" /\ call[d].pc = "idle"
    BY DEF Init, EngineInit, NoCall, NoCmd
  <2>2. cmd[d].kind \notin Pushes \cup Pulls \cup Resolutions
    BY <2>1 DEF Pushes, Pulls, Resolutions
  <2>3. \A r : ~Settled(d, r)
    BY <2>1 DEF Settled
  <2> QED BY <2>1, <2>2, <2>3 DEF Records, Changed, Found, Behind, TakenOver, Holds
<1> QED BY <1>1, <1>2, <1>3 DEF KeepInv

LEMMA NextKeepInv == ~MidEdits => (KeepInv /\ [Next]_vars => KeepInv')
<1> SUFFICES ASSUME ~MidEdits, KeepInv, [Next]_vars PROVE KeepInv'
  OBVIOUS
<1>1. /\ CommandsInv /\ EngineInv /\ TypeOK /\ Filled /\ edits \in Nat
      /\ \A d \in Devices : Records(d) /\ Changed(d) /\ Found(d) /\ Behind(d) /\ TakenOver(d) /\ Holds(d)
  BY DeviceSyncAssumption DEF KeepInv, SafeInv, CommandsInv, TypeOK
<1>2. RememberInv' /\ SafeInv' /\ Grows
  <2>1. RememberInv' /\ SafeInv'
    BY NextRememberInv, NextSafeInv DEF KeepInv
  <2>2. [EngineNext]_engineVars
    BY <1>1, StepOfEngine
  <2> QED BY <1>1, <2>1, <2>2, EngineGrows
<1>3. CASE UNCHANGED vars
  <2>1. Later /\ Filled'
    BY <1>1, <1>3 DEF Later, Filled, vars, engineVars, deviceVars
  <2>2. ASSUME NEW d \in Devices
        PROVE  /\ Rests(d) /\ local'[d] = local[d] /\ conflicts'[d] = conflicts[d]
               /\ resolved'[d] = resolved[d]
    BY <1>3 DEF Rests, vars, engineVars, deviceVars
  <2>3. \A d \in Devices : /\ Records(d)' /\ Changed(d)' /\ Found(d)' /\ Behind(d)' /\ TakenOver(d)'
                           /\ Holds(d)'
    BY <1>2, <2>1, <2>2, RestsKeep
  <2> QED BY <1>2, <2>1, <2>3 DEF KeepInv
<1>4. ASSUME NEW d \in Devices, StepOf(d) PROVE KeepInv'
  <2>1. Later /\ Filled' /\ Others(d)
    BY <1>1, <1>2, <1>4, FilledStep, OthersRest
  <2>2. Records(d)' /\ Changed(d)' /\ Found(d)' /\ Behind(d)' /\ TakenOver(d)' /\ Holds(d)'
    BY <1>2, <1>4, <2>1, RecordsStep, ChangedStep, FoundStep, BehindStep, TakenOverStep, HoldsStep
  <2>3. ASSUME NEW e \in Devices, e # d
        PROVE  /\ Records(e)' /\ Changed(e)' /\ Found(e)' /\ Behind(e)' /\ TakenOver(e)' /\ Holds(e)'
    <3>1. /\ Rests(e) /\ local'[e] = local[e] /\ conflicts'[e] = conflicts[e]
          /\ resolved'[e] = resolved[e]
      BY <2>1, <2>3 DEF Others
    <3> QED BY <1>2, <2>1, <3>1, RestsKeep
  <2> QED BY <1>2, <2>1, <2>2, <2>3 DEF KeepInv
<1> QED BY <1>3, <1>4 DEF Next, StepOf

LEMMA KeepInvariant == ~MidEdits => (Spec => []KeepInv)
<1> SUFFICES ASSUME ~MidEdits PROVE Spec => []KeepInv
  OBVIOUS
<1>1. KeepInv /\ [Next]_vars => KeepInv'
  BY NextKeepInv
<1> QED BY <1>1, InitKeepInv, PTL DEF Spec

(* A record of what is settled would need content that is the head's, and  *)
(* no command takes that for a change.                                     *)
LEMMA SettledStep ==
  ASSUME KeepInv, [Next]_vars
  PROVE  SettledStaysSettled
<1>0. TypeOK /\ DeviceTypes
  BY DEF KeepInv, SafeInv, CommandsInv, TypeOK, DeviceTypes
<1> SUFFICES ASSUME NEW d \in Devices, NEW r \in conflicts'[d] \ conflicts[d],
                    NEW how \in {"keep-local", "keep-remote"},
                    r.remote # 0, CopyOf("remote", r.session) = {}, <<r, how>> \in resolved[d]
             PROVE  FALSE
  BY DEF SettledStaysSettled, New
<1>1. /\ Shaped(d) /\ Records(d) /\ Reads(d) /\ Changed(d) /\ Found(d) /\ Holds(d) /\ Settled(d, r)
      /\ r \in Divergences /\ r.session \in Sessions
  <2>1. <<r, how>> \in Divergences \X Resolutions
    BY <1>0 DEF DeviceTypes
  <2>2. r \in Divergences /\ r.session \in Sessions
    BY <2>1 DEF Divergences
  <2>3. Settled(d, r)
    BY DEF Settled
  <2> QED BY <2>2, <2>3 DEF KeepInv, SafeInv, CommandsInv
<1>2. StepOf(d)
  <2>1. PICK e \in Devices : StepOf(e)
    BY DEF Next, StepOf, vars, deviceVars
  <2>2. e = d
    BY <1>0, <2>1, OthersRest DEF Others
  <2> QED BY <2>1, <2>2
<1>3. ASSUME AtHead(d, r), r.local = local[d][r.session]
      PROVE  /\ r.local = Body(r.remote)
             /\ cmd[d].kind \in Pushes \cup Pulls =>
                    cmd[d].mem[r.session] = [local |-> r.local, remote |-> r.remote]
  <2>1. Held(d, r)
    BY <1>1, <1>3 DEF Holds
  <2>2. r.local = Body(r.remote)
    BY <1>3, <2>1 DEF Held
  <2> QED BY <2>1, <2>2 DEF Held, Pair
<1>4. CASE /\ PushRecord(d) /\ r.session = cmd[d].cur /\ r.local = cmd[d].hash
           /\ r.remote \in {RemoteHead(cmd[d].cur), 0}
  <2>1. cmd[d].kind \in Pushes /\ cmd[d].phase = "record"
    BY <1>4 DEF PushRecord, At
  <2>2. r.local = local[d][r.session] /\ AtHead(d, r) /\ Fetched(d)
    BY <1>1, <1>4, <2>1 DEF Reads, AtHead, Fetched
  <2>3. cmd[d].man[r.session] = r.remote
    BY <1>1, <2>2, HeldIsFetched
  <2>4. PICK m : m = cmd[d].mem[r.session] /\ m.local = r.local /\ m.remote = r.remote
    BY <1>3, <2>1, <2>2
  <2> QED BY <1>1, <1>4, <2>1, <2>3, <2>4 DEF Changed
<1>5. CASE /\ At(d, Pulls, "next") /\ r.session \in cmd[d].todo /\ Diverged(d, r.session)
           /\ r.local = local[d][r.session] /\ r.remote = cmd[d].man[r.session]
  <2>1. AtHead(d, r) /\ cmd[d].kind \in Pulls
    BY <1>5 DEF AtHead, At
  <2>2. PICK m : m = cmd[d].mem[r.session] /\ m.local = r.local /\ m.remote = r.remote
    BY <1>3, <1>5, <2>1
  <2> QED BY <1>5, <2>2 DEF Diverged, Unknown
<1> QED BY <1>0, <1>2, <1>4, <1>5, NewRecords

(* While agents leave the files of a device alone as long as one of its    *)
(* commands runs, what the user wrote or decided outlives the commands: no *)
(* pull takes an edit out of a session file that the history does not have *)
(* (pull's divergence check, commands_impl.go), and a conflict settled for *)
(* one side is recorded again by neither push nor pull, whatever was       *)
(* pushed, pulled, edited, crashed or failed since on any device.          *)
THEOREM EditsAndDecisionsAreKept == ~MidEdits => (Spec => CommandsKeepEdits)
<1> SUFFICES ASSUME ~MidEdits PROVE Spec => CommandsKeepEdits
  OBVIOUS
<1>1. KeepInv /\ KeepInv' /\ [Next]_vars => PullKeepsEdits /\ SettledStaysSettled
  BY PullStep, SettledStep DEF KeepInv
<1>2. KeepInv /\ KeepInv' /\ [Next]_vars => [PullKeepsEdits /\ SettledStaysSettled]_vars
  BY <1>1
<1> QED BY <1>2, KeepInvariant, PTL DEF Spec, CommandsKeepEdits
=============================================================================
