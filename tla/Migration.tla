------------------------------ MODULE Migration ------------------------------
(***************************************************************************)
(* rein sync migrate --to byo (internal/sync/migrate.go,                   *)
(* internal/cli/migrate.go): a device copies every snapshot of the hosted  *)
(* locker into a bucket of its own, sealed under a new passphrase, writes  *)
(* the manifest last and then switches its configuration to the bucket.    *)
(* Runs are interrupted and started again; several devices may run against *)
(* one bucket; other devices go on pushing to the locker and, once the     *)
(* bucket has a manifest, to the bucket.                                   *)
(*                                                                         *)
(* A push is one step here: SyncEngine is shown to implement AtomicPush.   *)
(* A snapshot id is a number (uuids sort in no particular order, so a new  *)
(* snapshot takes any unused one) and stands for its plaintext and digest. *)
(* An object of the bucket is the passphrase that opens it.                *)
(***************************************************************************)
EXTENDS Naturals, FiniteSets, FiniteSetsExt

CONSTANTS Devices,          \* devices of the account
          Sessions,         \* session keys
          Passphrases,      \* what the person may type as the new passphrase
          MaxRetries,       \* maxManifestRetries
          MaxSnapshots,     \* bound: snapshots ever made
          MaxBucketPushes,  \* bound: pushes to the bucket
          MaxReruns,        \* bound: runs after a completed one
          MaxFaults         \* bound: interrupted runs, damaged or short answers,
                          \* after which the person may start over once

ASSUME MigrationAssumption ==
    /\ Passphrases # {} /\ Passphrases \cap {"none", "damaged"} = {}
    /\ Sessions # {}
    /\ MaxRetries \in Nat \ {0} /\ MaxSnapshots \in Nat \ {0}
    /\ MaxBucketPushes \in Nat /\ MaxReruns \in Nat /\ MaxFaults \in Nat

VARIABLES locker,  \* the hosted storage: snapshots and the manifest's heads
          bucket,  \* the destination: objects, manifest, a keyring or none
          home,    \* home[d]: the files of Reinstate's home on d
          job,     \* job[d]: the migrate command that runs on d
          pushed,  \* history: the snapshots pushed to the bucket
          typed,   \* history: the passphrases that runs were given
          stale,   \* history: the snapshots a run was told that it has verified,
                   \*   under a passphrase other than the one it was given
          faults   \* faults so far

history == <<pushed, typed, stale>>

vars == <<locker, bucket, home, job, history, faults>>

Ids == 1..MaxSnapshots

Heads == [Sessions -> Ids \cup {0}]

NoHeads == [s \in Sessions |-> 0]

Objects == Passphrases \cup {"none", "damaged"}

Phases == {"idle", "list", "manifest", "free", "next", "put", "verify",
           "load", "save", "reread", "offer", "config", "cleanup"}

NoJob == [pc |-> "idle", pass |-> "none", todo |-> {}, heads |-> NoHeads,
          checked |-> FALSE, etag |-> 0, attempt |-> 0]

TypeOK ==
    /\ locker \in [snapshots : SUBSET Ids, heads : Heads]
    /\ bucket \in [objects : [Ids -> Objects], etag : Nat, heads : Heads,
                   pass : Objects, keyring : BOOLEAN]
    /\ home \in [Devices -> [storage : {"hop", "s3"}, account : BOOLEAN,
                             base : Heads, done : SUBSET Ids,
                             completed : BOOLEAN, reruns : Nat]]
    /\ job \in [Devices -> [pc : Phases, pass : Objects, todo : SUBSET Ids,
                            heads : Heads, checked : BOOLEAN, etag : Nat,
                            attempt : 0..(MaxRetries - 1)]]
    /\ pushed \subseteq Ids /\ typed \subseteq Passphrases /\ stale \subseteq Ids
    /\ faults \in 0..(MaxFaults + 1)

(* The first snapshot was pushed by every device's account before.          *)
Init ==
    /\ \E s \in Sessions, id \in Ids :
         /\ locker = [snapshots |-> {id}, heads |-> [NoHeads EXCEPT ![s] = id]]
         /\ home = [d \in Devices |->
                      [storage |-> "hop", account |-> TRUE,
                       base |-> [NoHeads EXCEPT ![s] = id], done |-> {},
                       completed |-> FALSE, reruns |-> 0]]
    /\ \E k \in BOOLEAN :
         bucket = [objects |-> [i \in Ids |-> "none"], etag |-> 0,
                   heads |-> NoHeads, pass |-> "none", keyring |-> k]
    /\ job = [d \in Devices |-> NoJob]
    /\ pushed = {} /\ typed = {} /\ stale = {}
    /\ faults = 0

------------------------------------------------------------------------------
(* What the migration asks of the two stores.                              *)

Exists(id) == bucket.objects[id] # "none"

(* verifySnapshot: the object opens to the plaintext the source has.        *)
Verified(d, id) == bucket.objects[id] = job[d].pass

(* manifestCoveredBy: the listing has every snapshot the manifest names.    *)
CoveredBy(heads, ids) == \A s \in Sessions : heads[s] # 0 => heads[s] \in ids

(* loadManifest of the destination: absent, or sealed under the passphrase. *)
Loads(d) == bucket.etag = 0 \/ bucket.pass = job[d].pass

(* A mistake: the destination's manifest is replaced whatever it lists.     *)
AnyDestination(heads) == heads \in Heads

(* destinationFree: the destination lists no session the source lacks.      *)
DestinationFree(heads) ==
    \A s \in Sessions : bucket.heads[s] # 0 => heads[s] # 0

(* The steps of a run and the two ways it leaves one.                       *)
Goto(d, pc) == job' = [job EXCEPT ![d].pc = pc]

(* Every error return releases the mutation lock and ends the command; the  *)
(* state file and what was written stay.                                    *)
Fail(d) == job' = [job EXCEPT ![d] = NoJob]

(* The Progress callback: the snapshot is remembered in migrate-byo.json    *)
(* before the next one is looked at.                                        *)
Settle(d, id) ==
    /\ home' = [home EXCEPT ![d].done = @ \cup {id}]
    /\ job' = [job EXCEPT ![d].pc = "next", ![d].todo = @ \ {id}]

------------------------------------------------------------------------------
(* The runs after a completed one, on all devices.                          *)
Reruns == MapThenSumSet(LAMBDA e : home[e].reruns, Devices)

(* The command.  A completed migration may be run again, to switch after    *)
(* all.  A device whose account.json is gone cannot read the locker.  The   *)
(* passphrase is typed at every run; migrate-byo.json does not say under    *)
(* which one a snapshot was verified.                                       *)
Start(d, p) ==
    /\ job[d].pc = "idle"
    /\ home[d].storage = "hop"
    /\ home[d].account
    /\ home[d].completed => Reruns < MaxReruns
    /\ home' = [home EXCEPT ![d].reruns = IF home[d].completed THEN @ + 1 ELSE @]
    /\ job' = [job EXCEPT ![d] = [NoJob EXCEPT !.pc = "list", !.pass = p]]
    /\ typed' = typed \cup {p}
    /\ stale' = stale \cup {id \in home[d].done : bucket.objects[id] # p}
    /\ UNCHANGED <<locker, bucket, pushed, faults>>

(* ListSnapshots; a listing may come back short.                            *)
ListSnapshots(d) ==
    /\ job[d].pc = "list"
    /\ \E ids \in SUBSET locker.snapshots :
         /\ ids # locker.snapshots => faults < MaxFaults
         /\ faults' = IF ids = locker.snapshots THEN faults ELSE faults + 1
         /\ job' = [job EXCEPT ![d].pc = "manifest", ![d].todo = ids]
    /\ UNCHANGED <<locker, bucket, home, history>>

(* loadManifest of the source, and manifestCoveredBy.                       *)
LoadManifest(d) ==
    /\ job[d].pc = "manifest"
    /\ \/ /\ CoveredBy(locker.heads, job[d].todo)
          /\ job' = [job EXCEPT ![d].pc = "free", ![d].heads = locker.heads]
       \/ ~CoveredBy(locker.heads, job[d].todo) /\ Fail(d)
    /\ UNCHANGED <<locker, bucket, home, history, faults>>

(* The destination is refused before anything is written to it.             *)
CheckDestination(d) ==
    /\ job[d].pc = "free"
    /\ LET free == ~bucket.keyring /\ Loads(d) /\ DestinationFree(job[d].heads)
       IN  (free /\ Goto(d, "next")) \/ (~free /\ Fail(d))
    /\ UNCHANGED <<locker, bucket, home, history, faults>>

(* The next snapshot in order is one an earlier run remembered and its      *)
(* object is still there: the first such is read again, the others are not. *)
Skip(d) ==
    /\ job[d].pc = "next"
    /\ job[d].todo # {}
    /\ LET id == Min(job[d].todo)
       IN  /\ id \in home[d].done
           /\ Exists(id)
           /\ \/ /\ job[d].checked \/ Verified(d, id)
                 /\ job' = [job EXCEPT ![d].checked = TRUE, ![d].todo = @ \ {id}]
              \/ ~job[d].checked /\ ~Verified(d, id) /\ Fail(d)
    /\ UNCHANGED <<locker, bucket, home, history, faults>>

(* A mistake: an object that is already there is an error.                  *)
FindRefused(d) ==
    /\ job[d].pc = "next"
    /\ job[d].todo # {}
    /\ LET id == Min(job[d].todo)
       IN  /\ id \notin home[d].done \/ ~Exists(id)
           /\ (Exists(id) /\ Fail(d)) \/ (~Exists(id) /\ Goto(d, "put"))
    /\ UNCHANGED <<locker, bucket, home, history, faults>>

(* copySnapshot looks first: an object that an earlier run put but did not  *)
(* remember is verified in place.                                           *)
Find(d) ==
    /\ job[d].pc = "next"
    /\ job[d].todo # {}
    /\ LET id == Min(job[d].todo)
       IN  /\ id \notin home[d].done \/ ~Exists(id)
           /\ \/ Exists(id) /\ Verified(d, id) /\ Settle(d, id)
              \/ Exists(id) /\ ~Verified(d, id) /\ Fail(d) /\ UNCHANGED home
              \/ ~Exists(id) /\ Goto(d, "put") /\ UNCHANGED home
    /\ UNCHANGED <<locker, bucket, history, faults>>

(* A mistake: the object is written over one that another run put there.    *)
PutOver(d) ==
    /\ job[d].pc = "put"
    /\ bucket' = [bucket EXCEPT !.objects[Min(job[d].todo)] = job[d].pass]
    /\ Goto(d, "verify")
    /\ UNCHANGED <<locker, home, history, faults>>

(* The re-sealed snapshot is put create-only.  Another run may have put its *)
(* own in between, which stays; what is stored may be damaged.              *)
Put(d) ==
    /\ job[d].pc = "put"
    /\ LET id == Min(job[d].todo)
       IN  \/ Exists(id) /\ UNCHANGED <<bucket, faults>>
           \/ /\ ~Exists(id)
              /\ bucket' = [bucket EXCEPT !.objects[id] = job[d].pass]
              /\ UNCHANGED faults
           \/ /\ ~Exists(id) /\ faults < MaxFaults
              /\ bucket' = [bucket EXCEPT !.objects[id] = "damaged"]
              /\ faults' = faults + 1
    /\ Goto(d, "verify")
    /\ UNCHANGED <<locker, home, history>>

Verify(d) ==
    /\ job[d].pc = "verify"
    /\ LET id == Min(job[d].todo)
       IN  \/ Verified(d, id) /\ Settle(d, id)
           \/ ~Verified(d, id) /\ Fail(d) /\ UNCHANGED home
    /\ UNCHANGED <<locker, bucket, history, faults>>

(* writeManifest: load, refuse another profile's manifest, write under the  *)
(* entity tag just read, read back.  What a run no longer uses is cleared.  *)
WriteLoad(d) ==
    /\ \/ job[d].pc = "next" /\ job[d].todo = {}
       \/ job[d].pc = "load"
    /\ LET free == Loads(d) /\ DestinationFree(job[d].heads)
       IN  \/ /\ free
             /\ job' = [job EXCEPT ![d].pc = "save", ![d].etag = bucket.etag,
                                   ![d].checked = FALSE]
           \/ ~free /\ Fail(d)
    /\ UNCHANGED <<locker, bucket, home, history, faults>>

WriteSave(d) ==
    /\ job[d].pc = "save"
    /\ \/ /\ bucket.etag = job[d].etag
          /\ bucket' = [bucket EXCEPT !.etag = @ + 1, !.heads = job[d].heads,
                                      !.pass = job[d].pass]
          /\ job' = [job EXCEPT ![d] = [NoJob EXCEPT !.pc = "reread", !.pass = job[d].pass,
                                                    !.heads = job[d].heads]]
       \/ /\ bucket.etag # job[d].etag
          /\ job[d].attempt + 1 < MaxRetries
          /\ job' = [job EXCEPT ![d].pc = "load", ![d].attempt = @ + 1]
          /\ UNCHANGED bucket
       \/ /\ bucket.etag # job[d].etag
          /\ job[d].attempt + 1 = MaxRetries
          /\ Fail(d) /\ UNCHANGED bucket
    /\ UNCHANGED <<locker, home, history, faults>>

(* The manifest read back must be the one written; CompletedAt is recorded. *)
WriteReread(d) ==
    /\ job[d].pc = "reread"
    /\ LET same == Loads(d) /\ bucket.heads = job[d].heads
       IN  \/ /\ same
              /\ job' = [job EXCEPT ![d] = [NoJob EXCEPT !.pc = "offer",
                                                        !.pass = job[d].pass]]
              /\ home' = [home EXCEPT ![d].completed = TRUE]
           \/ ~same /\ Fail(d) /\ UNCHANGED home
    /\ UNCHANGED <<locker, bucket, history, faults>>

(* --keep-hop-config, or no to the question.                                *)
Keep(d) ==
    /\ job[d].pc = "offer"
    /\ Fail(d)
    /\ UNCHANGED <<locker, bucket, home, history, faults>>

(* switchConfigToBYO: the enrolment record is backed up and removed, the    *)
(* configuration written, the state file of the migration removed.          *)
Switch(d) ==
    /\ job[d].pc = "offer"
    /\ home' = [home EXCEPT ![d].account = FALSE]
    /\ Goto(d, "config")
    /\ UNCHANGED <<locker, bucket, history, faults>>

SaveConfig(d) ==
    /\ job[d].pc = "config"
    /\ home' = [home EXCEPT ![d].storage = "s3"]
    /\ Goto(d, "cleanup")
    /\ UNCHANGED <<locker, bucket, history, faults>>

Cleanup(d) ==
    /\ job[d].pc = "cleanup"
    /\ home' = [home EXCEPT ![d].done = {}]
    /\ Fail(d)
    /\ UNCHANGED <<locker, bucket, history, faults>>

Step(d) ==
    \/ ListSnapshots(d) \/ LoadManifest(d) \/ CheckDestination(d)
    \/ Skip(d) \/ Find(d) \/ Put(d) \/ Verify(d)
    \/ WriteLoad(d) \/ WriteSave(d) \/ WriteReread(d)
    \/ Keep(d) \/ Switch(d) \/ SaveConfig(d) \/ Cleanup(d)

------------------------------------------------------------------------------
(* Around the command.                                                      *)

(* The process is interrupted, or a storage request fails.                  *)
Stop(d) ==
    /\ job[d].pc # "idle"
    /\ faults < MaxFaults
    /\ faults' = faults + 1
    /\ Fail(d)
    /\ UNCHANGED <<locker, bucket, home, history>>

(* The person removes an object that failed verification, as the error says.*)
RemoveDamaged(id) ==
    /\ bucket.objects[id] = "damaged"
    /\ bucket' = [bucket EXCEPT !.objects[id] = "none"]
    /\ UNCHANGED <<locker, home, job, history, faults>>

(* The person starts over, as the error about the passphrase says: the      *)
(* state file and what is under the prefix are deleted.  No other device's  *)
(* migration is half done.                                                  *)
StartOver(d) ==
    /\ \A e \in Devices : job[e].pc = "idle" /\ (e # d => home[e].done = {})
    /\ bucket.etag = 0
    /\ \E id \in Ids : Exists(id)
    /\ faults <= MaxFaults
    /\ faults' = faults + 1
    /\ bucket' = [bucket EXCEPT !.objects = [i \in Ids |-> "none"]]
    /\ home' = [home EXCEPT ![d].done = {}]
    /\ stale' = {}
    /\ UNCHANGED <<locker, job, pushed, typed>>

(* A device that still uses the locker pulls the session and pushes to it.  *)
(* The mutation lock keeps it from doing so while it migrates.              *)
PushLocker(d, s, id) ==
    /\ job[d].pc = "idle"
    /\ home[d].storage = "hop" /\ home[d].account
    /\ id \notin locker.snapshots /\ ~Exists(id)
    /\ locker' = [snapshots |-> locker.snapshots \cup {id},
                  heads |-> [locker.heads EXCEPT ![s] = id]]
    /\ home' = [home EXCEPT ![d].base[s] = id]
    /\ UNCHANGED <<bucket, job, history, faults>>

(* rein init --profile-id on another device, which needs the manifest.      *)
JoinBucket(d) ==
    /\ job[d].pc = "idle"
    /\ home[d].storage = "hop"
    /\ bucket.etag > 0
    /\ home' = [home EXCEPT ![d].storage = "s3", ![d].account = FALSE,
                            ![d].base = NoHeads]
    /\ UNCHANGED <<locker, bucket, job, history, faults>>

(* A device that uses the bucket pulls the session and pushes to it.        *)
PushBucket(d, s, id) ==
    /\ job[d].pc = "idle"
    /\ home[d].storage = "s3"
    /\ Cardinality(pushed) < MaxBucketPushes
    /\ id \notin locker.snapshots /\ ~Exists(id)
    /\ bucket' = [bucket EXCEPT !.objects[id] = bucket.pass, !.etag = @ + 1,
                                !.heads[s] = id]
    /\ home' = [home EXCEPT ![d].base[s] = id]
    /\ pushed' = pushed \cup {id}
    /\ UNCHANGED <<locker, job, typed, stale, faults>>

Next ==
    \/ \E d \in Devices :
         \/ \E p \in Passphrases : Start(d, p)
         \/ Step(d) \/ Stop(d) \/ StartOver(d) \/ JoinBucket(d)
         \/ \E s \in Sessions, id \in Ids : PushLocker(d, s, id) \/ PushBucket(d, s, id)
    \/ \E id \in Ids : RemoveDamaged(id)

Spec == Init /\ [][Next]_vars

(* A started command goes on, an unfinished migration is run again and an   *)
(* object that failed verification is removed.                              *)
FairSpec ==
    /\ Spec
    /\ \A d \in Devices : WF_vars(Step(d)) /\ WF_vars(\E p \in Passphrases : Start(d, p))
    /\ \A id \in Ids : WF_vars(RemoveDamaged(id))

------------------------------------------------------------------------------
(* A snapshot that a run copied opens under the passphrase of the run.  One *)
(* that an earlier run had verified under another is only asked for when it *)
(* is the first of those remembered; it is there, under what was typed then.*)
Opens(id, pass) ==
    \/ bucket.objects[id] = pass
    \/ id \in stale /\ bucket.objects[id] \in Passphrases

(* The manifest is written last: whatever the destination's manifest names  *)
(* is there, and opens under the passphrase that opens the manifest unless  *)
(* a run was told that it was verified, however runs, passphrases and       *)
(* interruptions interleave.                                                *)
ManifestBacked ==
    bucket.etag > 0 =>
        \A s \in Sessions : bucket.heads[s] # 0 => Opens(bucket.heads[s], bucket.pass)

(* The switch loses no session: every session that the state.json of a     *)
(* device remembers is in the manifest of the bucket it now uses, and its   *)
(* head can be pulled there; a slower run with an older manifest, which may *)
(* lack the session, does not take it out again.                            *)
SwitchedSessionsKept ==
    \A d \in Devices : home[d].storage = "s3" =>
        \A s \in Sessions : home[d].base[s] # 0 =>
            bucket.heads[s] # 0 /\ Opens(bucket.heads[s], bucket.pass)

(* "A migration to ... completed; checking it is still intact": running a   *)
(* completed migration again takes nothing out of the destination's         *)
(* manifest that another device has pushed there since.                     *)
BucketPushesKept ==
    [][\A s \in Sessions : bucket.heads[s] \in pushed =>
          bucket'.heads[s] \in pushed']_vars

(* "Rerun the same command to resume": when one passphrase is given to all  *)
(* runs, and the destination has no keyring and gets no pushes yet, every   *)
(* device that goes on trying completes its migration, whatever was         *)
(* interrupted, damaged or listed short.                                    *)
ResumeCompletes ==
    <>(\/ bucket.keyring \/ pushed # {} \/ Cardinality(typed) > 1
       \/ \A d \in Devices : home[d].completed \/ home[d].storage = "s3")
==============================================================================
