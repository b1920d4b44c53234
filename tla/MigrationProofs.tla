-------------------------- MODULE MigrationProofs --------------------------
(* Proofs about the migration, for every number of devices, sessions,      *)
(* snapshots, passphrases, runs and interruptions, whichever passphrase is *)
(* typed at each of the runs.                                              *)
EXTENDS Migration, FiniteSetTheorems, TLAPS

-----------------------------------------------------------------------------
(* Why the manifest is backed.  A run has a passphrase...                  *)
Typed(d) == job[d].pc # "idle" => job[d].pass \in Passphrases

(* ...what its device remembers as verified opens under it, or was told to *)
(* have been verified when the run was given another...                    *)
Remembered(d) ==
    \A id \in home[d].done :
        /\ bucket.objects[id] \in Passphrases
        /\ job[d].pc # "idle" => Opens(id, job[d].pass)

(* ...and so does every head of the run that is not still to be copied.    *)
Copying == {"free", "next", "put", "verify", "load", "save"}

Copied(d) ==
    /\ job[d].pc \in Copying =>
           \A s \in Sessions : job[d].heads[s] # 0 =>
               \/ job[d].heads[s] \in job[d].todo
               \/ Opens(job[d].heads[s], job[d].pass)
    /\ job[d].pc \in {"put", "verify"} => job[d].todo # {}
    /\ job[d].pc \in {"load", "save"} => job[d].todo = {}

(* Why no session is lost in the switch.  A manifest that is about to be   *)
(* replaced lists no other session...                                      *)
Replaces(d) ==
    job[d].pc = "save" =>
        /\ job[d].etag <= bucket.etag
        /\ job[d].etag = bucket.etag => DestinationFree(job[d].heads)

(* ...and what a device remembers is in the manifest it goes by.           *)
Written == {"reread", "offer", "config", "cleanup"}

Lists(heads, d) == \A s \in Sessions : home[d].base[s] # 0 => heads[s] # 0

Listed(d) ==
    /\ job[d].pc \notin {"idle", "cleanup"} => home[d].storage = "hop"
    /\ job[d].pc \in Written \/ home[d].storage = "s3" => bucket.etag > 0
    /\ home[d].storage = "hop" => Lists(locker.heads, d)
    /\ job[d].pc \in Copying \cup {"reread"} => Lists(job[d].heads, d)
    /\ job[d].pc \in {"offer", "config", "cleanup"} \/ home[d].storage = "s3" =>
           Lists(bucket.heads, d)

Sound(d) == Typed(d) /\ Remembered(d) /\ Copied(d) /\ Replaces(d) /\ Listed(d)

(* The destination has no manifest, or one under a passphrase that somebody *)
(* typed, which is backed.                                                 *)
Backed ==
    /\ bucket.etag = 0 => bucket.heads = NoHeads
    /\ bucket.etag > 0 => bucket.pass \in Passphrases
    /\ ManifestBacked

MigrationInv == TypeOK /\ Backed /\ \A d \in Devices : Sound(d)

-----------------------------------------------------------------------------
(* The next snapshot to copy is one of those left.                         *)
LEMMA MinOfNaturals ==
  ASSUME NEW S \in SUBSET Nat, S # {}
  PROVE  Min(S) \in S
<1> DEFINE T == {0..y : y \in S}
<1>1. IsWellFoundedOn(StrictSubsetOrdering(Nat), FiniteSubsetsOf(Nat))
  BY FS_StrictSubsetOrderingWellFounded
<1>2. T \subseteq FiniteSubsetsOf(Nat)
  <2>1. ASSUME NEW y \in S PROVE 0..y \in FiniteSubsetsOf(Nat)
    <3>1. IsFiniteSet(0..y)
      BY FS_Interval
    <3>2. 0..y \in SUBSET Nat
      OBVIOUS
    <3> QED BY <3>1, <3>2, Zenon DEF FiniteSubsetsOf
  <2> QED BY <2>1
<1>3. T # {}
  OBVIOUS
<1>4. \E a \in T : \A b \in T : <<b, a>> \notin StrictSubsetOrdering(Nat)
  <2> HIDE DEF T
  <2> QED BY <1>1, <1>2, <1>3, WFMin
<1>5. PICK x \in S : \A b \in T : <<b, 0..x>> \notin StrictSubsetOrdering(Nat)
  BY <1>4
<1>6. ASSUME NEW y \in S PROVE x <= y
  <2>1. 0..y \in T /\ 0..y \in SUBSET Nat /\ 0..x \in SUBSET Nat
    OBVIOUS
  <2>2. ~(0..y \subseteq 0..x /\ 0..y # 0..x)
    BY <1>5, <2>1 DEF StrictSubsetOrdering
  <2>3. SUFFICES ASSUME y < x PROVE FALSE
    OBVIOUS
  <2>4. 0..y \subseteq 0..x /\ x \in 0..x /\ x \notin 0..y
    BY <2>3
  <2> QED BY <2>2, <2>4
<1> QED BY <1>6 DEF Min

LEMMA NextOne ==
  ASSUME TypeOK, NEW d \in Devices, job[d].todo # {}
  PROVE  Min(job[d].todo) \in job[d].todo /\ Min(job[d].todo) \in Ids
<1>1. job[d].todo \in SUBSET Ids
  BY DEF TypeOK
<1>2. Ids \subseteq Nat
  BY MigrationAssumption DEF Ids
<1> QED BY <1>1, <1>2, MinOfNaturals

(* What the two stores never take back while a run is on.                  *)
Grows ==
    /\ \A id \in Ids : bucket.objects[id] \in Passphrases =>
                           bucket'.objects[id] = bucket.objects[id]
    /\ stale \subseteq stale'
    /\ bucket.etag \in Nat /\ bucket'.etag \in Nat /\ bucket.etag <= bucket'.etag
    /\ bucket.etag = bucket'.etag => bucket'.heads = bucket.heads
    /\ \A s \in Sessions : bucket.heads[s] # 0 => bucket'.heads[s] # 0
    /\ \A s \in Sessions : locker.heads[s] # 0 => locker'.heads[s] # 0

Rests(d) == job'[d] = job[d] /\ home'[d] = home[d]

(* What opens goes on to open.                                             *)
LEMMA GoesOnToOpen ==
  ASSUME Grows, NEW id \in Ids, NEW pass \in Passphrases, Opens(id, pass)
  PROVE  Opens(id, pass)' /\ bucket'.objects[id] \in Passphrases
BY DEF Grows, Opens

(* A device that does not move keeps what it knows.                        *)
LEMMA RestsSound ==
  ASSUME TypeOK, Grows, NEW d \in Devices, Rests(d), Sound(d)
  PROVE  Sound(d)'
<1> USE DEF Rests, Sound
<1>0. /\ home[d].done \in SUBSET Ids /\ job[d].heads \in Heads /\ job[d].etag \in Nat
      /\ home[d].base \in Heads
  BY DEF TypeOK
<1>1. Typed(d)'
  BY DEF Typed
<1>2. Remembered(d)'
  BY <1>0, GoesOnToOpen DEF Remembered, Grows, Typed
<1>3. Copied(d)'
  <2>1. ASSUME NEW s \in Sessions, job[d].pc \in Copying, job[d].heads[s] # 0
        PROVE  \/ job[d].heads[s] \in job[d].todo
               \/ Opens(job[d].heads[s], job[d].pass)'
    <3>1. job[d].heads[s] \in Ids
      BY <1>0, <2>1 DEF Heads
    <3>2. job[d].pass \in Passphrases
      BY <2>1 DEF Typed, Copying
    <3> QED BY <2>1, <3>1, <3>2, GoesOnToOpen DEF Copied
  <2> QED BY <2>1 DEF Copied, Opens
<1>4. Replaces(d)'
  BY <1>0 DEF Replaces, Grows, DestinationFree
<1>5. Listed(d)'
  BY <1>0 DEF Listed, Grows, Lists
<1> QED BY <1>1, <1>2, <1>3, <1>4, <1>5

(* The values that TypeOK gives a home and a run.                          *)
Homes == [storage : {"hop", "s3"}, account : BOOLEAN, base : Heads, done : SUBSET Ids,
          completed : BOOLEAN, reruns : Nat]

Buckets == [objects : [Ids -> Objects], etag : Nat, heads : Heads,
            pass : Objects, keyring : BOOLEAN]

Jobs == [pc : Phases, pass : Objects, todo : SUBSET Ids, heads : Heads,
         checked : BOOLEAN, etag : Nat, attempt : 0..(MaxRetries - 1)]

LEMMA NoJobIsJob == NoJob \in Jobs
BY MigrationAssumption DEF NoJob, Jobs, Phases, Objects, Heads, NoHeads

(* A bucket whose manifest was replaced.                                   *)
Rewrite(b, o, n, hs, p) == [b EXCEPT !.objects = o, !.etag = n, !.heads = hs, !.pass = p]

LEMMA Rewritten ==
  ASSUME NEW b \in Buckets, NEW o \in [Ids -> Objects], NEW n \in Nat, NEW hs \in Heads,
         NEW p \in Objects
  PROVE  /\ Rewrite(b, o, n, hs, p) \in Buckets
         /\ Rewrite(b, o, n, hs, p).objects = o /\ Rewrite(b, o, n, hs, p).etag = n
         /\ Rewrite(b, o, n, hs, p).heads = hs /\ Rewrite(b, o, n, hs, p).pass = p
BY DEF Buckets, Rewrite

LEMMA InitInv == Init => MigrationInv
<1> SUFFICES ASSUME Init PROVE MigrationInv
  OBVIOUS
<1> USE MigrationAssumption
<1>1. PICK s \in Sessions, id \in Ids :
        /\ locker = [snapshots |-> {id}, heads |-> [NoHeads EXCEPT ![s] = id]]
        /\ home = [d \in Devices |->
                     [storage |-> "hop", account |-> TRUE,
                      base |-> [NoHeads EXCEPT ![s] = id], done |-> {},
                      completed |-> FALSE, reruns |-> 0]]
  BY DEF Init
<1>2. PICK k \in BOOLEAN :
        bucket = [objects |-> [i \in Ids |-> "none"], etag |-> 0,
                  heads |-> NoHeads, pass |-> "none", keyring |-> k]
  BY DEF Init
<1>3. job = [d \in Devices |-> NoJob] /\ history = <<{}, {}, {}>> /\ faults = 0
  BY DEF Init, history
<1>4. NoHeads \in Heads /\ [NoHeads EXCEPT ![s] = id] \in Heads
  BY DEF NoHeads, Heads
<1>5. TypeOK
  <2>1. locker \in [snapshots : SUBSET Ids, heads : Heads]
    BY <1>1, <1>4
  <2>2. bucket \in [objects : [Ids -> Objects], etag : Nat, heads : Heads,
                    pass : Objects, keyring : BOOLEAN]
    BY <1>2, <1>4 DEF Objects
  <2>3. home \in [Devices -> Homes]
    BY <1>1, <1>4 DEF Homes, Objects
  <2>4. job \in [Devices -> Jobs]
    BY <1>3, NoJobIsJob
  <2> QED BY <1>3, <2>1, <2>2, <2>3, <2>4 DEF TypeOK, Homes, Jobs, history
<1>6. Backed
  BY <1>2 DEF Backed, ManifestBacked
<1>7. ASSUME NEW d \in Devices PROVE Sound(d)
  <2>1. /\ job[d].pc = "idle" /\ home[d].done = {} /\ home[d].storage = "hop"
        /\ home[d].base = locker.heads
    BY <1>1, <1>3 DEF NoJob
  <2> QED BY <2>1 DEF Sound, Typed, Remembered, Copied, Copying, Replaces, Listed, Lists, Written,
         Opens, history
<1> QED BY <1>5, <1>6, <1>7 DEF MigrationInv

(* A step of one device that lets the stores grow.                         *)
LEMMA OneMoves ==
  ASSUME MigrationInv, NEW d \in Devices, TypeOK', Grows, Backed', Sound(d)',
         \A e \in Devices \ {d} : Rests(e)
  PROVE  MigrationInv'
BY RestsSound DEF MigrationInv

(* A manifest that is left alone stays backed.                             *)
LEMMA BackedGrows ==
  ASSUME TypeOK, Backed, Grows, bucket'.etag = bucket.etag, bucket'.heads = bucket.heads,
         bucket'.pass = bucket.pass
  PROVE  Backed'
<1>1. ASSUME NEW s \in Sessions, bucket.etag > 0, bucket.heads[s] # 0
      PROVE  Opens(bucket.heads[s], bucket.pass)'
  <2>1. bucket.heads[s] \in Ids /\ bucket.pass \in Passphrases
    BY <1>1 DEF TypeOK, Heads, Backed
  <2> QED BY <1>1, <2>1, GoesOnToOpen DEF Backed, ManifestBacked, Opens
<1> QED BY <1>1 DEF Backed, ManifestBacked

LEMMA StoresRest ==
  ASSUME MigrationInv, UNCHANGED <<locker, bucket>>, stale \subseteq stale'
  PROVE  Grows /\ Backed'
BY DEF MigrationInv, TypeOK, Grows, Backed, ManifestBacked, Opens

(* The command is over.                                                    *)
LEMMA OverSound ==
  ASSUME MigrationInv, NEW d \in Devices, Grows, job'[d] = NoJob, home'[d] = home[d]
  PROVE  Sound(d)'
<1>1. /\ TypeOK /\ Sound(d) /\ home[d].done \in SUBSET Ids /\ job'[d].pc = "idle"
  BY DEF MigrationInv, TypeOK, NoJob
<1>2. Typed(d)' /\ Copied(d)' /\ Replaces(d)'
  BY <1>1 DEF Typed, Copied, Copying, Replaces
<1>3. Remembered(d)'
  BY <1>1 DEF Sound, Remembered, Grows
<1>4. Listed(d)'
  BY <1>1 DEF Sound, Listed, Grows, Lists, Copying, Written
<1> QED BY <1>2, <1>3, <1>4 DEF Sound

(* A step in which only the command of a device moves.                     *)
LEMMA CommandMoves ==
  ASSUME MigrationInv, NEW d \in Devices, NEW j \in Jobs, job' = [job EXCEPT ![d] = j],
         UNCHANGED <<locker, bucket, home, history>>, faults' \in 0..(MaxFaults + 1),
         j = NoJob \/ Sound(d)'
  PROVE  MigrationInv'
<1>1. Grows /\ Backed'
  BY StoresRest DEF history
<1>2. job \in [Devices -> Jobs]
  BY DEF MigrationInv, TypeOK, Jobs
<1>3. job' \in [Devices -> Jobs] /\ job'[d] = j /\ \A e \in Devices \ {d} : job'[e] = job[e]
  BY <1>2
<1>4. TypeOK'
  BY <1>3 DEF MigrationInv, TypeOK, Jobs, history
<1>5. Sound(d)'
  BY <1>1, <1>3, OverSound DEF MigrationInv
<1> QED BY <1>1, <1>3, <1>4, <1>5, OneMoves DEF Rests

-----------------------------------------------------------------------------
(* The steps of a run that only read.                                      *)
LEMMA FailSafe ==
  ASSUME MigrationInv, NEW d \in Devices, Fail(d),
         UNCHANGED <<locker, bucket, home, history>>, faults' \in 0..(MaxFaults + 1)
  PROVE  MigrationInv'
BY CommandMoves, NoJobIsJob DEF Fail

LEMMA ListSnapshotsSafe ==
  ASSUME MigrationInv, NEW d \in Devices, ListSnapshots(d)
  PROVE  MigrationInv'
<1> USE DEF ListSnapshots
<1>1. TypeOK /\ Sound(d) /\ job[d] \in Jobs /\ locker.snapshots \in SUBSET Ids
  BY DEF MigrationInv, TypeOK, Jobs
<1>2. PICK ids \in SUBSET locker.snapshots :
        /\ ids # locker.snapshots => faults < MaxFaults
        /\ faults' = IF ids = locker.snapshots THEN faults ELSE faults + 1
        /\ job' = [job EXCEPT ![d].pc = "manifest", ![d].todo = ids]
  OBVIOUS
<1> DEFINE j == [job[d] EXCEPT !.pc = "manifest", !.todo = ids]
<1>3. j \in Jobs /\ job' = [job EXCEPT ![d] = j] /\ job'[d] = j
  BY <1>1, <1>2 DEF Jobs, Phases, TypeOK
<1>4. faults' \in 0..(MaxFaults + 1)
  BY <1>1, <1>2, MigrationAssumption DEF TypeOK
<1>5. Sound(d)'
  <2>1. /\ job'[d].pc = "manifest" /\ job'[d].pass = job[d].pass
    BY <1>1, <1>3 DEF Jobs
  <2> QED BY <1>1, <2>1
      DEF Sound, Typed, Remembered, Copied, Copying, Replaces, Listed, Lists, Written,
         Opens, history
<1> QED BY <1>3, <1>4, <1>5, CommandMoves

LEMMA LoadManifestSafe ==
  ASSUME MigrationInv, NEW d \in Devices, LoadManifest(d)
  PROVE  MigrationInv'
<1> USE DEF LoadManifest
<1>1. TypeOK /\ Sound(d) /\ job[d] \in Jobs /\ locker.heads \in Heads
      /\ faults \in 0..(MaxFaults + 1)
  BY DEF MigrationInv, TypeOK, Jobs
<1>2. CASE Fail(d)
  BY <1>1, <1>2, FailSafe
<1>3. CASE CoveredBy(locker.heads, job[d].todo)
           /\ job' = [job EXCEPT ![d].pc = "free", ![d].heads = locker.heads]
  <2> DEFINE j == [job[d] EXCEPT !.pc = "free", !.heads = locker.heads]
  <2>1. j \in Jobs /\ job' = [job EXCEPT ![d] = j] /\ job'[d] = j
    BY <1>1, <1>3 DEF Jobs, Phases, TypeOK
  <2>2. /\ job'[d].pc = "free" /\ job'[d].pass = job[d].pass
        /\ job'[d].heads = locker.heads /\ job'[d].todo = job[d].todo
    BY <1>1, <2>1 DEF Jobs
  <2>3. Sound(d)'
    BY <1>1, <1>3, <2>2
       DEF Sound, Typed, Remembered, Copied, CoveredBy, Copying, Replaces, Listed, Lists, Written,
           Opens, history
  <2> QED BY <1>1, <2>1, <2>3, CommandMoves
<1> QED BY <1>2, <1>3

(* A run goes on to a step for which nothing more need be known.           *)
LEMMA CheckDestinationSafe ==
  ASSUME MigrationInv, NEW d \in Devices, CheckDestination(d)
  PROVE  MigrationInv'
<1> USE DEF CheckDestination
<1>1. TypeOK /\ Sound(d) /\ job[d] \in Jobs /\ faults \in 0..(MaxFaults + 1)
  BY DEF MigrationInv, TypeOK, Jobs
<1>2. CASE Fail(d)
  BY <1>1, <1>2, FailSafe
<1>3. CASE Goto(d, "next")
  <2> DEFINE j == [job[d] EXCEPT !.pc = "next"]
  <2>1. j \in Jobs /\ job' = [job EXCEPT ![d] = j] /\ job'[d] = j
    BY <1>1, <1>3 DEF Jobs, Phases, TypeOK, Goto
  <2>2. /\ job'[d].pc = "next" /\ job'[d].pass = job[d].pass
        /\ job'[d].heads = job[d].heads /\ job'[d].todo = job[d].todo
    BY <1>1, <2>1 DEF Jobs
  <2>3. Sound(d)'
    BY <1>1, <2>2
       DEF Sound, Typed, Remembered, Copied, Copying, Replaces, Listed, Lists, Written,
         Opens, history
  <2> QED BY <1>1, <2>1, <2>3, CommandMoves
<1> QED BY <1>2, <1>3

LEMMA SkipSafe ==
  ASSUME MigrationInv, NEW d \in Devices, Skip(d)
  PROVE  MigrationInv'
<1> USE DEF Skip
<1>1. TypeOK /\ Sound(d) /\ job[d] \in Jobs /\ faults \in 0..(MaxFaults + 1)
  BY DEF MigrationInv, TypeOK, Jobs
<1> DEFINE id == Min(job[d].todo)
<1>2. CASE Fail(d)
  BY <1>1, <1>2, FailSafe
<1>3. CASE job' = [job EXCEPT ![d].checked = TRUE, ![d].todo = @ \ {id}]
  <2> DEFINE j == [job[d] EXCEPT !.checked = TRUE, !.todo = @ \ {id}]
  <2>1. Opens(id, job[d].pass)
    BY <1>1 DEF Sound, Typed, Remembered
  <2> HIDE DEF id
  <2>2. j \in Jobs /\ job' = [job EXCEPT ![d] = j] /\ job'[d] = j
    <3>1. j \in Jobs
      BY <1>1, Zenon DEF Jobs, Phases
    <3>2. job' = [job EXCEPT ![d] = j]
      BY <1>3, Zenon
    <3> QED BY <1>1, <3>1, <3>2 DEF TypeOK
  <2>3. /\ job'[d].pc = "next" /\ job'[d].pass = job[d].pass
        /\ job'[d].heads = job[d].heads /\ job'[d].todo = job[d].todo \ {id}
    <3>1. /\ j.pc = job[d].pc /\ j.pass = job[d].pass /\ j.heads = job[d].heads
          /\ j.todo = job[d].todo \ {id}
      BY <1>1, Zenon DEF Jobs
    <3> HIDE DEF j
    <3> QED BY <2>2, <3>1
  <2>4. Sound(d)'
    BY <1>1, <2>1, <2>3
       DEF Sound, Typed, Remembered, Copied, Copying, Replaces, Listed, Lists, Written,
         Opens, history
  <2> QED BY <1>1, <2>2, <2>4, CommandMoves
<1> QED BY <1>2, <1>3

LEMMA WriteLoadSafe ==
  ASSUME MigrationInv, NEW d \in Devices, WriteLoad(d)
  PROVE  MigrationInv'
<1> USE DEF WriteLoad
<1>1. /\ TypeOK /\ Sound(d) /\ job[d] \in Jobs /\ faults \in 0..(MaxFaults + 1)
      /\ bucket.etag \in Nat
  BY DEF MigrationInv, TypeOK, Jobs
<1>2. CASE Fail(d)
  BY <1>1, <1>2, FailSafe
<1>3. CASE /\ DestinationFree(job[d].heads)
           /\ job' = [job EXCEPT ![d].pc = "save", ![d].etag = bucket.etag,
                                 ![d].checked = FALSE]
  <2> DEFINE j == [job[d] EXCEPT !.pc = "save", !.etag = bucket.etag, !.checked = FALSE]
  <2>1. j \in Jobs /\ job' = [job EXCEPT ![d] = j] /\ job'[d] = j
    <3>1. j \in Jobs
      BY <1>1, Zenon DEF Jobs, Phases
    <3>2. job' = [job EXCEPT ![d] = j]
      BY <1>3, Zenon
    <3> QED BY <1>1, <3>1, <3>2 DEF TypeOK
  <2>2. /\ job'[d].pc = "save" /\ job'[d].pass = job[d].pass /\ job'[d].etag = bucket.etag
        /\ job'[d].heads = job[d].heads /\ job'[d].todo = job[d].todo
    BY <1>1, <2>1 DEF Jobs
  <2>3. job[d].todo = {}
    BY <1>1 DEF Sound, Copied
  <2>4. Sound(d)'
    <3>1. Replaces(d)'
      <4>1. bucket' = bucket /\ bucket.etag <= bucket.etag
        BY <1>1
      <4>2. \A s \in Sessions : bucket'.heads[s] # 0 => job'[d].heads[s] # 0
        BY <1>3, <2>2, <4>1 DEF DestinationFree
      <4> QED BY <2>2, <4>1, <4>2 DEF Replaces, DestinationFree
    <3>2. Typed(d)' /\ Remembered(d)' /\ Listed(d)'
      BY <1>1, <2>2 DEF Sound, Typed, Remembered, Listed, Lists, Copying, Written, Opens, history
    <3>3. Copied(d)'
      BY <1>1, <2>2, <2>3 DEF Sound, Copied, Copying, Opens, history
    <3> QED BY <3>1, <3>2, <3>3 DEF Sound
  <2> QED BY <1>1, <2>1, <2>4, CommandMoves
<1> QED BY <1>2, <1>3

LEMMA KeepSafe ==
  ASSUME MigrationInv, NEW d \in Devices, Keep(d)
  PROVE  MigrationInv'
BY FailSafe DEF Keep, MigrationInv, TypeOK

LEMMA StopSafe ==
  ASSUME MigrationInv, NEW d \in Devices, Stop(d)
  PROVE  MigrationInv'
<1>1. faults' \in 0..(MaxFaults + 1)
  BY MigrationAssumption DEF Stop, MigrationInv, TypeOK
<1> QED BY <1>1, FailSafe DEF Stop

(* The steps of a run that change what its device remembers.               *)
LEMMA HomeMoves ==
  ASSUME MigrationInv, NEW d \in Devices, NEW j \in Jobs, NEW h \in Homes,
         job' = [job EXCEPT ![d] = j], home' = [home EXCEPT ![d] = h],
         UNCHANGED <<locker, bucket, pushed, faults>>, typed' \subseteq Passphrases,
         stale \subseteq stale', stale' \subseteq Ids, Sound(d)'
  PROVE  MigrationInv'
<1>1. Grows /\ Backed'
  BY StoresRest
<1>2. job \in [Devices -> Jobs] /\ home \in [Devices -> Homes]
  BY DEF MigrationInv, TypeOK, Jobs, Homes
<1>3. /\ job' \in [Devices -> Jobs] /\ \A e \in Devices \ {d} : job'[e] = job[e]
      /\ home' \in [Devices -> Homes] /\ \A e \in Devices \ {d} : home'[e] = home[e]
  BY <1>2
<1>4. TypeOK'
  BY <1>3 DEF MigrationInv, TypeOK, Jobs, Homes
<1> QED BY <1>1, <1>3, <1>4, OneMoves DEF Rests

LEMMA SettleSafe ==
  ASSUME MigrationInv, NEW d \in Devices, NEW id \in job[d].todo,
         Settle(d, id), Verified(d, id),
         job[d].pc \in {"next", "verify"},
         UNCHANGED <<locker, bucket, history, faults>>
  PROVE  MigrationInv'
<1>1. TypeOK /\ Sound(d) /\ job[d] \in Jobs /\ home[d] \in Homes /\ id \in Ids
  BY DEF MigrationInv, TypeOK, Jobs, Homes
<1> DEFINE j == [job[d] EXCEPT !.pc = "next", !.todo = @ \ {id}]
           h == [home[d] EXCEPT !.done = @ \cup {id}]
<1>2. /\ j \in Jobs /\ job' = [job EXCEPT ![d] = j] /\ job'[d] = j
      /\ h \in Homes /\ home' = [home EXCEPT ![d] = h] /\ home'[d] = h
  BY <1>1 DEF Jobs, Homes, Phases, TypeOK, Settle
<1>3. /\ job'[d].pc = "next" /\ job'[d].pass = job[d].pass
      /\ job'[d].heads = job[d].heads /\ job'[d].todo = job[d].todo \ {id}
      /\ home'[d].done = home[d].done \cup {id}
      /\ home'[d].storage = home[d].storage /\ home'[d].base = home[d].base
  <2>1. /\ j.pc = "next" /\ j.pass = job[d].pass
        /\ j.heads = job[d].heads /\ j.todo = job[d].todo \ {id}
    BY <1>1 DEF Jobs
  <2>2. /\ h.done = home[d].done \cup {id}
        /\ h.storage = home[d].storage /\ h.base = home[d].base
    BY <1>1 DEF Homes
  <2> HIDE DEF j, h
  <2> QED BY <1>2, <2>1, <2>2
<1>4. bucket.objects[id] = job[d].pass
  BY DEF Verified
<1>5. Typed(d)' /\ Remembered(d)'
  <2>1. job[d].pass \in Passphrases
    BY <1>1 DEF Sound, Typed
  <2>2. \A i \in home'[d].done :
           bucket.objects[i] \in Passphrases /\ Opens(i, job[d].pass)
    BY <1>1, <1>3, <1>4, <2>1 DEF Sound, Remembered, Opens
  <2> QED BY <1>3, <2>1, <2>2 DEF Typed, Remembered, Opens, history
<1>6. Copied(d)' /\ Replaces(d)' /\ Listed(d)'
  BY <1>1, <1>3, <1>4 DEF Sound, Copied, Copying, Replaces, Listed, Lists, Written,
     Opens, history
<1> QED BY <1>1, <1>2, <1>5, <1>6, HomeMoves DEF Sound, TypeOK, history

LEMMA FindSafe ==
  ASSUME MigrationInv, NEW d \in Devices, Find(d)
  PROVE  MigrationInv'
<1> USE DEF Find
<1>1. TypeOK /\ Sound(d) /\ job[d] \in Jobs /\ faults \in 0..(MaxFaults + 1)
  BY DEF MigrationInv, TypeOK, Jobs
<1> DEFINE id == Min(job[d].todo)
<1>2. id \in job[d].todo
  BY <1>1, NextOne
<1> HIDE DEF id
<1>3. CASE Fail(d) /\ UNCHANGED home
  BY <1>1, <1>3, FailSafe
<1>4. CASE Settle(d, id) /\ Verified(d, id)
  BY <1>2, <1>4, SettleSafe
<1>5. CASE Goto(d, "put") /\ UNCHANGED home
  <2> DEFINE j == [job[d] EXCEPT !.pc = "put"]
  <2>1. j \in Jobs /\ job' = [job EXCEPT ![d] = j] /\ job'[d] = j
    BY <1>1, <1>5 DEF Jobs, Phases, TypeOK, Goto
  <2>2. /\ job'[d].pc = "put" /\ job'[d].pass = job[d].pass
        /\ job'[d].heads = job[d].heads /\ job'[d].todo = job[d].todo
    BY <1>1, <2>1 DEF Jobs
  <2>3. Sound(d)'
    BY <1>1, <1>5, <2>2
       DEF Sound, Typed, Remembered, Copied, Copying, Replaces, Listed, Lists, Written,
         Opens, history
  <2> QED BY <1>1, <1>5, <2>1, <2>3, CommandMoves
<1> QED BY <1>3, <1>4, <1>5 DEF id

LEMMA VerifySafe ==
  ASSUME MigrationInv, NEW d \in Devices, Verify(d)
  PROVE  MigrationInv'
<1> USE DEF Verify
<1>1. TypeOK /\ Sound(d) /\ faults \in 0..(MaxFaults + 1)
  BY DEF MigrationInv, TypeOK
<1> DEFINE id == Min(job[d].todo)
<1>2. id \in job[d].todo
  BY <1>1, NextOne DEF Sound, Copied
<1> HIDE DEF id
<1>3. CASE Fail(d) /\ UNCHANGED home
  BY <1>1, <1>3, FailSafe
<1>4. CASE Settle(d, id) /\ Verified(d, id)
  BY <1>2, <1>4, SettleSafe
<1> QED BY <1>3, <1>4 DEF id

LEMMA WriteRereadSafe ==
  ASSUME MigrationInv, NEW d \in Devices, WriteReread(d)
  PROVE  MigrationInv'
<1> USE DEF WriteReread
<1>1. TypeOK /\ Sound(d) /\ job[d] \in Jobs /\ home[d] \in Homes /\ faults \in 0..(MaxFaults + 1)
  BY DEF MigrationInv, TypeOK, Jobs, Homes
<1>2. CASE Fail(d) /\ UNCHANGED home
  BY <1>1, <1>2, FailSafe
<1>3. CASE /\ bucket.heads = job[d].heads
           /\ job' = [job EXCEPT ![d] = [NoJob EXCEPT !.pc = "offer", !.pass = job[d].pass]]
           /\ home' = [home EXCEPT ![d].completed = TRUE]
  <2> DEFINE j == [NoJob EXCEPT !.pc = "offer", !.pass = job[d].pass]
             h == [home[d] EXCEPT !.completed = TRUE]
  <2>1. /\ j \in Jobs /\ job' = [job EXCEPT ![d] = j] /\ job'[d] = j
        /\ h \in Homes /\ home' = [home EXCEPT ![d] = h] /\ home'[d] = h
    BY <1>1, <1>3, NoJobIsJob DEF Jobs, Homes, Phases, TypeOK
  <2>2. /\ job'[d].pc = "offer" /\ job'[d].pass = job[d].pass
        /\ home'[d].done = home[d].done
        /\ home'[d].storage = home[d].storage /\ home'[d].base = home[d].base
    <3>1. j.pc = "offer" /\ j.pass = job[d].pass
      BY NoJobIsJob DEF NoJob
    <3>2. h.done = home[d].done /\ h.storage = home[d].storage /\ h.base = home[d].base
      BY <1>1 DEF Homes
    <3> HIDE DEF j, h
    <3> QED BY <2>1, <3>1, <3>2
  <2>3. Sound(d)'
    BY <1>1, <1>3, <2>2
       DEF Sound, Typed, Remembered, Copied, Copying, Replaces, Listed, Lists, Written,
         Opens, history
  <2> QED BY <1>1, <2>1, <2>3, HomeMoves DEF TypeOK, history
<1> QED BY <1>2, <1>3

LEMMA SwitchSafe ==
  ASSUME MigrationInv, NEW d \in Devices, Switch(d) \/ SaveConfig(d) \/ Cleanup(d)
  PROVE  MigrationInv'
<1> USE DEF Switch, SaveConfig, Cleanup
<1>1. TypeOK /\ Sound(d) /\ job[d] \in Jobs /\ home[d] \in Homes
  BY DEF MigrationInv, TypeOK, Jobs, Homes
<1>2. CASE Switch(d)
  <2> DEFINE j == [job[d] EXCEPT !.pc = "config"]
             h == [home[d] EXCEPT !.account = FALSE]
  <2>1. /\ j \in Jobs /\ job' = [job EXCEPT ![d] = j] /\ job'[d] = j
        /\ h \in Homes /\ home' = [home EXCEPT ![d] = h] /\ home'[d] = h
    BY <1>1, <1>2 DEF Jobs, Homes, Phases, TypeOK, Goto
  <2>2. /\ job'[d].pc = "config" /\ job'[d].pass = job[d].pass
        /\ home'[d].done = home[d].done
        /\ home'[d].storage = home[d].storage /\ home'[d].base = home[d].base
    BY <1>1, <2>1 DEF Jobs, Homes
  <2>3. Sound(d)'
    BY <1>1, <1>2, <2>2
       DEF Sound, Typed, Remembered, Copied, Copying, Replaces, Listed, Lists, Written,
         Opens, history
  <2> QED BY <1>1, <1>2, <2>1, <2>3, HomeMoves DEF TypeOK, history
<1>3. CASE SaveConfig(d)
  <2> DEFINE j == [job[d] EXCEPT !.pc = "cleanup"]
             h == [home[d] EXCEPT !.storage = "s3"]
  <2>1. /\ j \in Jobs /\ job' = [job EXCEPT ![d] = j] /\ job'[d] = j
        /\ h \in Homes /\ home' = [home EXCEPT ![d] = h] /\ home'[d] = h
    BY <1>1, <1>3 DEF Jobs, Homes, Phases, TypeOK, Goto
  <2>2. /\ job'[d].pc = "cleanup" /\ job'[d].pass = job[d].pass
        /\ home'[d].done = home[d].done
        /\ home'[d].storage = "s3" /\ home'[d].base = home[d].base
    BY <1>1, <2>1 DEF Jobs, Homes
  <2>3. Sound(d)'
    BY <1>1, <1>3, <2>2
       DEF Sound, Typed, Remembered, Copied, Copying, Replaces, Listed, Lists, Written,
         Opens, history
  <2> QED BY <1>1, <1>3, <2>1, <2>3, HomeMoves DEF TypeOK, history
<1>4. CASE Cleanup(d)
  <2> DEFINE h == [home[d] EXCEPT !.done = {}]
  <2>1. /\ job' = [job EXCEPT ![d] = NoJob] /\ job'[d] = NoJob
        /\ h \in Homes /\ home' = [home EXCEPT ![d] = h] /\ home'[d] = h
    BY <1>1, <1>4 DEF Homes, TypeOK, Fail
  <2>2. /\ job'[d].pc = "idle" /\ home'[d].done = {}
        /\ home'[d].storage = home[d].storage /\ home'[d].base = home[d].base
    BY <1>1, <2>1 DEF NoJob, Homes
  <2>3. Sound(d)'
    BY <1>1, <1>4, <2>2
       DEF Sound, Typed, Remembered, Copied, Copying, Replaces, Listed, Lists, Written,
         Opens, history
  <2> QED BY <1>1, <1>4, <2>1, <2>3, NoJobIsJob, HomeMoves DEF TypeOK, history
<1> QED BY <1>2, <1>3, <1>4

(* The steps of a run that write to the destination.                       *)
LEMMA PutSafe ==
  ASSUME MigrationInv, NEW d \in Devices, Put(d)
  PROVE  MigrationInv'
<1> USE DEF Put
<1>1. TypeOK /\ Sound(d) /\ job[d] \in Jobs /\ faults \in 0..(MaxFaults + 1) /\ Backed
  BY DEF MigrationInv, TypeOK, Jobs
<1> DEFINE id == Min(job[d].todo)
           j == [job[d] EXCEPT !.pc = "verify"]
<1>2. id \in Ids /\ job[d].todo # {}
  BY <1>1, NextOne DEF Sound, Copied
<1> HIDE DEF id
<1>3. /\ j \in Jobs /\ job' = [job EXCEPT ![d] = j] /\ job'[d] = j
      /\ \A e \in Devices \ {d} : Rests(e)
  BY <1>1 DEF Jobs, Phases, TypeOK, Goto, Rests
<1>4. /\ job'[d].pc = "verify" /\ job'[d].pass = job[d].pass
      /\ job'[d].heads = job[d].heads /\ job'[d].todo = job[d].todo
  BY <1>1, <1>3 DEF Jobs
<1>5. \/ UNCHANGED <<bucket, faults>>
      \/ \E o \in Objects : /\ bucket.objects[id] = "none"
                            /\ bucket' = [bucket EXCEPT !.objects[id] = o]
                            /\ faults' \in 0..(MaxFaults + 1)
  <2>1. /\ job[d].pass \in Objects /\ "damaged" \in Objects
        /\ faults \in 0..(MaxFaults + 1) /\ (faults < MaxFaults => faults + 1 \in 0..(MaxFaults + 1))
    BY <1>1, MigrationAssumption DEF Objects, Jobs, Sound, Typed, Remembered
  <2>2. ASSUME NEW o \in Objects, bucket' = [bucket EXCEPT !.objects[id] = o], ~Exists(id),
               faults' \in 0..(MaxFaults + 1)
        PROVE  \E u \in Objects : /\ bucket.objects[id] = "none"
                                  /\ bucket' = [bucket EXCEPT !.objects[id] = u]
                                  /\ faults' \in 0..(MaxFaults + 1)
    BY <2>2 DEF Exists
  <2> QED BY <2>1, <2>2 DEF id
<1>6. bucket' \in Buckets /\ faults' \in 0..(MaxFaults + 1)
  <2>1. bucket \in Buckets
    BY <1>1 DEF TypeOK, Buckets
  <2>2. ASSUME NEW o \in Objects PROVE [bucket EXCEPT !.objects[id] = o] \in Buckets
    <3>1. bucket.objects \in [Ids -> Objects]
      BY <2>1 DEF Buckets
    <3>2. [bucket.objects EXCEPT ![id] = o] \in [Ids -> Objects]
      BY <3>1
    <3> QED BY <2>1, <3>2 DEF Buckets
  <2> QED BY <1>1, <1>5, <2>1, <2>2
<1>7. TypeOK'
  BY <1>1, <1>3, <1>6 DEF TypeOK, Jobs, Buckets, history
<1>8. /\ bucket'.etag = bucket.etag /\ bucket'.heads = bucket.heads /\ bucket'.pass = bucket.pass
      /\ \A i \in Ids : bucket.objects[i] \in Passphrases => bucket'.objects[i] = bucket.objects[i]
  BY <1>1, <1>2, <1>5, MigrationAssumption DEF TypeOK
<1>9. Grows
  BY <1>1, <1>8 DEF Grows, TypeOK, history
<1>10. Backed'
  BY <1>1, <1>8, <1>9, BackedGrows
<1>11. Sound(d)'
  <2>1. Rests(d) \/ job'[d].pc = "verify"
    BY <1>4
  <2>2. Typed(d)' /\ Replaces(d)'
    BY <1>1, <1>4 DEF Sound, Typed, Replaces
  <2>3. Remembered(d)'
    BY <1>1, <1>4, <1>9, GoesOnToOpen DEF Sound, Remembered, Typed, TypeOK, Grows
  <2>4. Copied(d)'
    <3>1. ASSUME NEW s \in Sessions, job[d].heads[s] # 0
          PROVE  \/ job[d].heads[s] \in job[d].todo
                 \/ Opens(job[d].heads[s], job[d].pass)'
      <4>1. job[d].heads[s] \in Ids /\ job[d].pass \in Passphrases
        BY <1>1, <3>1 DEF Jobs, Heads, Sound, Typed
      <4>2. job[d].heads[s] \in job[d].todo \/ Opens(job[d].heads[s], job[d].pass)
        BY <1>1, <3>1 DEF Sound, Copied, Copying
      <4> QED BY <1>4, <1>9, <4>1, <4>2, GoesOnToOpen DEF Opens
    <3> QED BY <1>2, <1>4, <3>1 DEF Copied, Opens
  <2>5. Listed(d)'
    BY <1>1, <1>4, <1>8 DEF Sound, Listed, Lists, Copying, Written
  <2> QED BY <2>2, <2>3, <2>4, <2>5 DEF Sound
<1> QED BY <1>3, <1>7, <1>9, <1>10, <1>11, OneMoves

LEMMA WriteSaveSafe ==
  ASSUME MigrationInv, NEW d \in Devices, WriteSave(d)
  PROVE  MigrationInv'
<1> USE DEF WriteSave
<1>1. /\ TypeOK /\ Sound(d) /\ job[d] \in Jobs /\ faults \in 0..(MaxFaults + 1)
      /\ bucket.etag \in Nat
  BY DEF MigrationInv, TypeOK, Jobs
<1>2. CASE Fail(d) /\ UNCHANGED bucket
  BY <1>1, <1>2, FailSafe
<1>3. CASE /\ job[d].attempt + 1 < MaxRetries
           /\ job' = [job EXCEPT ![d].pc = "load", ![d].attempt = @ + 1]
           /\ UNCHANGED bucket
  <2> DEFINE j == [job[d] EXCEPT !.pc = "load", !.attempt = @ + 1]
  <2>1. j \in Jobs /\ job' = [job EXCEPT ![d] = j] /\ job'[d] = j
    BY <1>1, <1>3, MigrationAssumption DEF Jobs, Phases, TypeOK
  <2>2. /\ job'[d].pc = "load" /\ job'[d].pass = job[d].pass
        /\ job'[d].heads = job[d].heads /\ job'[d].todo = job[d].todo
    BY <1>1, <2>1 DEF Jobs
  <2>3. Typed(d)' /\ Remembered(d)' /\ Replaces(d)' /\ Listed(d)'
    BY <1>1, <1>3, <2>2
       DEF Sound, Typed, Remembered, Copying, Replaces, Listed, Lists, Written, Opens, history
  <2>4. Copied(d)'
    <3>1. /\ job[d].pc = "save" /\ job[d].todo = {}
          /\ \A s \in Sessions : job[d].heads[s] # 0 => Opens(job[d].heads[s], job[d].pass)
      BY <1>1 DEF Sound, Copied, Copying
    <3>2. UNCHANGED <<bucket, stale>>
      BY <1>3 DEF history
    <3> HIDE DEF WriteSave
    <3> QED BY <2>2, <3>1, <3>2 DEF Copied, Opens
  <2> QED BY <1>1, <1>3, <2>1, <2>3, <2>4, CommandMoves DEF Sound
<1>4. CASE /\ bucket.etag = job[d].etag
           /\ bucket' = [bucket EXCEPT !.etag = @ + 1, !.heads = job[d].heads,
                                       !.pass = job[d].pass]
           /\ job' = [job EXCEPT ![d] = [NoJob EXCEPT !.pc = "reread", !.pass = job[d].pass,
                                                     !.heads = job[d].heads]]
  <2> DEFINE j == [NoJob EXCEPT !.pc = "reread", !.pass = job[d].pass, !.heads = job[d].heads]
  <2>1. /\ j \in Jobs /\ job' = [job EXCEPT ![d] = j] /\ job'[d] = j
        /\ \A e \in Devices \ {d} : Rests(e)
    BY <1>1, <1>4, NoJobIsJob DEF Jobs, Phases, TypeOK, Rests
  <2>2. /\ job'[d].pc = "reread" /\ job'[d].pass = job[d].pass
        /\ job'[d].heads = job[d].heads
    BY <1>1, <2>1 DEF NoJob
  <2>3. /\ bucket'.objects = bucket.objects /\ bucket'.etag = bucket.etag + 1
        /\ bucket'.heads = job[d].heads /\ bucket'.pass = job[d].pass
        /\ bucket' \in Buckets
    <3>1. bucket \in Buckets
      BY <1>1 DEF TypeOK, Buckets
    <3>2. bucket.objects \in [Ids -> Objects] /\ job[d].heads \in Heads
          /\ job[d].pass \in Objects /\ bucket.etag + 1 \in Nat
      BY <1>1, <3>1 DEF Buckets, Jobs
    <3>3. bucket' = Rewrite(bucket, bucket.objects, bucket.etag + 1, job[d].heads, job[d].pass)
      BY <1>4, <3>1 DEF Rewrite, Buckets
    <3> QED BY <3>1, <3>2, <3>3, Rewritten
  <2>4. TypeOK'
    BY <1>1, <2>1, <2>3 DEF TypeOK, Jobs, Buckets, history
  <2>5. Grows
    <3>1. DestinationFree(job[d].heads)
      BY <1>1, <1>4 DEF Sound, Replaces
    <3> QED BY <1>1, <2>3, <3>1 DEF Grows, DestinationFree, history
  <2>6. Backed'
    <3>1. job[d].pass \in Passphrases /\ job[d].todo = {}
      BY <1>1 DEF Sound, Typed, Copied
    <3>2. \A s \in Sessions : job[d].heads[s] # 0 => Opens(job[d].heads[s], job[d].pass)
      BY <1>1, <3>1 DEF Sound, Copied, Copying
    <3> QED BY <1>1, <2>3, <3>1, <3>2 DEF Backed, ManifestBacked, Opens, history
  <2>7. Sound(d)'
    <3>1. Typed(d)' /\ Remembered(d)' /\ Copied(d)' /\ Replaces(d)'
      BY <1>1, <2>2, <2>3
         DEF Sound, Typed, Remembered, Copied, Copying, Replaces, Opens, history
    <3>2. Listed(d)'
      BY <1>1, <2>2, <2>3 DEF Sound, Listed, Lists, Copying, Written
    <3> QED BY <3>1, <3>2 DEF Sound
  <2> QED BY <2>1, <2>4, <2>5, <2>6, <2>7, OneMoves
<1> QED BY <1>2, <1>3, <1>4

-----------------------------------------------------------------------------
(* Around the command.                                                     *)
LEMMA StartSafe ==
  ASSUME MigrationInv, NEW d \in Devices, NEW p \in Passphrases, Start(d, p)
  PROVE  MigrationInv'
<1> USE DEF Start
<1>1. TypeOK /\ Sound(d) /\ job[d] \in Jobs /\ home[d] \in Homes
  BY DEF MigrationInv, TypeOK, Jobs, Homes
<1> DEFINE j == [NoJob EXCEPT !.pc = "list", !.pass = p]
           n == IF home[d].completed THEN home[d].reruns + 1 ELSE home[d].reruns
           h == [home[d] EXCEPT !.reruns = n]
<1>2. j \in Jobs /\ j.pc = "list" /\ j.pass = p
  BY NoJobIsJob DEF Jobs, Phases, Objects, NoJob
<1>3. /\ h \in Homes /\ h.done = home[d].done
      /\ h.storage = home[d].storage /\ h.base = home[d].base
  <2>1. n \in Nat
    BY <1>1 DEF Homes
  <2> HIDE DEF n
  <2> QED BY <1>1, <2>1 DEF Homes, Objects
<1>4. job' = [job EXCEPT ![d] = j] /\ home' = [home EXCEPT ![d] = h]
  BY <1>1 DEF TypeOK, Homes
<1>5. job'[d] = j /\ home'[d] = h
  BY <1>1, <1>4 DEF TypeOK
<1> HIDE DEF j, h
<1>6. Remembered(d)'
  BY <1>1, <1>2, <1>3, <1>5 DEF Sound, Remembered, Opens
<1>7. Typed(d)' /\ Copied(d)' /\ Replaces(d)'
  BY <1>2, <1>3, <1>5 DEF Typed, Copied, Copying, Replaces
<1>8. Listed(d)'
  BY <1>1, <1>2, <1>3, <1>5 DEF Sound, Listed, Lists, Copying, Written
<1>9. /\ typed' \subseteq Passphrases /\ stale \subseteq stale' /\ stale' \subseteq Ids
  BY <1>1 DEF TypeOK, Homes
<1> QED BY <1>2, <1>3, <1>4, <1>6, <1>7, <1>8, <1>9, HomeMoves DEF Sound

(* A step of something else than a run, which leaves every run alone.      *)
LEMMA RemoveDamagedSafe ==
  ASSUME MigrationInv, NEW id \in Ids, RemoveDamaged(id)
  PROVE  MigrationInv'
<1> USE DEF RemoveDamaged
<1>1. TypeOK /\ Backed /\ bucket \in Buckets
  BY DEF MigrationInv, TypeOK, Buckets
<1>2. bucket' \in Buckets
  <2>1. bucket.objects \in [Ids -> Objects]
    BY <1>1 DEF Buckets
  <2>2. [bucket.objects EXCEPT ![id] = "none"] \in [Ids -> Objects]
    BY <2>1 DEF Objects
  <2> QED BY <1>1, <2>2 DEF Buckets
<1>3. /\ bucket'.etag = bucket.etag /\ bucket'.heads = bucket.heads /\ bucket'.pass = bucket.pass
      /\ \A i \in Ids : bucket.objects[i] \in Passphrases => bucket'.objects[i] = bucket.objects[i]
  BY <1>1, MigrationAssumption DEF Buckets
<1>4. TypeOK'
  BY <1>1, <1>2 DEF TypeOK, Buckets, history
<1>5. Grows
  BY <1>1, <1>3 DEF Grows, Buckets, history
<1>6. Backed'
  BY <1>1, <1>3, <1>5, BackedGrows
<1>7. \A d \in Devices : Sound(d)'
  BY <1>1, <1>5, RestsSound DEF Rests, MigrationInv
<1> QED BY <1>4, <1>6, <1>7 DEF MigrationInv

LEMMA StartOverSafe ==
  ASSUME MigrationInv, NEW d \in Devices, StartOver(d)
  PROVE  MigrationInv'
<1> USE DEF StartOver
<1>1. TypeOK /\ Backed /\ bucket \in Buckets /\ home \in [Devices -> Homes]
  BY DEF MigrationInv, TypeOK, Buckets, Homes
<1>2. bucket' \in Buckets /\ bucket'.etag = 0 /\ bucket'.heads = bucket.heads
  BY <1>1 DEF Buckets, Objects
<1>3. faults' \in 0..(MaxFaults + 1)
  BY <1>1, MigrationAssumption DEF TypeOK
<1> DEFINE h == [home[d] EXCEPT !.done = {}]
<1>4. /\ h \in Homes /\ h.done = {} /\ h.storage = home[d].storage /\ h.base = home[d].base
      /\ home' = [home EXCEPT ![d] = h]
  BY <1>1 DEF Homes
<1> HIDE DEF h
<1>5. home' \in [Devices -> Homes] /\ home'[d] = h /\ \A e \in Devices \ {d} : home'[e] = home[e]
  BY <1>1, <1>4
<1>6. TypeOK'
  BY <1>1, <1>2, <1>3, <1>5 DEF TypeOK, Buckets, Homes
<1>7. Backed'
  BY <1>1, <1>2 DEF Backed, ManifestBacked
<1>8. ASSUME NEW e \in Devices PROVE Sound(e)'
  <2>1. Sound(e) /\ job'[e].pc = "idle"
    BY DEF MigrationInv
  <2>2. /\ home'[e].done = {} /\ home'[e].storage = home[e].storage /\ home'[e].base = home[e].base
    BY <1>4, <1>5
  <2>3. home[e].storage # "s3"
    BY <2>1 DEF Sound, Listed
  <2> QED BY <1>2, <2>1, <2>2, <2>3
          DEF Sound, Typed, Remembered, Copied, Copying, Replaces, Listed, Lists, Written,
         Opens, history
<1> QED BY <1>6, <1>7, <1>8 DEF MigrationInv

LEMMA PushLockerSafe ==
  ASSUME MigrationInv, NEW d \in Devices, NEW s \in Sessions, NEW id \in Ids, PushLocker(d, s, id)
  PROVE  MigrationInv'
<1> USE DEF PushLocker
<1>1. TypeOK /\ Backed /\ Sound(d) /\ home \in [Devices -> Homes] /\ home[d] \in Homes
  BY DEF MigrationInv, TypeOK, Homes
<1>2. id # 0 /\ id \in Ids
  BY MigrationAssumption DEF Ids
<1>3. /\ locker.heads \in Heads /\ locker'.heads = [locker.heads EXCEPT ![s] = id]
      /\ locker' \in [snapshots : SUBSET Ids, heads : Heads]
  BY <1>1 DEF TypeOK, Heads
<1> DEFINE h == [home[d] EXCEPT !.base = [home[d].base EXCEPT ![s] = id]]
<1>4. /\ h \in Homes /\ h.done = home[d].done
      /\ h.storage = home[d].storage /\ h.base = [home[d].base EXCEPT ![s] = id]
  <2>1. [home[d].base EXCEPT ![s] = id] \in Heads
    BY <1>1 DEF Homes, Heads
  <2> QED BY <1>1, <2>1 DEF Homes
<1>5. home' = [home EXCEPT ![d] = h]
  BY <1>1 DEF Homes
<1> HIDE DEF h
<1>6. /\ home' \in [Devices -> Homes] /\ home'[d] = h
      /\ \A e \in Devices \ {d} : Rests(e)
  BY <1>1, <1>4, <1>5 DEF Rests
<1>7. TypeOK'
  BY <1>1, <1>3, <1>6 DEF TypeOK, Homes, history
<1>8. Grows
  BY <1>1, <1>2, <1>3 DEF Grows, TypeOK, Heads, history
<1>9. Backed'
  BY <1>1, <1>8, BackedGrows
<1>10. Sound(d)'
  <2>1. home[d].base \in Heads
    BY <1>1 DEF Homes
  <2>2. Lists(locker.heads, d)'
    BY <1>1, <1>2, <1>3, <1>4, <1>6, <2>1 DEF Sound, Listed, Lists, Heads
  <2>3. Typed(d)' /\ Remembered(d)' /\ Copied(d)' /\ Replaces(d)'
    BY <1>1, <1>4, <1>6 DEF Sound, Typed, Remembered, Copied, Copying, Replaces, Opens, history
  <2>4. Listed(d)'
    BY <1>1, <1>4, <1>6, <2>2 DEF Listed, Copying, Written
  <2> QED BY <2>3, <2>4 DEF Sound
<1> QED BY <1>6, <1>7, <1>8, <1>9, <1>10, OneMoves

LEMMA JoinBucketSafe ==
  ASSUME MigrationInv, NEW d \in Devices, JoinBucket(d)
  PROVE  MigrationInv'
<1> USE DEF JoinBucket
<1>1. TypeOK /\ Sound(d) /\ home \in [Devices -> Homes] /\ home[d] \in Homes
  BY DEF MigrationInv, TypeOK, Homes
<1> DEFINE h == [home[d] EXCEPT !.storage = "s3", !.account = FALSE, !.base = NoHeads]
<1>2. /\ h \in Homes /\ h.done = home[d].done
      /\ h.storage = "s3" /\ h.base = NoHeads /\ home' = [home EXCEPT ![d] = h]
  BY <1>1 DEF Homes, Heads, NoHeads
<1> HIDE DEF h
<1>3. /\ home' \in [Devices -> Homes] /\ home'[d] = h
      /\ \A e \in Devices \ {d} : Rests(e)
  BY <1>1, <1>2 DEF Rests
<1>4. TypeOK'
  BY <1>1, <1>3 DEF TypeOK, Homes, history
<1>5. Sound(d)'
  BY <1>1, <1>2, <1>3 DEF Sound, Typed, Remembered, Copied, Copying, Replaces,
     Listed, Lists, Written, NoHeads, Opens, history
<1> QED BY <1>3, <1>4, <1>5, StoresRest, OneMoves DEF history

LEMMA PushBucketSafe ==
  ASSUME MigrationInv, NEW d \in Devices, NEW s \in Sessions, NEW id \in Ids, PushBucket(d, s, id)
  PROVE  MigrationInv'
<1> USE DEF PushBucket
<1>1. /\ TypeOK /\ Backed /\ Sound(d) /\ home \in [Devices -> Homes] /\ home[d] \in Homes
      /\ bucket \in Buckets
  BY DEF MigrationInv, TypeOK, Homes, Buckets
<1>2. id # 0 /\ id \in Ids
  BY MigrationAssumption DEF Ids
<1> DEFINE o == [bucket.objects EXCEPT ![id] = bucket.pass]
           heads == [bucket.heads EXCEPT ![s] = id]
<1>3. o \in [Ids -> Objects] /\ heads \in Heads
  BY <1>1 DEF Buckets, Heads
<1>4. bucket' = Rewrite(bucket, o, bucket.etag + 1, heads, bucket.pass)
  BY <1>1 DEF Rewrite, Buckets
<1>5. /\ bucket'.objects = o /\ bucket'.etag = bucket.etag + 1 /\ bucket'.heads = heads
      /\ bucket'.pass = bucket.pass /\ bucket' \in Buckets
  <2> HIDE DEF o, heads, PushBucket
  <2>1. bucket.pass \in Objects /\ bucket.etag + 1 \in Nat
    BY <1>1 DEF Buckets
  <2> QED BY <1>1, <1>3, <1>4, <2>1, Rewritten
<1>6. bucket.etag > 0 /\ bucket.pass \in Passphrases
  BY <1>1 DEF Sound, Listed, Backed
<1>7. /\ \A i \in Ids \ {id} : bucket'.objects[i] = bucket.objects[i]
      /\ bucket'.objects[id] = bucket.pass /\ bucket.objects[id] = "none"
  BY <1>1, <1>5 DEF Buckets, Exists
<1>8. /\ \A t \in Sessions \ {s} : bucket'.heads[t] = bucket.heads[t]
      /\ bucket'.heads[s] = id
  BY <1>1, <1>5 DEF Buckets, Heads
<1> HIDE DEF o, heads
<1> DEFINE h == [home[d] EXCEPT !.base = [home[d].base EXCEPT ![s] = id]]
<1>9. /\ h \in Homes /\ h.done = home[d].done
      /\ h.storage = home[d].storage /\ h.base = [home[d].base EXCEPT ![s] = id]
  <2>1. [home[d].base EXCEPT ![s] = id] \in Heads
    BY <1>1 DEF Homes, Heads
  <2> QED BY <1>1, <2>1 DEF Homes
<1>10. home' = [home EXCEPT ![d] = h]
  BY <1>1 DEF Homes
<1> HIDE DEF h
<1>11. /\ home' \in [Devices -> Homes] /\ home'[d] = h
       /\ \A e \in Devices \ {d} : Rests(e)
  BY <1>1, <1>9, <1>10 DEF Rests
<1>12. TypeOK'
  BY <1>1, <1>5, <1>11 DEF TypeOK, Homes, Buckets
<1>13. \A i \in Ids : bucket.objects[i] \in Passphrases => bucket'.objects[i] = bucket.objects[i]
  BY <1>7, MigrationAssumption
<1>14. Grows
  BY <1>1, <1>2, <1>5, <1>8, <1>13 DEF Grows, Buckets
<1>15. Backed'
  <2>1. ASSUME NEW t \in Sessions, bucket'.heads[t] # 0
        PROVE  Opens(bucket.heads[t], bucket.pass)'
    <3>1. CASE t = s
      BY <1>5, <1>7, <1>8, <3>1 DEF Opens
    <3>2. CASE t # s
      <4>1. bucket'.heads[t] = bucket.heads[t] /\ bucket.heads[t] \in Ids
        BY <1>1, <1>8, <2>1, <3>2 DEF Buckets, Heads
      <4>2. Opens(bucket.heads[t], bucket.pass)
        BY <1>1, <1>6, <2>1, <4>1 DEF Backed, ManifestBacked
      <4> QED BY <1>5, <1>6, <1>14, <4>1, <4>2, GoesOnToOpen DEF Opens
    <3> QED BY <3>1, <3>2
  <2> QED BY <1>1, <1>5, <1>6, <2>1 DEF Backed, ManifestBacked, Buckets
<1>16. Sound(d)'
  <2>1. home[d].base \in Heads /\ home[d].done \in SUBSET Ids /\ job' = job
    BY <1>1 DEF Homes
  <2>2. Lists(bucket.heads, d)'
    BY <1>1, <1>2, <1>8, <1>9, <1>11, <2>1 DEF Sound, Listed, Lists, Heads
  <2>3. Typed(d)' /\ Copied(d)' /\ Replaces(d)'
    BY <1>1, <1>9, <1>11, <2>1 DEF Sound, Typed, Copied, Copying, Replaces
  <2>4. Remembered(d)'
    BY <1>1, <1>9, <1>11, <1>14, <2>1, GoesOnToOpen DEF Sound, Remembered, Typed, Grows
  <2>5. Listed(d)'
    BY <1>1, <1>5, <1>6, <1>9, <1>11, <2>1, <2>2 DEF Listed, Copying, Written, Buckets
  <2> QED BY <2>2, <2>3, <2>4, <2>5 DEF Sound
<1> QED BY <1>11, <1>12, <1>14, <1>15, <1>16, OneMoves

LEMMA NextInv == MigrationInv /\ [Next]_vars => MigrationInv'
<1> SUFFICES ASSUME MigrationInv, [Next]_vars
             PROVE  MigrationInv'
  OBVIOUS
<1>1. CASE UNCHANGED vars
  BY <1>1 DEF vars, MigrationInv, TypeOK, Backed, ManifestBacked, Sound, Typed, Remembered, Copied,
     Replaces, DestinationFree, Listed, Lists, Opens, history
<1>2. ASSUME NEW d \in Devices, Step(d) PROVE MigrationInv'
  BY <1>2, ListSnapshotsSafe, LoadManifestSafe, CheckDestinationSafe, SkipSafe, FindSafe, PutSafe,
     VerifySafe, WriteLoadSafe, WriteSaveSafe, WriteRereadSafe, KeepSafe, SwitchSafe DEF Step
<1>3. ASSUME NEW d \in Devices,
             \/ \E p \in Passphrases : Start(d, p)
             \/ Stop(d) \/ StartOver(d) \/ JoinBucket(d)
             \/ \E s \in Sessions, id \in Ids : PushLocker(d, s, id) \/ PushBucket(d, s, id)
      PROVE  MigrationInv'
  BY <1>3, StartSafe, StopSafe, StartOverSafe, JoinBucketSafe, PushLockerSafe, PushBucketSafe
<1>4. ASSUME NEW id \in Ids, RemoveDamaged(id) PROVE MigrationInv'
  BY <1>4, RemoveDamagedSafe
<1> QED BY <1>1, <1>2, <1>3, <1>4 DEF Next

LEMMA MigrationInvariant == Spec => []MigrationInv
<1>1. Init => MigrationInv
  BY InitInv
<1>2. MigrationInv /\ [Next]_vars => MigrationInv'
  BY NextInv
<1> QED BY <1>1, <1>2, PTL DEF Spec

(* Whatever the manifest of the destination names is there, and opens      *)
(* under the passphrase of the manifest unless a run was told that it had  *)
(* been verified, however runs, devices, passphrases, interruptions and    *)
(* pushes interleave (migrate.go writes the manifest last, and only what   *)
(* it verified or remembered as verified is in it).                        *)
THEOREM ManifestStaysBacked == Spec => []ManifestBacked
<1>1. Spec => []MigrationInv
  BY MigrationInvariant
<1>2. MigrationInv => ManifestBacked
  BY DEF MigrationInv, Backed
<1> QED BY <1>1, <1>2, PTL

(* A device that has switched finds every session that it remembers in the *)
(* manifest of the bucket and can pull its head, also after slower runs    *)
(* with older manifests (destinationFree, migrate.go).                     *)
THEOREM SwitchKeepsSessions == Spec => []SwitchedSessionsKept
<1>1. Spec => []MigrationInv
  BY MigrationInvariant
<1>2. MigrationInv => SwitchedSessionsKept
  BY DEF MigrationInv, Sound, Listed, Lists, Backed, ManifestBacked, SwitchedSessionsKept
<1> QED BY <1>1, <1>2, PTL

(* The variables of the migration keep their types.                        *)
THEOREM MigrationTypeCorrect == Spec => []TypeOK
<1>1. Spec => []MigrationInv
  BY MigrationInvariant
<1>2. MigrationInv => TypeOK
  BY DEF MigrationInv
<1> QED BY <1>1, <1>2, PTL
=============================================================================
