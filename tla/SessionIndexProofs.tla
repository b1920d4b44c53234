------------------------- MODULE SessionIndexProofs -------------------------
(* Proofs about the shared session index, for every set of processes and   *)
(* sessions and every number of writes, builds, observations and faults.   *)
(* The last part carries them to the specification that looks at the       *)
(* agents' sources beside the processes.                                   *)
EXTENDS Indexing, TLAPS

(* A process that stands before the shared lock already works on the file  *)
(* it made; it still holds the writer's lock, so nobody can replace it.    *)
Using == {"open", "share"} \cup Refreshing

UsesTheFile == \A p \in Procs : proc[p].pc \in Using => proc[p].file = db.file

(* Every file but the first replaced a damaged one.                        *)
FilesCounted == db.file <= faults + 1 /\ (~db.sound => db.file <= faults)

(* Rows of several refreshes are of several builds as well.                *)
TornTogether == "versions" \in torn => "readers" \in torn

IndexInv == TypeOK /\ FilesCounted /\ BaselinesBelong /\ UsesTheFile /\ TornTogether

------------------------------------------------------------------------------
ProcType == [pc : Phases, file : 0..(MaxFaults + 1),
             stored : Fingerprints, pending : Fingerprints,
             scanned : Digests, observed : 0..MaxObservations]

DbType == [file : 1..(MaxFaults + 1), sound : BOOLEAN, rows : [Sessions -> Rows],
           print : Fingerprints, baseline : [Sessions -> 0..MaxObservations]]

(* The locks exclude: one writer, and nobody else with the file open while *)
(* it is replaced.                                                         *)
LocksExclude ==
    \A p, q \in Procs : p # q => /\ ~(Writer(p) /\ Writer(q))
                                 /\ ~(Exclusive(p) /\ (Exclusive(q) \/ Shared(q)))

(* The places of a recovery and of a refresh are no others.                *)
LEMMA PhasesDiffer ==
    /\ Recovering \subseteq Phases /\ Refreshing \subseteq Phases
    /\ {"closed", "probe", "writer", "open"} \subseteq Phases
    /\ \A pc \in Recovering : pc \notin {"closed", "probe", "writer", "open"} \cup Refreshing
    /\ \A pc \in Refreshing : pc \notin {"closed", "probe", "writer", "open"}
  BY DEF Phases, Recovering, Refreshing

(* What an empty index, and a process that has it closed, are typed.       *)
LEMMA EmptyTyped ==
    /\ NoDigest \in Digests
    /\ \A r \in Nat : Unusable(r) \in Fingerprints
    /\ Closed \in ProcType
    /\ \A n \in 1..(MaxFaults + 1) : EmptyDb(n) \in DbType
<1> USE SessionIndexAssumption DEF Versions
<1>1. NoDigest \in Digests
  BY DEF NoDigest, Digests
<1>2. \A r \in Nat : Unusable(r) \in Fingerprints
  BY <1>1 DEF Unusable, Fingerprints
<1>3. Closed \in ProcType
  BY <1>1, <1>2 DEF Closed, ProcType, Phases
<1>4. NoRow \in Rows
  BY DEF NoRow, Rows
<1>5. ASSUME NEW n \in 1..(MaxFaults + 1) PROVE EmptyDb(n) \in DbType
  BY <1>2, <1>4 DEF EmptyDb, DbType
<1> QED BY <1>1, <1>2, <1>3, <1>5

Typed ==
    /\ vendor \in Digests /\ writes \in Versions
    /\ db \in DbType /\ proc \in [Procs -> ProcType]
    /\ clock \in 0..MaxObservations /\ faults \in 0..MaxFaults

HistoryTyped == overtaken \subseteq Procs /\ torn \subseteq {"versions", "readers"}

(* The type invariant is the types and the exclusion of the locks.         *)
LEMMA TypeOKIs == TypeOK <=> Typed /\ HistoryTyped /\ LocksExclude
  BY DEF TypeOK, Typed, HistoryTyped, LocksExclude, DbType, ProcType

(* The index and its locks are in order before anyone has opened it.       *)
LEMMA InitIndexInv == Init => IndexInv
<1> SUFFICES ASSUME Init PROVE IndexInv
  OBVIOUS
<1> USE SessionIndexAssumption
<1>1. vendor \in Digests /\ writes \in Versions /\ clock \in 0..MaxObservations
      /\ faults \in 0..MaxFaults
  BY EmptyTyped DEF Init, Versions
<1>2. db \in DbType /\ proc \in [Procs -> ProcType]
  BY EmptyTyped DEF Init
<1>3. \A p \in Procs : proc[p].pc = "closed"
  BY DEF Init, Closed
<1>4. LocksExclude /\ UsesTheFile
  BY <1>3 DEF LocksExclude, Writer, Exclusive, Shared, Recovering, Refreshing, UsesTheFile, Using
<1>5. FilesCounted /\ BaselinesBelong
  BY DEF Init, EmptyDb, FilesCounted, BaselinesBelong
<1>6. HistoryTyped /\ TornTogether
  BY DEF Init, HistoryTyped, TornTogether
<1> QED BY <1>1, <1>2, <1>4, <1>5, <1>6, TypeOKIs DEF IndexInv, Typed

(* What is remembered of a step changes nothing of it.                     *)
LEMMA NextIsAStep == [Next]_vars => [Step]_machine
  BY DEF Next, vars

(* What becomes of a process that goes on to another place.                *)
LEMMA GotoIs ==
    ASSUME proc \in [Procs -> ProcType], NEW p \in Procs, NEW pc \in Phases, Goto(p, pc)
    PROVE  /\ proc' \in [Procs -> ProcType]
           /\ \A q \in Procs \ {p} : proc'[q] = proc[q]
           /\ proc'[p].pc = pc /\ proc'[p].file = proc[p].file
           /\ proc'[p].stored = proc[p].stored
           /\ proc'[p].pending = proc[p].pending /\ proc'[p].scanned = proc[p].scanned
  BY DEF Goto, ProcType

(* What becomes of one that closes the index.                              *)
LEMMA CloseIs ==
    ASSUME proc \in [Procs -> ProcType], NEW p \in Procs, Close(p)
    PROVE  /\ proc' \in [Procs -> ProcType]
           /\ \A q \in Procs \ {p} : proc'[q] = proc[q]
           /\ proc'[p].pc = "closed" /\ proc'[p].pending = Unusable(0)
  BY EmptyTyped DEF Close, Closed

(* What becomes of one that ends a refresh.                                *)
LEMMA ReturnIs ==
    ASSUME proc \in [Procs -> ProcType], NEW p \in Procs, Return(p)
    PROVE  /\ proc' \in [Procs -> ProcType]
           /\ \A q \in Procs \ {p} : proc'[q] = proc[q]
           /\ proc'[p].pc = "open" /\ proc'[p].file = proc[p].file
           /\ proc'[p].pending = Unusable(0)
<1> DEFINE x == [Closed EXCEPT !.pc = "open", !.file = proc[p].file,
                                 !.observed = proc[p].observed]
<1>1. proc[p] \in ProcType
  OBVIOUS
<1>2. x \in ProcType
  BY <1>1, EmptyTyped, PhasesDiffer DEF ProcType
<1>3. proc' = [proc EXCEPT ![p] = x]
  BY DEF Return
<1>4. x.pc = "open" /\ x.file = proc[p].file
  BY EmptyTyped DEF ProcType
<1>5. x.pending = Unusable(0)
  BY DEF Closed
<1> QED BY <1>2, <1>3, <1>4, <1>5

(* What becomes of one that has read the agent's files.                    *)
LEMMA ScanIs ==
    ASSUME Typed, NEW p \in Procs, proc' = [proc EXCEPT ![p].pc = "replace", ![p].scanned = vendor]
    PROVE  /\ proc' \in [Procs -> ProcType]
           /\ \A q \in Procs \ {p} : proc'[q] = proc[q]
           /\ proc'[p].pc = "replace" /\ proc'[p].file = proc[p].file
           /\ proc'[p].scanned = vendor
           /\ proc'[p].stored = proc[p].stored
           /\ proc'[p].pending = proc[p].pending
  BY PhasesDiffer DEF Typed, ProcType, Refreshing

(* A digest is found.                                                      *)
LEMMA DigestIs ==
    ASSUME Typed, NEW p \in Procs, NEW f \in Fingerprints, GoOn(p, f)
    PROVE  /\ proc' \in [Procs -> ProcType]
           /\ \A q \in Procs \ {p} : proc'[q] = proc[q]
           /\ proc'[p].pc = "scan" /\ proc'[p].file = proc[p].file
           /\ proc'[p].pending = f
           /\ proc'[p].stored.reader = IF ReaderChanged(p) THEN 0 ELSE proc[p].stored.reader
<1> DEFINE n == IF ReaderChanged(p) THEN 0 ELSE proc[p].stored.reader
<1>1. n \in Nat
  BY DEF Typed, ProcType, Fingerprints
<1>2. Unusable(n) \in Fingerprints /\ Unusable(n).reader = n
  BY <1>1, EmptyTyped DEF Unusable
<1>3. proc' = [proc EXCEPT ![p].pc = "scan", ![p].pending = f, ![p].stored = Unusable(n)]
  BY DEF GoOn, Typed, ProcType
<1> HIDE DEF n
<1> QED BY <1>2, <1>3, PhasesDiffer DEF Typed, ProcType, Refreshing, n

(* The rows are stored.                                                    *)
LEMMA ReplacesIs ==
    ASSUME Typed, NEW p \in Procs,
           proc' = [proc EXCEPT ![p].pc = "record", ![p].scanned = NoDigest]
    PROVE  /\ proc' \in [Procs -> ProcType]
           /\ \A q \in Procs \ {p} : proc'[q] = proc[q]
           /\ proc'[p].pc = "record" /\ proc'[p].file = proc[p].file
           /\ proc'[p].stored = proc[p].stored /\ proc'[p].pending = proc[p].pending
  BY PhasesDiffer, EmptyTyped DEF Typed, ProcType, Refreshing

(* Every step keeps the types; a file is replaced only after a fault.      *)
LEMMA NextTyped ==
    Typed /\ FilesCounted /\ [Step]_machine => Typed' /\ FilesCounted'
<1> SUFFICES ASSUME Typed, FilesCounted, [Step]_machine
             PROVE  Typed' /\ FilesCounted'
  OBVIOUS
<1> USE SessionIndexAssumption, EmptyTyped, PhasesDiffer
<1> USE DEF Typed, FilesCounted, ProcType, Versions
<1>0. db.file \in 1..(MaxFaults + 1)
  BY DEF DbType
<1>1. ASSUME NEW p \in Procs, Open(p) PROVE Typed' /\ FilesCounted'
  <2>1. ASSUME OpenShared(p) PROVE Typed' /\ FilesCounted'
    BY <2>1, GotoIs DEF OpenShared
  <2>2. ASSUME Probe(p) \/ Retry(p) PROVE Typed' /\ FilesCounted'
    BY <1>0, <2>2 DEF Probe, Retry, Opened, Goto, Recovering
  <2>3. ASSUME BecomeWriter(p) \/ Rejoin(p) \/ LockExclusive(p) \/ Share(p)
        PROVE  Typed' /\ FilesCounted'
    BY <2>3 DEF BecomeWriter, Rejoin, LockExclusive, Share, Goto, Recovering
  <2>4. ASSUME RebuildFile(p) PROVE Typed' /\ FilesCounted'
    <3>1. db' \in DbType
      BY <1>0, <2>4 DEF RebuildFile
    <3>2. db'.file \in 0..(MaxFaults + 1)
      BY <3>1 DEF DbType
    <3>3. proc' \in [Procs -> ProcType]
      BY <2>4, <3>2 DEF RebuildFile, Recovering
    <3>4. FilesCounted'
      BY <1>0, <2>4 DEF RebuildFile, EmptyDb
    <3> QED BY <2>4, <3>1, <3>3, <3>4 DEF RebuildFile
  <2>5. ASSUME OpenTimesOut(p) \/ CloseStore(p) PROVE Typed' /\ FilesCounted'
    BY <2>5 DEF OpenTimesOut, CloseStore, Close
  <2> QED BY <1>1, <2>1, <2>2, <2>3, <2>4, <2>5 DEF Open
<1>2. ASSUME NEW p \in Procs, Refresh(p) PROVE Typed' /\ FilesCounted'
  <2>1. ASSUME BeginRefresh(p) PROVE Typed' /\ FilesCounted'
    <3>1. PICK f \in Fingerprints :
             proc' = [proc EXCEPT ![p].pc = "digest", ![p].stored = f]
      BY <2>1 DEF BeginRefresh, DbType
    <3>2. proc' \in [Procs -> ProcType]
      BY <3>1 DEF Refreshing
    <3> QED BY <2>1, <3>2 DEF BeginRefresh
  <2>2. ASSUME Digest(p) PROVE Typed' /\ FilesCounted'
    <3>1. [reader |-> Build[p], usable |-> TRUE, digest |-> vendor] \in Fingerprints
      BY DEF Fingerprints
    <3>2. Unusable(Build[p]) \in Fingerprints
      OBVIOUS
    <3>3. proc' \in [Procs -> ProcType]
      <4>1. CASE Return(p)
        BY <4>1, ReturnIs
      <4>2. CASE \E f \in Fingerprints : GoOn(p, f)
        BY <4>2, DigestIs
      <4> QED BY <2>2, <3>1, <3>2, <4>1, <4>2 DEF Digest
    <3> QED BY <2>2, <3>3 DEF Digest
  <2>3. ASSUME Scan(p) PROVE Typed' /\ FilesCounted'
    BY <2>3, ReturnIs, ScanIs DEF Scan
  <2>4. ASSUME ReplaceSource(p) PROVE Typed' /\ FilesCounted'
    <3>1. CASE /\ db' = [db EXCEPT !.rows = Replaced(p), !.baseline = Cascade(p)]
               /\ proc' = [proc EXCEPT ![p].pc = "record", ![p].scanned = NoDigest]
      <4>1. Replaced(p) \in [Sessions -> Rows]
        BY DEF Replaced, Rows, DbType, Digests, NoRow
      <4>2. Cascade(p) \in [Sessions -> 0..MaxObservations]
        BY DEF Cascade, DbType
      <4>3. db' \in DbType /\ db'.file = db.file /\ db'.sound = db.sound
        BY <3>1, <4>1, <4>2 DEF DbType
      <4>4. proc' \in [Procs -> ProcType]
        BY <3>1, ReplacesIs
      <4> QED BY <2>4, <4>3, <4>4 DEF ReplaceSource
    <3>2. CASE Close(p) /\ UNCHANGED db
      BY <2>4, <3>2 DEF ReplaceSource, Close
    <3> QED BY <2>4, <3>1, <3>2 DEF ReplaceSource
  <2>5. ASSUME SetSourceFingerprint(p) PROVE Typed' /\ FilesCounted'
    <3>1. proc' \in [Procs -> ProcType]
      BY <2>5, ReturnIs, CloseIs DEF SetSourceFingerprint
    <3>2. db' \in DbType /\ db'.file = db.file /\ db'.sound = db.sound
      BY <2>5 DEF SetSourceFingerprint, DbType
    <3> QED BY <2>5, <3>1, <3>2 DEF SetSourceFingerprint
  <2> QED BY <1>2, <2>1, <2>2, <2>3, <2>4, <2>5 DEF Refresh
<1>3. ASSUME NEW p \in Procs, Observe(p) PROVE Typed' /\ FilesCounted'
  <2>1. clock + 1 \in 0..MaxObservations
    BY <1>3 DEF Observe
  <2>2. proc' \in [Procs -> ProcType]
    BY <1>3, <2>1 DEF Observe
  <2> QED BY <1>3, <2>1, <2>2 DEF Observe
<1>4. ASSUME NEW p \in Procs, Die(p) PROVE Typed' /\ FilesCounted'
  BY <1>0, <1>4 DEF Die, Close
<1>5. ASSUME NEW p \in Procs, NEW s \in Sessions,
             PutPrelaunchBaseline(p, s) \/ DeletePrelaunchBaseline(p, s)
      PROVE  Typed' /\ FilesCounted'
  <2>1. /\ db'.file = db.file /\ db'.sound = db.sound /\ db' \in DbType
    BY <1>5 DEF PutPrelaunchBaseline, DeletePrelaunchBaseline, DbType
  <2>2. proc' = proc \/ proc' = [proc EXCEPT ![p].observed = 0]
    BY <1>5 DEF PutPrelaunchBaseline, DeletePrelaunchBaseline
  <2>3. 0 \in 0..MaxObservations
    OBVIOUS
  <2>4. proc' \in [Procs -> ProcType]
    BY <2>2, <2>3
  <2>5. /\ vendor' = vendor /\ writes' = writes /\ clock' = clock /\ faults' = faults
    BY <1>5 DEF PutPrelaunchBaseline, DeletePrelaunchBaseline
  <2>6. Typed'
    BY <2>1, <2>4, <2>5
  <2> QED BY <2>1, <2>5, <2>6
<1>6. ASSUME NEW s \in Sessions, Write(s) PROVE Typed' /\ FilesCounted'
  <2>1. 0 \in Versions /\ (writes < MaxVersions => writes + 1 \in Versions)
    OBVIOUS
  <2>2. vendor' \in Digests /\ writes' \in Versions
    BY <1>6, <2>1 DEF Write, Digests
  <2> QED BY <1>6, <2>2 DEF Write
<1>7. ASSUME Damage PROVE Typed' /\ FilesCounted'
  <2>1. db' \in DbType /\ db'.file = db.file
    BY <1>0, <1>7 DEF Damage, DbType, EmptyDb
  <2> QED BY <1>0, <1>7, <2>1 DEF Damage
<1>8. CASE UNCHANGED machine
  BY <1>8 DEF machine
<1> QED BY <1>1, <1>2, <1>3, <1>4, <1>5, <1>6, <1>7, <1>8 DEF Step

(* One process moves.  It becomes the writer when no other is, and joins   *)
(* the shared lock when nobody replaces the file; what it then works on is *)
(* the file that is there.                                                 *)
LEMMA Moves ==
    ASSUME LocksExclude, UsesTheFile, NEW p \in Procs,
           \A q \in Procs \ {p} : proc'[q] = proc[q],
           db'.file = db.file,
           proc'[p].pc \in Recovering => Writer(p) \/ NobodyWrites(p),
           proc'[p].pc = "rebuild" => \A q \in Procs \ {p} : ~Exclusive(q) /\ ~Shared(q),
           proc'[p].pc \in {"probe", "retry", "open"} \cup Refreshing =>
               \A q \in Procs \ {p} : ~Exclusive(q),
           proc'[p].pc \in Using => proc'[p].file = db.file
    PROVE  LocksExclude' /\ UsesTheFile'
<1>1. UsesTheFile'
  BY DEF UsesTheFile
<1>2. \A q \in Procs \ {p} : /\ Writer(q)' = Writer(q)
                              /\ Exclusive(q)' = Exclusive(q)
                              /\ Shared(q)' = Shared(q)
  BY DEF Writer, Exclusive, Shared
<1>3. /\ Writer(p)' => \A q \in Procs \ {p} : ~Writer(q)
      /\ Exclusive(p)' => \A q \in Procs \ {p} : ~Exclusive(q) /\ ~Shared(q)
      /\ Shared(p)' => \A q \in Procs \ {p} : ~Exclusive(q)
  BY DEF Writer, Exclusive, Shared, NobodyWrites, LocksExclude
<1>4. LocksExclude'
  BY <1>2, <1>3 DEF LocksExclude
<1> QED BY <1>1, <1>4

(* Every step of opening and closing keeps the locks, and whoever uses the *)
(* file uses the one that is there.                                        *)
LEMMA OpenLocks ==
    ASSUME Typed, LocksExclude, UsesTheFile, NEW p \in Procs, Open(p)
    PROVE  LocksExclude' /\ UsesTheFile'
<1> USE DEF Typed
<1> USE PhasesDiffer
<1>a. /\ Shared(p) => \A q \in Procs \ {p} : ~Exclusive(q)
      /\ Exclusive(p) => \A q \in Procs \ {p} : ~Exclusive(q) /\ ~Shared(q)
      /\ Writer(p) => \A q \in Procs \ {p} : ~Writer(q)
  BY DEF LocksExclude
<1>1. ASSUME OpenShared(p) PROVE LocksExclude' /\ UsesTheFile'
  <2>1. proc'[p].pc = "probe" /\ \A q \in Procs \ {p} : proc'[q] = proc[q]
    BY <1>1, GotoIs DEF OpenShared
  <2> QED BY <1>1, <2>1, Moves DEF OpenShared, Using, Recovering, Refreshing
<1>2. ASSUME Probe(p) \/ Retry(p) PROVE LocksExclude' /\ UsesTheFile'
  <2>1. Shared(p) /\ db' = db
    BY <1>2 DEF Probe, Retry, Shared
  <2>2. CASE Opened(p)
    <3>1. /\ proc'[p].pc = "open" /\ proc'[p].file = db.file
          /\ \A q \in Procs \ {p} : proc'[q] = proc[q]
      BY <2>2 DEF Opened, ProcType
    <3> QED BY <1>a, <2>1, <3>1, Moves DEF Recovering
  <2>3. CASE Probe(p) /\ Goto(p, "writer")
    BY <2>1, <2>3, GotoIs, Moves DEF Using, Recovering, Refreshing
  <2>4. CASE Retry(p) /\ Goto(p, "exclusive")
    <3>1. Writer(p)
      BY <2>4 DEF Retry, Writer, Recovering
    <3> QED BY <2>1, <2>4, <3>1, GotoIs, Moves DEF Using, Recovering, Refreshing
  <2> QED BY <1>2, <2>2, <2>3, <2>4 DEF Probe, Retry
<1>3. ASSUME BecomeWriter(p) PROVE LocksExclude' /\ UsesTheFile'
  BY <1>3, GotoIs, Moves DEF BecomeWriter, Using, Recovering, Refreshing
<1>4. ASSUME Rejoin(p) PROVE LocksExclude' /\ UsesTheFile'
  <2>1. Writer(p) /\ db' = db /\ \A q \in Procs : ~Exclusive(q)
    BY <1>4 DEF Rejoin, Writer, Recovering
  <2> QED BY <1>4, <2>1, GotoIs, Moves DEF Rejoin, Using, Recovering, Refreshing
<1>5. ASSUME LockExclusive(p) PROVE LocksExclude' /\ UsesTheFile'
  <2>1. Writer(p) /\ db' = db
    BY <1>5 DEF LockExclusive, Writer, Recovering
  <2> QED BY <1>5, <2>1, GotoIs, Moves DEF LockExclusive, Using, Recovering, Refreshing
<1>6. ASSUME RebuildFile(p) PROVE LocksExclude' /\ UsesTheFile'
  <2>1. /\ Exclusive(p) /\ Writer(p)
        /\ proc'[p].pc = "share" /\ proc'[p].file = db'.file
        /\ \A q \in Procs \ {p} : proc'[q] = proc[q]
    BY <1>6 DEF RebuildFile, Exclusive, Writer, Recovering, ProcType
  <2>2. \A q \in Procs \ {p} : proc[q].pc \notin Using
    BY <1>a, <2>1 DEF Using, Shared, Writer, Recovering
  <2>3. UsesTheFile'
    BY <2>1, <2>2 DEF UsesTheFile
  <2>4. LocksExclude'
    BY <1>a, <2>1 DEF LocksExclude, Writer, Exclusive, Shared, Refreshing
  <2> QED BY <2>3, <2>4
<1>7. ASSUME Share(p) PROVE LocksExclude' /\ UsesTheFile'
  <2>1. proc[p].file = db.file /\ db' = db /\ \A q \in Procs : ~Exclusive(q)
    BY <1>7 DEF Share, UsesTheFile, Using
  <2> QED BY <1>7, <2>1, GotoIs, Moves DEF Share, Recovering
<1>8. ASSUME OpenTimesOut(p) \/ CloseStore(p) PROVE LocksExclude' /\ UsesTheFile'
  BY <1>8, CloseIs, Moves DEF OpenTimesOut, CloseStore, Using, Recovering, Refreshing
<1> QED BY <1>1, <1>2, <1>3, <1>4, <1>5, <1>6, <1>7, <1>8 DEF Open

(* A process that has the file open and goes on with it, or closes it,     *)
(* keeps the locks.                                                        *)
LEMMA HolderMoves ==
    ASSUME LocksExclude, UsesTheFile, NEW p \in Procs, Shared(p),
           proc[p].pc \in Using,
           \A q \in Procs \ {p} : proc'[q] = proc[q],
           proc'[p].pc = "closed" \/ /\ proc'[p].pc \in {"open"} \cup Refreshing
                                     /\ proc'[p].file = proc[p].file,
           db'.file = db.file
    PROVE  LocksExclude' /\ UsesTheFile'
<1>1. \A q \in Procs \ {p} : ~Exclusive(q)
  BY DEF LocksExclude
<1>2. proc[p].file = db.file
  BY DEF UsesTheFile
<1> QED BY <1>1, <1>2, PhasesDiffer, Moves DEF Using, Recovering, Refreshing

(* Every step of a refresh keeps the locks, and the file in use.           *)
LEMMA RefreshLocks ==
    ASSUME Typed, LocksExclude, UsesTheFile, NEW p \in Procs, Refresh(p)
    PROVE  LocksExclude' /\ UsesTheFile'
<1> USE DEF Typed
<1>1. Shared(p) /\ proc[p].pc \in Using
  BY DEF Refresh, BeginRefresh, Digest, Scan, ReplaceSource, SetSourceFingerprint, Shared,
     Using, Refreshing
<1>2. db'.file = db.file
  BY DEF Refresh, BeginRefresh, Digest, Scan, ReplaceSource, SetSourceFingerprint, DbType
<1>3. /\ \A q \in Procs \ {p} : proc'[q] = proc[q]
      /\ proc'[p].pc = "closed" \/ /\ proc'[p].pc \in {"open"} \cup Refreshing
                                   /\ proc'[p].file = proc[p].file
  <2>1. CASE Close(p) \/ Return(p)
    BY <2>1, CloseIs, ReturnIs
  <2>2. CASE proc' = [proc EXCEPT ![p].pc = "record", ![p].scanned = NoDigest]
    BY <2>2, ReplacesIs DEF Refreshing
  <2>3. CASE BeginRefresh(p)
    BY <2>3 DEF BeginRefresh, ProcType, Refreshing
  <2>4. CASE \E f \in Fingerprints : GoOn(p, f)
    BY <2>4, DigestIs DEF Refreshing
  <2>5. CASE proc' = [proc EXCEPT ![p].pc = "replace", ![p].scanned = vendor]
    BY <2>5, ScanIs DEF Refreshing
  <2>6. CASE Digest(p)
    <3>1. Build[p] \in Nat
      BY SessionIndexAssumption
    <3>2. [reader |-> Build[p], usable |-> TRUE, digest |-> vendor] \in Fingerprints
      BY <3>1 DEF Fingerprints
    <3> QED BY <2>1, <2>4, <2>6, <3>1, <3>2, EmptyTyped DEF Digest
  <2> QED BY <2>1, <2>2, <2>3, <2>5, <2>6
       DEF Refresh, Scan, ReplaceSource, SetSourceFingerprint, Refreshing
<1> QED BY <1>1, <1>2, <1>3, HolderMoves

(* Every step keeps the locks, the file in use and the types.              *)
LEMMA NextLocks ==
    Typed /\ LocksExclude /\ UsesTheFile /\ [Step]_machine => LocksExclude' /\ UsesTheFile'
<1> SUFFICES ASSUME Typed, LocksExclude, UsesTheFile, [Step]_machine
             PROVE  LocksExclude' /\ UsesTheFile'
  OBVIOUS
<1>1. ASSUME NEW p \in Procs, Observe(p) PROVE LocksExclude' /\ UsesTheFile'
  <2>1. Shared(p) /\ proc[p].pc = "open"
    BY <1>1 DEF Observe, Shared
  <2>2. /\ \A q \in Procs \ {p} : proc'[q] = proc[q]
        /\ proc'[p].pc = "open" /\ proc'[p].file = proc[p].file
    BY <1>1 DEF Observe, Typed, ProcType
  <2> QED BY <1>1, <2>1, <2>2, HolderMoves DEF Observe, Using
<1>2. ASSUME NEW p \in Procs, Die(p) PROVE LocksExclude' /\ UsesTheFile'
  BY <1>2, CloseIs, Moves DEF Die, Typed, Using, Recovering, Refreshing
<1>3. ASSUME proc' = proc, db'.file = db.file PROVE LocksExclude' /\ UsesTheFile'
  BY <1>3 DEF LocksExclude, UsesTheFile, Writer, Exclusive, Shared
<1>4. ASSUME NEW p \in Procs, NEW s \in Sessions,
             PutPrelaunchBaseline(p, s) \/ DeletePrelaunchBaseline(p, s)
      PROVE  LocksExclude' /\ UsesTheFile'
  <2>1. Shared(p) /\ proc[p].pc = "open" /\ db'.file = db.file
    BY <1>4 DEF PutPrelaunchBaseline, DeletePrelaunchBaseline, Shared, Typed, DbType
  <2>2. /\ \A q \in Procs \ {p} : proc'[q] = proc[q]
        /\ proc'[p].pc = "open" /\ proc'[p].file = proc[p].file
    BY <1>4, <2>1 DEF PutPrelaunchBaseline, DeletePrelaunchBaseline, Typed, ProcType
  <2> QED BY <2>1, <2>2, HolderMoves DEF Using
<1>5. ASSUME Damage PROVE proc' = proc /\ db'.file = db.file
  BY <1>5 DEF Damage, EmptyDb
<1>6. ASSUME (\E s \in Sessions : Write(s)) \/ UNCHANGED machine
      PROVE  proc' = proc /\ db'.file = db.file
  BY <1>6 DEF Write, machine
<1> QED BY <1>1, <1>2, <1>3, <1>4, <1>5, <1>6, OpenLocks, RefreshLocks DEF Step

(* What a step may do to the rows and their baselines.                     *)
LEMMA BaselineStep ==
    ASSUME Typed, BaselinesBelong, [Step]_machine
    PROVE  /\ BaselinesBelong'
           /\ \A s \in Sessions : db'.baseline[s] >= db.baseline[s] \/ db'.baseline[s] = 0
<1> DEFINE Kept == /\ BaselinesBelong'
                   /\ \A s \in Sessions :
                        db'.baseline[s] >= db.baseline[s] \/ db'.baseline[s] = 0
<1>0. db \in DbType /\ \A s \in Sessions : db.baseline[s] \in Nat
  BY SessionIndexAssumption DEF Typed, DbType
<1>1. ASSUME db'.rows = db.rows, db'.baseline = db.baseline PROVE Kept
  BY <1>0, <1>1 DEF BaselinesBelong
<1>2. ASSUME NEW p \in Procs, Open(p) PROVE Kept
  <2>1. CASE RebuildFile(p) /\ ~db.sound
    <3>1. \A s \in Sessions : db'.baseline[s] = 0
      BY <2>1 DEF RebuildFile, EmptyDb
    <3> QED BY <3>1 DEF BaselinesBelong
  <2>2. CASE db' = db
    BY <1>1, <2>2
  <2> QED BY <1>2, <2>1, <2>2 DEF Open, OpenShared, Probe, BecomeWriter, Rejoin, Retry,
              LockExclusive, RebuildFile, Share, OpenTimesOut, CloseStore
<1>3. ASSUME NEW p \in Procs, Refresh(p) PROVE Kept
  <2>1. CASE ReplaceSource(p) /\ db' # db
    <3>1. db'.rows = Replaced(p) /\ db'.baseline = Cascade(p)
      BY <1>0, <2>1 DEF ReplaceSource, DbType
    <3>2. ASSUME NEW s \in Sessions
          PROVE  /\ db'.baseline[s] = 0 \/ db'.baseline[s] = db.baseline[s]
                 /\ db'.baseline[s] > 0 => db'.rows[s].version > 0
      <4>1. CASE proc[p].scanned[s] = 0
        BY <3>1, <4>1 DEF Cascade
      <4>2. CASE proc[p].scanned[s] # 0
        <5>1. db'.baseline[s] = db.baseline[s]
          BY <3>1, <4>2 DEF Cascade
        <5>2. db'.rows[s] = db.rows[s] \/ db'.rows[s].version = proc[p].scanned[s]
          BY <3>1, <4>2 DEF Replaced
        <5>3. proc[p].scanned[s] > 0
          BY <4>2, SessionIndexAssumption DEF Typed, ProcType, Digests, Versions
        <5> QED BY <5>1, <5>2, <5>3 DEF BaselinesBelong
      <4> QED BY <4>1, <4>2
    <3> QED BY <1>0, <3>2 DEF BaselinesBelong
  <2>2. CASE SetSourceFingerprint(p)
    <3>1. db'.rows = db.rows /\ db'.baseline = db.baseline
      BY <1>0, <2>2 DEF SetSourceFingerprint, DbType
    <3> QED BY <1>1, <3>1
  <2>3. CASE db' = db
    BY <1>1, <2>3
  <2> QED BY <1>3, <2>1, <2>2, <2>3 DEF Refresh, BeginRefresh, Digest, Scan
<1>4. ASSUME NEW p \in Procs, NEW s \in Sessions, PutPrelaunchBaseline(p, s) PROVE Kept
  <2>1. /\ db'.rows = db.rows
        /\ db'.baseline = [db.baseline EXCEPT ![s] = proc[p].observed]
    BY <1>0, <1>4 DEF PutPrelaunchBaseline, DbType
  <2>2. proc[p].observed > db.baseline[s] /\ db.rows[s].version > 0
        /\ proc[p].observed \in Nat
    BY <1>4, SessionIndexAssumption DEF PutPrelaunchBaseline, Typed, ProcType
  <2> QED BY <1>0, <2>1, <2>2 DEF BaselinesBelong, DbType
<1>5. ASSUME NEW p \in Procs, NEW s \in Sessions, DeletePrelaunchBaseline(p, s) PROVE Kept
  <2>1. db'.rows = db.rows /\ db'.baseline = [db.baseline EXCEPT ![s] = 0]
    BY <1>0, <1>5 DEF DeletePrelaunchBaseline, DbType
  <2> QED BY <1>0, <2>1 DEF BaselinesBelong, DbType
<1>6. ASSUME Damage PROVE Kept
  <2>1. \A s \in Sessions : db'.baseline[s] = 0
    BY <1>6 DEF Damage, EmptyDb
  <2> QED BY <2>1 DEF BaselinesBelong
<1>7. ASSUME db' = db PROVE Kept
  BY <1>1, <1>7
<1>8. Kept
  BY <1>2, <1>3, <1>4, <1>5, <1>6, <1>7 DEF Step, Observe, Die, Write, machine
<1> QED BY <1>8

(* The invariant survives every step.                                      *)
LEMMA NextIndexInv == IndexInv /\ [Next]_vars => IndexInv'
<1>1. TypeOK' <=> Typed' /\ HistoryTyped' /\ LocksExclude'
  BY TypeOKIs, PTL
<1>2. HistoryTyped /\ TornTogether /\ [Next]_vars => HistoryTyped' /\ TornTogether'
  BY DEF HistoryTyped, TornTogether, Next, Remember, TornBy, vars
<1> QED BY <1>1, <1>2, TypeOKIs, NextIsAStep, NextTyped, NextLocks, BaselineStep DEF IndexInv

(* So it always holds.                                                     *)
LEMMA IndexInvariant == Spec => []IndexInv
  BY InitIndexInv, NextIndexInv, PTL DEF Spec

(* However many processes open, recover, refresh and close the index, and  *)
(* whatever is damaged or dies: the locks exclude, no handle is of a file  *)
(* that was removed, and no baseline lacks its session.                    *)
THEOREM IndexStaysConsistent == Spec => []IndexConsistent
<1>1. IndexInv => IndexConsistent
  BY DEF IndexInv, IndexConsistent, NoSplitBrain, UsesTheFile, Using
<1> QED BY <1>1, IndexInvariant, PTL

(* No interleaving of observations and stores takes a baseline back.       *)
THEOREM BaselinesGoForward == Spec => BaselineForward
<1>1. IndexInv /\ [Next]_vars =>
        [\A s \in Sessions :
            db'.baseline[s] >= db.baseline[s] \/ db'.baseline[s] = 0]_vars
  BY NextIsAStep, BaselineStep, TypeOKIs DEF IndexInv
<1> QED BY <1>1, IndexInvariant, PTL DEF Spec, BaselineForward

------------------------------------------------------------------------------
(* Freshness: what the rows, the scan of each refresh and its two          *)
(* fingerprints say of a file that has not changed since.                  *)

(* Versions are never used twice, so a fingerprint that names a file's     *)
(* version as it is was taken after that version was written.              *)
VersionsCounted ==
    \A s \in Sessions : /\ vendor[s] <= writes
                        /\ db.print.digest[s] <= writes
                        /\ \A p \in Procs : proc[p].pending.digest[s] <= writes

(* The fingerprint f is the file's as it is.                               *)
Names(f, s) == f.usable /\ vendor[s] > 0 /\ f.digest[s] = vendor[s]

(* What the stored fingerprint says of the rows, as far as they are those  *)
(* of one refresh.                                                         *)
RowsAreThePrints ==
    \A s \in Sessions :
        /\ "versions" \notin torn /\ Names(db.print, s) => db.rows[s].version = vendor[s]
        /\ "readers" \notin torn /\ db.rows[s].version > 0 =>
               db.rows[s].reader >= db.print.reader

(* What a refresh that no other one has overtaken knows.                   *)
Knows(p) ==
    /\ proc[p].stored.reader \in {0, db.print.reader}
    /\ proc[p].pc = "replace" =>
           \A s \in Sessions : Names(db.print, s) \/ Names(proc[p].pending, s) =>
               proc[p].scanned[s] = vendor[s]
    /\ proc[p].pc = "record" =>
           \A s \in Sessions : Names(proc[p].pending, s) => db.rows[s].version = vendor[s]
    /\ proc[p].pc = "record" /\ (ReaderChanged(p) \/ "readers" \notin torn) =>
           \A s \in Sessions : db.rows[s].version > 0 => db.rows[s].reader >= Build[p]

RefreshKnows(p) ==
    /\ proc[p].pc \in {"scan", "replace", "record"} => proc[p].pending.reader = Build[p]
    /\ db.sound /\ proc[p].pc \in Refreshing /\ p \notin overtaken => Knows(p)

FreshInv ==
    VersionsCounted /\ RowsAreThePrints /\ \A p \in Procs : RefreshKnows(p)

(* A refresh that is not overtaken after a step was not before.            *)
Heeds == \A q \in Procs : proc'[q].pc \in Refreshing /\ q \notin overtaken' => q \notin overtaken

(* Who stores neither rows nor a fingerprint.                              *)
StoresNothing(q) == ~StoresRows(q) /\ ~StoresPrint(q)

(* What is remembered of a step in which nothing is stored.                *)
LEMMA NothingStored ==
    ASSUME Remember, \A q \in Procs : StoresNothing(q)
    PROVE  Heeds /\ (db'.file = db.file => torn' = torn)
  BY DEF Remember, Heeds, StoresNothing

(* And of one in which p stores something.                                 *)
LEMMA OneStores ==
    ASSUME Remember, NEW p \in Procs, ~StoresNothing(p),
           \A q \in Procs \ {p} : StoresNothing(q)
    PROVE  /\ torn' = TornBy(p) /\ Heeds
           /\ \A q \in Procs \ {p} : proc'[q].pc \in Refreshing => q \in overtaken'
  BY DEF Remember, Heeds, StoresNothing

(* A process that does not move stores nothing.                            *)
LEMMA StillStoresNothing ==
    ASSUME NEW q \in Procs, proc'[q] = proc[q] PROVE StoresNothing(q)
  BY DEF StoresNothing, StoresRows, StoresPrint

(* What a step leaves of the rows and the fingerprint, and of a process    *)
(* that does not move.                                                     *)
LEMMA KnownKept ==
    ASSUME NEW q \in Procs, RefreshKnows(q), proc'[q] = proc[q],
           vendor' = vendor, db'.rows = db.rows, db'.print = db.print,
           db'.sound = db.sound, torn' = torn, Heeds
    PROVE  RefreshKnows(q)'
  BY DEF RefreshKnows, Knows, Names, ReaderChanged, Heeds

(* A step of p that stores nothing keeps what is known, if p knows what it *)
(* should.                                                                 *)
LEMMA QuietStep ==
    ASSUME FreshInv, NEW p \in Procs, \A q \in Procs \ {p} : proc'[q] = proc[q],
           Remember, StoresNothing(p), db'.file = db.file, db'.sound = db.sound,
           vendor' = vendor, writes' = writes, db'.rows = db.rows, db'.print = db.print,
           \A s \in Sessions : proc'[p].pending.digest[s] <= writes,
           torn' = torn /\ Heeds => RefreshKnows(p)'
    PROVE  FreshInv'
<1>1. torn' = torn /\ Heeds
  BY NothingStored, StillStoresNothing
<1>2. \A q \in Procs : RefreshKnows(q)'
  BY <1>1, KnownKept DEF FreshInv
<1>3. VersionsCounted' /\ RowsAreThePrints'
  BY <1>1 DEF FreshInv, VersionsCounted, RowsAreThePrints, Names
<1> QED BY <1>2, <1>3 DEF FreshInv

(* So does one that leaves p outside of a refresh.                         *)
LEMMA LeavingStep ==
    ASSUME Typed, FreshInv, NEW p \in Procs, \A q \in Procs \ {p} : proc'[q] = proc[q],
           Remember, proc'[p].pc \notin Refreshing,
           proc[p].pc = "record" => proc'[p].pc # "open",
           proc'[p].pending \in {proc[p].pending, Unusable(0)},
           db'.file = db.file, db'.sound = db.sound,
           vendor' = vendor, writes' = writes, db'.rows = db.rows, db'.print = db.print
    PROVE  FreshInv'
<1>1. StoresNothing(p)
  BY PhasesDiffer DEF StoresNothing, StoresRows, StoresPrint, Refreshing
<1>2. \A s \in Sessions : proc'[p].pending.digest[s] <= writes
  BY SessionIndexAssumption
  DEF FreshInv, VersionsCounted, Unusable, NoDigest, Typed, Versions
<1>3. RefreshKnows(p)'
  BY DEF RefreshKnows, Refreshing
<1> QED BY <1>1, <1>2, <1>3, QuietStep

(* What opening and closing, and the death of a process, may do to what is *)
(* known.                                                                  *)
LEMMA OpenStep ==
    ASSUME Typed, NEW p \in Procs, Open(p) \/ Die(p)
    PROVE  /\ vendor' = vendor /\ writes' = writes
           /\ \A q \in Procs \ {p} : proc'[q] = proc[q]
           /\ proc'[p].pc \notin Refreshing
           /\ proc[p].pc = "record" => proc'[p].pc # "open"
           /\ proc'[p].pending \in {proc[p].pending, Unusable(0)}
           /\ db' = db \/ (Exclusive(p) /\ db' = EmptyDb(db.file + 1))
<1> USE PhasesDiffer DEF Typed
<1>1. CASE Close(p)
  BY <1>1, CloseIs DEF Open, Die, OpenShared, Probe, BecomeWriter, Rejoin, Retry,
     LockExclusive, RebuildFile, Share, OpenTimesOut, CloseStore, Exclusive, Refreshing
<1>2. CASE \E pc \in {"probe", "writer", "rejoin", "retry", "exclusive", "rebuild", "open"} :
             Goto(p, pc) /\ proc[p].pc # "record"
  BY <1>2, GotoIs DEF Open, Die, OpenShared, Probe, BecomeWriter, Rejoin, Retry,
     LockExclusive, RebuildFile, Share, OpenTimesOut, CloseStore, Exclusive, Refreshing, Recovering
<1>3. CASE Opened(p) /\ proc[p].pc # "record"
  <2>1. proc'[p].pc = "open"
        /\ proc'[p].pending = proc[p].pending /\ \A q \in Procs \ {p} : proc'[q] = proc[q]
    BY <1>3 DEF Opened, ProcType
  <2>2. db' = db
    BY <2>1 DEF Open, Die, OpenShared, Probe, BecomeWriter, Rejoin, Retry,
       LockExclusive, RebuildFile, Share, OpenTimesOut, CloseStore, ProcType
  <2> QED BY <1>3, <2>1, <2>2 DEF Open, Die, OpenShared, Probe, BecomeWriter, Rejoin, Retry,
       LockExclusive, RebuildFile, Share, OpenTimesOut, CloseStore, Refreshing
<1>4. CASE RebuildFile(p)
  <2>1. proc'[p].pc = "share" /\ proc[p].pc = "rebuild"
        /\ proc'[p].pending = proc[p].pending /\ \A q \in Procs \ {p} : proc'[q] = proc[q]
    BY <1>4 DEF RebuildFile, ProcType
  <2> QED BY <1>4, <2>1 DEF RebuildFile, Exclusive, Refreshing
<1> QED BY <1>1, <1>2, <1>3, <1>4 DEF Open, Die, OpenShared, Probe, BecomeWriter, Rejoin, Retry,
     LockExclusive, Share, OpenTimesOut, CloseStore

(* In an index that has been emptied, or cannot be read, nothing is known  *)
(* and nothing is wrong.                                                   *)
LEMMA EmptiedFresh ==
    ASSUME Typed, FreshInv, vendor' = vendor, writes' = writes,
           db'.print = Unusable(0), \A s \in Sessions : db'.rows[s] = NoRow,
           ~db'.sound \/ \A q \in Procs : proc'[q].pc \notin Refreshing,
           \A q \in Procs : \/ proc'[q] = proc[q]
                            \/ /\ proc'[q].pc \notin Refreshing
                               /\ proc'[q].pending \in {proc[q].pending, Unusable(0)}
    PROVE  FreshInv'
<1>1. VersionsCounted'
  BY SessionIndexAssumption
  DEF FreshInv, VersionsCounted, Unusable, NoDigest, Typed, Versions
<1>2. RowsAreThePrints'
  BY DEF RowsAreThePrints, Names, Unusable, NoRow
<1>3. \A q \in Procs : RefreshKnows(q)'
  BY DEF FreshInv, RefreshKnows, Refreshing
<1> QED BY <1>1, <1>2, <1>3 DEF FreshInv

(* The steps of a refresh that store nothing.                              *)
LEMMA ReadingFresh ==
    ASSUME Typed, FreshInv, NEW p \in Procs, Remember,
           BeginRefresh(p) \/ Digest(p) \/ Scan(p)
    PROVE  FreshInv'
<1> USE PhasesDiffer DEF Typed
<1>0. /\ Build[p] \in Nat /\ Build[p] # 0
      /\ writes \in Nat /\ \A s \in Sessions : vendor[s] \in Nat
      /\ proc[p] \in ProcType /\ db \in DbType
  BY SessionIndexAssumption DEF Versions, Digests
<1>1. vendor' = vendor /\ writes' = writes /\ db' = db
  BY DEF BeginRefresh, Digest, Scan
<1>2. CASE Return(p) /\ proc[p].pc # "record"
  BY <1>1, <1>2, ReturnIs, LeavingStep DEF Refreshing
<1>3. CASE BeginRefresh(p)
  <2>1. /\ proc'[p].pc = "digest" /\ proc'[p].pending = proc[p].pending
        /\ proc'[p].stored.reader \in {0, db.print.reader}
        /\ \A q \in Procs \ {p} : proc'[q] = proc[q]
    BY <1>3 DEF BeginRefresh, ProcType, Unusable
  <2>2. StoresNothing(p)
    BY <2>1 DEF StoresNothing, StoresRows, StoresPrint
  <2>3. RefreshKnows(p)'
    BY <1>1, <2>1 DEF RefreshKnows, Knows
  <2>4. \A s \in Sessions : proc'[p].pending.digest[s] <= writes
    BY <2>1 DEF FreshInv, VersionsCounted
  <2> QED BY <1>1, <2>1, <2>2, <2>3, <2>4, QuietStep
<1>4. CASE Digest(p) /\ ~Return(p)
  <2>1. PICK f \in Fingerprints :
           GoOn(p, f) /\ f.reader = Build[p] /\ \A s \in Sessions : f.digest[s] \in {0, vendor[s]}
    <3>1. [reader |-> Build[p], usable |-> TRUE, digest |-> vendor] \in Fingerprints
      BY <1>0 DEF Fingerprints
    <3>2. Unusable(Build[p]) \in Fingerprints
      BY <1>0, EmptyTyped
    <3> QED BY <1>4, <3>1, <3>2 DEF Digest, Unusable, NoDigest
  <2>2. /\ proc[p].pc = "digest" /\ proc'[p].pc = "scan" /\ proc'[p].pending = f
        /\ proc'[p].stored.reader \in {0, proc[p].stored.reader}
        /\ \A q \in Procs \ {p} : proc'[q] = proc[q]
    BY <1>4, <2>1, DigestIs DEF Digest
  <2>3. StoresNothing(p)
    BY <2>2 DEF StoresNothing, StoresRows, StoresPrint
  <2>4. \A s \in Sessions : proc'[p].pending.digest[s] <= writes
    BY <1>0, <2>1, <2>2 DEF FreshInv, VersionsCounted
  <2>5. Heeds => RefreshKnows(p)'
    BY <1>1, <2>1, <2>2 DEF FreshInv, RefreshKnows, Knows, Heeds, Refreshing
  <2> QED BY <1>1, <2>2, <2>3, <2>4, <2>5, QuietStep
<1>5. CASE Scan(p) /\ ~Return(p)
  <2>1. /\ proc[p].pc = "scan"
        /\ proc' = [proc EXCEPT ![p].pc = "replace", ![p].scanned = vendor]
    BY <1>5 DEF Scan
  <2>2. /\ proc'[p].pc = "replace" /\ proc'[p].scanned = vendor
        /\ proc'[p].stored = proc[p].stored /\ proc'[p].pending = proc[p].pending
        /\ \A q \in Procs \ {p} : proc'[q] = proc[q]
    BY <2>1, ScanIs
  <2>3. StoresNothing(p)
    BY <2>2 DEF StoresNothing, StoresRows, StoresPrint
  <2>4. \A s \in Sessions : proc'[p].pending.digest[s] <= writes
    BY <2>2 DEF FreshInv, VersionsCounted
  <2>5. Heeds => RefreshKnows(p)'
    BY <1>1, <2>1, <2>2 DEF FreshInv, RefreshKnows, Knows, Heeds, Refreshing
  <2> QED BY <1>1, <2>2, <2>3, <2>4, <2>5, QuietStep
<1>6. (Digest(p) \/ Scan(p)) => proc[p].pc # "record"
  BY DEF Digest, Scan
<1> QED BY <1>2, <1>3, <1>4, <1>5, <1>6

(* The rows are stored: they are what this refresh read, of files that the *)
(* stored fingerprint and its own do not name otherwise.                   *)
LEMMA ReplacingFresh ==
    ASSUME Typed, FreshInv, NEW p \in Procs, Remember,
           ReplaceSource(p), proc'[p].pc = "record"
    PROVE  FreshInv'
<1> USE PhasesDiffer DEF Typed
<1>0. /\ Build[p] \in Nat /\ Build[p] # 0
      /\ writes \in Nat /\ proc[p] \in ProcType /\ db \in DbType
      /\ db.print.reader \in Nat
      /\ \A s \in Sessions : /\ db.rows[s].reader \in Nat /\ proc[p].scanned[s] \in Nat
                             /\ vendor[s] \in Nat /\ db.rows[s].version \in Nat
  BY SessionIndexAssumption
  DEF ProcType, DbType, Fingerprints, Rows, Versions, Digests
<1>1. /\ proc[p].pc = "replace" /\ vendor' = vendor /\ writes' = writes /\ db.sound
      /\ db' = [db EXCEPT !.rows = Replaced(p), !.baseline = Cascade(p)]
      /\ proc' = [proc EXCEPT ![p].pc = "record", ![p].scanned = NoDigest]
  BY CloseIs DEF ReplaceSource
<1>2. /\ proc'[p].stored = proc[p].stored /\ proc'[p].pending = proc[p].pending
      /\ \A q \in Procs \ {p} : proc'[q] = proc[q]
  BY <1>1, ReplacesIs
<1>3. db'.rows = Replaced(p) /\ db'.print = db.print
  BY <1>0, <1>1 DEF DbType
<1>4. StoresRows(p)
  BY <1>1 DEF StoresRows
<1>5. /\ torn' = TornBy(p) /\ Heeds
      /\ \A q \in Procs \ {p} : proc'[q].pc \in Refreshing => q \in overtaken'
  BY <1>2, <1>4, OneStores, StillStoresNothing DEF StoresNothing
<1>6. p \notin overtaken => Knows(p)
  BY <1>1 DEF FreshInv, RefreshKnows, Refreshing
<1>7. ASSUME NEW s \in Sessions
      PROVE  /\ db'.rows[s].version = proc[p].scanned[s] /\ db'.rows[s].reader \in Nat
             /\ db'.rows[s].version > 0 /\ db'.rows[s].reader # Build[p] =>
                    /\ ~ReaderChanged(p) /\ db'.rows[s] = db.rows[s]
  <2>1. CASE proc[p].scanned[s] = 0
    BY <1>3, <2>1 DEF Replaced, NoRow
  <2>2. CASE /\ proc[p].scanned[s] # 0 /\ ~ReaderChanged(p)
             /\ db.rows[s].version = proc[p].scanned[s]
    BY <1>0, <1>3, <2>2 DEF Replaced
  <2>3. CASE /\ proc[p].scanned[s] # 0
             /\ ReaderChanged(p) \/ db.rows[s].version # proc[p].scanned[s]
    <3>1. db'.rows[s] = [version |-> proc[p].scanned[s], reader |-> Build[p]]
      BY <1>3, <2>3 DEF Replaced
    <3> QED BY <1>0, <3>1
  <2> QED BY <2>1, <2>2, <2>3
<1>8. VersionsCounted'
  BY <1>1, <1>2, <1>3 DEF FreshInv, VersionsCounted
<1>9. ASSUME p \notin overtaken, "readers" \notin torn' \/ ReaderChanged(p),
             NEW s \in Sessions, db'.rows[s].version > 0
      PROVE  /\ db'.rows[s].reader >= Build[p]
             /\ "readers" \notin torn' => Build[p] >= db.print.reader
  <2>1. "readers" \notin torn' => Build[p] >= db.print.reader
    BY <1>0, <1>4, <1>5, <1>9 DEF TornBy
  <2>2. CASE db'.rows[s].reader = Build[p]
    BY <1>0, <2>1, <2>2
  <2>3. CASE db'.rows[s].reader # Build[p]
    <3>1. ~ReaderChanged(p) /\ db'.rows[s] = db.rows[s]
      BY <1>7, <1>9, <2>3
    <3>2. proc[p].stored.reader = Build[p]
      BY <3>1 DEF ReaderChanged
    <3>3. db.print.reader = Build[p]
      BY <1>0, <1>6, <1>9, <3>2 DEF Knows
    <3>4. "readers" \notin torn
      BY <1>0, <1>5, <1>9, <3>1, <3>3 DEF TornBy
    <3>5. db.rows[s].reader >= db.print.reader
      BY <1>9, <3>1, <3>4 DEF FreshInv, RowsAreThePrints
    <3> QED BY <2>1, <3>1, <3>3, <3>5
  <2> QED BY <2>2, <2>3
<1>10. RowsAreThePrints'
  <2>1. CASE p \in overtaken
    BY <1>5, <2>1 DEF TornBy, RowsAreThePrints
  <2>2. CASE p \notin overtaken
    <3>1. ASSUME NEW s \in Sessions, Names(db.print, s)' PROVE db'.rows[s].version = vendor'[s]
      BY <1>1, <1>3, <1>6, <1>7, <2>2, <3>1 DEF Knows, Names
    <3>2. ASSUME NEW s \in Sessions, "readers" \notin torn', db'.rows[s].version > 0
          PROVE  db'.rows[s].reader >= db'.print.reader
      <4>1. db'.rows[s].reader >= Build[p] /\ Build[p] >= db.print.reader
        BY <1>9, <2>2, <3>2
      <4>2. db'.rows[s].reader \in Nat
        BY <1>7
      <4> QED BY <1>0, <1>3, <4>1, <4>2
    <3> QED BY <3>1, <3>2 DEF RowsAreThePrints
  <2> QED BY <2>1, <2>2
<1>11. RefreshKnows(p)'
  <2>1. proc'[p].pending.reader = Build[p]
    BY <1>1, <1>2 DEF FreshInv, RefreshKnows
  <2>2. ASSUME p \notin overtaken' PROVE Knows(p)'
    <3>1. p \notin overtaken
      BY <1>5, <2>2 DEF Heeds, Refreshing
    <3>2. proc'[p].stored.reader \in {0, db'.print.reader}
      BY <1>2, <1>3, <1>6, <3>1 DEF Knows
    <3>3. ASSUME NEW s \in Sessions, Names(proc[p].pending, s)'
          PROVE  db'.rows[s].version = vendor'[s]
      BY <1>1, <1>2, <1>6, <1>7, <3>1, <3>3 DEF Knows, Names
    <3>4. ReaderChanged(p)' <=> ReaderChanged(p)
      BY <1>2 DEF ReaderChanged
    <3>5. ASSUME ReaderChanged(p)' \/ "readers" \notin torn', NEW s \in Sessions,
                 db'.rows[s].version > 0
          PROVE  db'.rows[s].reader >= Build[p]
      BY <1>9, <3>1, <3>4, <3>5
    <3> QED BY <3>2, <3>3, <3>5 DEF Knows
  <2> QED BY <2>1, <2>2 DEF RefreshKnows
<1>12. ASSUME NEW q \in Procs \ {p} PROVE RefreshKnows(q)'
  BY <1>2, <1>5 DEF FreshInv, RefreshKnows
<1> QED BY <1>8, <1>10, <1>11, <1>12 DEF FreshInv

(* The fingerprint is stored, and with it the rows are those of one        *)
(* refresh again, unless another one came between.                         *)
LEMMA RecordingFresh ==
    ASSUME Typed, FreshInv, NEW p \in Procs, Remember,
           SetSourceFingerprint(p), proc'[p].pc = "open"
    PROVE  FreshInv'
<1> USE PhasesDiffer DEF Typed
<1>0. writes \in Nat /\ db \in DbType /\ Build[p] \in Nat
  BY SessionIndexAssumption DEF Versions
<1>1. /\ proc[p].pc = "record" /\ vendor' = vendor /\ writes' = writes /\ db.sound
      /\ db' = [db EXCEPT !.print = proc[p].pending] /\ Return(p)
  BY CloseIs DEF SetSourceFingerprint
<1>2. /\ proc'[p].pending = Unusable(0) /\ \A q \in Procs \ {p} : proc'[q] = proc[q]
  BY <1>1, ReturnIs
<1>3. db'.rows = db.rows /\ db'.print = proc[p].pending
  BY <1>0, <1>1 DEF DbType
<1>4. StoresPrint(p) /\ ~StoresRows(p)
  BY <1>1 DEF StoresPrint, StoresRows
<1>5. /\ torn' = TornBy(p)
      /\ \A q \in Procs \ {p} : proc'[q].pc \in Refreshing => q \in overtaken'
  BY <1>2, <1>4, OneStores, StillStoresNothing DEF StoresNothing
<1>6. /\ p \notin overtaken => Knows(p)
      /\ proc[p].pending.reader = Build[p]
  BY <1>1 DEF FreshInv, RefreshKnows, Refreshing
<1>7. VersionsCounted'
  BY <1>0, <1>1, <1>2, <1>3 DEF FreshInv, VersionsCounted, Unusable, NoDigest
<1>8. RowsAreThePrints'
  <2>1. CASE p \in overtaken
    BY <1>5, <2>1 DEF TornBy, RowsAreThePrints
  <2>2. CASE p \notin overtaken
    <3>1. "readers" \notin torn' => ReaderChanged(p) \/ "readers" \notin torn
      BY <1>4, <1>5, <2>2 DEF TornBy
    <3>2. ASSUME NEW s \in Sessions, "readers" \notin torn', db'.rows[s].version > 0
          PROVE  db'.rows[s].reader >= db'.print.reader
      BY <1>1, <1>3, <1>6, <2>2, <3>1, <3>2 DEF Knows
    <3>3. ASSUME NEW s \in Sessions, Names(db.print, s)' PROVE db'.rows[s].version = vendor'[s]
      BY <1>1, <1>3, <1>6, <2>2, <3>3 DEF Knows, Names
    <3> QED BY <3>2, <3>3 DEF RowsAreThePrints
  <2> QED BY <2>1, <2>2
<1>9. ASSUME NEW q \in Procs \ {p} PROVE RefreshKnows(q)'
  BY <1>2, <1>5 DEF FreshInv, RefreshKnows
<1>10. RefreshKnows(p)'
  BY DEF RefreshKnows, Refreshing
<1> QED BY <1>7, <1>8, <1>9, <1>10 DEF FreshInv

(* A refresh keeps what is known, whatever it does.                        *)
LEMMA RefreshFresh ==
    ASSUME Typed, FreshInv, NEW p \in Procs, Remember, Refresh(p)
    PROVE  FreshInv'
<1>1. CASE (ReplaceSource(p) \/ SetSourceFingerprint(p)) /\ Close(p) /\ UNCHANGED db
  <2>1. vendor' = vendor /\ writes' = writes
    BY <1>1 DEF ReplaceSource, SetSourceFingerprint
  <2> QED BY <1>1, <2>1, CloseIs, LeavingStep DEF Typed, Refreshing
<1>2. CASE ReplaceSource(p) /\ ~(Close(p) /\ UNCHANGED db)
  <2>1. proc'[p].pc = "record"
    BY <1>2, ReplacesIs DEF ReplaceSource
  <2> QED BY <1>2, <2>1, ReplacingFresh
<1>3. CASE SetSourceFingerprint(p) /\ ~(Close(p) /\ UNCHANGED db)
  <2>1. proc'[p].pc = "open"
    BY <1>3, ReturnIs DEF SetSourceFingerprint, Typed
  <2> QED BY <1>3, <2>1, RecordingFresh
<1> QED BY <1>1, <1>2, <1>3, ReadingFresh DEF Refresh

(* And so does every other step.                                           *)
LEMMA NextFresh == IndexInv /\ FreshInv /\ [Next]_vars => FreshInv'
<1> SUFFICES ASSUME IndexInv, FreshInv, [Next]_vars PROVE FreshInv'
  OBVIOUS
<1>0. Typed /\ LocksExclude
  BY TypeOKIs DEF IndexInv
<1>1. ASSUME NEW p \in Procs, Open(p) \/ Die(p), Remember PROVE FreshInv'
  <2>1. CASE db' = db
    BY <1>0, <1>1, <2>1, OpenStep, LeavingStep
  <2>2. CASE Exclusive(p) /\ db' = EmptyDb(db.file + 1)
    <3>1. \A q \in Procs \ {p} : proc[q].pc \notin Refreshing
      BY <1>0, <2>2 DEF LocksExclude, Shared
    <3>2. \A q \in Procs : proc'[q].pc \notin Refreshing
      BY <1>0, <1>1, <3>1, OpenStep
    <3>3. db'.print = Unusable(0) /\ \A s \in Sessions : db'.rows[s] = NoRow
      BY <2>2 DEF EmptyDb
    <3> QED BY <1>0, <1>1, <3>2, <3>3, OpenStep, EmptiedFresh
  <2> QED BY <1>0, <1>1, <2>1, <2>2, OpenStep
<1>2. ASSUME NEW p \in Procs, Observe(p), Remember PROVE FreshInv'
  <2>1. /\ vendor' = vendor /\ writes' = writes /\ db' = db /\ proc[p].pc = "open"
        /\ \A q \in Procs \ {p} : proc'[q] = proc[q]
        /\ proc'[p].pc = "open" /\ proc'[p].pending = proc[p].pending
    BY <1>0, <1>2 DEF Observe, Typed, ProcType
  <2> QED BY <1>0, <1>2, <2>1, LeavingStep DEF Refreshing
<1>3. ASSUME NEW p \in Procs, NEW s \in Sessions, Remember,
             PutPrelaunchBaseline(p, s) \/ DeletePrelaunchBaseline(p, s)
      PROVE  FreshInv'
  <2>1. /\ db'.rows = db.rows /\ db'.print = db.print
        /\ db'.file = db.file /\ db'.sound = db.sound
        /\ vendor' = vendor /\ writes' = writes
    BY <1>0, <1>3 DEF PutPrelaunchBaseline, DeletePrelaunchBaseline, Typed, DbType
  <2>2. /\ \A q \in Procs \ {p} : proc'[q] = proc[q]
        /\ proc[p].pc = "open" /\ proc'[p].pc = "open"
        /\ proc'[p].pending = proc[p].pending
    BY <1>0, <1>3 DEF PutPrelaunchBaseline, DeletePrelaunchBaseline, Typed, ProcType
  <2> QED BY <1>0, <1>3, <2>1, <2>2, LeavingStep DEF Refreshing
<1>4. ASSUME Damage PROVE FreshInv'
  <2>1. /\ db'.print = Unusable(0) /\ \A s \in Sessions : db'.rows[s] = NoRow
        /\ ~db'.sound /\ proc' = proc /\ vendor' = vendor /\ writes' = writes
    BY <1>4 DEF Damage, EmptyDb
  <2> QED BY <1>0, <2>1, EmptiedFresh
<1>5. ASSUME NEW s \in Sessions, Write(s), Remember PROVE FreshInv'
  <2>1. /\ writes' \in {writes, writes + 1} /\ db' = db /\ proc' = proc
        /\ vendor'[s] \in {0, writes + 1} /\ vendor'[s] <= writes'
        /\ \A t \in Sessions \ {s} : vendor'[t] = vendor[t]
    BY <1>0, <1>5, SessionIndexAssumption DEF Write, Typed, Digests, Versions
  <2>2. /\ writes \in Nat
        /\ \A t \in Sessions : /\ vendor[t] \in Nat /\ db.print.digest[t] \in Nat
                               /\ \A q \in Procs : proc[q].pending.digest[t] \in Nat
    BY <1>0, SessionIndexAssumption
    DEF Typed, ProcType, DbType, Fingerprints, Digests, Versions
  <2>3. VersionsCounted'
    BY <2>1, <2>2 DEF FreshInv, VersionsCounted
  <2>4. \A t \in Sessions :
           /\ Names(db.print, t)' => Names(db.print, t) /\ vendor'[t] = vendor[t]
           /\ \A q \in Procs : Names(proc[q].pending, t)' =>
                  Names(proc[q].pending, t) /\ vendor'[t] = vendor[t]
    BY <2>1, <2>2 DEF FreshInv, VersionsCounted, Names
  <2>5. torn' = torn /\ Heeds
    BY <1>5, <2>1, NothingStored, StillStoresNothing
  <2>6. RowsAreThePrints'
    BY <2>1, <2>4, <2>5 DEF FreshInv, RowsAreThePrints
  <2>7. ASSUME NEW q \in Procs PROVE RefreshKnows(q)'
    BY <2>1, <2>4, <2>5 DEF FreshInv, RefreshKnows, Knows, ReaderChanged, Heeds
  <2> QED BY <2>3, <2>6, <2>7 DEF FreshInv
<1>6. CASE UNCHANGED vars
  BY <1>6 DEF vars, machine, FreshInv, VersionsCounted, RowsAreThePrints, RefreshKnows, Knows,
     Names, ReaderChanged
<1> QED BY <1>0, <1>1, <1>2, <1>3, <1>4, <1>5, <1>6, RefreshFresh DEF Next, Step

(* However many processes refresh, an identical fingerprint never hides a  *)
(* changed record, wherever each of them stops between reading the files,  *)
(* storing the rows and storing the fingerprint, unless one stored between *)
(* the two transactions of another, or an older build stopped between its  *)
(* own; and the next refresh that stores undisturbed puts that right.      *)
THEOREM SkippedStaysFresh == Spec => []SkippedIsFresh
<1>1. Init => FreshInv
  <2> SUFFICES ASSUME Init PROVE FreshInv
    OBVIOUS
  <2>1. /\ \A p \in Procs : proc[p] = Closed
        /\ db = EmptyDb(1) /\ vendor = NoDigest /\ writes = 0
    BY DEF Init
  <2> QED BY <2>1 DEF Closed, EmptyDb, NoDigest, NoRow, Unusable, FreshInv, VersionsCounted,
             RowsAreThePrints, RefreshKnows, Names, Refreshing
<1>2. IndexInv /\ FreshInv => SkippedIsFresh
  <2> SUFFICES ASSUME IndexInv, FreshInv, db.print.usable, db.print.digest = vendor,
                      NEW s \in Sessions, vendor[s] > 0
               PROVE  /\ "versions" \notin torn => db.rows[s].version = vendor[s]
                      /\ "readers" \notin torn => db.rows[s].reader >= db.print.reader
    BY DEF SkippedIsFresh
  <2>1. "versions" \notin torn => db.rows[s].version = vendor[s]
    BY DEF FreshInv, RowsAreThePrints, Names
  <2>2. ASSUME "readers" \notin torn PROVE db.rows[s].reader >= db.print.reader
    <3>1. db.rows[s].version > 0
      BY <2>1, <2>2 DEF IndexInv, TornTogether
    <3> QED BY <2>2, <3>1 DEF FreshInv, RowsAreThePrints
  <2> QED BY <2>1, <2>2
<1> QED BY <1>1, <1>2, NextFresh, IndexInvariant, PTL DEF Spec

------------------------------------------------------------------------------
(* Where the sources of the agents are looked at beside the processes, the *)
(* processes behave as they do alone, so all this holds there too.         *)
LEMMA ProcessesAreAlone == IndexingSpec => Spec
<1>1. IndexingInit => Init
  BY DEF IndexingInit
<1>2. [IndexingNext]_<<processVars, sourceVars, side>> => [Next]_vars
  BY DEF IndexingNext, processVars, vars
<1> QED BY <1>1, <1>2, PTL DEF IndexingSpec, Spec

(* Every behaviour of the whole index keeps what is promised of the file   *)
(* that the processes share.                                               *)
THEOREM WholeIndexKeepsPromises ==
    IndexingSpec => [](IndexConsistent /\ SkippedIsFresh) /\ BaselineForward
  BY ProcessesAreAlone, IndexStaysConsistent, SkippedStaysFresh, BaselinesGoForward, PTL
==============================================================================
