---------------------------- MODULE SessionIndex ----------------------------
(***************************************************************************)
(* The derived session index (internal/sessionindex): an SQLite file that  *)
(* the rein processes of one user share.  A process holds the lifetime     *)
(* lock shared while it has the file open; one that finds the file damaged *)
(* removes it under the exclusive lock and makes an empty one.  A refresh  *)
(* reads an agent's files and replaces that source's rows, unless the      *)
(* fingerprint stored with the rows says that nothing changed.  Rows carry *)
(* prelaunch baselines, which nothing can derive again.                    *)
(*                                                                         *)
(* One source is modelled.  vendor[s] is the version of session s's file,  *)
(* 0 when there is none; a fingerprint covers every version, so it is the  *)
(* function vendor itself.  A reader is a build of rein: each process is of *)
(* one, and several may be installed.                                      *)
(***************************************************************************)
EXTENDS Naturals, FiniteSets

CONSTANTS Procs,           \* rein processes
          Build,           \* the build of rein each one is, counted by age
          Sessions,        \* sessions of the source
          MaxVersions,     \* bound: writes of the agent
          MaxObservations, \* bound: baselines observed
          MaxFaults        \* bound: damages of the file

ASSUME SessionIndexAssumption ==
    /\ Build \in [Procs -> Nat \ {0}]
    /\ MaxVersions \in Nat
    /\ MaxObservations \in Nat /\ MaxFaults \in Nat

VARIABLES vendor,  \* the agent's session files
          writes,  \* how often the agent wrote them
          db,      \* the index file
          proc,    \* proc[p]: what process p holds and does
          clock,   \* the time of the last observation
          faults,  \* faults so far
          overtaken, \* history: the processes during whose refresh another one
                     \*   stored rows or a fingerprint
          torn       \* history: in what the stored rows may not be those of the
                     \*   stored fingerprint, for want of one transaction for both

machine == <<vendor, writes, db, proc, clock, faults>>

vars == <<machine, overtaken, torn>>

Versions == 0..MaxVersions

Digests == [Sessions -> Versions]

Rows == [version : Versions, reader : Nat]

NoRow == [version |-> 0, reader |-> 0]

(* source_state: what the rows were made of; reader 0: never scanned.  A    *)
(* source that has no usable digest records its reader alone.               *)
Fingerprints == [reader : Nat, usable : BOOLEAN, digest : Digests]

NoDigest == [s \in Sessions |-> 0]

Unusable(r) == [reader |-> r, usable |-> FALSE, digest |-> NoDigest]

EmptyDb(n) == [file |-> n, sound |-> TRUE, rows |-> [s \in Sessions |-> NoRow],
               print |-> Unusable(0), baseline |-> [s \in Sessions |-> 0]]

(* The places of Open where the process holds the writer's lock.            *)
Recovering == {"rejoin", "retry", "exclusive", "rebuild", "share"}

Refreshing == {"digest", "scan", "replace", "record"}

Phases == {"closed", "probe", "writer", "open"} \cup Recovering \cup Refreshing

Closed == [pc |-> "closed", file |-> 0, stored |-> Unusable(0),
           pending |-> Unusable(0), scanned |-> NoDigest, observed |-> 0]

(* Who holds the lifetime lock (path.lock) and the writer's (path.write.lock).*)
Shared(p) == proc[p].pc \in {"probe", "retry", "open"} \cup Refreshing

Exclusive(p) == proc[p].pc = "rebuild"

Writer(p) == proc[p].pc \in Recovering

TypeOK ==
    /\ vendor \in Digests
    /\ writes \in Versions
    /\ db \in [file : 1..(MaxFaults + 1), sound : BOOLEAN, rows : [Sessions -> Rows],
               print : Fingerprints, baseline : [Sessions -> 0..MaxObservations]]
    /\ proc \in [Procs -> [pc : Phases, file : 0..(MaxFaults + 1), stored : Fingerprints, pending : Fingerprints,
                           scanned : Digests, observed : 0..MaxObservations]]
    /\ clock \in 0..MaxObservations
    /\ faults \in 0..MaxFaults
    /\ overtaken \subseteq Procs /\ torn \subseteq {"versions", "readers"}
    /\ \A p, q \in Procs : p # q => /\ ~(Writer(p) /\ Writer(q))
                                    /\ ~(Exclusive(p) /\ (Exclusive(q) \/ Shared(q)))

Init ==
    /\ vendor = NoDigest
    /\ writes = 0
    /\ db = EmptyDb(1)
    /\ proc = [p \in Procs |-> Closed]
    /\ clock = 0
    /\ faults = 0
    /\ overtaken = {} /\ torn = {}

Goto(p, pc) == proc' = [proc EXCEPT ![p].pc = pc]

Close(p) == proc' = [proc EXCEPT ![p] = Closed]

(* A refresh returns to the command.                                        *)
Return(p) ==
    proc' = [proc EXCEPT ![p] = [Closed EXCEPT !.pc = "open", !.file = proc[p].file,
                                        !.observed = proc[p].observed]]

(* Open returns a Store: its handle is of the file that is there now.       *)
Opened(p) == proc' = [proc EXCEPT ![p].pc = "open", ![p].file = db.file]

------------------------------------------------------------------------------
(* Open.                                                                    *)

NobodyWrites(p) == \A q \in Procs \ {p} : ~Writer(q)

(* AcquireShared.                                                           *)
OpenShared(p) ==
    /\ proc[p].pc = "closed"
    /\ \A q \in Procs : ~Exclusive(q)
    /\ Goto(p, "probe")
    /\ UNCHANGED <<vendor, writes, db, clock, faults>>

(* openDatabase under the shared lock; a damaged file is left to whoever    *)
(* holds the writer's lock.                                                 *)
Probe(p) ==
    /\ proc[p].pc = "probe"
    /\ (db.sound /\ Opened(p)) \/ (~db.sound /\ Goto(p, "writer"))
    /\ UNCHANGED <<vendor, writes, db, clock, faults>>

(* A mistake: recovery does not take the writer's lock.                     *)
AnybodyRecovers(p) ==
    /\ proc[p].pc = "writer"
    /\ Goto(p, "rejoin")
    /\ UNCHANGED <<vendor, writes, db, clock, faults>>

BecomeWriter(p) ==
    /\ proc[p].pc = "writer"
    /\ NobodyWrites(p)
    /\ Goto(p, "rejoin")
    /\ UNCHANGED <<vendor, writes, db, clock, faults>>

(* Another process may have repaired the file in the meantime.              *)
Rejoin(p) ==
    /\ proc[p].pc = "rejoin"
    /\ \A q \in Procs : ~Exclusive(q)
    /\ Goto(p, "retry")
    /\ UNCHANGED <<vendor, writes, db, clock, faults>>

Retry(p) ==
    /\ proc[p].pc = "retry"
    /\ (db.sound /\ Opened(p)) \/ (~db.sound /\ Goto(p, "exclusive"))
    /\ UNCHANGED <<vendor, writes, db, clock, faults>>

LockExclusive(p) ==
    /\ proc[p].pc = "exclusive"
    /\ \A q \in Procs : ~Exclusive(q) /\ ~Shared(q)
    /\ Goto(p, "rebuild")
    /\ UNCHANGED <<vendor, writes, db, clock, faults>>

(* The file is removed and made anew, unless it is sound by now.  The       *)
(* handle is taken here, before the exclusive lock is given up.             *)
RebuildFile(p) ==
    /\ proc[p].pc = "rebuild"
    /\ db' = IF db.sound THEN db ELSE EmptyDb(db.file + 1)
    /\ proc' = [proc EXCEPT ![p].pc = "share", ![p].file = db'.file]
    /\ UNCHANGED <<vendor, writes, clock, faults>>

(* replaceExclusiveWithShared: for a moment the process holds neither.      *)
Share(p) ==
    /\ proc[p].pc = "share"
    /\ \A q \in Procs : ~Exclusive(q)
    /\ Goto(p, "open")
    /\ UNCHANGED <<vendor, writes, db, clock, faults>>

(* Ten seconds are over before the lock was free: Open fails.               *)
OpenTimesOut(p) ==
    /\ proc[p].pc \in {"writer", "rejoin", "exclusive", "share"}
    /\ Close(p)
    /\ UNCHANGED <<vendor, writes, db, clock, faults>>

CloseStore(p) ==
    /\ proc[p].pc = "open"
    /\ Close(p)
    /\ UNCHANGED <<vendor, writes, db, clock, faults>>

Open(p) ==
    \/ OpenShared(p) \/ Probe(p) \/ BecomeWriter(p) \/ Rejoin(p) \/ Retry(p)
    \/ LockExclusive(p) \/ RebuildFile(p) \/ Share(p) \/ OpenTimesOut(p) \/ CloseStore(p)

------------------------------------------------------------------------------
(* refresh.  A statement on a damaged file fails, and with it the command.  *)

(* The stored fingerprint is read; an unreadable one counts as none.        *)
BeginRefresh(p) ==
    /\ proc[p].pc = "open"
    /\ proc' = [proc EXCEPT ![p].pc = "digest",
                            ![p].stored = IF db.sound THEN db.print ELSE Unusable(0)]
    /\ UNCHANGED <<vendor, writes, db, clock, faults>>

(* Whether this build wrote the rows, as far as the stored fingerprint says.*)
ReaderChanged(p) == proc[p].stored.reader # Build[p]

(* Of the stored fingerprint only the build is looked at again.             *)
GoOn(p, new) ==
    proc' = [proc EXCEPT ![p].pc = "scan", ![p].pending = new,
                         ![p].stored = Unusable(IF ReaderChanged(p) THEN 0 ELSE @.reader)]

(* The digest of the files, bound to this build.  When it is the stored     *)
(* one, the scan is skipped; it may be unusable or fail.                    *)
Digest(p) ==
    /\ proc[p].pc = "digest"
    /\ LET new == [reader |-> Build[p], usable |-> TRUE, digest |-> vendor]
       IN  \/ /\ proc[p].stored = new
              /\ Return(p)
           \/ /\ proc[p].stored # new
              /\ GoOn(p, new)
           \/ GoOn(p, Unusable(Build[p]))
    /\ UNCHANGED <<vendor, writes, db, clock, faults>>

(* Scan reads the files; a failed one leaves the rows alone.                *)
Scan(p) ==
    /\ proc[p].pc = "scan"
    /\ \/ proc' = [proc EXCEPT ![p].pc = "replace", ![p].scanned = vendor]
       \/ Return(p)
    /\ UNCHANGED <<vendor, writes, db, clock, faults>>

Replaced(p) ==
    [s \in Sessions |->
        IF proc[p].scanned[s] = 0 THEN NoRow
        ELSE IF db.rows[s].version = proc[p].scanned[s] /\ ~ReaderChanged(p)
        THEN db.rows[s]
        ELSE [version |-> proc[p].scanned[s], reader |-> Build[p]]]

(* A mistake: foreign keys are off, so deleted rows leave their baselines.  *)
KeepBaselines(p) == db.baseline

(* ON DELETE CASCADE: the baseline of a deleted row goes with it.           *)
Cascade(p) ==
    [s \in Sessions |-> IF proc[p].scanned[s] = 0 THEN 0 ELSE db.baseline[s]]

(* A mistake: the fingerprint is taken again when the rows are stored.      *)
ReplaceSourceDigesting(p) ==
    /\ proc[p].pc = "replace"
    /\ NobodyWrites(p)
    /\ db.sound
    /\ db' = [db EXCEPT !.rows = Replaced(p), !.baseline = Cascade(p)]
    /\ proc' = [proc EXCEPT ![p].pc = "record", ![p].scanned = NoDigest,
                    ![p].pending = [reader |-> Build[p], usable |-> TRUE,
                                    digest |-> vendor]]
    /\ UNCHANGED <<vendor, writes, clock, faults>>

(* ReplaceSource: one transaction, under the writer's lock.                 *)
ReplaceSource(p) ==
    /\ proc[p].pc = "replace"
    /\ NobodyWrites(p)
    /\ \/ /\ db.sound
          /\ db' = [db EXCEPT !.rows = Replaced(p), !.baseline = Cascade(p)]
          /\ proc' = [proc EXCEPT ![p].pc = "record", ![p].scanned = NoDigest]
       \/ ~db.sound /\ Close(p) /\ UNCHANGED db
    /\ UNCHANGED <<vendor, writes, clock, faults>>

(* SetSourceFingerprint: a statement of its own, without the writer's lock. *)
SetSourceFingerprint(p) ==
    /\ proc[p].pc = "record"
    /\ \/ db.sound /\ db' = [db EXCEPT !.print = proc[p].pending] /\ Return(p)
       \/ ~db.sound /\ Close(p) /\ UNCHANGED db
    /\ UNCHANGED <<vendor, writes, clock, faults>>

Refresh(p) ==
    \/ BeginRefresh(p) \/ Digest(p) \/ Scan(p) \/ ReplaceSource(p)
    \/ SetSourceFingerprint(p)

------------------------------------------------------------------------------
(* Baselines.                                                               *)

(* The environment is observed before the baseline is stored.               *)
Observe(p) ==
    /\ proc[p].pc = "open"
    /\ clock < MaxObservations /\ proc[p].observed = 0
    /\ clock' = clock + 1
    /\ proc' = [proc EXCEPT ![p].observed = clock + 1]
    /\ UNCHANGED <<vendor, writes, db, faults>>

(* A mistake: the stored observation is not compared with the new one.      *)
PutAnyBaseline(p, s) ==
    /\ proc[p].pc = "open"
    /\ proc[p].observed > 0
    /\ NobodyWrites(p)
    /\ db.sound /\ db.rows[s].version > 0
    /\ db' = [db EXCEPT !.baseline[s] = proc[p].observed]
    /\ proc' = [proc EXCEPT ![p].observed = 0]
    /\ UNCHANGED <<vendor, writes, clock, faults>>

(* PutPrelaunchBaseline; an older observation, and one of a session that    *)
(* the index does not know, is refused.  A launch stores its own once.      *)
PutPrelaunchBaseline(p, s) ==
    /\ proc[p].pc = "open"
    /\ proc[p].observed > 0
    /\ NobodyWrites(p)
    /\ db.sound /\ db.rows[s].version > 0
    /\ proc[p].observed > db.baseline[s]
    /\ db' = [db EXCEPT !.baseline[s] = proc[p].observed]
    /\ proc' = [proc EXCEPT ![p].observed = 0]
    /\ UNCHANGED <<vendor, writes, clock, faults>>

DeletePrelaunchBaseline(p, s) ==
    /\ proc[p].pc = "open"
    /\ NobodyWrites(p)
    /\ db.sound /\ db.baseline[s] > 0
    /\ db' = [db EXCEPT !.baseline[s] = 0]
    /\ UNCHANGED <<vendor, writes, proc, clock, faults>>

------------------------------------------------------------------------------
(* The agent writes or removes one of its session files.                    *)
Write(s) ==
    /\ \/ /\ writes < MaxVersions
          /\ writes' = writes + 1
          /\ vendor' = [vendor EXCEPT ![s] = writes + 1]
       \/ /\ vendor[s] # 0
          /\ vendor' = [vendor EXCEPT ![s] = 0]
          /\ UNCHANGED writes
    /\ UNCHANGED <<db, proc, clock, faults>>

(* The index file is damaged, or written by an incompatible build; nothing  *)
(* can be read of it any more.                                              *)
Damage ==
    /\ db.sound
    /\ faults < MaxFaults
    /\ faults' = faults + 1
    /\ db' = [EmptyDb(db.file) EXCEPT !.sound = FALSE]
    /\ UNCHANGED <<vendor, writes, proc, clock>>

(* The process dies; the system releases its locks.                         *)
Die(p) ==
    /\ proc[p].pc # "closed"
    /\ Close(p)
    /\ UNCHANGED <<vendor, writes, db, clock, faults>>

Step ==
    \/ \E p \in Procs :
         \/ Open(p) \/ Refresh(p) \/ Observe(p) \/ Die(p)
         \/ \E s \in Sessions : PutPrelaunchBaseline(p, s) \/ DeletePrelaunchBaseline(p, s)
    \/ \E s \in Sessions : Write(s)
    \/ Damage

------------------------------------------------------------------------------
(* What is remembered of a step.  A refresh stores its rows and then its    *)
(* fingerprint, and no lock is held from the one to the other: what another *)
(* refresh stores meanwhile is mixed with it.  And an older build's rows    *)
(* stand beside the fingerprint of a newer one until it stores its own.     *)
StoresRows(p) == proc[p].pc = "replace" /\ proc'[p].pc = "record"

StoresPrint(p) == proc[p].pc = "record" /\ proc'[p].pc = "open"

TornBy(p) ==
    IF p \in overtaken THEN {"versions", "readers"}
    ELSE IF StoresRows(p) /\ Build[p] < db.print.reader THEN {"readers"}
    ELSE IF ReaderChanged(p) THEN {}
    ELSE torn \ {"versions"}

Remember ==
    LET storing == {p \in Procs : StoresRows(p) \/ StoresPrint(p)}
    IN  /\ overtaken' = {p \in Procs : proc'[p].pc \in Refreshing /\
                                        (p \in overtaken \/ storing \ {p} # {})}
        /\ \/ storing = {} /\ torn' = IF db'.file = db.file THEN torn ELSE {}
           \/ \E p \in storing : torn' = TornBy(p)

Next == Step /\ Remember

Spec == Init /\ [][Next]_vars

------------------------------------------------------------------------------
(* No process works on a file that another one has removed: "other live     *)
(* Store handles never become split-brain readers of an unlinked file",     *)
(* although recovery holds no lifetime lock for a moment before it returns. *)
NoSplitBrain ==
    \A p \in Procs : proc[p].pc \in {"open"} \cup Refreshing => proc[p].file = db.file

(* "An identical one cannot hide a changed record": when the fingerprint    *)
(* stored in the index is that of the files as they are, so that refreshes  *)
(* are skipped, the row of every file is what that build, or a newer one,   *)
(* reads in it, unless refreshes were mixed.  (A file made after a digest   *)
(* and removed before the next one leaves the digest as it was and its row  *)
(* behind: rows of files that are gone are not covered.)                    *)
SkippedIsFresh ==
    db.sound /\ db.print.usable /\ db.print.digest = vendor =>
        \A s \in Sessions : vendor[s] > 0 =>
            /\ "versions" \notin torn => db.rows[s].version = vendor[s]
            /\ "readers" \notin torn => db.rows[s].reader >= db.print.reader

(* A baseline belongs to a session the index knows; otherwise the next open *)
(* finds a foreign key violation and throws the whole index away.           *)
BaselinesBelong ==
    \A s \in Sessions : db.baseline[s] > 0 => db.rows[s].version > 0

(* The index and its locks are well formed, the next open finds nothing to  *)
(* throw away, and nobody works on what has been thrown away.               *)
IndexConsistent == TypeOK /\ BaselinesBelong /\ NoSplitBrain

(* Whatever several processes store, the baseline of a session never goes   *)
(* back to an older observation; it only goes with its session, its file,   *)
(* or when it is deleted.                                                   *)
BaselineForward ==
    [][\A s \in Sessions :
          db'.baseline[s] >= db.baseline[s] \/ db'.baseline[s] = 0]_vars
==============================================================================
