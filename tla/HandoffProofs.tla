---------------------------- MODULE HandoffProofs ----------------------------
(* Proofs about rein handoff, for every number of processes, versions,     *)
(* commands and faults, and every set of warnings.                         *)
EXTENDS Handoff, FiniteSetTheorems, SequenceTheorems, WellFoundedInduction, TLAPS

WantType == [id : Ids, warnings : SUBSET Warnings]

HandoffType == [at : Places, opts : Options, want : WantType, plan : Ids, steady : BOOLEAN]

AskerType == [at : {"idle", "append"}, entry : Entries]

Typed ==
    /\ version \in 0..MaxVersions /\ warnings \in SUBSET Warnings
    /\ sessions \subseteq Ids /\ capsules \subseteq Ids /\ orphans \subseteq Ids
    /\ lines \in Seq(Entries) /\ torn \in BOOLEAN
    /\ proc \in [Procs -> HandoffType]
    /\ asker \in [Askers -> AskerType]
    /\ commands \in 0..MaxCommands /\ faults \in 0..MaxFaults
    /\ IsFiniteSet(capsules)

(* A handoff names the lineage of the session it is made from.             *)
Chained(h) == h.from # Origin => h.root \in {NoRoot, LineageRoot(h.from)}

(* What a command works on is of the source it was asked for, and belongs  *)
(* to that source's lineage.                                               *)
PlansChained ==
    \A p \in Procs :
        /\ Chained(proc[p].plan)
        /\ proc[p].at \notin {"idle", "execute"} => proc[p].plan.from = proc[p].opts.from

(* An entry of the lineage is of a stored capsule, and says of a session   *)
(* that it is there only when it is.                                       *)
Stored(e) == e.id \in capsules /\ (e.launched /\ e.resolved => e.id \in sessions)

After == {"append", "boundary", "start", "child", "verify"}

StoredFirst ==
    /\ \A i \in DOMAIN lines : Stored(lines[i])
    /\ \A q \in Askers : asker[q].at = "append" => Stored(asker[q].entry)
    /\ \A p \in Procs : proc[p].at \in After => proc[p].plan \in capsules

(* Whoever is about to launch, launches or has launched was asked to, and  *)
(* for a Claude session holds its lock, which excludes.                    *)
Launching == {"lock", "check", "boundary", "start", "child", "verify"}

SessionsLocked ==
    /\ \A p \in Procs : proc[p].at \in Launching => proc[p].opts.launch
    /\ \A p, q \in Procs :
          p # q /\ HoldsSession(p, proc[p].plan) => ~HoldsSession(q, proc[p].plan)

(* Nothing has changed since the last plan of a launch that is steady.     *)
SteadyIsCurrent ==
    \A p \in Procs : proc[p].at = "start" /\ proc[p].steady =>
        /\ proc[p].plan = proc[p].want.id
        /\ warnings \subseteq proc[p].opts.allowed
        /\ proc[p].opts.from = Origin => proc[p].plan.version = version

HandoffInv == /\ Typed /\ PlansChained /\ RootOfChain /\ StoredFirst
              /\ SessionsLocked /\ SteadyIsCurrent

------------------------------------------------------------------------------
(* The ids of handoffs, and what becomes of a process that does nothing.   *)
LEMMA IdsAre ==
    /\ \A h \in FirstIds : h.from = Origin /\ h.root = NoRoot /\ h \in Ids
    /\ \A h \in SecondIds : h.from \in FirstIds /\ h.from # Origin /\ h \in Ids
    /\ \A h \in FirstIds : LineageRoot(h) = h
    /\ \A v \in 0..MaxVersions : FirstId(v) \in FirstIds
  BY OriginAssumption DEF Ids, FirstIds, SecondIds, LineageRoot, FirstId

LEMMA OptionsAre ==
    \A o \in Options : /\ o \in [from : {Origin} \cup FirstIds, launch : BOOLEAN,
                                 allowed : SUBSET Warnings, active : BOOLEAN]
                       /\ o.from = Origin => o.active = FALSE
  BY DEF Options

LEMMA IdleTyped ==
    /\ Idle \in HandoffType /\ Quiet \in AskerType
    /\ Idle.at = "idle" /\ Idle.plan = FirstId(0) /\ Idle.steady = FALSE
    /\ Idle.opts = NoOptions /\ Quiet.at = "idle"
<1>1. FirstId(0) \in Ids
  BY IdsAre, HandoffAssumption
<1>2. NoOptions \in Options
  BY DEF NoOptions, Options
<1>3. [id |-> FirstId(0), warnings |-> {}] \in WantType
  BY <1>1 DEF WantType
<1>4. Idle \in HandoffType
  BY <1>1, <1>2, <1>3 DEF Idle, HandoffType, Places
<1>5. Quiet \in AskerType
  BY <1>1 DEF Quiet, AskerType, Entry, Entries, Answers
<1> QED BY <1>4, <1>5 DEF Idle, Quiet

(* A process goes on to another place.                                     *)
LEMMA GoIs ==
    ASSUME proc \in [Procs -> HandoffType], NEW p \in Procs, NEW place \in Places, Go(p, place)
    PROVE  /\ proc' \in [Procs -> HandoffType]
           /\ \A q \in Procs \ {p} : proc'[q] = proc[q]
           /\ proc'[p].at = place /\ proc'[p].opts = proc[p].opts
           /\ proc'[p].want = proc[p].want /\ proc'[p].plan = proc[p].plan
           /\ proc'[p].steady = proc[p].steady
  BY DEF Go, HandoffType

(* Its command ends.                                                       *)
LEMMA ReturnIs ==
    ASSUME proc \in [Procs -> HandoffType], NEW p \in Procs, Return(p)
    PROVE  /\ proc' \in [Procs -> HandoffType]
           /\ \A q \in Procs \ {p} : proc'[q] = proc[q]
           /\ proc'[p].at = "idle" /\ proc'[p].plan = FirstId(0)
  BY IdleTyped DEF Return

(* An entry is appended, or its write fails.                               *)
LEMMA AppendIs ==
    ASSUME Typed, NEW e \in Entries,
           (AppendLineage(e) /\ UNCHANGED faults) \/ AppendFails
    PROVE  /\ lines' \in Seq(Entries) /\ torn' \in BOOLEAN /\ faults' \in 0..MaxFaults
           /\ \A i \in DOMAIN lines' : lines'[i] = e \/ (i \in DOMAIN lines /\ lines'[i] = lines[i])
           /\ lines' = lines \/ lines' = Append(lines, e)
<1>1. lines' = lines \/ lines' = Append(lines, e)
  BY DEF AppendLineage, AppendFails
<1>2. torn' \in BOOLEAN
  BY Zenon DEF AppendLineage, AppendFails, Typed
<1>3. faults' \in 0..MaxFaults
  <2>1. CASE AppendLineage(e) /\ UNCHANGED faults
    BY <2>1 DEF Typed
  <2>2. CASE AppendFails
    <3>1. faults < MaxFaults /\ faults' = faults + 1
      BY <2>2 DEF AppendFails
    <3> QED BY <3>1, HandoffAssumption DEF Typed
  <2> QED BY <2>1, <2>2
<1>4. CASE lines' = Append(lines, e)
  <2>1. /\ lines' \in Seq(Entries) /\ Len(lines') = Len(lines) + 1
        /\ \A i \in 1..Len(lines) : lines'[i] = lines[i]
        /\ lines'[Len(lines) + 1] = e
    BY <1>4, AppendProperties DEF Typed
  <2> QED BY <1>1, <1>2, <1>3, <2>1 DEF Typed
<1>5. CASE lines' = lines
  BY <1>2, <1>3, <1>5 DEF Typed
<1> QED BY <1>1, <1>4, <1>5

(* Among finitely many lines there is a first and a last.                  *)
LEMMA HasLeast ==
    ASSUME NEW S \in SUBSET Nat, S # {}
    PROVE  \E i \in S : \A j \in S : i <= j
<1>1. PICK i \in S : \A j \in S : ~ (<<j, i>> \in OpToRel(<, Nat))
  BY NatLessThanWellFounded, WFMin
<1>2. \A j \in S : ~ (j < i)
  BY <1>1 DEF OpToRel
<1> QED BY <1>2

LEMMA HasGreatest ==
    ASSUME NEW n \in Nat, NEW S \in SUBSET (1..n), S # {}
    PROVE  \E i \in S : \A j \in S : j <= i
<1> DEFINE T == {n - i : i \in S}
<1>1. T \in SUBSET Nat /\ T # {}
  <2>1. T \in SUBSET Nat
    OBVIOUS
  <2>2. PICK i \in S : TRUE
    OBVIOUS
  <2>3. n - i \in T
    BY <2>2
  <2> QED BY <2>1, <2>3
<1>2. PICK m \in T : \A k \in T : m <= k
  BY <1>1, HasLeast
<1>3. PICK i \in S : m = n - i
  OBVIOUS
<1>4. \A j \in S : n - j \in T
  OBVIOUS
<1> HIDE DEF T
<1>5. \A j \in S : n - i <= n - j
  BY <1>2, <1>3, <1>4
<1>6. \A j \in S : j \in Int /\ i \in Int
  OBVIOUS
<1>7. \A j \in S : j <= i
  BY <1>5, <1>6
<1> QED BY <1>7

LEMMA LeastIs ==
    ASSUME NEW S \in SUBSET Nat, S # {}
    PROVE  Least(S) \in S /\ \A j \in S : Least(S) <= j
  BY HasLeast DEF Least

(* What a line is.                                                         *)
LEMMA LinesAre ==
    ASSUME lines \in Seq(Entries)
    PROVE  /\ Len(lines) \in Nat /\ DOMAIN lines = 1..Len(lines)
           /\ \A i \in DOMAIN lines : lines[i] \in Entries
           /\ \A i \in DOMAIN lines : /\ lines[i].id \in Ids
                                      /\ lines[i].launched \in BOOLEAN
                                      /\ lines[i].resolved \in BOOLEAN
<1>1. Len(lines) \in Nat /\ DOMAIN lines = 1..Len(lines)
  OBVIOUS
<1>2. \A i \in 1..Len(lines) : lines[i] \in Entries
  OBVIOUS
<1>3. \A e \in Entries : e.id \in Ids /\ e.launched \in BOOLEAN /\ e.resolved \in BOOLEAN
  BY DEF Entries
<1> QED BY <1>1, <1>2, <1>3

(* The root a capsule gets is of the source's lineage, and names a handoff *)
(* only for a source that a handoff started.                               *)
LEMMA SourceRoot ==
    ASSUME lines \in Seq(Entries), NEW from \in {Origin} \cup FirstIds
    PROVE  /\ SourceLineageRoot(from) \in {NoRoot, LineageRoot(from)}
           /\ from = Origin => SourceLineageRoot(from) = NoRoot
<1> DEFINE ended == {i \in DOMAIN lines :
                        lines[i].launched /\ lines[i].resolved /\ lines[i].id = from}
           last == CHOOSE i \in ended : \A j \in ended : j <= i
<1>1. SourceLineageRoot(from) = IF ended = {} THEN NoRoot ELSE LineageRoot(lines[last].id)
  BY DEF SourceLineageRoot
<1>2. \A i \in DOMAIN lines : lines[i].id \in Ids
  BY LinesAre
<1>3. from = Origin => ended = {}
  BY <1>2, OriginAssumption
<1>4. ended # {} => last \in ended
  <2> SUFFICES ASSUME ended # {} PROVE \E i \in ended : \A j \in ended : j <= i
    OBVIOUS
  <2>1. ended \in SUBSET (1..Len(lines)) /\ Len(lines) \in Nat
    BY LinesAre
  <2> QED BY <2>1, HasGreatest
<1> QED BY <1>1, <1>3, <1>4

------------------------------------------------------------------------------
(* What the listing is.                                                    *)

(* A finite set as a sequence has every element of it.                     *)
LEMMA SetAsSequence ==
    ASSUME NEW S, IsFiniteSet(S)
    PROVE  /\ Cardinality(S) \in Nat
           /\ SetToSeq(S) \in [1..Cardinality(S) -> S]
           /\ \A e \in S : \E i \in 1..Cardinality(S) : SetToSeq(S)[i] = e
<1> DEFINE n == Cardinality(S)
           f == SetToSeq(S)
           R == {f[i] : i \in 1..n}
<1>1. n \in Nat /\ \E g \in [1..n -> S] : IsInjective(g)
  BY FS_CardinalityType DEF ExistsBijection, Bijection, Injection
<1>2. f \in [1..n -> S] /\ IsInjective(f)
  BY <1>1 DEF SetToSeq
<1> HIDE DEF f
<1>3. f \in Bijection(1..n, R)
  BY <1>2 DEF Bijection, Injection, Surjection
<1>4. IsFiniteSet(1..n) /\ Cardinality(1..n) = n
  BY <1>1, FS_Interval
<1>5. IsFiniteSet(R) /\ Cardinality(R) = n
  BY <1>3, <1>4, FS_Bijection DEF ExistsBijection
<1>6. R \in SUBSET S
  BY <1>2
<1>7. R = S
  BY <1>5, <1>6, FS_Subset
<1> QED BY <1>1, <1>2, <1>7 DEF f

(* The capsules without a line of their own.                               *)
LEMMA RecoveredIs ==
    ASSUME Typed
    PROVE  /\ IsFiniteSet(Recovered)
           /\ \A e \in Recovered :
                 /\ e \in Entries /\ e.id \in capsules /\ e = Entry(e.id, FALSE, FALSE)
                 /\ \A i \in DOMAIN lines : lines[i].id # e.id
           /\ \A h \in capsules : \/ \E i \in DOMAIN lines : lines[i].id = h
                                  \/ Entry(h, FALSE, FALSE) \in Recovered
<1> DEFINE C == {c \in capsules : \A i \in DOMAIN lines : lines[i].id # c}
           f == [h \in C |-> Entry(h, FALSE, FALSE)]
<1>1. Recovered = {Entry(h, FALSE, FALSE) : h \in C}
  BY DEF Recovered
<1>2. IsFiniteSet(C)
  BY FS_Subset DEF Typed
<1>3. f \in Surjection(C, Recovered)
  BY <1>1 DEF Surjection
<1>4. IsFiniteSet(Recovered)
  BY <1>2, <1>3, FS_Surjection
<1>5. \A h \in Ids : Entry(h, FALSE, FALSE) \in Entries /\ Entry(h, FALSE, FALSE).id = h
  BY DEF Entry, Entries, Answers
<1>6. C \subseteq Ids
  BY DEF Typed
<1> QED BY <1>1, <1>4, <1>5, <1>6

(* The newest lines, newest first, after what is recovered.                *)
LEMMA ListingIs ==
    ASSUME Typed
    PROVE  LET r == Cardinality(Recovered)
               n == Len(lines)
               k == IF n > MaxListLimit THEN MaxListLimit ELSE n
           IN /\ r \in Nat
              /\ DOMAIN Listing = 1..Len(Listing)
              /\ Len(Listing) = IF r + k > MaxListLimit THEN MaxListLimit ELSE r + k
              /\ \A i \in 1..Len(Listing) :
                    IF i <= r THEN Listing[i] \in Recovered
                    ELSE n - (i - r) + 1 \in 1..n /\ Listing[i] = lines[n - (i - r) + 1]
              /\ r <= MaxListLimit =>
                    \A e \in Recovered : \E i \in 1..Len(Listing) : i <= r /\ Listing[i] = e
<1> DEFINE r == Cardinality(Recovered)
           n == Len(lines)
           L == MaxListLimit
           k == IF n > L THEN L ELSE n
           from == IF n > L THEN n - L + 1 ELSE 1
           recent == SubSeq(lines, from, n)
           old == SetToSeq(Recovered)
           all == old \o Reverse(recent)
<1>0. n \in Nat /\ L \in Nat \ {0} /\ \A i \in 1..n : lines[i] \in Entries
  BY LinesAre, HandoffAssumption DEF Typed
<1>1. /\ r \in Nat /\ old \in [1..r -> Recovered]
      /\ \A e \in Recovered : \E i \in 1..r : old[i] = e
  BY RecoveredIs, SetAsSequence
<1>2. Listing = SubSeq(all, 1, IF Len(all) > L THEN L ELSE Len(all))
  BY DEF Listing, List
<1> HIDE DEF r, n, old
<1>3. /\ recent \in Seq(Entries) /\ Len(recent) = k
      /\ \A i \in 1..k : recent[i] = lines[from + i - 1]
  <2>1. \A i \in from..n : lines[i] \in Entries
    BY <1>0
  <2>2. from \in Int /\ n \in Int
    BY <1>0
  <2>3. /\ recent \in Seq(Entries)
        /\ Len(recent) = IF from <= n THEN n - from + 1 ELSE 0
        /\ \A i \in 1..n - from + 1 : recent[i] = lines[from + i - 1]
    BY <2>1, <2>2, SubSeqProperties
  <2> QED BY <2>3, <1>0
<1> HIDE DEF recent
<1>4. /\ Reverse(recent) \in Seq(Entries) /\ Len(Reverse(recent)) = k
      /\ \A i \in 1..k : n - i + 1 \in 1..n /\ Reverse(recent)[i] = lines[n - i + 1]
  <2>1. k \in Nat
    BY <1>0
  <2>2. Reverse(recent) = [i \in 1..k |-> recent[k - i + 1]]
    BY <1>3 DEF Reverse
  <2>3. \A i \in 1..k : /\ k - i + 1 \in 1..k
                        /\ recent[k - i + 1] = lines[n - i + 1] /\ n - i + 1 \in 1..n
    BY <1>0, <1>3
  <2>4. \A i \in 1..k : recent[k - i + 1] \in Entries
    BY <1>0, <2>3
  <2> HIDE DEF k
  <2> QED BY <2>1, <2>2, <2>3, <2>4
<1>5. old \in Seq(Entries) /\ Len(old) = r
  <2>1. old \in [1..r -> Entries]
    BY <1>1, RecoveredIs
  <2> QED BY <2>1, <1>1, IsASeq, LenProperties
<1> HIDE DEF k
<1>6. k \in Nat /\ k <= L
  BY <1>0 DEF k
<1>7. /\ all \in Seq(Entries) /\ Len(all) = r + k
      /\ \A i \in 1..r : all[i] = old[i]
      /\ \A i \in 1..r + k : i > r => all[i] = Reverse(recent)[i - r]
  <2> DEFINE new == Reverse(recent)
  <2> HIDE DEF new
  <2>1. new \in Seq(Entries) /\ Len(new) = k
    BY <1>4 DEF new
  <2>2. /\ old \o new \in Seq(Entries) /\ Len(old \o new) = r + k
        /\ \A i \in 1..r + k : (old \o new)[i] = IF i <= r THEN old[i] ELSE new[i - r]
    BY <2>1, <1>5, ConcatProperties
  <2> QED BY <2>2, <1>1, <1>6 DEF new
<1> HIDE DEF all
<1> DEFINE m == IF r + k > L THEN L ELSE r + k
<1>8. m \in Nat /\ m <= r + k
  BY <1>0, <1>1, <1>6
<1>9. Listing \in Seq(Entries) /\ Len(Listing) = m /\ \A i \in 1..m : Listing[i] = all[i]
  <2>1. Listing = SubSeq(all, 1, m)
    BY <1>2, <1>7
  <2>2. \A i \in 1..m : all[i] \in Entries
    BY <1>7, <1>8
  <2> QED BY <2>1, <2>2, <1>8, SubSeqProperties
<1>10. \A i \in 1..m : IF i <= r THEN Listing[i] \in Recovered
                       ELSE n - (i - r) + 1 \in 1..n /\ Listing[i] = lines[n - (i - r) + 1]
  <2> SUFFICES ASSUME NEW i \in 1..m
               PROVE  IF i <= r THEN Listing[i] \in Recovered
                      ELSE n - (i - r) + 1 \in 1..n /\ Listing[i] = lines[n - (i - r) + 1]
    OBVIOUS
  <2>1. CASE i <= r
    BY <2>1, <1>1, <1>7, <1>8, <1>9
  <2>2. CASE i > r
    <3>1. i - r \in 1..k /\ i \in 1..r + k
      BY <2>2, <1>1, <1>6, <1>8
    <3> QED BY <3>1, <2>2, <1>1, <1>4, <1>7, <1>9
  <2> QED BY <2>1, <2>2, <1>1, <1>8
<1>11. ASSUME r <= L, NEW e \in Recovered
       PROVE  \E i \in 1..m : i <= r /\ Listing[i] = e
  <2>1. PICK i \in 1..r : old[i] = e
    BY <1>1
  <2>2. i \in 1..m
    BY <1>0, <1>1, <1>6, <1>11
  <2> QED BY <2>1, <2>2, <1>7, <1>9
<1>12. DOMAIN Listing = 1..Len(Listing)
  BY <1>9
<1> QED BY <1>1, <1>9, <1>10, <1>11, <1>12 DEF r, n, k

(* What is listed is what is stored.                                       *)
LEMMA ListedIsStored ==
    ASSUME Typed, StoredFirst
    PROVE  \A i \in DOMAIN Listing : Listing[i] \in Entries /\ Stored(Listing[i])
<1> SUFFICES ASSUME NEW i \in DOMAIN Listing
             PROVE  Listing[i] \in Entries /\ Stored(Listing[i])
  OBVIOUS
<1>1. \A e \in Recovered : e \in Entries /\ Stored(e)
  BY RecoveredIs DEF Stored, Entry
<1>2. \A j \in 1..Len(lines) : lines[j] \in Entries /\ Stored(lines[j])
  BY LinesAre DEF Typed, StoredFirst
<1>3. Listing[i] \in Recovered \/ \E j \in 1..Len(lines) : Listing[i] = lines[j]
  BY ListingIs
<1> QED BY <1>1, <1>2, <1>3

LEMMA LatestEntryIsStored ==
    ASSUME Typed, StoredFirst, NEW h \in capsules
    PROVE  LatestEntry(h) \in Entries /\ LatestEntry(h).id = h /\ Stored(LatestEntry(h))
<1> DEFINE of == {i \in DOMAIN Listing : Listing[i].id = h}
<1>1. LatestEntry(h) = IF of = {} THEN Entry(h, FALSE, FALSE) ELSE Listing[Least(of)]
  BY DEF LatestEntry
<1>2. CASE of = {}
  <2>1. Entry(h, FALSE, FALSE) \in Entries
    BY DEF Entry, Entries, Answers, Typed
  <2> QED BY <1>1, <1>2, <2>1 DEF Stored, Entry
<1>3. CASE of # {}
  <2>1. of \in SUBSET Nat
    BY ListingIs
  <2>2. Least(of) \in of
    BY <1>3, <2>1, LeastIs
  <2> QED BY <1>1, <1>3, <2>2, ListedIsStored
<1> QED BY <1>2, <1>3

------------------------------------------------------------------------------
(* What a plan is: of the source that was asked for, in its lineage, and   *)
(* of what the source and the environment are now.                         *)
LEMMA PlanIs ==
    ASSUME Typed, NEW o \in Options, NEW now \in Plans(o)
    PROVE  /\ now \in WantType
           /\ now.id.from = o.from /\ Chained(now.id) /\ now.warnings = warnings
           /\ o.from = Origin => now.id.version = version
<1>1. PICK b \in BOOLEAN : /\ b => Busy(o.from) /\ o.active
                          /\ now = [id |-> PlannedId(o, b), warnings |-> warnings]
  BY Zenon DEF Plans
<1> DEFINE root == SourceLineageRoot(o.from)
           v == IF o.from = Origin THEN version ELSE 0
<1>2. o.from \in {Origin} \cup FirstIds /\ (o.from = Origin => o.active = FALSE)
  BY OptionsAre
<1>3. root \in {NoRoot, LineageRoot(o.from)} /\ (o.from = Origin => root = NoRoot)
  BY <1>2, SourceRoot DEF Typed
<1> HIDE DEF root, v
<1>4. PlannedId(o, b) = [from |-> o.from, version |-> v, root |-> root, partial |-> b]
  BY DEF PlannedId, root, v
<1>5. PlannedId(o, b) \in Ids
  <2>1. CASE o.from = Origin
    <3>1. b = FALSE /\ v \in 0..MaxVersions /\ root = NoRoot
      BY <1>1, <1>2, <1>3, <2>1 DEF v, Typed
    <3>2. PlannedId(o, b) = [from |-> Origin, version |-> v, root |-> NoRoot, partial |-> FALSE]
      BY Zenon, <1>4, <2>1, <3>1
    <3>3. PlannedId(o, b) \in FirstIds
      BY <3>1, <3>2 DEF FirstIds
    <3> QED BY <3>3 DEF Ids
  <2>2. CASE o.from # Origin
    <3>1. o.from \in FirstIds /\ v = 0
      BY <1>2, <2>2 DEF v
    <3>2. root \in FirstIds \cup {NoRoot}
      BY <1>3, <3>1, IdsAre
    <3> QED BY <1>4, <3>1, <3>2 DEF Ids, SecondIds
  <2> QED BY <2>1, <2>2
<1>6. now.id = PlannedId(o, b) /\ now.warnings = warnings
  BY <1>1
<1>7. now \in WantType
  BY <1>1, <1>5 DEF WantType, Typed
<1> QED BY <1>3, <1>4, <1>6, <1>7 DEF Chained, v

(* A process carries out a step of its own, and nothing else is disturbed: *)
(* what is left to show of each action.                                    *)
Undisturbed(p) ==
    /\ \A q \in Procs \ {p} : proc'[q] = proc[q]
    /\ UNCHANGED <<version, warnings>>
    /\ capsules \subseteq capsules'

LEMMA OwnStep ==
    ASSUME HandoffInv, NEW p \in Procs, Undisturbed(p),
           Chained(proc'[p].plan),
           proc'[p].at \notin {"idle", "execute"} => proc'[p].plan.from = proc'[p].opts.from,
           proc'[p].at \in After => proc'[p].plan \in capsules',
           proc'[p].at \in Launching => proc'[p].opts.launch,
           HoldsSession(p, proc[p].plan)' =>
               \/ HoldsSession(p, proc[p].plan) /\ proc'[p].plan = proc[p].plan
               \/ ~ SessionLocked(proc'[p].plan),
           proc'[p].at = "start" /\ proc'[p].steady =>
               /\ proc'[p].plan = proc'[p].want.id
               /\ warnings \subseteq proc'[p].opts.allowed
               /\ proc'[p].opts.from = Origin => proc'[p].plan.version = version
    PROVE  /\ PlansChained' /\ SessionsLocked' /\ SteadyIsCurrent'
           /\ \A q \in Procs : proc'[q].at \in After => proc'[q].plan \in capsules'
<1>1. PlansChained'
  BY DEF PlansChained, Undisturbed, HandoffInv, Chained, LineageRoot
<1>2. SteadyIsCurrent'
  BY DEF SteadyIsCurrent, Undisturbed, HandoffInv
<1>3. \A q \in Procs : proc'[q].at \in After => proc'[q].plan \in capsules'
  BY DEF StoredFirst, Undisturbed, HandoffInv
<1>4. \A q \in Procs : proc'[q].at \in Launching => proc'[q].opts.launch
  BY DEF SessionsLocked, Undisturbed, HandoffInv
<1>5. \A q \in Procs \ {p} : \A h : HoldsSession(q, h)' <=> HoldsSession(q, h)
  BY DEF HoldsSession, Undisturbed, ToClaude
<1>6. ASSUME NEW q \in Procs, NEW r \in Procs, q # r, HoldsSession(q, proc[q].plan)'
      PROVE  ~ HoldsSession(r, proc[q].plan)'
  <2>1. CASE q # p /\ r # p
    BY <1>5, <1>6, <2>1 DEF SessionsLocked, HandoffInv, Undisturbed
  <2>2. CASE q = p
    BY <1>5, <1>6, <2>2 DEF SessionsLocked, HandoffInv, SessionLocked
  <2>3. CASE r = p
    <3> SUFFICES ASSUME HoldsSession(p, proc[q].plan)' PROVE FALSE
      BY <2>3
    <3>1. proc'[p].plan = proc'[q].plan /\ proc'[q].plan = proc[q].plan
      BY <1>6, <2>3 DEF HoldsSession, Undisturbed
    <3>2. HoldsSession(q, proc[q].plan)
      BY <1>5, <1>6, <2>3, <3>1
    <3>3. HoldsSession(p, proc[p].plan)'
      BY <3>1 DEF HoldsSession
    <3> QED BY <1>6, <2>3, <3>1, <3>2, <3>3 DEF SessionsLocked, HandoffInv, SessionLocked
  <2> QED BY <2>1, <2>2, <2>3
<1>7. SessionsLocked'
  BY <1>4, <1>6 DEF SessionsLocked
<1> QED BY <1>1, <1>2, <1>3, <1>7

(* An entry that tells of what is stored goes to the end of the file.      *)
LEMMA AppendStored ==
    ASSUME Typed, StoredFirst, NEW e \in Entries, Stored(e),
           UNCHANGED <<capsules, sessions>>,
           (AppendLineage(e) /\ UNCHANGED faults) \/ AppendFails
    PROVE  \A i \in DOMAIN lines' : Stored(lines[i])'
<1>1. \A i \in DOMAIN lines' : lines'[i] = e \/ (i \in DOMAIN lines /\ lines'[i] = lines[i])
  BY AppendIs
<1> QED BY <1>1 DEF StoredFirst, Stored

------------------------------------------------------------------------------
(* The invariant at the start, and kept by every action.                   *)
LEMMA InitHandoff == Init => HandoffInv
<1> SUFFICES ASSUME Init PROVE HandoffInv
  OBVIOUS
<1>1. Typed
  <2>1. proc \in [Procs -> HandoffType] /\ asker \in [Askers -> AskerType]
    BY IdleTyped DEF Init
  <2>2. lines \in Seq(Entries) /\ IsFiniteSet(capsules)
    BY FS_EmptySet DEF Init
  <2>3. version \in 0..MaxVersions /\ commands \in 0..MaxCommands /\ faults \in 0..MaxFaults
    BY HandoffAssumption DEF Init
  <2>4. /\ torn \in BOOLEAN /\ warnings \in SUBSET Warnings
        /\ sessions \subseteq Ids /\ capsules \subseteq Ids /\ orphans \subseteq Ids
    BY Zenon DEF Init
  <2> QED BY Zenon, <2>1, <2>2, <2>3, <2>4 DEF Typed
<1>2. \A p \in Procs : proc[p] = Idle
  BY DEF Init
<1>3. PlansChained
  BY <1>2, IdleTyped, IdsAre, HandoffAssumption DEF PlansChained, Chained
<1>4. \A q \in Askers : asker[q].at = "idle"
  BY IdleTyped DEF Init
<1>5. StoredFirst
  BY <1>2, <1>4, IdleTyped DEF StoredFirst, After, Init
<1>6. SessionsLocked /\ SteadyIsCurrent
  BY <1>2, IdleTyped DEF SessionsLocked, SteadyIsCurrent, Launching, HoldsSession
<1>7. RootOfChain
  BY DEF RootOfChain, Init
<1> QED BY <1>1, <1>3, <1>5, <1>6, <1>7 DEF HandoffInv

(* A command ends, at whatever place it was.                               *)
LEMMA ReturnStep ==
    ASSUME HandoffInv, NEW p \in Procs, Return(p), UNCHANGED <<version, warnings, capsules>>
    PROVE  /\ proc' \in [Procs -> HandoffType]
           /\ PlansChained' /\ SessionsLocked' /\ SteadyIsCurrent'
           /\ \A q \in Procs : proc'[q].at \in After => proc'[q].plan \in capsules'
<1>1. /\ proc' \in [Procs -> HandoffType]
      /\ \A q \in Procs \ {p} : proc'[q] = proc[q]
      /\ proc'[p].at = "idle" /\ proc'[p].plan = FirstId(0)
  BY ReturnIs DEF HandoffInv, Typed
<1>2. Chained(proc'[p].plan)
  BY <1>1, IdsAre, HandoffAssumption DEF Chained
<1>3. Undisturbed(p)
  BY <1>1 DEF Undisturbed
<1>4. ~ HoldsSession(p, proc[p].plan)'
  BY <1>1 DEF HoldsSession
<1>5. proc'[p].at \notin After \cup Launching \cup {"start"}
  BY <1>1 DEF After, Launching
<1> QED BY <1>1, <1>2, <1>3, <1>4, <1>5, OwnStep

(* A command goes on with the same plan to a place it may be at.           *)
LEMMA GoStep ==
    ASSUME HandoffInv, NEW p \in Procs, NEW place \in Places \ {"idle", "execute", "start"},
           Go(p, place), UNCHANGED <<version, warnings>>, capsules \subseteq capsules',
           proc[p].at \notin {"idle", "execute"},
           place \in After => proc[p].plan \in capsules',
           place \in Launching => proc[p].opts.launch,
           \/ HoldsSession(p, proc[p].plan)
           \/ ~ SessionLocked(proc[p].plan)
           \/ ~ (proc[p].opts.launch /\ ToClaude(proc[p].plan))
    PROVE  /\ proc' \in [Procs -> HandoffType]
           /\ PlansChained' /\ SessionsLocked' /\ SteadyIsCurrent'
           /\ \A q \in Procs : proc'[q].at \in After => proc'[q].plan \in capsules'
<1>1. /\ proc' \in [Procs -> HandoffType]
      /\ \A q \in Procs \ {p} : proc'[q] = proc[q]
      /\ proc'[p].at = place /\ proc'[p].opts = proc[p].opts
      /\ proc'[p].plan = proc[p].plan
  BY GoIs DEF HandoffInv, Typed
<1>2. /\ Chained(proc'[p].plan) /\ proc'[p].plan.from = proc'[p].opts.from
  BY <1>1 DEF HandoffInv, PlansChained
<1>3. Undisturbed(p)
  BY <1>1 DEF Undisturbed
<1>4. HoldsSession(p, proc[p].plan)' =>
          \/ HoldsSession(p, proc[p].plan) \/ ~ SessionLocked(proc'[p].plan)
  BY <1>1 DEF HoldsSession, ToClaude
<1> QED BY <1>1, <1>2, <1>3, <1>4, OwnStep

(* A step that leaves the store and the answers alone.                     *)
Unstored ==
    /\ UNCHANGED <<version, warnings, sessions, capsules, lines, torn, asker>>
    /\ orphans' \subseteq Ids /\ commands' \in 0..MaxCommands /\ faults' \in 0..MaxFaults

LEMMA UnstoredStep ==
    ASSUME HandoffInv, Unstored,
           proc' \in [Procs -> HandoffType],
           PlansChained', SessionsLocked', SteadyIsCurrent',
           \A q \in Procs : proc'[q].at \in After => proc'[q].plan \in capsules'
    PROVE  HandoffInv'
<1>1. Typed'
  BY Zenon DEF HandoffInv, Typed, Unstored
<1>2. StoredFirst'
  BY DEF StoredFirst, Stored, HandoffInv, Unstored
<1>3. RootOfChain'
  BY DEF RootOfChain, LineageRoot, HandoffInv, Unstored
<1> QED BY <1>1, <1>2, <1>3 DEF HandoffInv

LEMMA BeginStep ==
    ASSUME HandoffInv, NEW p \in Procs, NEW o \in Options, Begin(p, o)
    PROVE  HandoffInv'
<1>1. PICK want \in Plans(o) :
        proc' = [proc EXCEPT ![p] = [Idle EXCEPT !.at = "execute", !.opts = o, !.want = want]]
  BY Zenon DEF Begin
<1> DEFINE new == [Idle EXCEPT !.at = "execute", !.opts = o, !.want = want]
<1>2. want \in WantType
  BY PlanIs DEF HandoffInv
<1>3. /\ new \in HandoffType /\ new.at = "execute" /\ new.plan = FirstId(0)
  BY <1>2, IdleTyped DEF HandoffType, Places
<1> HIDE DEF new
<1>4. /\ proc' \in [Procs -> HandoffType] /\ proc'[p] = new
      /\ \A q \in Procs \ {p} : proc'[q] = proc[q]
  BY <1>1, <1>3 DEF HandoffInv, Typed, new
<1>5. commands' \in 0..MaxCommands
  BY HandoffAssumption DEF Begin, HandoffInv, Typed
<1>6. Unstored
  BY <1>5 DEF Begin, Unstored, HandoffInv, Typed
<1>7. Undisturbed(p)
  BY <1>4, <1>6 DEF Undisturbed, Unstored
<1>8. Chained(proc'[p].plan)
  BY <1>3, <1>4, IdsAre, HandoffAssumption DEF Chained
<1>9. /\ proc'[p].at = "execute" /\ ~ HoldsSession(p, proc[p].plan)'
      /\ proc'[p].at \notin After \cup Launching \cup {"start"}
  BY <1>3, <1>4 DEF HoldsSession, After, Launching
<1>10. /\ PlansChained' /\ SessionsLocked' /\ SteadyIsCurrent'
       /\ \A q \in Procs : proc'[q].at \in After => proc'[q].plan \in capsules'
  BY <1>7, <1>8, <1>9, OwnStep
<1> QED BY <1>4, <1>6, <1>10, UnstoredStep

LEMMA ExecutePlanStep ==
    ASSUME HandoffInv, NEW p \in Procs, ExecutePlan(p)
    PROVE  HandoffInv'
<1> DEFINE o == proc[p].opts
<1>0. /\ Unstored
      /\ proc[p].at = "execute" /\ proc \in [Procs -> HandoffType] /\ o \in Options
  BY DEF ExecutePlan, Unstored, HandoffInv, Typed, HandoffType
<1>1. CASE Return(p)
  <2>1. UNCHANGED <<version, warnings, capsules>>
    BY <1>0 DEF Unstored
  <2> QED BY <1>0, <1>1, <2>1, ReturnStep, UnstoredStep
<1>2. ASSUME NEW now \in Plans(o),
             proc' = [proc EXCEPT ![p].plan = now.id,
                          ![p].at = IF o.launch /\ ToClaude(now.id) THEN "lock" ELSE "put"]
      PROVE  HandoffInv'
  <2> DEFINE place == IF o.launch /\ ToClaude(now.id) THEN "lock" ELSE "put"
  <2>1. now \in WantType /\ now.id.from = o.from /\ Chained(now.id)
    BY <1>0, PlanIs DEF HandoffInv
  <2>2. now.id \in Ids /\ place \in Places
    BY <2>1 DEF WantType, Places
  <2>3. /\ place = "lock" => o.launch
        /\ place = "put" => ~ (o.launch /\ ToClaude(now.id))
        /\ place \in {"lock", "put"}
    OBVIOUS
  <2> HIDE DEF place
  <2>4. /\ proc' \in [Procs -> HandoffType]
        /\ \A q \in Procs \ {p} : proc'[q] = proc[q]
        /\ proc'[p].at = place /\ proc'[p].plan = now.id /\ proc'[p].opts = o
    BY <1>0, <1>2, <2>2 DEF HandoffType, place
  <2>5. Undisturbed(p)
    BY <1>0, <2>4 DEF Undisturbed, Unstored
  <2>6. ~ HoldsSession(p, proc[p].plan)'
    BY <2>3, <2>4 DEF HoldsSession, ToClaude
  <2>7. /\ Chained(proc'[p].plan) /\ proc'[p].plan.from = proc'[p].opts.from
        /\ proc'[p].at \notin After \cup {"start"}
        /\ proc'[p].at \in Launching => proc'[p].opts.launch
    BY <2>1, <2>3, <2>4 DEF After, Launching
  <2>8. /\ PlansChained' /\ SessionsLocked' /\ SteadyIsCurrent'
        /\ \A q \in Procs : proc'[q].at \in After => proc'[q].plan \in capsules'
    BY <2>5, <2>6, <2>7, OwnStep
  <2> QED BY <1>0, <2>4, <2>8, UnstoredStep
<1> QED BY Zenon, <1>1, <1>2 DEF ExecutePlan

LEMMA LockSessionStep ==
    ASSUME HandoffInv, NEW p \in Procs, LockSession(p)
    PROVE  HandoffInv'
<1>0. /\ Unstored /\ UNCHANGED <<version, warnings, capsules>>
      /\ proc[p].at = "lock" /\ proc[p].opts.launch
  BY DEF LockSession, Unstored, HandoffInv, Typed, SessionsLocked, Launching
<1>1. CASE Return(p)
  BY <1>0, <1>1, ReturnStep, UnstoredStep
<1>2. CASE Go(p, "check") /\ ~ SessionLocked(proc[p].plan)
  <2>1. "check" \in Places \ {"idle", "execute", "start"} /\ "check" \notin After
    BY DEF Places, After
  <2> QED BY <1>0, <1>2, <2>1, GoStep, UnstoredStep
<1> QED BY <1>1, <1>2 DEF LockSession

LEMMA CheckCollisionStep ==
    ASSUME HandoffInv, NEW p \in Procs, CheckCollision(p)
    PROVE  HandoffInv'
<1>0. /\ Unstored /\ UNCHANGED <<version, warnings, capsules>>
      /\ proc[p].at = "check" /\ proc[p].opts.launch
  BY DEF CheckCollision, Unstored, HandoffInv, Typed, SessionsLocked, Launching
<1>1. CASE Return(p)
  BY <1>0, <1>1, ReturnStep, UnstoredStep
<1>2. CASE Go(p, "put")
  <2>1. "put" \in Places \ {"idle", "execute", "start"} /\ "put" \notin After
    BY DEF Places, After
  <2>2. HoldsSession(p, proc[p].plan) \/ ~ (proc[p].opts.launch /\ ToClaude(proc[p].plan))
    BY <1>0 DEF HoldsSession
  <2> QED BY <1>0, <1>2, <2>1, <2>2, GoStep, UnstoredStep
<1> QED BY <1>1, <1>2 DEF CheckCollision

LEMMA PutStep ==
    ASSUME HandoffInv, NEW p \in Procs, Put(p)
    PROVE  HandoffInv'
<1>0. /\ UNCHANGED <<version, warnings, sessions, lines, torn, asker, orphans, commands, faults>>
      /\ capsules' = capsules \cup {proc[p].plan} /\ Go(p, "append") /\ proc[p].at = "put"
  BY DEF Put
<1>1. proc[p].plan \in Ids
  BY DEF HandoffInv, Typed, HandoffType
<1>2. "append" \in Places \ {"idle", "execute", "start"} /\ "append" \notin Launching
  BY DEF Places, Launching
<1>3. HoldsSession(p, proc[p].plan) \/ ~ (proc[p].opts.launch /\ ToClaude(proc[p].plan))
  BY <1>0 DEF HoldsSession
<1>4. /\ proc' \in [Procs -> HandoffType]
      /\ PlansChained' /\ SessionsLocked' /\ SteadyIsCurrent'
      /\ \A q \in Procs : proc'[q].at \in After => proc'[q].plan \in capsules'
  BY <1>0, <1>2, <1>3, GoStep
<1>5. IsFiniteSet(capsules') /\ capsules' \subseteq Ids
  BY <1>0, <1>1, FS_AddElement DEF HandoffInv, Typed
<1>6. Typed'
  BY Zenon, <1>0, <1>4, <1>5 DEF HandoffInv, Typed
<1>7. StoredFirst'
  BY <1>0, <1>4 DEF HandoffInv, StoredFirst, Stored
<1>8. RootOfChain'
  BY <1>0 DEF HandoffInv, RootOfChain, PlansChained, Chained, LineageRoot
<1> QED BY <1>4, <1>6, <1>7, <1>8 DEF HandoffInv

(* A line is appended, or its write fails, and nothing else is stored.     *)
Appended(e) ==
    /\ (AppendLineage(e) /\ UNCHANGED faults) \/ AppendFails
    /\ UNCHANGED <<version, warnings, sessions, capsules, orphans>>
    /\ commands' \in 0..MaxCommands

LEMMA AppendedStep ==
    ASSUME HandoffInv, NEW e \in Entries, Stored(e), Appended(e),
           asker' \in [Askers -> AskerType],
           \A q \in Askers : asker'[q].at = "append" => asker'[q] = asker[q],
           proc' \in [Procs -> HandoffType],
           PlansChained', SessionsLocked', SteadyIsCurrent',
           \A q \in Procs : proc'[q].at \in After => proc'[q].plan \in capsules'
    PROVE  HandoffInv'
<1>1. /\ lines' \in Seq(Entries) /\ torn' \in BOOLEAN /\ faults' \in 0..MaxFaults
      /\ \A i \in DOMAIN lines' : Stored(lines[i])'
  BY AppendIs, AppendStored DEF HandoffInv, Appended
<1>2. Typed'
  BY Zenon, <1>1 DEF HandoffInv, Typed, Appended
<1>3. StoredFirst'
  BY <1>1 DEF HandoffInv, StoredFirst, Stored, Appended
<1>4. RootOfChain'
  BY DEF HandoffInv, RootOfChain, LineageRoot, Appended
<1> QED BY <1>2, <1>3, <1>4 DEF HandoffInv

LEMMA AppendFirstStep ==
    ASSUME HandoffInv, NEW p \in Procs, AppendFirst(p)
    PROVE  HandoffInv'
<1> DEFINE e == Entry(proc[p].plan, FALSE, FALSE)
<1>0. /\ UNCHANGED <<version, warnings, sessions, capsules, asker, orphans, commands>>
      /\ proc[p].at = "append" /\ proc[p].plan \in capsules /\ proc[p].plan \in Ids
  BY DEF AppendFirst, HandoffInv, StoredFirst, After, Typed, HandoffType
<1>1. /\ e \in Entries /\ Stored(e)
  BY <1>0 DEF Entry, Entries, Answers, Stored
<1>2. Appended(e)
  BY <1>0 DEF AppendFirst, Appended, HandoffInv, Typed
<1>3. /\ asker' \in [Askers -> AskerType] /\ asker' = asker
  BY <1>0 DEF HandoffInv, Typed
<1>4. CASE Return(p)
  BY <1>0, <1>1, <1>2, <1>3, <1>4, ReturnStep, AppendedStep
<1>5. CASE Go(p, "boundary") /\ proc[p].opts.launch
  <2>1. "boundary" \in Places \ {"idle", "execute", "start"}
    BY DEF Places
  <2>2. HoldsSession(p, proc[p].plan) \/ ~ (proc[p].opts.launch /\ ToClaude(proc[p].plan))
    BY <1>0 DEF HoldsSession
  <2>3. /\ proc' \in [Procs -> HandoffType]
        /\ PlansChained' /\ SessionsLocked' /\ SteadyIsCurrent'
        /\ \A q \in Procs : proc'[q].at \in After => proc'[q].plan \in capsules'
    BY <1>0, <1>5, <2>1, <2>2, GoStep
  <2> QED BY <1>1, <1>2, <1>3, <2>3, AppendedStep
<1> QED BY <1>4, <1>5 DEF AppendFirst

LEMMA BoundaryStep ==
    ASSUME HandoffInv, NEW p \in Procs, Boundary(p)
    PROVE  HandoffInv'
<1> DEFINE o == proc[p].opts
<1>0. /\ Unstored /\ UNCHANGED <<version, warnings, capsules>>
      /\ proc[p].at = "boundary" /\ proc \in [Procs -> HandoffType]
      /\ o \in Options /\ o.launch /\ proc[p].plan \in capsules
  BY DEF Boundary, Unstored, HandoffInv, Typed, HandoffType, SessionsLocked, Launching,
         StoredFirst, After
<1>1. CASE Return(p)
  BY <1>0, <1>1, ReturnStep, UnstoredStep
<1>2. ASSUME NEW now \in Plans(o), now = proc[p].want, proc[p].plan = now.id,
             Authorized(o, now),
             proc' = [proc EXCEPT ![p].at = "start", ![p].steady = TRUE]
      PROVE  HandoffInv'
  <2>1. /\ proc' \in [Procs -> HandoffType]
        /\ \A q \in Procs \ {p} : proc'[q] = proc[q]
        /\ proc'[p].at = "start" /\ proc'[p].plan = proc[p].plan
        /\ proc'[p].opts = o /\ proc'[p].want = proc[p].want
    BY <1>0, <1>2 DEF HandoffType, Places
  <2>2. Undisturbed(p)
    BY <1>0, <2>1 DEF Undisturbed
  <2>3. /\ now.warnings = warnings /\ (o.from = Origin => now.id.version = version)
    BY <1>0, PlanIs DEF HandoffInv
  <2>4. /\ proc'[p].plan = proc'[p].want.id
        /\ warnings \subseteq proc'[p].opts.allowed
        /\ proc'[p].opts.from = Origin => proc'[p].plan.version = version
    BY <1>2, <2>1, <2>3 DEF Authorized
  <2>5. Chained(proc'[p].plan) /\ proc'[p].plan.from = proc'[p].opts.from
    BY <1>0, <2>1 DEF HandoffInv, PlansChained
  <2>6. HoldsSession(p, proc[p].plan)' => HoldsSession(p, proc[p].plan)
    BY <1>0, <2>1 DEF HoldsSession, ToClaude
  <2>7. /\ PlansChained' /\ SessionsLocked' /\ SteadyIsCurrent'
        /\ \A q \in Procs : proc'[q].at \in After => proc'[q].plan \in capsules'
    BY <1>0, <2>1, <2>2, <2>4, <2>5, <2>6, OwnStep
  <2> QED BY <1>0, <2>1, <2>7, UnstoredStep
<1> QED BY Zenon, <1>1, <1>2 DEF Boundary

LEMMA StartStep ==
    ASSUME HandoffInv, NEW p \in Procs, Start(p)
    PROVE  HandoffInv'
<1>0. /\ Unstored /\ UNCHANGED <<version, warnings, capsules>>
      /\ proc[p].at = "start" /\ proc \in [Procs -> HandoffType]
      /\ proc[p].opts.launch /\ proc[p].plan \in capsules
      /\ proc[p].opts \in Options /\ proc[p].plan \in Ids
      /\ proc[p].plan.from = proc[p].opts.from /\ Chained(proc[p].plan)
  BY DEF Start, Unstored, HandoffInv, Typed, HandoffType, SessionsLocked, Launching,
         StoredFirst, After, PlansChained
<1>1. CASE Return(p)
  BY <1>0, <1>1, ReturnStep, UnstoredStep
<1> DEFINE asked == [NoOptions EXCEPT !.from = proc[p].opts.from, !.launch = TRUE]
           child == [Idle EXCEPT !.at = "child", !.plan = proc[p].plan, !.opts = asked]
<1>2. CASE proc' = [proc EXCEPT ![p] = child]
  <2>1. asked \in Options /\ asked.launch /\ asked.from = proc[p].opts.from
    <3>1. proc[p].opts.from \in {Origin} \cup FirstIds
      BY <1>0, OptionsAre
    <3>2. /\ NoOptions \in [from : {Origin} \cup FirstIds, launch : BOOLEAN,
                           allowed : SUBSET Warnings, active : BOOLEAN]
          /\ NoOptions.active = FALSE
      BY DEF NoOptions
    <3>3. asked \in [from : {Origin} \cup FirstIds, launch : BOOLEAN,
                    allowed : SUBSET Warnings, active : BOOLEAN]
      BY <3>1, <3>2
    <3>4. /\ asked.active = FALSE /\ asked.launch = TRUE
          /\ asked.from = proc[p].opts.from
      BY <3>2
    <3> HIDE DEF asked
    <3> QED BY <3>3, <3>4 DEF Options
  <2> HIDE DEF asked
  <2>2. /\ child \in HandoffType /\ child.at = "child"
        /\ child.plan = proc[p].plan /\ child.opts = asked
    BY <1>0, <2>1, IdleTyped DEF HandoffType, Places
  <2> HIDE DEF child
  <2>3. /\ proc' \in [Procs -> HandoffType] /\ proc'[p] = child
        /\ \A q \in Procs \ {p} : proc'[q] = proc[q]
    BY <1>0, <1>2, <2>2
  <2>4. Undisturbed(p)
    BY <1>0, <2>3 DEF Undisturbed
  <2>5. HoldsSession(p, proc[p].plan)' => HoldsSession(p, proc[p].plan)
    BY <1>0, <2>2, <2>3 DEF HoldsSession, ToClaude
  <2>6. /\ Chained(proc'[p].plan) /\ proc'[p].plan.from = proc'[p].opts.from
        /\ proc'[p].plan = proc[p].plan /\ proc'[p].plan \in capsules'
        /\ proc'[p].opts.launch /\ proc'[p].at # "start"
    BY <1>0, <2>1, <2>2, <2>3
  <2>7. /\ PlansChained' /\ SessionsLocked' /\ SteadyIsCurrent'
        /\ \A q \in Procs : proc'[q].at \in After => proc'[q].plan \in capsules'
    BY <2>4, <2>5, <2>6, OwnStep
  <2> QED BY <1>0, <2>3, <2>7, UnstoredStep
<1>3. NoOptions = Idle.opts
  BY IdleTyped
<1> QED BY <1>1, <1>2, <1>3 DEF Start

LEMMA ChildExitsStep ==
    ASSUME HandoffInv, NEW p \in Procs, ChildExits(p)
    PROVE  HandoffInv'
<1>0. /\ Unstored /\ UNCHANGED <<version, warnings, capsules>>
      /\ proc[p].at = "child" /\ Go(p, "verify")
      /\ proc[p].opts.launch /\ proc[p].plan \in capsules
  BY DEF ChildExits, Unstored, HandoffInv, Typed, SessionsLocked, Launching, StoredFirst, After
<1>1. "verify" \in Places \ {"idle", "execute", "start"}
  BY DEF Places
<1>2. HoldsSession(p, proc[p].plan) \/ ~ (proc[p].opts.launch /\ ToClaude(proc[p].plan))
  BY <1>0 DEF HoldsSession
<1> QED BY <1>0, <1>1, <1>2, GoStep, UnstoredStep

(* What Verify finds is what is there, or nothing.                         *)
LEMMA OutcomeIs ==
    ASSUME NEW h, NEW resolved \in {FALSE, (h \in sessions)}
    PROVE  resolved \in BOOLEAN /\ (resolved => h \in sessions)
<1>1. CASE resolved = FALSE
  BY Zenon, <1>1
<1>2. CASE h \in sessions /\ resolved = (h \in sessions)
  <2>1. (h \in sessions) = TRUE
    BY <1>2
  <2>2. resolved = TRUE
    BY Zenon, <1>2, <2>1
  <2> QED BY Zenon, <1>2, <2>2
<1>3. CASE h \notin sessions /\ resolved = (h \in sessions)
  <2>1. (h \in sessions) = FALSE
    BY <1>3
  <2> QED BY Zenon, <1>1, <1>3, <2>1
<1> QED BY Zenon, <1>1, <1>2, <1>3

LEMMA VerifyStep ==
    ASSUME HandoffInv, NEW p \in Procs, Verify(p)
    PROVE  HandoffInv'
<1>0. /\ UNCHANGED <<version, warnings, sessions, capsules, asker, orphans, commands>>
      /\ proc[p].at = "verify" /\ proc[p].plan \in capsules /\ proc[p].plan \in Ids
      /\ Return(p)
  BY DEF Verify, HandoffInv, StoredFirst, After, Typed, HandoffType
<1>1. PICK resolved \in {FALSE, proc[p].plan \in sessions} :
        \/ AppendLineage(Entry(proc[p].plan, TRUE, resolved)) /\ UNCHANGED faults
        \/ AppendFails
  BY Zenon DEF Verify
<1> DEFINE e == Entry(proc[p].plan, TRUE, resolved)
<1>2. resolved \in BOOLEAN /\ (resolved => proc[p].plan \in sessions)
  BY OutcomeIs
<1>3. e \in Entries /\ Stored(e)
  BY <1>0, <1>2 DEF Entry, Entries, Answers, Stored
<1>4. Appended(e)
  BY <1>0, <1>1 DEF Appended, HandoffInv, Typed
<1>5. /\ asker' \in [Askers -> AskerType] /\ asker' = asker
  BY <1>0 DEF HandoffInv, Typed
<1> QED BY <1>0, <1>3, <1>4, <1>5, ReturnStep, AppendedStep

LEMMA CrashStep ==
    ASSUME HandoffInv, NEW p \in Procs, Crash(p)
    PROVE  HandoffInv'
<1>1. proc[p].plan \in Ids
  BY DEF HandoffInv, Typed, HandoffType
<1>2. orphans' \subseteq Ids /\ faults' \in 0..MaxFaults
  BY <1>1, HandoffAssumption DEF Crash, HandoffInv, Typed
<1>3. Unstored /\ UNCHANGED <<version, warnings, capsules>> /\ Return(p)
  BY <1>2 DEF Crash, Unstored, HandoffInv, Typed
<1> QED BY <1>3, ReturnStep, UnstoredStep

LEMMA SessionsStep ==
    ASSUME HandoffInv,
           \/ \E h \in {proc[p].plan : p \in Procs} \cup orphans : ChildWrites(h)
           \/ \E h \in orphans : OrphanExits(h)
    PROVE  HandoffInv'
<1>1. /\ sessions \subseteq sessions' /\ sessions' \subseteq Ids /\ orphans' \subseteq Ids
      /\ UNCHANGED <<version, warnings, capsules, lines, torn, proc, asker, commands, faults>>
  BY DEF ChildWrites, OrphanExits, HandoffInv, Typed, HandoffType
<1>2. Typed'
  BY Zenon, <1>1 DEF HandoffInv, Typed
<1>3. StoredFirst'
  BY <1>1 DEF HandoffInv, StoredFirst, Stored
<1>4. /\ PlansChained' /\ RootOfChain' /\ SteadyIsCurrent'
  BY <1>1 DEF HandoffInv, PlansChained, Chained, RootOfChain, LineageRoot, SteadyIsCurrent
<1>5. SessionsLocked'
  BY <1>1 DEF HandoffInv, SessionsLocked, HoldsSession, ToClaude
<1> QED BY <1>2, <1>3, <1>4, <1>5 DEF HandoffInv

LEMMA ReadAnswerStep ==
    ASSUME HandoffInv, NEW q \in Askers, NEW h \in capsules, NEW answer \in {"yes", "no"},
           ReadAnswer(q, h, answer)
    PROVE  HandoffInv'
<1> DEFINE e == [LatestEntry(h) EXCEPT !.ack = answer]
<1>0. /\ UNCHANGED <<version, warnings, sessions, capsules, lines, torn, proc, orphans, faults>>
      /\ asker' = [asker EXCEPT ![q] = [at |-> "append", entry |-> e]]
      /\ asker \in [Askers -> AskerType]
  BY DEF ReadAnswer, HandoffInv, Typed
<1>1. LatestEntry(h) \in Entries /\ Stored(LatestEntry(h))
  BY LatestEntryIsStored DEF HandoffInv
<1>2. e \in Entries /\ Stored(e)
  BY <1>1 DEF Entries, Answers, Stored
<1> HIDE DEF e
<1>3. /\ asker' \in [Askers -> AskerType] /\ asker'[q].entry = e
      /\ \A r \in Askers \ {q} : asker'[r] = asker[r]
  BY <1>0, <1>2 DEF AskerType
<1>4. commands' \in 0..MaxCommands
  BY HandoffAssumption DEF ReadAnswer, HandoffInv, Typed
<1>5. Typed'
  BY Zenon, <1>0, <1>3, <1>4 DEF HandoffInv, Typed
<1>6. StoredFirst'
  BY <1>0, <1>2, <1>3 DEF HandoffInv, StoredFirst, Stored
<1>7. PlansChained' /\ RootOfChain' /\ SteadyIsCurrent'
  BY <1>0 DEF HandoffInv, PlansChained, Chained, RootOfChain, LineageRoot, SteadyIsCurrent
<1>8. SessionsLocked'
  BY <1>0 DEF HandoffInv, SessionsLocked, HoldsSession, ToClaude
<1> QED BY <1>5, <1>6, <1>7, <1>8 DEF HandoffInv

LEMMA RecordAnswerStep ==
    ASSUME HandoffInv, NEW q \in Askers, RecordAnswer(q)
    PROVE  HandoffInv'
<1>0. /\ UNCHANGED <<version, warnings, sessions, capsules, proc, orphans, commands>>
      /\ asker' = [asker EXCEPT ![q] = Quiet] /\ asker \in [Askers -> AskerType]
  BY DEF RecordAnswer, HandoffInv, Typed
<1>1. asker[q].entry \in Entries /\ Stored(asker[q].entry)
  BY <1>0 DEF RecordAnswer, HandoffInv, StoredFirst, AskerType
<1>2. Appended(asker[q].entry)
  BY <1>0 DEF RecordAnswer, Appended, HandoffInv, Typed
<1>3. /\ asker' \in [Askers -> AskerType]
      /\ \A r \in Askers : asker'[r].at = "append" => asker'[r] = asker[r]
  BY <1>0, IdleTyped
<1>4. /\ proc' \in [Procs -> HandoffType] /\ PlansChained' /\ SteadyIsCurrent'
      /\ \A p \in Procs : proc'[p].at \in After => proc'[p].plan \in capsules'
  BY <1>0 DEF HandoffInv, Typed, PlansChained, Chained, LineageRoot, SteadyIsCurrent, StoredFirst
<1>5. SessionsLocked'
  BY <1>0 DEF HandoffInv, SessionsLocked, HoldsSession, ToClaude
<1> QED BY <1>1, <1>2, <1>3, <1>4, <1>5, AppendedStep

(* What changes outside leaves no launch steady.                           *)
LEMMA EnvironmentStep ==
    ASSUME HandoffInv, SourceAdvances \/ EnvironmentChanges
    PROVE  HandoffInv'
<1>1. /\ version' \in 0..MaxVersions /\ warnings' \in SUBSET Warnings
      /\ UNCHANGED <<sessions, capsules, lines, torn, asker, orphans, commands, faults>>
      /\ Unsteady
  <2>1. CASE SourceAdvances
    BY <2>1, HandoffAssumption DEF SourceAdvances, HandoffInv, Typed
  <2>2. CASE EnvironmentChanges
    BY <2>2 DEF EnvironmentChanges, HandoffInv, Typed
  <2> QED BY <2>1, <2>2
<1>2. /\ proc' \in [Procs -> HandoffType]
      /\ \A p \in Procs : /\ proc'[p].at = proc[p].at /\ proc'[p].opts = proc[p].opts
                          /\ proc'[p].plan = proc[p].plan /\ proc'[p].steady = FALSE
  BY <1>1 DEF Unsteady, HandoffInv, Typed, HandoffType
<1>3. Typed'
  BY Zenon, <1>1, <1>2 DEF HandoffInv, Typed
<1>4. StoredFirst'
  BY <1>1, <1>2 DEF HandoffInv, StoredFirst, Stored
<1>5. PlansChained' /\ RootOfChain' /\ SteadyIsCurrent'
  BY <1>1, <1>2 DEF HandoffInv, PlansChained, Chained, RootOfChain, LineageRoot, SteadyIsCurrent
<1>6. SessionsLocked'
  BY <1>2 DEF HandoffInv, SessionsLocked, HoldsSession, ToClaude
<1> QED BY <1>3, <1>4, <1>5, <1>6 DEF HandoffInv

LEMMA StutterStep ==
    ASSUME HandoffInv, UNCHANGED vars
    PROVE  HandoffInv'
<1>1. /\ proc' \in [Procs -> HandoffType] /\ PlansChained' /\ SteadyIsCurrent'
      /\ \A p \in Procs : proc'[p].at \in After => proc'[p].plan \in capsules'
  BY DEF vars, HandoffInv, Typed, PlansChained, Chained, LineageRoot, SteadyIsCurrent, StoredFirst
<1>2. SessionsLocked'
  BY DEF vars, HandoffInv, SessionsLocked, HoldsSession, ToClaude
<1>3. Unstored
  BY DEF vars, HandoffInv, Typed, Unstored
<1> QED BY <1>1, <1>2, <1>3, UnstoredStep

LEMMA NextHandoff == HandoffInv /\ [Next]_vars => HandoffInv'
<1> SUFFICES ASSUME HandoffInv, [Next]_vars PROVE HandoffInv'
  OBVIOUS
<1>1. ASSUME NEW p \in Procs, NEW o \in Options, Begin(p, o) PROVE HandoffInv'
  BY <1>1, BeginStep
<1>2. ASSUME NEW p \in Procs,
             \/ ExecutePlan(p) \/ LockSession(p) \/ CheckCollision(p) \/ Put(p)
             \/ AppendFirst(p) \/ Boundary(p) \/ Start(p) \/ ChildExits(p)
             \/ Verify(p) \/ Crash(p)
      PROVE  HandoffInv'
  BY <1>2, ExecutePlanStep, LockSessionStep, CheckCollisionStep, PutStep, AppendFirstStep,
     BoundaryStep, StartStep, ChildExitsStep, VerifyStep, CrashStep
<1>3. CASE \/ \E h \in {proc[p].plan : p \in Procs} \cup orphans : ChildWrites(h)
           \/ \E h \in orphans : OrphanExits(h)
  BY <1>3, SessionsStep
<1>4. ASSUME NEW q \in Askers, NEW h \in capsules, NEW a \in {"yes", "no"}, ReadAnswer(q, h, a)
      PROVE  HandoffInv'
  BY <1>4, ReadAnswerStep
<1>5. ASSUME NEW q \in Askers, RecordAnswer(q) PROVE HandoffInv'
  BY <1>5, RecordAnswerStep
<1>6. CASE SourceAdvances \/ EnvironmentChanges
  BY <1>6, EnvironmentStep
<1>7. CASE UNCHANGED vars
  BY <1>7, StutterStep
<1> QED BY Zenon, <1>1, <1>2, <1>3, <1>4, <1>5, <1>6, <1>7 DEF Next

LEMMA HandoffIsInvariant == Spec => []HandoffInv
<1> QED BY InitHandoff, NextHandoff, PTL DEF Spec

------------------------------------------------------------------------------
(* The results.                                                            *)

(* What is stored is well formed, no outcome claims a session that is not  *)
(* there, every handoff of a chain names the chain's first session, and no *)
(* two Claude children run on one session id.                              *)
THEOREM LineageStaysConsistent == Spec => []LineageConsistent
<1>1. HandoffInv => LineageConsistent
  <2> SUFFICES ASSUME HandoffInv PROVE LineageConsistent
    OBVIOUS
  <2>1. TypeOK
    BY DEF HandoffInv, Typed, TypeOK, PlansChained, HandoffType, WantType, AskerType
  <2>2. ResolvedExists
    BY DEF HandoffInv, StoredFirst, Stored, ResolvedExists
  <2>3. RootOfChain
    BY DEF HandoffInv
  <2>4. \A p \in Procs : proc[p].at = "child" /\ ToClaude(proc[p].plan) =>
                            HoldsSession(p, proc[p].plan)
    BY DEF HandoffInv, SessionsLocked, Launching, HoldsSession
  <2>5. OneChildPerSession
    BY <2>4 DEF HandoffInv, SessionsLocked, OneChildPerSession
  <2> QED BY <2>1, <2>2, <2>3, <2>5 DEF LineageConsistent
<1> QED BY <1>1, HandoffIsInvariant, PTL

(* A child is started on what the user was shown, with every warning       *)
(* acknowledged, unless something changed after the last guard looked.     *)
THEOREM LaunchesAsShown == Spec => LaunchIsAsShown
<1>1. HandoffInv => [\A p \in Procs :
        proc[p].at = "start" /\ proc'[p].at = "child" /\ proc[p].steady =>
            /\ proc[p].plan = proc[p].want.id
            /\ warnings \subseteq proc[p].opts.allowed
            /\ proc[p].opts.from = Origin => proc[p].plan.version = version]_vars
  BY DEF HandoffInv, SteadyIsCurrent
<1> QED BY <1>1, HandoffIsInvariant, PTL DEF LaunchIsAsShown

(* The listing looks back far enough: the file and the capsules that have  *)
(* no line are together no more than it shows.                             *)
WithinLimit == Len(lines) + Cardinality(Recovered) <= MaxListLimit

LEMMA ListingWithin ==
    ASSUME Typed, WithinLimit
    PROVE  LET r == Cardinality(Recovered)
               n == Len(lines)
           IN /\ r \in Nat /\ n \in Nat /\ DOMAIN lines = 1..n
              /\ DOMAIN Listing = 1..r + n
              /\ \A i \in 1..r + n : IF i <= r THEN Listing[i] \in Recovered
                                      ELSE Listing[i] = lines[n - (i - r) + 1]
              /\ \A e \in Recovered : \E i \in 1..r + n : Listing[i] = e
<1> DEFINE r == Cardinality(Recovered)
           n == Len(lines)
           k == IF n > MaxListLimit THEN MaxListLimit ELSE n
<1>1. /\ r \in Nat /\ DOMAIN Listing = 1..Len(Listing)
      /\ Len(Listing) = IF r + k > MaxListLimit THEN MaxListLimit ELSE r + k
      /\ \A i \in 1..Len(Listing) :
            IF i <= r THEN Listing[i] \in Recovered
            ELSE n - (i - r) + 1 \in 1..n /\ Listing[i] = lines[n - (i - r) + 1]
      /\ r <= MaxListLimit =>
            \A e \in Recovered : \E i \in 1..Len(Listing) : i <= r /\ Listing[i] = e
  BY Zenon, ListingIs
<1>2. n \in Nat /\ DOMAIN lines = 1..n /\ MaxListLimit \in Nat /\ n + r <= MaxListLimit
  BY LinesAre, HandoffAssumption DEF Typed, WithinLimit
<1> HIDE DEF r, n
<1>3. k = n /\ Len(Listing) = r + n /\ r <= MaxListLimit
  BY <1>1, <1>2
<1> QED BY <1>1, <1>2, <1>3 DEF r, n

LEMMA ListedExactly == Typed /\ StoredFirst /\ WithinLimit => ListIsTheStore
<1> SUFFICES ASSUME Typed, StoredFirst, WithinLimit PROVE ListIsTheStore
  OBVIOUS
<1> DEFINE r == Cardinality(Recovered)
           n == Len(lines)
<1>1. /\ n \in Nat /\ r \in Nat /\ DOMAIN lines = 1..n
  BY ListingWithin
<1>2. /\ DOMAIN Listing = 1..r + n
      /\ \A i \in 1..r + n : i > r => Listing[i] = lines[n - (i - r) + 1]
      /\ \A e \in Recovered : \E i \in 1..r + n : Listing[i] = e
  BY ListingWithin
<1> HIDE DEF r, n
<1>3. \A i \in DOMAIN Listing : Listing[i].id \in capsules
  BY ListedIsStored DEF Stored
<1>4. \A j \in DOMAIN lines : \E i \in DOMAIN Listing : Listing[i] = lines[j]
  <2> SUFFICES ASSUME NEW j \in DOMAIN lines PROVE \E i \in DOMAIN Listing : Listing[i] = lines[j]
    OBVIOUS
  <2>1. j \in 1..n
    BY <1>1
  <2>2. /\ r + n - j + 1 \in 1..r + n /\ r + n - j + 1 > r
        /\ n - ((r + n - j + 1) - r) + 1 = j
    BY <1>1, <2>1
  <2> QED BY <1>2, <2>2
<1>5. \A h \in capsules : \E i \in DOMAIN Listing : Listing[i].id = h
  <2> SUFFICES ASSUME NEW h \in capsules PROVE \E i \in DOMAIN Listing : Listing[i].id = h
    OBVIOUS
  <2>1. CASE \E j \in DOMAIN lines : lines[j].id = h
    BY <1>4, <2>1
  <2>2. CASE Entry(h, FALSE, FALSE) \in Recovered
    BY <1>2, <2>2 DEF Entry
  <2> QED BY <2>1, <2>2, RecoveredIs
<1> QED BY <1>3, <1>5 DEF ListIsTheStore

(* rein handoff list shows what is stored and nothing else, wherever a     *)
(* command died and whatever became of the end of the lineage file, as     *)
(* long as it looks back far enough.                                       *)
THEOREM ListIsComplete == Spec /\ []WithinLimit => []ListIsTheStore
<1>1. HandoffInv /\ WithinLimit => ListIsTheStore
  BY ListedExactly DEF HandoffInv
<1> QED BY <1>1, HandoffIsInvariant, PTL

(* The answer to a handoff: that of the last line that has one.            *)
LastOf(S) == CHOOSE i \in S : \A j \in S : j <= i

Told(h) == {j \in DOMAIN lines : lines[j].id = h /\ lines[j].ack # "none"}

Answer(h) == IF Told(h) = {} THEN "none" ELSE lines[LastOf(Told(h))].ack

LEMMA LastIs ==
    ASSUME NEW n \in Nat, NEW S \in SUBSET (1..n), S # {}
    PROVE  LastOf(S) \in S /\ \A j \in S : j <= LastOf(S)
  BY HasGreatest DEF LastOf

AnswersAreThose == \A h : GetAcknowledgement(h) = Answer(h)

LEMMA AnswerIs == Typed /\ WithinLimit => AnswersAreThose
<1> SUFFICES ASSUME Typed, WithinLimit, NEW h PROVE GetAcknowledgement(h) = Answer(h)
  BY DEF AnswersAreThose
<1> DEFINE r == Cardinality(Recovered)
           n == Len(lines)
           at(j) == r + n - j + 1
           told == {i \in DOMAIN Listing : Listing[i].id = h /\ Listing[i].ack # "none"}
<1>0. GetAcknowledgement(h) = IF told = {} THEN "none" ELSE Listing[Least(told)].ack
  BY DEF GetAcknowledgement
<1>1. n \in Nat /\ r \in Nat
  BY ListingWithin
<1>2. /\ DOMAIN Listing = 1..r + n
      /\ \A i \in 1..r + n : IF i <= r THEN Listing[i] \in Recovered
                              ELSE Listing[i] = lines[n - (i - r) + 1]
  BY ListingWithin
<1>3. \A e \in Recovered : e.ack = "none"
  BY RecoveredIs DEF Entry
<1>4. DOMAIN lines = 1..n
  BY ListingWithin
<1> HIDE DEF r, n
<1>5. \A j \in Told(h) : at(j) \in told /\ j \in 1..n /\ Listing[at(j)] = lines[j]
  <2> SUFFICES ASSUME NEW j \in Told(h)
               PROVE  at(j) \in told /\ j \in 1..n /\ Listing[at(j)] = lines[j]
    OBVIOUS
  <2>1. j \in 1..n /\ lines[j].id = h /\ lines[j].ack # "none"
    BY <1>4 DEF Told
  <2>2. at(j) \in 1..r + n /\ at(j) > r /\ n - (at(j) - r) + 1 = j
    BY <1>1, <2>1
  <2> QED BY <1>1, <1>2, <2>1, <2>2
<1>6. \A i \in told : /\ n - (i - r) + 1 \in Told(h) /\ i \in 1..r + n
                      /\ Listing[i] = lines[n - (i - r) + 1]
  <2> SUFFICES ASSUME NEW i \in told
               PROVE  /\ n - (i - r) + 1 \in Told(h) /\ i \in 1..r + n
                      /\ Listing[i] = lines[n - (i - r) + 1]
    OBVIOUS
  <2>1. i \in 1..r + n /\ Listing[i].id = h /\ Listing[i].ack # "none"
    BY <1>2
  <2>2. i > r
    BY <1>1, <1>2, <1>3, <2>1
  <2>3. n - (i - r) + 1 \in 1..n /\ Listing[i] = lines[n - (i - r) + 1]
    BY <1>1, <1>2, <2>1, <2>2
  <2> QED BY <1>4, <2>1, <2>3 DEF Told
<1>7. CASE told = {}
  BY <1>0, <1>5, <1>7 DEF Answer
<1>8. CASE told # {}
  <2> DEFINE i == Least(told)
             j == n - (i - r) + 1
  <2>1. told \in SUBSET Nat
    BY <1>1, <1>6
  <2>2. i \in told /\ \A k \in told : i <= k
    BY <1>8, <2>1, LeastIs
  <2> HIDE DEF i
  <2>3. j \in Told(h) /\ i \in 1..r + n /\ Listing[i] = lines[j]
    BY <1>6, <2>2
  <2>4. \A k \in Told(h) : k <= j
    BY <1>1, <1>5, <2>2, <2>3
  <2>5. Told(h) \in SUBSET (1..n)
    BY <1>5
  <2>6. LastOf(Told(h)) = j
    <3>1. LastOf(Told(h)) \in Told(h) /\ \A k \in Told(h) : k <= LastOf(Told(h))
      BY <1>1, <2>3, <2>5, LastIs
    <3>2. LastOf(Told(h)) \in 1..n /\ j \in 1..n
      BY <2>3, <2>5, <3>1
    <3> HIDE DEF j
    <3> QED BY <1>1, <2>3, <2>4, <3>1, <3>2
  <2> QED BY <1>0, <1>8, <2>3, <2>6 DEF Answer, i
<1> QED BY <1>7, <1>8

(* A line at the end of the file.                                          *)
LEMMA AppendedAre ==
    ASSUME lines \in Seq(Entries), NEW e \in Entries, lines' = Append(lines, e)
    PROVE  /\ DOMAIN lines' = 1..Len(lines) + 1 /\ lines'[Len(lines) + 1] = e
           /\ \A j \in 1..Len(lines) : lines'[j] = lines[j]
<1>1. /\ lines' \in Seq(Entries) /\ Len(lines') = Len(lines) + 1
      /\ \A i \in 1..Len(lines) : lines'[i] = lines[i]
      /\ lines'[Len(lines) + 1] = e
  BY AppendProperties
<1>2. DOMAIN lines' = 1..Len(lines')
  BY <1>1
<1> QED BY <1>1, <1>2

(* The answer changes only with the line that records another.             *)
LEMMA AnswerKept ==
    ASSUME Typed, NEW h,
           \/ lines' = lines
           \/ \E e \in Entries : /\ lines' = Append(lines, e)
                                 /\ e.ack = "none" \/ e.id # h
    PROVE  Answer(h)' = Answer(h)
<1>1. CASE lines' = lines
  BY <1>1 DEF Answer, Told
<1>2. ASSUME NEW e \in Entries, lines' = Append(lines, e), e.ack = "none" \/ e.id # h
      PROVE  Answer(h)' = Answer(h)
  <2> DEFINE n == Len(lines)
  <2>1. /\ n \in Nat /\ DOMAIN lines = 1..n /\ DOMAIN lines' = 1..n + 1
        /\ lines'[n + 1] = e /\ \A j \in 1..n : lines'[j] = lines[j]
    BY <1>2, LinesAre, AppendedAre DEF Typed
  <2> HIDE DEF n
  <2>2. \A j \in 1..n + 1 : j \in 1..n \/ j = n + 1
    BY <2>1
  <2>3. \A j \in 1..n : j \in 1..n + 1
    BY <2>1
  <2>4. Told(h)' = Told(h)
    BY <1>2, <2>1, <2>2, <2>3 DEF Told
  <2>5. CASE Told(h) = {}
    BY <2>4, <2>5 DEF Answer
  <2>6. CASE Told(h) # {}
    <3>1. Told(h) \in SUBSET (1..n)
      BY <2>1 DEF Told
    <3>2. LastOf(Told(h)) \in 1..n
      BY <2>1, <2>6, <3>1, LastIs
    <3> QED BY <2>1, <2>4, <2>6, <3>2 DEF Answer
  <2> QED BY <2>5, <2>6
<1> QED BY <1>1, <1>2

LEMMA AppendedLast ==
    ASSUME Typed, NEW h, NEW e \in Entries, lines' = Append(lines, e), e.id = h, e.ack # "none"
    PROVE  Answer(h)' = e.ack
<1> DEFINE n == Len(lines)
<1>1. /\ n \in Nat /\ DOMAIN lines = 1..n /\ DOMAIN lines' = 1..n + 1
      /\ lines'[n + 1] = e
  BY LinesAre, AppendedAre DEF Typed
<1> HIDE DEF n
<1>2. Told(h)' = {j \in 1..n + 1 : lines'[j].id = h /\ lines'[j].ack # "none"}
  BY <1>1 DEF Told
<1>3. n + 1 \in Told(h)' /\ Told(h)' \in SUBSET (1..n + 1)
  BY <1>1, <1>2
<1> DEFINE T == Told(h)'
<1>4. n + 1 \in Nat /\ T # {} /\ T \in SUBSET (1..n + 1) /\ n + 1 \in T
  BY <1>1, <1>3
<1> HIDE DEF T
<1>5. LastOf(T) \in 1..n + 1 /\ n + 1 <= LastOf(T)
  BY <1>4, LastIs
<1>6. LastOf(T) = n + 1
  BY <1>1, <1>5
<1> QED BY <1>1, <1>3, <1>6 DEF Answer, T

(* What each action does to the answers.                                   *)
LEMMA LinesStep ==
    ASSUME HandoffInv, [Next]_vars
    PROVE  \/ lines' = lines
           \/ \E e \in Entries : lines' = Append(lines, e) /\ e.ack = "none"
           \/ \E q \in Askers : /\ asker[q].at = "append" /\ asker'[q].at = "idle"
                                /\ asker[q].entry \in Entries
                                /\ lines' = Append(lines, asker[q].entry)
<1>1. ASSUME NEW p \in Procs, AppendFirst(p) \/ Verify(p)
      PROVE  lines' = lines \/ \E e \in Entries : lines' = Append(lines, e) /\ e.ack = "none"
  <2>1. proc[p].plan \in Ids
    BY DEF HandoffInv, Typed, HandoffType
  <2>2. \A resolved \in BOOLEAN :
           /\ Entry(proc[p].plan, FALSE, FALSE) \in Entries
           /\ Entry(proc[p].plan, FALSE, FALSE).ack = "none"
           /\ Entry(proc[p].plan, TRUE, resolved) \in Entries
           /\ Entry(proc[p].plan, TRUE, resolved).ack = "none"
    BY <2>1 DEF Entry, Entries, Answers
  <2>3. CASE AppendFirst(p)
    BY <2>2, <2>3 DEF AppendFirst, AppendLineage, AppendFails
  <2>4. CASE Verify(p)
    <3>1. PICK resolved \in {FALSE, proc[p].plan \in sessions} :
            \/ AppendLineage(Entry(proc[p].plan, TRUE, resolved)) /\ UNCHANGED faults
            \/ AppendFails
      BY Zenon, <2>4 DEF Verify
    <3>2. resolved \in BOOLEAN
      BY OutcomeIs
    <3> QED BY <2>2, <3>1, <3>2 DEF AppendLineage, AppendFails
  <2> QED BY <1>1, <2>3, <2>4
<1>2. ASSUME NEW q \in Askers, RecordAnswer(q)
      PROVE  \/ lines' = lines
             \/ /\ asker[q].at = "append" /\ asker'[q].at = "idle"
                /\ asker[q].entry \in Entries
                /\ lines' = Append(lines, asker[q].entry)
  <2>1. asker[q].entry \in Entries /\ asker \in [Askers -> AskerType]
    BY DEF HandoffInv, Typed, AskerType
  <2>2. asker'[q].at = "idle" /\ asker[q].at = "append"
    BY <1>2, <2>1, IdleTyped DEF RecordAnswer
  <2> QED BY <1>2, <2>1, <2>2 DEF RecordAnswer, AppendLineage, AppendFails
<1>3. ASSUME NEW p \in Procs,
             \/ \E o \in Options : Begin(p, o)
             \/ ExecutePlan(p) \/ LockSession(p) \/ CheckCollision(p) \/ Put(p)
             \/ Boundary(p) \/ Start(p) \/ ChildExits(p) \/ Crash(p)
      PROVE  lines' = lines
  BY Zenon, <1>3 DEF Begin, ExecutePlan, LockSession, CheckCollision, Put, Boundary, Start,
                     ChildExits, Crash
<1>4. ASSUME NEW h, ChildWrites(h) \/ OrphanExits(h) PROVE lines' = lines
  BY Zenon, <1>4 DEF ChildWrites, OrphanExits
<1>5. ASSUME NEW q \in Askers, NEW h, NEW a, ReadAnswer(q, h, a) PROVE lines' = lines
  BY Zenon, <1>5 DEF ReadAnswer
<1>6. CASE SourceAdvances \/ EnvironmentChanges \/ UNCHANGED vars
  BY Zenon, <1>6 DEF SourceAdvances, EnvironmentChanges, vars
<1> QED BY Zenon, <1>1, <1>2, <1>3, <1>4, <1>5, <1>6 DEF Next

(* An answer the user recorded stands until the user records another, as   *)
(* long as the listing that answers are read from looks back far enough.   *)
THEOREM AnswersStand == Spec /\ []WithinLimit => AnswerStands
<1>1. HandoffInv /\ HandoffInv' /\ WithinLimit /\ WithinLimit' /\ [Next]_vars =>
        [<<lines, capsules>>' # <<lines, capsules>> => \A h \in capsules :
            LET was == GetAcknowledgement(h)
                now == GetAcknowledgement(h)'
            IN was \notin {"none", now} =>
                \E q \in Askers : /\ asker[q].at = "append" /\ asker[q].entry.id = h
                                  /\ asker[q].entry.ack = now
                                  /\ asker'[q].at = "idle"]_vars
  <2> SUFFICES ASSUME HandoffInv, HandoffInv', WithinLimit, WithinLimit', [Next]_vars,
                      NEW h \in capsules,
                      GetAcknowledgement(h) # "none",
                      GetAcknowledgement(h)' # GetAcknowledgement(h)
               PROVE  \E q \in Askers : /\ asker[q].at = "append" /\ asker[q].entry.id = h
                                        /\ asker[q].entry.ack = GetAcknowledgement(h)'
                                        /\ asker'[q].at = "idle"
    BY Zenon
  <2>1. GetAcknowledgement(h) = Answer(h)
    BY AnswerIs DEF HandoffInv, AnswersAreThose
  <2>2. (Typed /\ WithinLimit => AnswersAreThose)'
    BY AnswerIs, PTL
  <2>3. GetAcknowledgement(h)' = Answer(h)'
    BY <2>2 DEF HandoffInv, AnswersAreThose
  <2>4. Typed /\ Answer(h)' # Answer(h)
    BY <2>1, <2>3 DEF HandoffInv
  <2>5. PICK q \in Askers : /\ asker[q].at = "append" /\ asker'[q].at = "idle"
                           /\ asker[q].entry \in Entries
                           /\ lines' = Append(lines, asker[q].entry)
    BY <2>4, LinesStep, AnswerKept
  <2>6. asker[q].entry.id = h /\ asker[q].entry.ack # "none"
    BY <2>4, <2>5, AnswerKept
  <2>7. Answer(h)' = asker[q].entry.ack
    BY <2>4, <2>5, <2>6, AppendedLast
  <2> QED BY <2>3, <2>5, <2>6, <2>7
<1> QED BY <1>1, HandoffIsInvariant, PTL DEF Spec, AnswerStands
=============================================================================
