----------------------------- MODULE ResumeProofs -----------------------------
(* Proofs about a native resume, for every set of processes, environments, *)
(* records and flags, and every number of commands and changes.            *)
EXTENDS Resume, FiniteSetTheorems, TLAPS

------------------------------------------------------------------------------
(* What a check is, and what the most serious one of an id is.             *)
IsCheck(c) == /\ c.severity \in {"warning", "block"}
              /\ c.exit \in {"compatibility", "safety", "runtime"}

AllChecks(o, b, recorded, fresh, busy) ==
    SourceChecks(fresh, b) \cup WorkspaceChecks(o)
        \cup (IF Readable(o) THEN RepositoryChecks(o, b, recorded)
                                  \cup PositionChecks(o, b, recorded)
                                  \cup WorkingTreeChecks(o, b)
              ELSE {})
        \cup AgentChecks(o) \cup ActiveChecks(busy)
        \cup CapabilityChecks(o, b, recorded) \cup RuntimeChecks(o, b)

LEMMA ChecksAre ==
    ASSUME NEW o, NEW b, NEW recorded, NEW fresh, NEW busy
    PROVE  /\ Checks(o, b, recorded, fresh, busy) = Normalize(AllChecks(o, b, recorded, fresh, busy))
           /\ \A c \in AllChecks(o, b, recorded, fresh, busy) : IsCheck(c)
<1>1. \A kind, subject : IsCheck(Warning(kind, subject))
  BY DEF IsCheck, Warning
<1>2. \A kind, subject : \A exit \in {"compatibility", "safety", "runtime"} :
          IsCheck(Block(kind, subject, exit))
  BY DEF IsCheck, Block
<1>3. \A c \in SourceChecks(fresh, b) : IsCheck(c)
  BY <1>1, <1>2 DEF SourceChecks, If
<1>4. \A c \in WorkspaceChecks(o) : IsCheck(c)
  BY <1>2 DEF WorkspaceChecks, If
<1>5. \A c \in RepositoryChecks(o, b, recorded) : IsCheck(c)
  BY <1>1, <1>2 DEF RepositoryChecks, If
<1>6. \A c \in PositionChecks(o, b, recorded) : IsCheck(c)
  BY <1>1, <1>2 DEF PositionChecks, If
<1>7. \A c \in WorkingTreeChecks(o, b) : IsCheck(c)
  BY <1>1, <1>2 DEF WorkingTreeChecks, If
<1>8. \A c \in AgentChecks(o) : IsCheck(c)
  BY <1>2 DEF AgentChecks, If
<1>9. \A c \in ActiveChecks(busy) : IsCheck(c)
  BY <1>1 DEF ActiveChecks, If
<1>10. \A c \in CapabilityChecks(o, b, recorded) : IsCheck(c)
  BY <1>1, <1>2 DEF CapabilityChecks, If
<1>11. \A c \in RuntimeChecks(o, b) : IsCheck(c)
  BY <1>1, <1>2 DEF RuntimeChecks
<1>12. \A c \in AllChecks(o, b, recorded, fresh, busy) : IsCheck(c)
  BY <1>3, <1>4, <1>5, <1>6, <1>7, <1>8, <1>9, <1>10, <1>11 DEF AllChecks
<1> QED BY <1>12 DEF Checks, AllChecks

LEMMA RankIs ==
    ASSUME NEW c, IsCheck(c)
    PROVE  Rank(c) \in 0..3 /\ (Rank(c) = 0 <=> c.severity = "warning")
  BY DEF Rank, IsCheck

LEMMA MostSerious ==
    ASSUME NEW S, S # {}, \A c \in S : IsCheck(c)
    PROVE  \E c \in S : \A d \in S : Rank(d) <= Rank(c)
<1>1. \A c \in S : Rank(c) \in 0..3
  BY RankIs
<1>2. CASE \E c \in S : Rank(c) = 3
  BY <1>1, <1>2
<1>3. CASE ~ (\E c \in S : Rank(c) = 3) /\ \E c \in S : Rank(c) = 2
  BY <1>1, <1>3
<1>4. CASE ~ (\E c \in S : Rank(c) \in {2, 3}) /\ \E c \in S : Rank(c) = 1
  BY <1>1, <1>4
<1>5. CASE \A c \in S : Rank(c) = 0
  BY <1>1, <1>5
<1> QED BY <1>1, <1>2, <1>3, <1>4, <1>5

(* A blocker among the checks is one of the report, if another of its id.  *)
LEMMA BlockersStay ==
    ASSUME NEW S, \A c \in S : IsCheck(c)
    PROVE  Blockers(Normalize(S)) = {} <=> Blockers(S) = {}
<1>1. Blockers(Normalize(S)) \subseteq Blockers(S)
  BY DEF Blockers, Normalize
<1>2. ASSUME NEW c \in Blockers(S) PROVE Blockers(Normalize(S)) # {}
  <2> DEFINE same == {d \in S : d.id = c.id}
  <2>1. c \in same /\ \A d \in same : IsCheck(d)
    BY DEF Blockers
  <2>2. PICK d \in same : \A e \in same : Rank(e) <= Rank(d)
    BY <2>1, MostSerious
  <2>3. Rank(c) # 0 /\ Rank(c) \in 0..3 /\ Rank(d) \in 0..3 /\ Rank(c) <= Rank(d)
    BY <2>1, <2>2, RankIs DEF Blockers
  <2>4. d.severity = "block"
    BY <2>1, <2>2, <2>3, RankIs DEF IsCheck
  <2>5. d \in Normalize(S)
    BY <2>2 DEF Normalize
  <2> QED BY <2>4, <2>5 DEF Blockers
<1> QED BY <1>1, <1>2

(* What Authorize says.                                                    *)
LEMMA AuthorizeIs ==
    ASSUME NEW checks, \A c \in checks : IsCheck(c), NEW said
    PROVE  /\ Authorize(checks, said) \in Exits
           /\ Authorize(checks, said) = "ok" <=>
                Blockers(checks) = {} /\ WarningIDs(checks) = said
<1>1. CASE Blockers(checks) # {}
  <2>1. \A c \in Blockers(checks) : IsCheck(c)
    BY DEF Blockers
  <2>2. \E c \in Blockers(checks) : \A d \in Blockers(checks) : Rank(d) <= Rank(c)
    BY <1>1, <2>1, MostSerious
  <2>3. BlockExit(checks) \in {"compatibility", "safety", "runtime"}
    <3> DEFINE worst == CHOOSE c \in Blockers(checks) : \A d \in Blockers(checks) : Rank(d) <= Rank(c)
    <3>1. worst \in Blockers(checks)
      BY <2>2
    <3>2. IsCheck(worst)
      BY <2>1, <3>1
    <3> QED BY <3>2 DEF BlockExit, IsCheck
  <2> QED BY <1>1, <2>3 DEF Authorize, Exits
<1>2. CASE Blockers(checks) = {}
  BY <1>2 DEF Authorize, Exits
<1> QED BY <1>1, <1>2

LEMMA WarningIs ==
    ASSUME NEW kind, NEW subject, NEW exit
    PROVE  /\ Warning(kind, subject).id = <<kind, subject>>
           /\ Warning(kind, subject).severity = "warning"
           /\ Block(kind, subject, exit).severity = "block"
  BY DEF Warning, Block

(* A blocked report, and what a report that is not blocked warns of.       *)
LEMMA ReportIs ==
    ASSUME NEW o, NEW b, NEW recorded, NEW fresh, NEW busy
    PROVE  /\ \A c \in Checks(o, b, recorded, fresh, busy) : IsCheck(c)
           /\ Blockers(Checks(o, b, recorded, fresh, busy)) = {} <=>
                \A c \in AllChecks(o, b, recorded, fresh, busy) : c.severity = "warning"
           /\ Checks(o, b, recorded, fresh, busy) \subseteq AllChecks(o, b, recorded, fresh, busy)
<1> DEFINE S == AllChecks(o, b, recorded, fresh, busy)
<1>1. Checks(o, b, recorded, fresh, busy) = Normalize(S) /\ \A c \in S : IsCheck(c)
  BY ChecksAre
<1>2. Normalize(S) \subseteq S
  BY DEF Normalize
<1>3. Blockers(Normalize(S)) = {} <=> Blockers(S) = {}
  BY <1>1, BlockersStay
<1>4. Blockers(S) = {} <=> \A c \in S : c.severity = "warning"
  BY <1>1 DEF Blockers, IsCheck
<1> QED BY <1>1, <1>2, <1>3, <1>4

(* In the surroundings a baseline was taken of, nothing has changed.       *)
LEMMA BaselineSettles ==
    ASSUME NEW o \in Environments, NEW t, NEW b, b = BaselineFromReport(o, t), b # None,
           Blockers(Checks(o, None, Recorded, TRUE, "free")) = {}
    PROVE  LET next == Checks(o, b, Recorded, TRUE, "free")
           IN  Blockers(next) = {} /\ WarningIDs(next) \subseteq Standing(o)
<1> DEFINE before == AllChecks(o, None, Recorded, TRUE, "free")
           after == AllChecks(o, b, Recorded, TRUE, "free")
           Fine(c) == c.severity = "warning" /\ c.id \in Standing(o)
<1>1. \A c \in before : c.severity = "warning"
  BY ReportIs
<1>2. /\ b.repository = RepositoryID(o) /\ b.branch = o.branch /\ b.head = o.head
      /\ b.tree = o.tree /\ b.capabilities = o.capabilities
      /\ b.runtimes = {r \in o.runtimes : r.actual # 0}
  BY DEF BaselineFromReport
<1>3. /\ \A c \in CapabilityChecks(o, None, Recorded) \cup RuntimeChecks(o, None) :
            c.severity = "warning" => c.id \in Standing(o)
      /\ o.uncertain \/ o.tree = "unavailable" => <<"git", "tree">> \in Standing(o)
      /\ o.branch = 0 => <<"git", "branch">> \in Standing(o)
      /\ o.head = 0 => <<"git", "head">> \in Standing(o)
      /\ RepositoryID(o) = NoRepository => <<"git.repository", "">> \in Standing(o)
      /\ \A r \in o.runtimes : r.actual = 0 => <<"runtime.baseline", r.name>> \in Standing(o)
  BY DEF Standing, WarningIDs
<1>4. \A c \in SourceChecks(TRUE, b) \cup ActiveChecks("free") : FALSE
  BY DEF SourceChecks, ActiveChecks, If
<1>5. \A c \in WorkspaceChecks(o) \cup AgentChecks(o) : c.severity = "block" /\ c \in before
  <2>1. \A c \in WorkspaceChecks(o) \cup AgentChecks(o) : c \in before
    BY DEF AllChecks
  <2> DEFINE Blocks(c) == c.severity = "block"
  <2>2. \A kind, subject : \A exit \in {"compatibility", "safety", "runtime"} :
            Blocks(Block(kind, subject, exit))
    BY WarningIs
  <2> HIDE DEF Blocks
  <2>3. \A c \in WorkspaceChecks(o) : Blocks(c)
    BY <2>2 DEF WorkspaceChecks, If
  <2>4. \A c \in AgentChecks(o) : Blocks(c)
    BY <2>2 DEF AgentChecks, If
  <2> QED BY <2>1, <2>3, <2>4 DEF Blocks
<1>6. WorkspaceChecks(o) \cup AgentChecks(o) = {}
  BY <1>1, <1>5
<1>7. ASSUME Readable(o), NEW c \in RepositoryChecks(o, b, Recorded) PROVE Fine(c)
  <2>1. CASE RepositoryID(o) = NoRepository
    <3>1. Expected(b, Recorded, "repository", NoRepository) =
          Expected(None, Recorded, "repository", NoRepository)
      BY <1>2, <2>1 DEF Expected
    <3>2. c \in before
      BY <1>7, <3>1 DEF RepositoryChecks, AllChecks
    <3>3. c.severity = "warning"
      BY <1>1, <3>2
    <3>4. c = Warning("git.repository", "") \/ c.severity = "block"
      BY <1>7, <2>1, WarningIs DEF RepositoryChecks, If
    <3>5. c = Warning("git.repository", "")
      BY <3>3, <3>4
    <3> QED BY <1>3, <2>1, <3>3, <3>5, WarningIs
  <2>2. CASE RepositoryID(o) # NoRepository
    <3>1. Expected(b, Recorded, "repository", NoRepository) = RepositoryID(o)
      BY <1>2, <2>2 DEF Expected
    <3>2. o.git # "outside"
      BY <2>2, OutsideAssumption
    <3> QED BY <1>7, <2>2, <3>1, <3>2 DEF RepositoryChecks, If
  <2> QED BY <2>1, <2>2
<1>8. ASSUME Readable(o), NEW c \in PositionChecks(o, b, Recorded) PROVE Fine(c)
  <2>1. PICK field \in {"branch", "head"} :
            LET expected == Expected(b, Recorded, field, 0)
            IN  /\ expected # 0
                /\ c \in IF o.git = "outside" THEN {Block("git", field, "safety")}
                         ELSE If(o[field] # expected, Warning("git", field))
    BY <1>8 DEF PositionChecks
  <2>2. b[field] = o[field]
    BY <1>2
  <2>3. o[field] = 0
    <3> SUFFICES ASSUME o[field] # 0 PROVE FALSE
      OBVIOUS
    <3>1. Expected(b, Recorded, field, 0) = o[field]
      BY <2>2 DEF Expected
    <3>2. o.git # "outside"
      BY OutsideAssumption
    <3> QED BY <2>1, <3>1, <3>2 DEF If
  <2>4. Expected(b, Recorded, field, 0) = Expected(None, Recorded, field, 0)
    BY <2>2, <2>3 DEF Expected
  <2>5. c \in PositionChecks(o, None, Recorded)
    BY <2>1, <2>4 DEF PositionChecks
  <2>6. c.severity = "warning"
    BY <1>1, <1>8, <2>5 DEF AllChecks
  <2>7. c = Warning("git", field)
    BY <2>1, <2>6, WarningIs DEF If
  <2>8. <<"git", field>> \in Standing(o)
    <3>1. CASE field = "branch"
      BY <1>3, <2>3, <3>1
    <3>2. CASE field = "head"
      BY <1>3, <2>3, <3>2
    <3> QED BY <2>1, <3>1, <3>2
  <2>9. c.id = <<"git", field>>
    BY <2>7, WarningIs
  <2> QED BY <2>6, <2>8, <2>9
<1>9. ASSUME NEW c \in WorkingTreeChecks(o, b) PROVE Fine(c)
  <2>1. CASE o.uncertain
    <3>1. c = Warning("git", "tree")
      BY <1>9, <2>1 DEF WorkingTreeChecks
    <3> QED BY <1>3, <2>1, <3>1, WarningIs
  <2>2. CASE ~ o.uncertain /\ o.tree = "unavailable"
    <3>1. c = Warning("git", "tree")
      BY <1>2, <1>9, <2>2 DEF WorkingTreeChecks
    <3> QED BY <1>3, <2>2, <3>1, WarningIs
  <2>3. CASE ~ o.uncertain /\ o.tree # "unavailable"
    BY <1>2, <1>9, <2>3 DEF WorkingTreeChecks, If
  <2> QED BY <2>1, <2>2, <2>3
<1>10. ASSUME NEW c \in CapabilityChecks(o, b, Recorded) PROVE Fine(c)
  <2>1. c \in CapabilityChecks(o, None, Recorded)
    BY <1>2 DEF CapabilityChecks
  <2> QED BY <1>1, <1>3, <2>1 DEF AllChecks
<1>11. ASSUME NEW c \in RuntimeChecks(o, b) PROVE Fine(c)
  <2>1. CASE c \in RuntimeChecks(o, None)
    BY <1>1, <1>3, <2>1 DEF AllChecks
  <2>2. CASE c \notin RuntimeChecks(o, None)
    <3>1. PICK r \in o.runtimes : /\ c = Warning("runtime.baseline", r.name)
                                  /\ ~ \E q \in o.runtimes \cap b.runtimes : q.name = r.name
      BY <1>2, <2>2 DEF RuntimeChecks
    <3>2. r.actual = 0
      BY <1>2, <3>1
    <3> QED BY <1>3, <3>1, <3>2 DEF Warning
  <2> QED BY <2>1, <2>2
<1>12. \A c \in after : Fine(c)
  BY <1>4, <1>6, <1>7, <1>8, <1>9, <1>10, <1>11 DEF AllChecks
<1> QED BY <1>12, ReportIs DEF WarningIDs

------------------------------------------------------------------------------
(* What a look can give, and what a user can have acknowledged.            *)
Probes == {"unknown", "busy", "free"}

Look(o, b, fresh, busy) ==
    [observed |-> o, checks |-> Checks(o, b, Recorded, fresh, busy), busy |-> busy,
     against |-> IF b = None THEN None ELSE [b EXCEPT !.observed = 0]]

Looks == {Look(o, b, fresh, busy) : o \in Environments, b \in Baselines \cup {None},
                                    fresh \in BOOLEAN, busy \in Probes}

Saids == Allowances \cup {WarningIDs(l.checks) : l \in Looks}

ProcType == [pc : Phases, round : 1..3, terminal : BOOLEAN, said : Saids, fresh : BOOLEAN,
             report : {NoReport} \cup Looks, candidate : Baselines \cup {None},
             moved : BOOLEAN, late : BOOLEAN, exit : Exits]

(* The commands that have not taken the time of their baseline.            *)
Waits(r) == r.pc \in {"resolve", "verify", "authorize"} /\ r.round < 3

Pending == {p \in Procs : Waits(proc[p])}

Surroundings ==
    /\ env \in Environments /\ session \in Sessions /\ native \in BOOLEAN
    /\ row \in Sessions /\ baseline \in Baselines \cup {None}
    /\ row = "absent" => baseline = None
    /\ changes \in 0..MaxChanges /\ commands \in 0..MaxCommands /\ clock \in Nat

Typed ==
    /\ Surroundings
    /\ proc \in [Procs -> ProcType]
    /\ IsFiniteSet(Pending) /\ clock + Cardinality(Pending) <= commands

Launching == {"boundary", "start", "recheck", "exec", "running", "store"}

Guarded == {"start", "recheck", "exec"}

(* What a process carries from its first look on.                          *)
Agreed(r) ==
    /\ r.pc = "authorize" => r.round = 1 /\ r.report \in Looks
    /\ r.round > 1 \/ r.pc \in Launching =>
          /\ r.report \in Looks
          /\ Blockers(r.report.checks) = {} /\ WarningIDs(r.report.checks) = r.said
    /\ r.round = 3 \/ r.pc \in Launching => r.candidate \in Baselines

(* Between its last look and its start nothing is other than it was seen,  *)
(* and from its comparison on the program and the directory are the ones   *)
(* of the report, unless something changed since.                          *)
AsSeen(r) ==
    /\ r.pc \in Guarded /\ ~r.moved =>
          /\ env = r.report.observed
          /\ r.report.checks = Checks(env, baseline, Recorded, TRUE, r.report.busy)
          /\ r.report.busy \in {"unknown", IF InUse THEN "busy" ELSE "free"}
    /\ r.pc \in {"recheck", "exec"} /\ ~r.late =>
          env.executable = r.report.observed.executable
    /\ r.pc = "exec" /\ ~r.late =>
          env.directory = r.report.observed.directory

ResumeInv == Typed /\ \A p \in Procs : Agreed(proc[p]) /\ AsSeen(proc[p])

LEMMA LooksAre ==
    /\ \A l \in Looks : /\ l # NoReport /\ l.observed \in Environments
                        /\ \A c \in l.checks : IsCheck(c)
                        /\ WarningIDs(l.checks) \in Saids
    /\ NoReport \notin Looks
    /\ \A o \in Environments, t \in 1..MaxCommands :
          BaselineFromReport(o, t) \in Baselines /\ BaselineFromReport(o, t) # None
    /\ None \notin Baselines
<1>1. \A l \in Looks : /\ l.observed \in Environments /\ DOMAIN l = {"observed", "checks", "busy", "against"}
                      /\ \A c \in l.checks : IsCheck(c)
  <2> SUFFICES ASSUME NEW o \in Environments, NEW b \in Baselines \cup {None},
                      NEW fresh \in BOOLEAN, NEW busy \in Probes, NEW l, l = Look(o, b, fresh, busy)
               PROVE  /\ l.observed \in Environments /\ DOMAIN l = {"observed", "checks", "busy", "against"}
                      /\ \A c \in l.checks : IsCheck(c)
    BY DEF Looks
  <2>1. l.observed = o /\ l.checks = Checks(o, b, Recorded, fresh, busy)
    BY DEF Look
  <2> QED BY <2>1, ReportIs DEF Look
<1>2. DOMAIN NoReport = {"none"} /\ DOMAIN None = {"none"}
  BY DEF NoReport, None
<1>3. \A l \in Looks : l # NoReport
  <2> SUFFICES ASSUME NEW l \in Looks, l = NoReport PROVE FALSE
    OBVIOUS
  <2>1. "observed" \in DOMAIN l /\ "observed" \notin {"none"}
    BY <1>1
  <2> QED BY <1>2, <2>1
<1>4. \A o, t : DOMAIN BaselineFromReport(o, t) =
                  {"repository", "branch", "head", "tree", "capabilities", "runtimes", "observed"}
  BY DEF BaselineFromReport
<1>5. \A o, t : BaselineFromReport(o, t) # None
  <2> SUFFICES ASSUME NEW o, NEW t, BaselineFromReport(o, t) = None PROVE FALSE
    OBVIOUS
  <2>1. "branch" \in DOMAIN BaselineFromReport(o, t) /\ "branch" \notin {"none"}
    BY <1>4
  <2> QED BY <1>2, <2>1
<1> QED BY <1>1, <1>3, <1>5 DEF Saids, Baselines

(* The process that does nothing.                                          *)
LEMMA IdleIs ==
    /\ Idle \in ProcType
    /\ \A code \in Exits : LET r == [Idle EXCEPT !.exit = code]
                           IN  /\ r \in ProcType /\ r.pc = "idle" /\ r.round = 1
<1> USE ResumeAssumption DEF ProcType, Phases, Saids, Exits
<1>1. Idle \in ProcType /\ Idle.pc = "idle" /\ Idle.round = 1
  BY DEF Idle
<1> QED BY <1>1

(* Others learn of a change, and are otherwise what they were.             *)
LEMMA MovedIs ==
    ASSUME proc \in [Procs -> ProcType]
    PROVE  /\ Moved(proc) \in [Procs -> ProcType]
           /\ \A q \in Procs :
                 /\ Moved(proc)[q].pc = proc[q].pc /\ Moved(proc)[q].round = proc[q].round
                 /\ Moved(proc)[q].said = proc[q].said /\ Moved(proc)[q].report = proc[q].report
                 /\ Moved(proc)[q].candidate = proc[q].candidate
                 /\ proc[q].pc # "idle" => Moved(proc)[q].moved = TRUE
                 /\ proc[q].pc \in {"recheck", "exec"} => Moved(proc)[q].late = TRUE
  BY DEF Moved, ProcType

LEMMA MovedAgrees ==
    ASSUME Typed, NEW q \in Procs, Agreed(proc[q])
    PROVE  Agreed(Moved(proc)[q])
  BY MovedIs DEF Agreed, Typed

(* Whoever was told of a change is promised nothing.                       *)
LEMMA NewsExcuses ==
    ASSUME proc \in [Procs -> ProcType], NEW q \in Procs, proc'[q] = Moved(proc)[q]
    PROVE  AsSeen(proc[q])'
<1>1. /\ proc'[q].pc \in Guarded => proc'[q].moved = TRUE
      /\ proc'[q].pc \in {"recheck", "exec"} => proc'[q].late = TRUE
  BY MovedIs DEF Guarded
<1> QED BY <1>1 DEF AsSeen, Guarded

(* A step of p, which leaves the others alone or tells them of a change.   *)
LEMMA Stepped ==
    ASSUME ResumeInv, NEW p \in Procs,
           \/ /\ proc' = [proc EXCEPT ![p] = proc'[p]]
              /\ UNCHANGED <<env, baseline>> /\ (InUse' <=> InUse)
           \/ proc' = [Moved(proc) EXCEPT ![p] = proc'[p]],
           proc'[p] \in ProcType, Agreed(proc'[p]), AsSeen(proc[p])'
    PROVE  /\ proc' \in [Procs -> ProcType]
           /\ \A q \in Procs : Agreed(proc[q])' /\ AsSeen(proc[q])'
           /\ Pending' \ {p} = Pending \ {p}
<1>1. proc \in [Procs -> ProcType] /\ \A q \in Procs : Agreed(proc[q]) /\ AsSeen(proc[q])
  BY DEF ResumeInv, Typed
<1>2. CASE /\ proc' = [proc EXCEPT ![p] = proc'[p]]
           /\ UNCHANGED <<env, baseline>> /\ (InUse' <=> InUse)
  <2>1. proc' \in [Procs -> ProcType] /\ \A q \in Procs \ {p} : proc'[q] = proc[q]
    BY <1>1, <1>2
  <2>2. \A q \in Procs \ {p} : Agreed(proc[q])' /\ AsSeen(proc[q])'
    <3>1. ASSUME NEW q \in Procs \ {p}, NEW r, r = proc[q] PROVE Agreed(r)' /\ AsSeen(r)'
      <4>1. Agreed(r) /\ AsSeen(r)
        BY <1>1, <3>1
      <4> QED BY <1>2, <4>1 DEF Agreed, AsSeen, Guarded
    <3> QED BY <2>1, <3>1 DEF Agreed, AsSeen, Guarded
  <2>3. Pending' \ {p} = Pending \ {p}
    BY <2>1 DEF Pending
  <2> QED BY <2>1, <2>2, <2>3
<1>3. CASE proc' = [Moved(proc) EXCEPT ![p] = proc'[p]]
  <2>1. Moved(proc) \in [Procs -> ProcType]
    BY <1>1, MovedIs
  <2>2. proc' \in [Procs -> ProcType] /\ \A q \in Procs \ {p} : proc'[q] = Moved(proc)[q]
    BY <1>3, <2>1
  <2>3. \A q \in Procs \ {p} : Agreed(proc[q])'
    BY <1>1, <2>2, MovedAgrees DEF ResumeInv
  <2>5. \A q \in Procs \ {p} : AsSeen(proc[q])'
    BY <1>1, <2>2, NewsExcuses
  <2>6. Pending' \ {p} = Pending \ {p}
    <3>1. ASSUME NEW q \in Procs \ {p} PROVE Waits(proc'[q]) <=> Waits(proc[q])
      BY <1>1, <2>2, MovedIs DEF Waits
    <3> QED BY <3>1 DEF Pending
  <2> QED BY <2>2, <2>3, <2>5, <2>6
<1> QED BY <1>2, <1>3

(* A step of the surroundings.                                             *)
LEMMA Told ==
    ASSUME ResumeInv, proc' = Moved(proc)
    PROVE  /\ proc' \in [Procs -> ProcType]
           /\ \A q \in Procs : Agreed(proc[q])' /\ AsSeen(proc[q])'
           /\ Pending' = Pending
<1>1. proc \in [Procs -> ProcType] /\ \A q \in Procs : Agreed(proc[q]) /\ AsSeen(proc[q])
  BY DEF ResumeInv, Typed
<1>2. proc' \in [Procs -> ProcType]
  BY <1>1, MovedIs
<1>3. \A q \in Procs : Agreed(proc[q])'
  BY <1>1, MovedAgrees DEF ResumeInv
<1>5. \A q \in Procs : AsSeen(proc[q])'
  BY <1>1, NewsExcuses
<1>6. Pending' = Pending
  BY <1>1, MovedIs DEF Pending, Waits
<1> QED BY <1>2, <1>3, <1>5, <1>6

(* The times of the baselines that are to come are not more than the       *)
(* commands.                                                               *)
LEMMA TimeIsLeft ==
    ASSUME Typed, NEW p \in Procs, Pending' \ {p} = Pending \ {p},
           \/ clock' = clock /\ commands' = commands /\ Pending' \subseteq Pending
           \/ clock' = clock /\ commands' = commands + 1
           \/ clock' = clock + 1 /\ commands' = commands /\ p \in Pending /\ p \notin Pending'
    PROVE  IsFiniteSet(Pending') /\ clock' + Cardinality(Pending') <= commands'
<1> DEFINE some == Pending
           others == Pending \ {p}
<1>1. /\ IsFiniteSet(some) /\ clock + Cardinality(some) <= commands
      /\ clock \in Nat /\ commands \in Nat
  BY ResumeAssumption DEF Typed, Surroundings
<1>2. IsFiniteSet(others)
  BY <1>1, FS_Subset
<1>3. Pending' = others \/ Pending' = others \cup {p}
  OBVIOUS
<1>4. some = others \/ some = others \cup {p}
  OBVIOUS
<1>5. p \notin others
  OBVIOUS
<1>6. /\ Cardinality(others) \in Nat /\ IsFiniteSet(others \cup {p})
      /\ Cardinality(others \cup {p}) = Cardinality(others) + 1
  BY <1>2, <1>5, FS_AddElement, FS_CardinalityType
<1>7. IsFiniteSet(Pending')
  BY <1>2, <1>3, <1>6
<1>8. CASE clock' = clock /\ commands' = commands /\ Pending' \subseteq Pending
  <2>1. Pending' = others \/ Pending' = some
    BY <1>3, <1>4, <1>8
  <2>2. Cardinality(some) \in Nat
    BY <1>1, FS_CardinalityType
  <2>3. Cardinality(Pending') <= Cardinality(some) /\ Cardinality(Pending') \in Nat
    <3>1. CASE Pending' = others
      BY <1>4, <1>6, <2>2, <3>1
    <3>2. CASE Pending' = some
      BY <2>2, <3>2
    <3> QED BY <2>1, <3>1, <3>2
  <2> QED BY <1>1, <1>7, <1>8, <2>2, <2>3
<1>9. CASE clock' = clock /\ commands' = commands + 1
  BY <1>1, <1>3, <1>4, <1>6, <1>7, <1>9
<1>10. CASE clock' = clock + 1 /\ commands' = commands /\ p \in Pending /\ p \notin Pending'
  <2>1. Pending' = others /\ some = others \cup {p}
    BY <1>3, <1>4, <1>10
  <2> QED BY <1>1, <1>6, <1>7, <1>10, <2>1
<1> QED BY <1>8, <1>9, <1>10

(* A step of p keeps the invariant when what p becomes does.               *)
LEMMA OwnStep ==
    ASSUME ResumeInv, NEW p \in Procs,
           \/ /\ proc' = [proc EXCEPT ![p] = proc'[p]]
              /\ UNCHANGED <<env, baseline, native>>
              /\ proc[p].pc # "running" /\ proc'[p].pc # "running"
           \/ proc' = [Moved(proc) EXCEPT ![p] = proc'[p]],
           proc'[p] \in ProcType, Agreed(proc'[p]), AsSeen(proc[p])', Surroundings',
           \/ clock' = clock /\ commands' = commands /\ (Waits(proc'[p]) => Waits(proc[p]))
           \/ clock' = clock /\ commands' = commands + 1
           \/ clock' = clock + 1 /\ commands' = commands
              /\ Waits(proc[p]) /\ ~Waits(proc'[p])
    PROVE  ResumeInv'
<1>1. ASSUME proc' = [proc EXCEPT ![p] = proc'[p]], native' = native,
             proc[p].pc # "running", proc'[p].pc # "running"
      PROVE  InUse' <=> InUse
  <2>1. \A q \in Procs : proc'[q].pc = "running" <=> proc[q].pc = "running"
    BY <1>1 DEF ResumeInv, Typed
  <2> QED BY <1>1, <2>1 DEF InUse
<1>2. /\ proc' \in [Procs -> ProcType]
      /\ \A q \in Procs : Agreed(proc[q])' /\ AsSeen(proc[q])'
      /\ Pending' \ {p} = Pending \ {p}
  BY <1>1, Stepped
<1>3. (p \in Pending <=> Waits(proc[p])) /\ (p \in Pending' <=> Waits(proc'[p]))
  BY DEF Pending
<1>4. IsFiniteSet(Pending') /\ clock' + Cardinality(Pending') <= commands'
  <2>1. ASSUME Waits(proc'[p]) => Waits(proc[p]) PROVE Pending' \subseteq Pending
    BY <1>2, <1>3, <2>1
  <2> QED BY <1>2, <1>3, <2>1, TimeIsLeft DEF ResumeInv
<1> QED BY <1>2, <1>4 DEF ResumeInv, Typed

(* A process that gives up.                                                *)
LEMMA GivesUp ==
    ASSUME ResumeInv, NEW p \in Procs, NEW code \in Exits,
           \/ /\ proc' = [proc EXCEPT ![p] = [Idle EXCEPT !.exit = code]]
              /\ UNCHANGED <<env, baseline, native>> /\ proc[p].pc # "running"
           \/ proc' = [Moved(proc) EXCEPT ![p] = [Idle EXCEPT !.exit = code]],
           Surroundings', clock' = clock, commands' = commands
    PROVE  ResumeInv'
<1>1. /\ proc \in [Procs -> ProcType] /\ Moved(proc) \in [Procs -> ProcType]
  BY MovedIs DEF ResumeInv, Typed
<1>2. proc'[p] = [Idle EXCEPT !.exit = code]
  BY <1>1
<1>3. proc'[p] \in ProcType /\ proc'[p].pc = "idle" /\ proc'[p].round = 1
  BY <1>2, IdleIs
<1>4. Agreed(proc'[p]) /\ AsSeen(proc[p])' /\ ~Waits(proc'[p])
  BY <1>3 DEF Agreed, AsSeen, Guarded, Waits, Launching
<1>5. \/ proc' = [proc EXCEPT ![p] = proc'[p]]
      \/ proc' = [Moved(proc) EXCEPT ![p] = proc'[p]]
  BY <1>2
<1> QED BY <1>2, <1>3, <1>4, OwnStep

------------------------------------------------------------------------------
(* The steps of a command.                                                 *)
LEMMA SameSurroundings ==
    ASSUME Surroundings, UNCHANGED <<outside, row, baseline>>,
           clock' \in Nat, commands' \in 0..MaxCommands
    PROVE  Surroundings' /\ UNCHANGED <<env, native>>
  BY DEF Surroundings, outside

LEMMA ReportsAre ==
    ASSUME ResumeInv, NEW p \in Procs, NEW report \in Reports(p)
    PROVE  /\ report \in Looks /\ report.observed = env
           /\ report.checks = Checks(env, baseline, Recorded, proc[p].fresh, report.busy)
           /\ report.busy \in {"unknown", IF InUse THEN "busy" ELSE "free"}
<1>1. PICK busy \in {"unknown", IF InUse THEN "busy" ELSE "free"} :
          report = Look(env, baseline, proc[p].fresh, busy)
  BY Zenon DEF Reports, Look
<1>2. /\ report.observed = env /\ report.busy = busy
      /\ report.checks = Checks(env, baseline, Recorded, proc[p].fresh, busy)
  BY <1>1 DEF Look
<1>3. busy \in Probes
  BY DEF Probes
<1>4. env \in Environments /\ baseline \in Baselines \cup {None} /\ proc[p].fresh \in BOOLEAN
  BY DEF ResumeInv, Typed, Surroundings, ProcType
<1>5. \E o \in Environments, b \in Baselines \cup {None}, fresh \in BOOLEAN, seen \in Probes :
          report = Look(o, b, fresh, seen)
  BY <1>1, <1>3, <1>4
<1>6. report \in Looks
  BY <1>5 DEF Looks
<1> QED BY <1>2, <1>6

LEMMA BeginKeeps ==
    ASSUME ResumeInv, NEW p \in Procs, NEW terminal \in BOOLEAN, NEW allowed \in Allowances,
           Begin(p, terminal, allowed)
    PROVE  ResumeInv'
<1>1. /\ proc \in [Procs -> ProcType] /\ Surroundings
  BY DEF ResumeInv, Typed
<1>2. proc'[p] = [Idle EXCEPT !.pc = "resolve", !.terminal = terminal, !.said = allowed]
  BY <1>1 DEF Begin
<1>3. proc'[p] \in ProcType /\ proc'[p].pc = "resolve" /\ proc'[p].round = 1
  BY <1>2, IdleIs DEF ProcType, Phases, Saids, Idle
<1>4. Agreed(proc'[p]) /\ AsSeen(proc[p])'
  BY <1>3 DEF Agreed, AsSeen, Guarded, Launching
<1>5. clock' \in Nat /\ commands' \in 0..MaxCommands
  BY <1>1, ResumeAssumption DEF Begin, Surroundings
<1>6. Surroundings' /\ UNCHANGED <<env, native, baseline>>
  BY <1>1, <1>5, SameSurroundings DEF Begin
<1>7. proc' = [proc EXCEPT ![p] = proc'[p]]
  BY <1>2 DEF Begin
<1> QED BY <1>3, <1>4, <1>6, <1>7, OwnStep DEF Begin

LEMMA ResolveKeeps ==
    ASSUME ResumeInv, NEW p \in Procs, Resolve(p)
    PROVE  ResumeInv'
<1>1. /\ proc \in [Procs -> ProcType] /\ Surroundings
  BY DEF ResumeInv, Typed
<1>2. PICK fresh \in BOOLEAN :
        /\ row' = IF fresh THEN session ELSE row
        /\ baseline' = IF row' = "absent" THEN None ELSE baseline
        /\ LET others == IF baseline' = baseline THEN proc ELSE Moved(proc)
           IN  proc' = [others EXCEPT ![p] =
                  IF row' = "resumable" THEN [@ EXCEPT !.pc = "verify", !.fresh = fresh]
                  ELSE [Idle EXCEPT !.exit = IF proc[p].round = 1 THEN "failed" ELSE "safety"]]
  BY Zenon DEF Resolve
<1>3. proc[p].pc = "resolve" /\ UNCHANGED <<env, session, native, changes, clock, commands>>
  BY DEF Resolve, outside
<1>4. Surroundings'
  BY <1>1, <1>2, <1>3 DEF Surroundings
<1>5. CASE row' # "resumable"
  <2> DEFINE code == IF proc[p].round = 1 THEN "failed" ELSE "safety"
  <2>1. code \in Exits
    BY DEF Exits
  <2>2. CASE baseline' = baseline
    <3>1. proc' = [proc EXCEPT ![p] = [Idle EXCEPT !.exit = code]]
      BY <1>2, <1>5, <2>2
    <3> QED BY <1>3, <1>4, <2>1, <2>2, <3>1, GivesUp
  <2>3. CASE baseline' # baseline
    <3>1. proc' = [Moved(proc) EXCEPT ![p] = [Idle EXCEPT !.exit = code]]
      BY <1>2, <1>5, <2>3
    <3> QED BY <1>3, <1>4, <2>1, <3>1, GivesUp
  <2> QED BY <2>2, <2>3
<1>6. CASE row' = "resumable"
  <2>1. baseline' = baseline /\ proc' = [proc EXCEPT ![p] = [@ EXCEPT !.pc = "verify", !.fresh = fresh]]
    BY <1>2, <1>6
  <2>2. proc'[p] = [proc[p] EXCEPT !.pc = "verify", !.fresh = fresh]
    BY <1>1, <2>1
  <2>3. /\ proc'[p] \in ProcType /\ proc'[p].pc = "verify" /\ proc'[p].round = proc[p].round
        /\ proc'[p].report = proc[p].report /\ proc'[p].said = proc[p].said
        /\ proc'[p].candidate = proc[p].candidate
    <3>1. proc'[p] \in ProcType
      BY <1>1, <2>2, Zenon DEF ProcType, Phases
    <3> QED BY <1>1, <2>2, <3>1 DEF ProcType
  <2>4. Agreed(proc'[p]) /\ AsSeen(proc[p])' /\ (Waits(proc'[p]) => Waits(proc[p]))
    BY <1>3, <2>3 DEF Agreed, AsSeen, Guarded, Launching, Waits, ResumeInv
  <2>5. proc' = [proc EXCEPT ![p] = proc'[p]]
    BY <2>1, <2>2
  <2> QED BY <1>3, <1>4, <2>1, <2>3, <2>4, <2>5, OwnStep
<1> QED BY <1>5, <1>6

LEMMA VerifyFirstKeeps ==
    ASSUME ResumeInv, NEW p \in Procs, VerifyFirst(p)
    PROVE  ResumeInv'
<1>1. /\ proc \in [Procs -> ProcType] /\ Surroundings
  BY DEF ResumeInv, Typed
<1>2. PICK report \in Reports(p) :
          proc' = [proc EXCEPT ![p].pc = "authorize", ![p].report = report, ![p].moved = FALSE]
  BY Zenon DEF VerifyFirst
<1>3. /\ proc[p].pc = "verify" /\ proc[p].round = 1
      /\ UNCHANGED <<outside, row, baseline, clock, commands>>
  BY DEF VerifyFirst
<1>4. report \in Looks
  BY ReportsAre
<1>5. proc'[p] = [proc[p] EXCEPT !.pc = "authorize", !.report = report, !.moved = FALSE]
  BY <1>1, <1>2
<1>6. /\ proc'[p] \in ProcType /\ proc'[p].pc = "authorize" /\ proc'[p].round = 1
      /\ proc'[p].report = report
  BY <1>1, <1>3, <1>4, <1>5 DEF ProcType, Phases
<1>7. Agreed(proc'[p]) /\ AsSeen(proc[p])' /\ Waits(proc[p])
  BY <1>3, <1>4, <1>6 DEF Agreed, AsSeen, Guarded, Launching, Waits
<1>8. Surroundings' /\ UNCHANGED <<env, native, baseline>>
  BY <1>1, <1>3, SameSurroundings DEF Surroundings
<1>9. proc' = [proc EXCEPT ![p] = proc'[p]]
  BY <1>1, <1>2, <1>5
<1> QED BY <1>3, <1>6, <1>7, <1>8, <1>9, OwnStep

(* What a process becomes on its way.                                      *)
Repeats(r, said) == [r EXCEPT !.pc = "resolve", !.round = 2, !.said = said]

Takes(r, candidate) == [r EXCEPT !.pc = "boundary", !.moved = FALSE, !.candidate = candidate]

Guards(r) == [r EXCEPT !.pc = "resolve", !.round = 3]

LEMMA Becomes ==
    ASSUME NEW r \in ProcType
    PROVE  /\ \A said \in Saids :
                  /\ Repeats(r, said) \in ProcType /\ Repeats(r, said).pc = "resolve"
                  /\ Repeats(r, said).round = 2 /\ Repeats(r, said).said = said
                  /\ Repeats(r, said).report = r.report
           /\ \A candidate \in Baselines :
                  /\ Takes(r, candidate) \in ProcType /\ Takes(r, candidate).pc = "boundary"
                  /\ Takes(r, candidate).candidate = candidate
                  /\ Takes(r, candidate).round = r.round
                  /\ Takes(r, candidate).report = r.report /\ Takes(r, candidate).said = r.said
           /\ Guards(r) \in ProcType /\ Guards(r).pc = "resolve" /\ Guards(r).round = 3
           /\ Guards(r).said = r.said /\ Guards(r).report = r.report
           /\ Guards(r).candidate = r.candidate
<1>1. {"resolve", "boundary"} \subseteq Phases /\ {2, 3} \subseteq 1..3
  BY DEF Phases
<1>2. ASSUME NEW said \in Saids
      PROVE  /\ Repeats(r, said) \in ProcType /\ Repeats(r, said).pc = "resolve"
             /\ Repeats(r, said).round = 2 /\ Repeats(r, said).said = said
             /\ Repeats(r, said).report = r.report
  BY <1>1 DEF ProcType, Repeats
<1>3. ASSUME NEW candidate \in Baselines
      PROVE  /\ Takes(r, candidate) \in ProcType /\ Takes(r, candidate).pc = "boundary"
             /\ Takes(r, candidate).candidate = candidate
             /\ Takes(r, candidate).round = r.round
             /\ Takes(r, candidate).report = r.report /\ Takes(r, candidate).said = r.said
  BY <1>1 DEF ProcType, Takes
<1>4. /\ Guards(r) \in ProcType /\ Guards(r).pc = "resolve" /\ Guards(r).round = 3
      /\ Guards(r).said = r.said /\ Guards(r).report = r.report
      /\ Guards(r).candidate = r.candidate
  BY <1>1 DEF ProcType, Guards
<1> QED BY <1>2, <1>3, <1>4

LEMMA AuthorizeFirstKeeps ==
    ASSUME ResumeInv, NEW p \in Procs, AuthorizeFirst(p)
    PROVE  ResumeInv'
<1> DEFINE checks == proc[p].report.checks
<1>1. /\ proc \in [Procs -> ProcType] /\ Surroundings /\ proc[p].pc = "authorize"
      /\ UNCHANGED <<outside, row, baseline, clock, commands>>
  BY DEF ResumeInv, Typed, AuthorizeFirst
<1>2. /\ proc[p].round = 1 /\ proc[p].report \in Looks
  BY <1>1 DEF ResumeInv, Agreed
<1>3. /\ \A c \in checks : IsCheck(c)
      /\ WarningIDs(checks) \in Saids /\ {} \in Saids /\ proc[p].said \in Saids
  BY <1>1, <1>2, LooksAre, ResumeAssumption DEF Saids, ProcType
<1>4. PICK said \in {{}, WarningIDs(checks), proc[p].said} :
          IF Authorize(checks, said) = "ok"
          THEN proc' = [proc EXCEPT ![p].pc = "resolve", ![p].round = 2, ![p].said = said]
          ELSE Exit(p, Authorize(checks, said))
  BY DEF AuthorizeFirst
<1>5. said \in Saids
  BY <1>3
<1>6. Surroundings' /\ UNCHANGED <<env, native, baseline>>
  BY <1>1, SameSurroundings DEF Surroundings
<1>7. CASE Authorize(checks, said) = "ok"
  <2>1. Blockers(checks) = {} /\ WarningIDs(checks) = said
    BY <1>3, <1>7, AuthorizeIs
  <2>2. proc' = [proc EXCEPT ![p].pc = "resolve", ![p].round = 2, ![p].said = said]
    BY <1>4, <1>7
  <2>3. proc'[p] = Repeats(proc[p], said)
    BY <1>1, <2>2 DEF Repeats
  <2> HIDE DEF checks
  <2>4. /\ proc'[p] \in ProcType /\ proc'[p].pc = "resolve" /\ proc'[p].round = 2
        /\ proc'[p].said = said /\ proc'[p].report = proc[p].report
    <3>1. proc[p] \in ProcType
      BY <1>1
    <3> QED BY <1>5, <2>3, <3>1, Becomes
  <2>5. Agreed(proc'[p]) /\ AsSeen(proc[p])' /\ Waits(proc[p])
    BY <1>1, <1>2, <2>1, <2>4 DEF Agreed, AsSeen, Guarded, Launching, Waits, checks
  <2>6. proc' = [proc EXCEPT ![p] = proc'[p]]
    BY <1>1, <2>2, <2>3 DEF Repeats
  <2> QED BY <1>1, <1>6, <2>4, <2>5, <2>6, OwnStep
<1>8. CASE Authorize(checks, said) # "ok"
  <2> DEFINE code == Authorize(checks, said)
  <2>1. code \in Exits
    BY <1>3, AuthorizeIs
  <2>2. proc' = [proc EXCEPT ![p] = [Idle EXCEPT !.exit = code]]
    BY <1>4, <1>8 DEF Exit
  <2> HIDE DEF code
  <2> QED BY <1>1, <1>6, <2>1, <2>2, GivesUp
<1> QED BY <1>7, <1>8

LEMMA DiffersKeeps ==
    ASSUME ResumeInv, NEW p \in Procs, Differs(p)
    PROVE  ResumeInv'
<1>1. /\ Surroundings /\ proc[p].pc = "verify" /\ "safety" \in Exits
      /\ UNCHANGED <<outside, row, baseline, clock, commands>>
      /\ proc' = [proc EXCEPT ![p] = [Idle EXCEPT !.exit = "safety"]]
  BY DEF ResumeInv, Typed, Differs, Exit, Exits
<1>2. Surroundings' /\ UNCHANGED <<env, native, baseline>>
  BY <1>1, SameSurroundings DEF Surroundings
<1> QED BY <1>1, <1>2, GivesUp

LEMMA VerifySecondKeeps ==
    ASSUME ResumeInv, NEW p \in Procs, VerifySecond(p)
    PROVE  ResumeInv'
<1> DEFINE candidate == BaselineFromReport(env, clock')
<1>1. /\ proc \in [Procs -> ProcType] /\ Surroundings
  BY DEF ResumeInv, Typed
<1>2. /\ proc[p].pc = "verify" /\ proc[p].round = 2 /\ clock' = clock + 1
      /\ proc' = [proc EXCEPT ![p].pc = "boundary", ![p].moved = FALSE, ![p].candidate = candidate]
      /\ UNCHANGED <<outside, row, baseline, commands>>
  BY DEF VerifySecond
<1>3. Waits(proc[p]) /\ p \in Pending
  BY <1>2 DEF Waits, Pending
<1>4. clock' \in 1..MaxCommands
  <2> DEFINE some == Pending
             count == Cardinality(some)
  <2>1. IsFiniteSet(some) /\ clock + count <= commands /\ clock \in Nat /\ commands \in 0..MaxCommands
    BY <1>1 DEF ResumeInv, Typed, Surroundings
  <2>2. count \in Nat /\ count # 0
    BY <1>3, <2>1, FS_CardinalityType, FS_EmptySet
  <2> HIDE DEF count
  <2> QED BY <1>2, <2>1, <2>2, ResumeAssumption
<1>5. candidate \in Baselines
  BY <1>1, <1>4, LooksAre DEF Surroundings
<1> HIDE DEF candidate
<1>6. proc'[p] = Takes(proc[p], candidate)
  BY <1>1, <1>2 DEF Takes
<1>7. /\ proc'[p] \in ProcType /\ proc'[p].pc = "boundary" /\ proc'[p].round = 2
      /\ proc'[p].candidate \in Baselines
      /\ proc'[p].said = proc[p].said /\ proc'[p].report = proc[p].report
  <2>1. proc[p] \in ProcType
    BY <1>1
  <2> QED BY <1>2, <1>5, <1>6, <2>1, Becomes
<1>8. Agreed(proc'[p]) /\ AsSeen(proc[p])' /\ ~Waits(proc'[p])
  <2>1. /\ proc[p].report \in Looks /\ Blockers(proc[p].report.checks) = {}
        /\ WarningIDs(proc[p].report.checks) = proc[p].said
    BY <1>2 DEF ResumeInv, Agreed
  <2>2. Agreed(proc'[p])
    BY <1>2, <1>7, <2>1 DEF Agreed, Launching
  <2>3. AsSeen(proc[p])' /\ ~Waits(proc'[p])
    BY <1>7 DEF AsSeen, Guarded, Waits
  <2> QED BY <2>2, <2>3
<1>9. Surroundings' /\ UNCHANGED <<env, native, baseline>>
  BY <1>1, <1>2, <1>4, SameSurroundings DEF Surroundings
<1>10. proc' = [proc EXCEPT ![p] = proc'[p]]
  BY <1>1, <1>2, <1>6 DEF Takes
<1> QED BY <1>2, <1>3, <1>7, <1>8, <1>9, <1>10, OwnStep

LEMMA BoundaryKeeps ==
    ASSUME ResumeInv, NEW p \in Procs, Boundary(p)
    PROVE  ResumeInv'
<1>1. /\ proc \in [Procs -> ProcType] /\ Surroundings /\ proc[p].pc = "boundary"
      /\ UNCHANGED <<outside, row, baseline, clock, commands>>
  BY DEF ResumeInv, Typed, Boundary
<1>2. Surroundings' /\ UNCHANGED <<env, native, baseline>>
  BY <1>1, SameSurroundings DEF Surroundings
<1>3. CASE proc' = [proc EXCEPT ![p].pc = "resolve", ![p].round = 3]
  <2>1. proc'[p] = Guards(proc[p])
    BY <1>1, <1>3 DEF Guards
  <2>2. /\ proc'[p] \in ProcType /\ proc'[p].pc = "resolve" /\ proc'[p].round = 3
        /\ proc'[p].report = proc[p].report /\ proc'[p].said = proc[p].said
        /\ proc'[p].candidate = proc[p].candidate
    <3>1. proc[p] \in ProcType
      BY <1>1
    <3> QED BY <2>1, <3>1, Becomes
  <2>3. Agreed(proc'[p]) /\ AsSeen(proc[p])' /\ ~Waits(proc'[p])
    <3>1. Agreed(proc[p])
      BY DEF ResumeInv
    <3> QED BY <1>1, <2>2, <3>1 DEF Agreed, AsSeen, Guarded, Launching, Waits
  <2>4. proc' = [proc EXCEPT ![p] = proc'[p]]
    BY <1>1, <1>3, <2>1 DEF Guards
  <2> QED BY <1>1, <1>2, <2>2, <2>3, <2>4, OwnStep
<1>4. CASE \E code \in {"compatibility", "safety"} : Exit(p, code)
  BY <1>1, <1>2, <1>4, GivesUp DEF Exit, Exits
<1> QED BY <1>3, <1>4 DEF Boundary

LEMMA FinalGuardKeeps ==
    ASSUME ResumeInv, NEW p \in Procs, FinalGuard(p)
    PROVE  ResumeInv'
<1>1. /\ proc \in [Procs -> ProcType] /\ Surroundings
      /\ proc[p].pc = "verify" /\ proc[p].round = 3
      /\ UNCHANGED <<outside, row, baseline, clock, commands>>
      /\ proc' = [proc EXCEPT ![p].pc = "start", ![p].moved = FALSE]
  BY DEF ResumeInv, Typed, FinalGuard, Goto
<1>2. PICK report \in Reports(p) : Holds(p, report)
  BY Zenon DEF FinalGuard
<1>3. proc[p].report \in Reports(p)
  BY <1>2 DEF Holds
<1>4. /\ proc[p].report \in Looks /\ proc[p].report.observed = env
      /\ proc[p].report.checks = Checks(env, baseline, Recorded, proc[p].fresh, proc[p].report.busy)
      /\ proc[p].report.busy \in {"unknown", IF InUse THEN "busy" ELSE "free"}
  BY <1>3, ReportsAre
<1>5. Blockers(proc[p].report.checks) = {}
  BY <1>1 DEF ResumeInv, Agreed
<1>6. proc[p].fresh
  <2>1. \A c \in SourceChecks(proc[p].fresh, baseline) : c.severity = "warning"
    BY <1>4, <1>5, ReportIs DEF AllChecks
  <2>2. ASSUME ~proc[p].fresh PROVE Block("source.fresh", "", "safety") \in SourceChecks(proc[p].fresh, baseline)
    BY <2>2 DEF SourceChecks, If
  <2> QED BY <2>1, <2>2, WarningIs
<1>7. proc[p].fresh = TRUE
  BY <1>1, <1>6 DEF ProcType
<1>8. proc[p].report.checks = Checks(env, baseline, Recorded, TRUE, proc[p].report.busy)
  BY <1>4, <1>7
<1>9. proc[p] \in ProcType /\ proc'[p] = [proc[p] EXCEPT !.pc = "start", !.moved = FALSE]
  BY <1>1
<1>10. /\ proc'[p] \in ProcType /\ proc'[p].pc = "start" /\ proc'[p].round = 3
       /\ proc'[p].report = proc[p].report /\ proc'[p].said = proc[p].said
       /\ proc'[p].candidate = proc[p].candidate
  <2>1. proc'[p] \in ProcType
    BY <1>9, Zenon DEF ProcType, Phases
  <2>2. /\ proc'[p].pc = "start" /\ proc'[p].round = proc[p].round
        /\ proc'[p].report = proc[p].report /\ proc'[p].said = proc[p].said
        /\ proc'[p].candidate = proc[p].candidate
    BY <1>9 DEF ProcType
  <2> QED BY <1>1, <2>1, <2>2
<1>11. Agreed(proc'[p]) /\ ~Waits(proc'[p])
  BY <1>1, <1>10 DEF ResumeInv, Agreed, Launching, Waits
<1>12. Surroundings' /\ UNCHANGED <<env, native, baseline>>
  BY <1>1, SameSurroundings DEF Surroundings
<1>13. InUse' <=> InUse
  <2>1. \A q \in Procs : proc'[q].pc = "running" <=> proc[q].pc = "running"
    BY <1>1, <1>9
  <2> QED BY <1>12, <2>1 DEF InUse
<1>14. AsSeen(proc[p])'
  BY <1>4, <1>8, <1>10, <1>12, <1>13 DEF AsSeen, Guarded
<1>15. proc' = [proc EXCEPT ![p] = proc'[p]]
  BY <1>1, <1>9
<1> QED BY <1>1, <1>10, <1>11, <1>12, <1>14, <1>15, OwnStep

(* A process that goes on from its launch.                                 *)
Goes(r, pc) == [r EXCEPT !.pc = pc]

LEMMA GoesOn ==
    ASSUME NEW r \in ProcType, Agreed(r), NEW pc \in {"recheck", "exec", "running", "store"}, r.pc \in Launching
    PROVE  /\ Goes(r, pc) \in ProcType /\ Agreed(Goes(r, pc)) /\ ~Waits(Goes(r, pc))
           /\ Goes(r, pc).pc = pc
<1>1. pc \in Phases /\ pc \in Launching
  BY DEF Phases, Launching
<1>2. /\ Goes(r, pc) \in ProcType /\ Goes(r, pc).pc = pc /\ Goes(r, pc).round = r.round
      /\ Goes(r, pc).report = r.report /\ Goes(r, pc).said = r.said
      /\ Goes(r, pc).candidate = r.candidate
  BY <1>1 DEF ProcType, Goes
<1>3. Agreed(Goes(r, pc)) /\ ~Waits(Goes(r, pc))
  BY <1>1, <1>2 DEF Agreed, Waits, Launching
<1> QED BY <1>2, <1>3

(* p goes on and the others are told.                                      *)
LEMMA GoesOnKeeps ==
    ASSUME ResumeInv, NEW p \in Procs, proc[p].pc \in Launching, NEW pc \in {"running", "store"},
           proc' = [Moved(proc) EXCEPT ![p].pc = pc],
           UNCHANGED <<outside, row, baseline, clock, commands>>
    PROVE  ResumeInv'
<1>1. proc \in [Procs -> ProcType] /\ Moved(proc) \in [Procs -> ProcType] /\ Surroundings
  BY MovedIs DEF ResumeInv, Typed
<1>2. Surroundings'
  BY <1>1, SameSurroundings DEF Surroundings
<1>3. Agreed(Moved(proc)[p]) /\ Moved(proc)[p].pc \in Launching
  BY <1>1, MovedIs, MovedAgrees DEF ResumeInv
<1>4. proc'[p] = Goes(Moved(proc)[p], pc)
  BY <1>1 DEF Goes
<1>5. proc'[p] \in ProcType /\ Agreed(proc'[p]) /\ ~Waits(proc'[p]) /\ proc'[p].pc = pc
  BY <1>1, <1>3, <1>4, GoesOn
<1>6. AsSeen(proc[p])'
  BY <1>5 DEF AsSeen, Guarded
<1>7. proc' = [Moved(proc) EXCEPT ![p] = proc'[p]]
  BY <1>1, <1>4 DEF Goes
<1> QED BY <1>2, <1>5, <1>6, <1>7, OwnStep

(* The two comparisons after the guard.                                    *)
LEMMA ComparesKeeps ==
    ASSUME ResumeInv, NEW p \in Procs, RecheckProgram(p) \/ RecheckDirectory(p)
    PROVE  ResumeInv'
<1>1. /\ proc \in [Procs -> ProcType] /\ Surroundings /\ proc[p].pc \in {"start", "recheck"}
      /\ UNCHANGED <<outside, row, baseline, clock, commands>>
  BY DEF ResumeInv, Typed, RecheckProgram, RecheckDirectory, Compares
<1>2. Surroundings' /\ UNCHANGED <<env, native>>
  BY <1>1, SameSurroundings DEF Surroundings
<1>3. CASE Exit(p, "safety")
  BY <1>1, <1>2, <1>3, GivesUp DEF Exit, Exits
<1>4. ASSUME NEW pc \in {"recheck", "exec"}, proc' = [proc EXCEPT ![p].pc = pc],
             ~proc[p].late => env.executable = proc[p].report.observed.executable,
             pc = "exec" /\ ~proc[p].late => env.directory = proc[p].report.observed.directory
      PROVE  ResumeInv'
  <2>1. proc[p] \in ProcType /\ Agreed(proc[p]) /\ AsSeen(proc[p]) /\ proc[p].pc \in Launching
    BY <1>1 DEF ResumeInv, Launching
  <2>2. proc'[p] = Goes(proc[p], pc)
    BY <1>1, <1>4 DEF Goes
  <2>3. proc'[p] \in ProcType /\ Agreed(proc'[p]) /\ ~Waits(proc'[p]) /\ proc'[p].pc = pc
    BY <2>1, <2>2, GoesOn
  <2>4. /\ proc'[p].report = proc[p].report /\ proc'[p].moved = proc[p].moved
        /\ proc'[p].late = proc[p].late
    BY <2>1, <2>2 DEF Goes, ProcType
  <2>5. InUse' <=> InUse
    <3>1. \A q \in Procs : proc'[q].pc = "running" <=> proc[q].pc = "running"
      BY <1>1, <1>4
    <3> QED BY <1>2, <3>1 DEF InUse
  <2>6. AsSeen(proc[p])'
    <3>1. ~proc[p].moved => /\ env = proc[p].report.observed
                            /\ proc[p].report.checks = Checks(env, baseline, Recorded, TRUE, proc[p].report.busy)
                            /\ proc[p].report.busy \in {"unknown", IF InUse THEN "busy" ELSE "free"}
      BY <1>1, <2>1 DEF AsSeen, Guarded
    <3> QED BY <1>1, <1>2, <1>4, <2>3, <2>4, <2>5, <3>1 DEF AsSeen
  <2>7. proc' = [proc EXCEPT ![p] = proc'[p]]
    BY <1>1, <1>4, <2>2 DEF Goes
  <2> QED BY <1>1, <1>2, <1>4, <2>3, <2>6, <2>7, OwnStep
<1>5. CASE RecheckProgram(p) /\ proc' = [proc EXCEPT ![p].pc = "recheck"]
  <2>1. Exit(p, "safety") \/ env.executable = proc[p].report.observed.executable
    BY <1>5 DEF RecheckProgram, Compares
  <2> QED BY <1>3, <1>4, <1>5, <2>1
<1>6. CASE RecheckDirectory(p) /\ proc' = [proc EXCEPT ![p].pc = "exec"]
  <2>1. Exit(p, "safety") \/ env.directory = proc[p].report.observed.directory
    BY <1>6 DEF RecheckDirectory, Compares
  <2>2. proc[p].pc = "recheck" /\ AsSeen(proc[p])
    BY <1>6 DEF RecheckDirectory, Compares, ResumeInv
  <2>3. ~proc[p].late => env.executable = proc[p].report.observed.executable
    BY <2>2 DEF AsSeen
  <2> QED BY <1>3, <1>4, <1>6, <2>1, <2>3
<1> QED BY <1>3, <1>5, <1>6 DEF RecheckProgram, RecheckDirectory, Compares

LEMMA StartKeeps ==
    ASSUME ResumeInv, NEW p \in Procs, Start(p)
    PROVE  ResumeInv'
<1>1. /\ proc[p].pc = "exec" /\ "exec" \in Launching /\ "runtime" \in Exits
      /\ UNCHANGED <<outside, row, baseline, clock, commands>> /\ Surroundings
  BY DEF Start, Launching, Exits, ResumeInv, Typed
<1>2. Surroundings' /\ UNCHANGED <<env, native>>
  BY <1>1, SameSurroundings DEF Surroundings
<1>3. CASE proc' = [Moved(proc) EXCEPT ![p].pc = "running"]
  BY <1>1, <1>3, GoesOnKeeps
<1>4. CASE Exit(p, "runtime")
  BY <1>1, <1>2, <1>4, GivesUp DEF Exit
<1> QED BY <1>3, <1>4 DEF Start

LEMMA ChildEndsKeeps ==
    ASSUME ResumeInv, NEW p \in Procs, ChildEnds(p)
    PROVE  ResumeInv'
<1>1. /\ proc[p].pc = "running" /\ "running" \in Launching /\ "runtime" \in Exits
      /\ UNCHANGED <<outside, row, baseline, clock, commands>> /\ Surroundings
  BY DEF ChildEnds, Launching, Exits, ResumeInv, Typed
<1>2. Surroundings'
  BY <1>1, SameSurroundings DEF Surroundings
<1>3. CASE proc' = [Moved(proc) EXCEPT ![p].pc = "store"]
  BY <1>1, <1>3, GoesOnKeeps
<1>4. CASE proc' = [Moved(proc) EXCEPT ![p] = [Idle EXCEPT !.exit = "runtime"]]
  BY <1>1, <1>2, <1>4, GivesUp
<1> QED BY <1>3, <1>4 DEF ChildEnds

LEMMA StoreKeeps ==
    ASSUME ResumeInv, NEW p \in Procs, Store(p)
    PROVE  ResumeInv'
<1>1. /\ proc[p].pc = "store" /\ "runtime" \in Exits /\ "ok" \in Exits
      /\ UNCHANGED <<outside, row, clock, commands>> /\ Surroundings
  BY DEF Store, Exits, ResumeInv, Typed
<1>2. proc[p].candidate \in Baselines
  BY <1>1 DEF ResumeInv, Agreed, Launching
<1>3. CASE /\ row # "absent" /\ baseline' = proc[p].candidate
           /\ proc' = [Moved(proc) EXCEPT ![p] = Idle]
  <2>1. UNCHANGED <<env, session, native, changes, row, clock, commands>> /\ baseline' \in Baselines
    BY <1>1, <1>2, <1>3 DEF outside
  <2>2. Surroundings'
    <3>1. baseline' \in Baselines \cup {None} /\ row' # "absent"
      BY <1>3, <2>1
    <3>2. native' \in BOOLEAN
      BY <1>1, <2>1 DEF Surroundings
    <3>3. /\ env' \in Environments /\ session' \in Sessions /\ row' \in Sessions
          /\ changes' \in 0..MaxChanges /\ commands' \in 0..MaxCommands /\ clock' \in Nat
      BY <1>1, <2>1 DEF Surroundings
    <3> QED BY <3>1, <3>2, <3>3 DEF Surroundings
  <2>3. Idle = [Idle EXCEPT !.exit = "ok"]
    <3>1. Idle \in ProcType /\ Idle.exit = "ok"
      BY IdleIs DEF Idle
    <3> QED BY <3>1 DEF ProcType
  <2> QED BY <1>1, <1>3, <2>2, <2>3, GivesUp
<1>4. CASE Exit(p, "runtime") /\ baseline' = baseline
  <2>1. Surroundings' /\ UNCHANGED <<env, native>>
    BY <1>1, <1>4, SameSurroundings DEF Surroundings
  <2> QED BY <1>1, <1>4, <2>1, GivesUp DEF Exit
<1> QED BY <1>3, <1>4 DEF Store

LEMMA DiesKeeps ==
    ASSUME ResumeInv, NEW p \in Procs, Dies(p)
    PROVE  ResumeInv'
<1>1. /\ proc' = [Moved(proc) EXCEPT ![p] = [Idle EXCEPT !.exit = "failed"]]
      /\ "failed" \in Exits /\ UNCHANGED <<clock, commands>>
  BY DEF Dies, Exits
<1>2. native \in BOOLEAN /\ (native \/ proc[p].pc = "running") \in BOOLEAN
  BY DEF ResumeInv, Typed, Surroundings
<1>3. native' \in BOOLEAN
  BY <1>2 DEF Dies
<1>4. changes' \in 0..MaxChanges
  BY ResumeAssumption DEF Dies, ResumeInv, Typed, Surroundings
<1>5. Surroundings'
  BY <1>3, <1>4 DEF Dies, ResumeInv, Typed, Surroundings
<1> QED BY <1>1, <1>5, GivesUp

LEMMA OutsideKeeps ==
    ASSUME ResumeInv, EnvironmentChanges \/ SessionChanges \/ AgentComesOrGoes
    PROVE  ResumeInv'
<1>1. /\ proc' = Moved(proc) /\ UNCHANGED <<row, baseline, clock, commands>>
      /\ changes < MaxChanges /\ changes' = changes + 1
  BY DEF EnvironmentChanges, SessionChanges, AgentComesOrGoes, Changes
<1>2. changes' \in 0..MaxChanges
  BY <1>1, ResumeAssumption DEF ResumeInv, Typed, Surroundings
<1>3. native' \in BOOLEAN
  BY DEF EnvironmentChanges, SessionChanges, AgentComesOrGoes, ResumeInv, Typed, Surroundings
<1>4. env' \in Environments /\ session' \in Sessions
  BY DEF EnvironmentChanges, SessionChanges, AgentComesOrGoes, ResumeInv, Typed, Surroundings
<1>5. Surroundings'
  BY <1>1, <1>2, <1>3, <1>4 DEF ResumeInv, Typed, Surroundings
<1> QED BY <1>1, <1>5, Told DEF ResumeInv, Typed

LEMMA StutterKeeps ==
    ASSUME ResumeInv, UNCHANGED vars
    PROVE  ResumeInv'
<1>1. UNCHANGED <<env, session, native, row, baseline, proc, clock, changes, commands>>
  BY DEF vars
<1>2. Surroundings' /\ Pending' = Pending /\ (InUse' <=> InUse)
  BY <1>1 DEF ResumeInv, Typed, Surroundings, Pending, InUse
<1>3. \A q \in Procs : Agreed(proc[q])' /\ AsSeen(proc[q])'
  BY <1>1, <1>2 DEF ResumeInv, AsSeen
<1> QED BY <1>1, <1>2, <1>3 DEF ResumeInv, Typed

LEMMA Starting == Init => ResumeInv
<1> SUFFICES ASSUME Init PROVE ResumeInv
  OBVIOUS
<1>1. Surroundings
  <2>1. native \in BOOLEAN /\ env \in Environments /\ session \in Sessions /\ row \in Sessions
    BY DEF Init, Sessions
  <2>2. baseline \in Baselines \cup {None} /\ (row = "absent" => baseline = None)
    BY DEF Init
  <2>3. changes \in 0..MaxChanges /\ commands \in 0..MaxCommands /\ clock \in Nat
    BY ResumeAssumption DEF Init
  <2> QED BY <2>1, <2>2, <2>3 DEF Surroundings
<1>2. \A p \in Procs : proc[p] = Idle /\ proc[p].pc = "idle" /\ proc[p].round = 1
  BY DEF Init, Idle
<1>3. proc \in [Procs -> ProcType]
  BY IdleIs DEF Init
<1>4. Pending = {}
  BY <1>2 DEF Pending, Waits
<1>5. IsFiniteSet(Pending) /\ clock + Cardinality(Pending) <= commands
  BY <1>4, FS_EmptySet DEF Init
<1>6. ASSUME NEW p \in Procs PROVE Agreed(proc[p]) /\ AsSeen(proc[p])
  <2>1. proc[p].pc = "idle" /\ proc[p].round = 1
    BY <1>2
  <2> QED BY <2>1 DEF Agreed, AsSeen, Guarded, Launching
<1> QED BY <1>1, <1>3, <1>5, <1>6 DEF ResumeInv, Typed

LEMMA Preserving == ResumeInv /\ [Next]_vars => ResumeInv'
<1> SUFFICES ASSUME ResumeInv, [Next]_vars PROVE ResumeInv'
  OBVIOUS
<1>1. ASSUME NEW p \in Procs, Step(p) PROVE ResumeInv'
  BY <1>1, BeginKeeps, ResolveKeeps, VerifyFirstKeeps, AuthorizeFirstKeeps, DiffersKeeps,
     VerifySecondKeeps, BoundaryKeeps, FinalGuardKeeps, ComparesKeeps, StartKeeps, ChildEndsKeeps, StoreKeeps,
     DiesKeeps, Zenon DEF Step
<1> QED BY <1>1, OutsideKeeps, StutterKeeps DEF Next

LEMMA Held == Spec => []ResumeInv
BY Starting, Preserving, PTL DEF Spec

------------------------------------------------------------------------------
(* What a launch goes on with was authorized, and its baseline settles it.  *)
LEMMA InvIsConsistent == ResumeInv => ResumeConsistent
<1> SUFFICES ASSUME ResumeInv PROVE ResumeConsistent
  OBVIOUS
<1>1. proc \in [Procs -> ProcType] /\ Surroundings
  BY DEF ResumeInv, Typed
<1>2. clock \in 0..commands
  <2> DEFINE some == Pending
             count == Cardinality(some)
  <2>1. IsFiniteSet(some) /\ clock + count <= commands /\ clock \in Nat /\ commands \in Nat
    BY DEF ResumeInv, Typed, Surroundings
  <2>2. count \in Nat
    BY <2>1, FS_CardinalityType
  <2> HIDE DEF count
  <2> QED BY <2>1, <2>2
<1>3. \A p \in Procs : proc[p].report # NoReport => proc[p].report.observed \in Environments
  BY <1>1, LooksAre DEF ProcType
<1>4. TypeOK
  BY <1>1, <1>2, <1>3 DEF TypeOK, Surroundings, ProcType
<1>5. LaunchIsAuthorized
  BY LooksAre DEF LaunchIsAuthorized, ResumeInv, Agreed, Launching
<1>6. SettledBaseline
  BY BaselineSettles DEF SettledBaseline
<1> QED BY <1>4, <1>5, <1>6 DEF ResumeConsistent

(* In every behaviour the state is well-typed, a launch goes on only with  *)
(* what its user acknowledged of a report without a blocker, and what it   *)
(* leaves behind settles that (launchLocalRecord, Authorize and            *)
(* BaselineFromReport).                                                    *)
THEOREM ResumeStaysConsistent == Spec => []ResumeConsistent
BY Held, InvIsConsistent, PTL

(* A step of q is no start of another process.                             *)
LEMMA OthersStay ==
    ASSUME ResumeInv, NEW p \in Procs, NEW q \in Procs, q # p, Step(q)
    PROVE  proc'[p].pc = proc[p].pc
<1>1. proc \in [Procs -> ProcType] /\ Moved(proc) \in [Procs -> ProcType]
      /\ Moved(proc)[p].pc = proc[p].pc
  BY MovedIs DEF ResumeInv, Typed
<1>2. ASSUME NEW r, \/ proc' = [proc EXCEPT ![q] = r] \/ proc' = [Moved(proc) EXCEPT ![q] = r]
      PROVE  proc'[p].pc = proc[p].pc
  BY <1>1, <1>2
<1>3. ASSUME NEW terminal \in BOOLEAN, NEW allowed \in Allowances, Begin(q, terminal, allowed)
      PROVE  proc'[p].pc = proc[p].pc
  BY <1>1, <1>3 DEF Begin
<1>4. CASE Resolve(q)
  BY <1>1, <1>4 DEF Resolve
<1>5. CASE VerifyFirst(q)
  BY <1>1, <1>5 DEF VerifyFirst
<1>6. CASE AuthorizeFirst(q)
  BY <1>1, <1>6 DEF AuthorizeFirst, Exit
<1>7. CASE Differs(q)
  BY <1>1, <1>7 DEF Differs, Exit
<1>8. CASE VerifySecond(q)
  BY <1>1, <1>8 DEF VerifySecond
<1>9. CASE Boundary(q)
  BY <1>1, <1>9 DEF Boundary, Exit
<1>10. CASE FinalGuard(q)
  BY <1>1, <1>10 DEF FinalGuard, Goto
<1>11. CASE Start(q)
  BY <1>1, <1>11 DEF Start, Exit
<1>15. CASE RecheckProgram(q) \/ RecheckDirectory(q)
  BY <1>1, <1>15 DEF RecheckProgram, RecheckDirectory, Compares, Exit
<1>12. CASE ChildEnds(q)
  BY <1>1, <1>12 DEF ChildEnds
<1>13. CASE Store(q)
  BY <1>1, <1>13 DEF Store, Exit
<1>14. CASE Dies(q)
  BY <1>1, <1>14 DEF Dies
<1> QED BY <1>3, <1>4, <1>5, <1>6, <1>7, <1>8, <1>9, <1>10, <1>11, <1>12, <1>13, <1>14, <1>15 DEF Step

(* A child starts by Start.                                                *)
LEMMA StartIs ==
    ASSUME ResumeInv, Next, NEW p \in Procs, Starts(p)
    PROVE  proc[p].pc = "exec" /\ UNCHANGED <<env, native, baseline>>
<1>1. proc \in [Procs -> ProcType] /\ proc[p].pc = "exec" /\ proc'[p].pc = "running"
  BY DEF Starts, ResumeInv, Typed
<1>2. ~ (proc' = Moved(proc))
  BY <1>1, MovedIs
<1>3. PICK q \in Procs : Step(q)
  BY <1>2, Zenon DEF Next, EnvironmentChanges, SessionChanges, AgentComesOrGoes, Changes
<1>4. q = p
  BY <1>1, <1>3, OthersStay
<1>5. ~Dies(p)
  <2>1. ASSUME Dies(p) PROVE proc'[p] = [Idle EXCEPT !.exit = "failed"]
    BY <1>1, <2>1, MovedIs DEF Dies
  <2> QED BY <1>1, <2>1, IdleIs DEF Exits
<1>6. Start(p)
  BY <1>1, <1>3, <1>4, <1>5 DEF Step, Begin, Resolve, VerifyFirst, AuthorizeFirst, Differs,
     VerifySecond, Boundary, FinalGuard, RecheckProgram, RecheckDirectory, Compares, ChildEnds, Store
<1> QED BY <1>1, <1>6 DEF Start, outside

LEMMA StartsSafely ==
    ResumeInv /\ [Next]_vars => [LaunchIsAcknowledged /\ ChildIsTheProbedOne]_vars
<1> SUFFICES ASSUME ResumeInv, Next PROVE LaunchIsAcknowledged /\ ChildIsTheProbedOne
  OBVIOUS
<1>1. ASSUME NEW p \in Procs, Starts(p), ~proc[p].late
      PROVE  /\ env.executable = proc[p].report.observed.executable
             /\ env.directory = proc[p].report.observed.directory
  BY <1>1, StartIs DEF ResumeInv, AsSeen
<1>2. ASSUME NEW p \in Procs, Starts(p), ~proc[p].moved
      PROVE  LET busy == IF proc[p].report.busy = "unknown" THEN "unknown"
                         ELSE IF InUse THEN "busy" ELSE "free"
                 now == Checks(env, baseline, Recorded, TRUE, busy)
             IN  /\ env = proc[p].report.observed
                 /\ Blockers(now) = {}
                 /\ WarningIDs(now) = proc[p].said
  <2>1. proc[p].pc = "exec"
    BY <1>2 DEF Starts
  <2>2. /\ env = proc[p].report.observed
        /\ proc[p].report.checks = Checks(env, baseline, Recorded, TRUE, proc[p].report.busy)
        /\ proc[p].report.busy \in {"unknown", IF InUse THEN "busy" ELSE "free"}
    BY <1>2, <2>1 DEF ResumeInv, AsSeen, Guarded
  <2>3. /\ Blockers(proc[p].report.checks) = {}
        /\ WarningIDs(proc[p].report.checks) = proc[p].said
    BY <2>1 DEF ResumeInv, Agreed, Launching
  <2>4. proc[p].report.busy = IF proc[p].report.busy = "unknown" THEN "unknown"
                              ELSE IF InUse THEN "busy" ELSE "free"
    BY <2>2
  <2> QED BY <2>2, <2>3, <2>4
<1>3. LaunchIsAcknowledged
  BY <1>2 DEF LaunchIsAcknowledged
<1>4. ChildIsTheProbedOne
  BY <1>1 DEF ChildIsTheProbedOne
<1> QED BY <1>3, <1>4

(* Every child starts as its user agreed, unless something changed after   *)
(* the final guard, and in the program and the directory that were probed, *)
(* unless something changed after their last comparison                    *)
(* (finalEnvironmentGuard and ExecLaunchRunner.Run).                       *)
THEOREM LaunchesAreSafe == Spec => LaunchIsSafe
BY Held, StartsSafely, PTL DEF Spec, LaunchIsSafe

=============================================================================
