------------------------------ MODULE Handoff ------------------------------
(***************************************************************************)
(* rein handoff (internal/handoff, internal/cli/handoff.go): a session of  *)
(* one agent is made into a capsule, stored, and a session of another      *)
(* agent is started from it; lineage.jsonl says which session came of      *)
(* which.  A command plans before it executes, again while it executes and *)
(* a third time when the child is about to start, because the source, the  *)
(* environment and the lineage may change in between.                      *)
(*                                                                         *)
(* A handoff's id is a digest of what its capsule says, so here it is the  *)
(* record of what it is made from, and the destination's session has the   *)
(* id of its handoff (the pinned session id is derived from it).           *)
(* Origin is a Codex session.  What comes of it is a Claude session, and   *)
(* what comes of that is a Qwen session, which is not handed off again.    *)
(***************************************************************************)
EXTENDS Naturals, Sequences, FiniteSets, SequencesExt

CONSTANTS Procs,        \* processes that run rein handoff
          Askers,       \* processes that run rein handoff inspect
          Origin,       \* the session that is handed off first
          NoRoot,       \* no ancestor is recorded
          Warnings,     \* what the environment check may warn of
          MaxVersions,  \* bound: changes of the origin's transcript
          MaxCommands,  \* bound: commands
          MaxFaults,    \* bound: processes that die, writes that fail
          MaxListLimit  \* how many lines a listing looks back (maxListLimit)

ASSUME HandoffAssumption ==
    /\ MaxVersions \in Nat /\ MaxCommands \in Nat /\ MaxFaults \in Nat
    /\ MaxListLimit \in Nat \ {0}

VARIABLES version,   \* the version of the origin's transcript
          warnings,  \* what the environment check would warn of now
          sessions,  \* the destination sessions that have a file
          capsules,  \* the handoffs whose capsule.json is stored
          lines,     \* the well-formed lines of lineage.jsonl, oldest first
          torn,      \* the file ends in a part of a line
          proc,      \* proc[p]: the handoff process p carries out
          asker,     \* asker[q]: the answer process q records
          orphans,   \* children whose command died
          commands,  \* how many commands have begun
          faults     \* faults so far

vars == <<version, warnings, sessions, capsules, lines, torn, proc, asker,
          orphans, commands, faults>>

FirstIds == [from : {Origin}, version : 0..MaxVersions, root : {NoRoot},
             partial : {FALSE}]

SecondIds == [from : FirstIds, version : {0}, root : FirstIds \cup {NoRoot},
              partial : BOOLEAN]

Ids == FirstIds \cup SecondIds

(* The first session is none that a handoff started.                        *)
ASSUME OriginAssumption == Origin \notin Ids /\ NoRoot \notin Ids

(* The lineage root in a capsule: a handoff that has no ancestor is its own.*)
LineageRoot(h) == IF h.root = NoRoot THEN h ELSE h.root

Answers == {"none", "yes", "no"}

Entries == [id : Ids, launched : BOOLEAN, resolved : BOOLEAN, ack : Answers]

Entry(h, launched, resolved) ==
    [id |-> h, launched |-> launched, resolved |-> resolved, ack |-> "none"]

(* What the user asked for: the source, whether to launch, the warnings     *)
(* acknowledged, whether a source in use will do.  Options that could make  *)
(* no difference, or only a refusal, are left out.                          *)
Options ==
    {o \in [from : {Origin} \cup FirstIds, launch : BOOLEAN,
            allowed : SUBSET Warnings, active : BOOLEAN] :
        /\ o.from = Origin => ~ o.active
        /\ ~ o.launch => o.allowed = {}}

NoOptions == [from |-> Origin, launch |-> FALSE, allowed |-> {}, active |-> FALSE]

FirstId(v) == [from |-> Origin, version |-> v, root |-> NoRoot, partial |-> FALSE]

(* at: where Execute is; want: the plan the user was shown; plan: what is   *)
(* executed; steady: nothing changed since the last plan was compared.      *)
Idle == [at |-> "idle", opts |-> NoOptions,
         want |-> [id |-> FirstId(0), warnings |-> {}],
         plan |-> FirstId(0), steady |-> FALSE]

Quiet == [at |-> "idle", entry |-> Entry(FirstId(0), FALSE, FALSE)]

Init ==
    /\ version = 0 /\ warnings \in SUBSET Warnings
    /\ sessions = {} /\ capsules = {} /\ lines = <<>> /\ torn = FALSE
    /\ proc = [p \in Procs |-> Idle] /\ asker = [q \in Askers |-> Quiet]
    /\ orphans = {} /\ commands = 0 /\ faults = 0

Go(p, place) == proc' = [proc EXCEPT ![p].at = place]

(* Execute returns, or its process dies: every lock it holds is released.   *)
Return(p) == proc' = [proc EXCEPT ![p] = Idle]

ToClaude(h) == h.from = Origin

Running(h) == \E p \in Procs : proc[p].at = "child" /\ proc[p].plan = h

------------------------------------------------------------------------------
(* The lineage file.                                                        *)

(* AppendLineage under the lineage lock: the payload goes to the end of the *)
(* file whatever is there, so that a line which follows a part of a line is *)
(* one malformed line with it.                                              *)
AppendLineage(e) ==
    /\ lines' = IF torn THEN lines ELSE Append(lines, e)
    /\ torn' = FALSE

(* The write fails or the process dies in it: none of the line is there, or *)
(* a part of it.                                                            *)
AppendFails ==
    /\ faults < MaxFaults /\ faults' = faults + 1
    /\ torn' \in {torn, TRUE}
    /\ UNCHANGED lines

(* recoverLineageFromDirs: a stored capsule without a line of its own.      *)
Recovered ==
    {Entry(h, FALSE, FALSE) :
        h \in {c \in capsules : \A i \in DOMAIN lines : lines[i].id # c}}

(* List: the recovered entries, then the lines, newest first.               *)
List(limit) ==
    LET recent == SubSeq(lines, IF Len(lines) > limit THEN Len(lines) - limit + 1
                                ELSE 1, Len(lines))
        all == SetToSeq(Recovered) \o Reverse(recent)
    IN SubSeq(all, 1, IF Len(all) > limit THEN limit ELSE Len(all))

Listing == List(MaxListLimit)

(* A mistake: the last session that was launched, whichever it is.          *)
NewestRoot(from) ==
    LET ended == {i \in DOMAIN lines : lines[i].launched /\ lines[i].resolved}
    IN IF ended = {} THEN NoRoot
       ELSE LineageRoot(lines[CHOOSE i \in ended : \A j \in ended : j <= i].id)

(* sourceLineageRoot: of the handoffs that were launched and whose session  *)
(* is the source, the last one's root.                                      *)
SourceLineageRoot(from) ==
    LET of(e) == e.launched /\ e.resolved /\ e.id = from
        ended == {i \in DOMAIN lines : of(lines[i])}
    IN IF ended = {} THEN NoRoot
       ELSE LineageRoot(lines[CHOOSE i \in ended : \A j \in ended : j <= i].id)

Least(S) == CHOOSE i \in S : \A j \in S : i <= j

(* A mistake: the newest entry decides, also when it has no answer.         *)
GetAcknowledgementOfNewest(h) ==
    LET entries == Listing
        of == {i \in DOMAIN entries : entries[i].id = h}
    IN IF of = {} THEN "none" ELSE entries[Least(of)].ack

(* GetAcknowledgement: the newest entry that has an answer.                 *)
GetAcknowledgement(h) ==
    LET entries == Listing
        told == {i \in DOMAIN entries : entries[i].id = h /\ entries[i].ack # "none"}
    IN IF told = {} THEN "none" ELSE entries[Least(told)].ack

(* latestLineageEntry, or what is known of a handoff that has none.         *)
LatestEntry(h) ==
    LET entries == Listing
        of == {i \in DOMAIN entries : entries[i].id = h}
    IN IF of = {} THEN Entry(h, FALSE, FALSE) ELSE entries[Least(of)]

------------------------------------------------------------------------------
(* Planning.                                                                *)

(* The source is in use.  A listing of the host's processes that fails      *)
(* counts as a source that is not, so a plan may take it either way.        *)
Busy(from) == Running(from) \/ from \in orphans

(* The capsule that Plan makes now of what the options name.                *)
PlannedId(o, partial) ==
    [from |-> o.from, version |-> IF o.from = Origin THEN version ELSE 0,
     root |-> SourceLineageRoot(o.from), partial |-> partial]

(* Plan: the source must not be in use unless that was allowed, an          *)
(* acknowledged warning must be a current one (validateWarningAcks without  *)
(* requireAll), and the destination's session id must be free.              *)
Plans(o) ==
    {[id |-> PlannedId(o, partial), warnings |-> warnings] :
        partial \in {b \in BOOLEAN :
            /\ b => Busy(o.from) /\ o.active
            /\ o.allowed \subseteq warnings
            /\ PlannedId(o, b) \notin sessions}}

(* validateWarningAcks with requireAll, and preflight.Authorize.            *)
Authorized(o, plan) == plan.warnings \subseteq o.allowed

(* The command plans, and Execute follows at once when nothing is launched. *)
Begin(p, o) ==
    /\ proc[p].at = "idle" /\ commands < MaxCommands
    /\ o.from = Origin \/ o.from \in sessions
    /\ \E want \in Plans(o) :
        proc' = [proc EXCEPT ![p] = [Idle EXCEPT !.at = "execute", !.opts = o,
                                                 !.want = want]]
    /\ commands' = commands + 1
    /\ UNCHANGED <<version, warnings, sessions, capsules, lines, torn, asker,
                   orphans, faults>>

(* Execute plans anew.  A launch of Claude goes on under the lock of its    *)
(* session id.                                                              *)
ExecutePlan(p) ==
    /\ proc[p].at = "execute"
    /\ LET o == proc[p].opts
       IN \/ \E now \in Plans(o) :
               /\ o.launch => Authorized(o, now)
               /\ proc' = [proc EXCEPT ![p].plan = now.id,
                     ![p].at = IF o.launch /\ ToClaude(now.id) THEN "lock" ELSE "put"]
          \/ /\ \/ Plans(o) = {} \/ Busy(o.from)
                \/ o.launch /\ ~ warnings \subseteq o.allowed
             /\ Return(p)
    /\ UNCHANGED <<version, warnings, sessions, capsules, lines, torn, asker,
                   orphans, commands, faults>>

(* acquireLock(claudeSessionLockName(id)) ... lock.Close() when Execute     *)
(* returns.                                                                 *)
HoldsSession(p, h) ==
    /\ proc[p].at \in {"check", "put", "append", "boundary", "start", "child", "verify"}
    /\ proc[p].opts.launch /\ ToClaude(h) /\ proc[p].plan = h

(* A mistake: the lock covers the check of the session's id alone.          *)
SessionLockedForCheck(h) == \E q \in Procs : proc[q].at = "check" /\ proc[q].plan = h

SessionLocked(h) == \E q \in Procs : HoldsSession(q, h)

(* The lock is taken, or its holder outlasts writeLockTimeout.              *)
LockSession(p) ==
    /\ proc[p].at = "lock"
    /\ IF SessionLocked(proc[p].plan) THEN Return(p) ELSE Go(p, "check")
    /\ UNCHANGED <<version, warnings, sessions, capsules, lines, torn, asker,
                   orphans, commands, faults>>

(* The final collision check reads the sessions as they are.                *)
CheckCollision(p) ==
    /\ proc[p].at = "check"
    /\ IF proc[p].plan \in sessions THEN Return(p) ELSE Go(p, "put")
    /\ UNCHANGED <<version, warnings, sessions, capsules, lines, torn, asker,
                   orphans, commands, faults>>

(* A mistake: the lineage is written first and the capsule after it.        *)
PutAfterLine(p) ==
    /\ proc[p].at = "put"
    /\ AppendLineage(Entry(proc[p].plan, FALSE, FALSE))
    /\ Go(p, "append")
    /\ UNCHANGED <<version, warnings, sessions, capsules, asker, orphans,
                   commands, faults>>

(* Put: capsule.json is written first, each file as a whole.  The target's  *)
(* Materialize follows and changes nothing that is modelled.                *)
Put(p) ==
    /\ proc[p].at = "put"
    /\ capsules' = capsules \cup {proc[p].plan}
    /\ Go(p, "append")
    /\ UNCHANGED <<version, warnings, sessions, lines, torn, asker, orphans,
                   commands, faults>>

(* The entry that is there before anything is launched.                     *)
AppendFirst(p) ==
    /\ proc[p].at = "append"
    /\ \/ /\ AppendLineage(Entry(proc[p].plan, FALSE, FALSE))
          /\ IF proc[p].opts.launch THEN Go(p, "boundary") ELSE Return(p)
          /\ UNCHANGED faults
       \/ AppendFails /\ Return(p)
    /\ UNCHANGED <<version, warnings, sessions, capsules, asker, orphans, commands>>

(* A mistake: what was authorized when Execute planned is launched.         *)
BoundaryTrusting(p) ==
    /\ proc[p].at = "boundary"
    /\ proc' = [proc EXCEPT ![p].at = "start", ![p].steady = TRUE]
    /\ UNCHANGED <<version, warnings, sessions, capsules, lines, torn, asker,
                   orphans, commands, faults>>

(* BeforeExec: what is launched is what the user was shown, and a third     *)
(* plan gives the same.  Refused, the outcome is that of the first entry    *)
(* and no other is written.                                                 *)
Boundary(p) ==
    /\ proc[p].at = "boundary"
    /\ LET o == proc[p].opts
           same(now) == now = proc[p].want /\ proc[p].plan = now.id
       IN \/ \E now \in Plans(o) :
               /\ same(now) /\ Authorized(o, now)
               /\ proc' = [proc EXCEPT ![p].at = "start", ![p].steady = TRUE]
          \/ /\ \/ Plans(o) = {} \/ Busy(o.from)
                \/ \E now \in Plans(o) : ~ (same(now) /\ Authorized(o, now))
             /\ Return(p)
    /\ UNCHANGED <<version, warnings, sessions, capsules, lines, torn, asker,
                   orphans, commands, faults>>

(* The child is started, or cannot be and Execute returns.  What the user   *)
(* was shown is not looked at again.                                        *)
Start(p) ==
    /\ proc[p].at = "start"
    /\ \/ proc' = [proc EXCEPT ![p] = [Idle EXCEPT !.at = "child", !.plan = proc[p].plan,
                                       !.opts = [@ EXCEPT !.from = proc[p].opts.from,
                                                          !.launch = TRUE]]]
       \/ Return(p)
    /\ UNCHANGED <<version, warnings, sessions, capsules, lines, torn, asker,
                   orphans, commands, faults>>

(* The child writes its session's file.                                     *)
ChildWrites(h) ==
    /\ Running(h) \/ h \in orphans
    /\ h \notin sessions
    /\ sessions' = sessions \cup {h}
    /\ UNCHANGED <<version, warnings, capsules, lines, torn, proc, asker, orphans,
                   commands, faults>>

ChildExits(p) ==
    /\ proc[p].at = "child"
    /\ Go(p, "verify")
    /\ UNCHANGED <<version, warnings, sessions, capsules, lines, torn, asker,
                   orphans, commands, faults>>

(* A mistake: a pinned session id is taken to be the session's.             *)
VerifyPinned(p) ==
    /\ proc[p].at = "verify"
    /\ AppendLineage(Entry(proc[p].plan, TRUE, TRUE))
    /\ Return(p)
    /\ UNCHANGED <<version, warnings, sessions, capsules, asker, orphans,
                   commands, faults>>

(* Verify looks for the session's file, where it knows the directory, and   *)
(* the outcome is appended.                                                 *)
Verify(p) ==
    /\ proc[p].at = "verify"
    /\ \E resolved \in {FALSE, proc[p].plan \in sessions} :
        \/ AppendLineage(Entry(proc[p].plan, TRUE, resolved)) /\ UNCHANGED faults
        \/ AppendFails
    /\ Return(p)
    /\ UNCHANGED <<version, warnings, sessions, capsules, asker, orphans, commands>>

(* The process dies; a child that runs goes on without it.                  *)
Crash(p) ==
    /\ proc[p].at # "idle" /\ faults < MaxFaults
    /\ orphans' = orphans \cup
            (IF proc[p].at = "child" THEN {proc[p].plan} ELSE {})
    /\ Return(p)
    /\ faults' = faults + 1
    /\ UNCHANGED <<version, warnings, sessions, capsules, lines, torn, asker, commands>>

OrphanExits(h) ==
    /\ h \in orphans
    /\ orphans' = orphans \ {h}
    /\ UNCHANGED <<version, warnings, sessions, capsules, lines, torn, proc, asker,
                   commands, faults>>

------------------------------------------------------------------------------
(* rein handoff inspect --acknowledged and --not-acknowledged.              *)

(* RecordAcknowledgement reads what is recorded, under no lock.  The same   *)
(* answer is not recorded twice; another goes into a copy of the newest     *)
(* entry.                                                                   *)
ReadAnswer(q, h, answer) ==
    /\ asker[q].at = "idle" /\ commands < MaxCommands
    /\ h \in capsules
    /\ GetAcknowledgement(h) # answer
    /\ asker' = [asker EXCEPT ![q] =
         [at |-> "append", entry |-> [LatestEntry(h) EXCEPT !.ack = answer]]]
    /\ commands' = commands + 1
    /\ UNCHANGED <<version, warnings, sessions, capsules, lines, torn, proc,
                   orphans, faults>>

RecordAnswer(q) ==
    /\ asker[q].at = "append"
    /\ \/ AppendLineage(asker[q].entry) /\ UNCHANGED faults
       \/ AppendFails
    /\ asker' = [asker EXCEPT ![q] = Quiet]
    /\ UNCHANGED <<version, warnings, sessions, capsules, proc, orphans, commands>>

------------------------------------------------------------------------------
(* The environment.                                                         *)

Unsteady == proc' = [p \in Procs |-> [proc[p] EXCEPT !.steady = FALSE]]

(* The origin's transcript grows.                                           *)
SourceAdvances ==
    /\ version < MaxVersions
    /\ version' = version + 1
    /\ Unsteady
    /\ UNCHANGED <<warnings, sessions, capsules, lines, torn, asker, orphans,
                   commands, faults>>

(* The repository, the agents or the runtimes change under the commands.    *)
EnvironmentChanges ==
    /\ \E w \in Warnings : warnings' = IF w \in warnings THEN warnings \ {w}
                                       ELSE warnings \cup {w}
    /\ Unsteady
    /\ UNCHANGED <<version, sessions, capsules, lines, torn, asker, orphans,
                   commands, faults>>

Next ==
    \/ \E p \in Procs :
        \/ \E o \in Options : Begin(p, o)
        \/ ExecutePlan(p) \/ LockSession(p) \/ CheckCollision(p)
        \/ Put(p) \/ AppendFirst(p) \/ Boundary(p) \/ Start(p)
        \/ ChildExits(p) \/ Verify(p) \/ Crash(p)
    \/ \E h \in {proc[p].plan : p \in Procs} \cup orphans : ChildWrites(h)
    \/ \E h \in orphans : OrphanExits(h)
    \/ \E q \in Askers : \/ \E h \in capsules, a \in {"yes", "no"} : ReadAnswer(q, h, a)
                         \/ RecordAnswer(q)
    \/ SourceAdvances \/ EnvironmentChanges

Spec == Init /\ [][Next]_vars

------------------------------------------------------------------------------
(* Properties.                                                              *)

Places == {"idle", "execute", "lock", "check", "put", "append", "boundary",
           "start", "child", "verify"}

(* The types of the state.  What a command works on is a handoff of the     *)
(* source its options name.                                                 *)
TypeOK ==
    /\ version \in 0..MaxVersions /\ warnings \subseteq Warnings
    /\ sessions \subseteq Ids /\ capsules \subseteq Ids /\ orphans \subseteq Ids
    /\ lines \in Seq(Entries) /\ torn \in BOOLEAN
    /\ \A p \in Procs :
        /\ proc[p].at \in Places /\ proc[p].opts \in Options
        /\ proc[p].want \in [id : Ids, warnings : SUBSET Warnings]
        /\ proc[p].plan \in Ids /\ proc[p].steady \in BOOLEAN
        /\ proc[p].at \notin {"idle", "execute"} => proc[p].plan.from = proc[p].opts.from
    /\ asker \in [Askers -> [at : {"idle", "append"}, entry : Entries]]
    /\ commands \in 0..MaxCommands /\ faults \in 0..MaxFaults

(* rein handoff list shows what is stored and rein handoff inspect finds    *)
(* what is listed, wherever a command died and whatever became of the end   *)
(* of the lineage file (store.go:List, recoverLineageFromDirs).             *)
ListIsTheStore == {Listing[i].id : i \in DOMAIN Listing} = capsules

(* No two commands run a Claude child on one session id, which Claude does  *)
(* not refuse itself (pipeline.go: the lock of the session id).             *)
OneChildPerSession ==
    \A p, q \in Procs :
        /\ p # q /\ proc[p].at = "child" /\ proc[q].at = "child"
        /\ ToClaude(proc[p].plan)
        => proc[p].plan # proc[q].plan

(* A handoff of a handed-off session belongs to that session's lineage and  *)
(* to no other, even when the end of the lineage file was lost              *)
(* (sourceLineageRoot).                                                     *)
RootOfChain ==
    \A h \in capsules :
        h.from # Origin => h.root \in {NoRoot, LineageRoot(h.from)}

(* A session whose handoff is recorded as launched and resolved exists, and *)
(* its capsule is stored (Execute: Put, AppendLineage, Launch, Verify).     *)
ResolvedExists ==
    \A i \in DOMAIN lines :
        lines[i].launched /\ lines[i].resolved => lines[i].id \in sessions \cap capsules

(* What is stored is well formed, no outcome claims a session that is not   *)
(* there, every handoff of a chain names the chain's first session, and one *)
(* child at most has a Claude session (Execute, sourceLineageRoot).         *)
LineageConsistent == TypeOK /\ ResolvedExists /\ RootOfChain /\ OneChildPerSession

(* A child is started on what the user was shown, with every warning        *)
(* acknowledged, unless something changed after the last guard looked       *)
(* (hardenedHandoffRunner, BeforeExec).                                     *)
LaunchIsAsShown ==
    [][\A p \in Procs :
        proc[p].at = "start" /\ proc'[p].at = "child" /\ proc[p].steady =>
            /\ proc[p].plan = proc[p].want.id
            /\ warnings \subseteq proc[p].opts.allowed
            /\ proc[p].opts.from = Origin => proc[p].plan.version = version]_vars

(* An answer the user recorded stands until the user records another        *)
(* (GetAcknowledgement: it never flips back from a later null).             *)
AnswerStands ==
    [][<<lines, capsules>>' # <<lines, capsules>> => \A h \in capsules :
        LET was == GetAcknowledgement(h)
            now == GetAcknowledgement(h)'
        IN was \notin {"none", now} =>
            \E q \in Askers : /\ asker[q].at = "append" /\ asker[q].entry.id = h
                              /\ asker[q].entry.ack = now
                              /\ asker'[q].at = "idle"]_vars
=============================================================================
