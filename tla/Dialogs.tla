------------------------------- MODULE Dialogs -------------------------------
(***************************************************************************)
(* What follows a choice in the session list (performIntent in             *)
(* internal/cli/switcher.go): the checklist of environment warnings        *)
(* (internal/tui/readiness) before a launch, and the studio                *)
(* (internal/tui/handoffui) before a handoff.  Both only decide; what they *)
(* decide goes through the authorisation that the flags go through.        *)
(***************************************************************************)
EXTENDS Switcher

PF == INSTANCE Preflight

CONSTANTS AgentOf,       \* AgentOf[s]: the agent a session belongs to
          Receivers,     \* agents that take handoffs, in order
          Policies,      \* projection policies, in order
          Previews,      \* sets of warnings a dry run can find
          Environments,  \* sets of checks of a report
          MaxPresses     \* bound: keys pressed in a dialog

ASSUME StudioAssumption ==
    /\ Policies \in Seq({Policies[i] : i \in DOMAIN Policies}) /\ Policies # <<>>
    /\ Receivers \in Seq({Receivers[i] : i \in DOMAIN Receivers})

VARIABLES checklist,  \* the report, its warnings that are ticked, and that keys touched
          studio,     \* selection, acknowledgement, export
          planner,    \* previews: made, and being made
          said,       \* per selection, the warnings the user has accepted
          last,       \* the last key that asks for the handoff
          presses     \* keys pressed

dialogVars == <<checklist, studio, planner, said, last, presses>>

NoChecklist == [checks |-> {}, ticked |-> {}, touched |-> {}]

NoStudio == [to |-> <<>>, destination |-> 1, policy |-> 1, acknowledged |-> FALSE,
             export |-> FALSE]

NoPlanner == [made |-> <<>>, pending |-> {}]

DialogsInit ==
    /\ checklist = NoChecklist /\ studio = NoStudio /\ planner = NoPlanner
    /\ said = <<>> /\ last = "none" /\ presses = 0

Enters(s) == screen' = s /\ UNCHANGED <<intent, listVars, keys>>

PressIn(s) ==
    /\ screen = s /\ presses < MaxPresses
    /\ presses' = presses + 1
    /\ UNCHANGED <<listVars, keys>>

Still == UNCHANGED <<screen, intent>>

------------------------------------------------------------------------------
(* Resume and fork: the session is looked up again, its surroundings are    *)
(* looked at, and only warnings that nobody has acknowledged ask the user.  *)
(* The launch itself is modelled in Resume.                                 *)

(* A mistake: what warns is ticked when the checklist opens.                *)
NewChecklistTicked(checks) == [checks |-> checks, ticked |-> PF!WarningIDs(checks), touched |-> {}]

(* NewChecklist                                                             *)
NewChecklist(checks) == [checks |-> checks, ticked |-> {}, touched |-> {}]

SessionIsGone ==
    /\ screen \in {"resume", "fork", "inspect"}
    /\ Enters("end") /\ UNCHANGED dialogVars

LooksAround(checks) ==
    /\ screen \in {"resume", "fork"}
    /\ IF PF!Authorize(checks, {}) = "safety" /\ PF!Blockers(checks) = {}
       THEN Enters("checklist") /\ checklist' = NewChecklist(checks)
            /\ UNCHANGED <<studio, planner, said, last, presses>>
       ELSE /\ Enters(IF PF!Authorize(checks, {}) = "ok" THEN "launched" ELSE "end")
            /\ UNCHANGED dialogVars

Tick(w) ==
    /\ PressIn("checklist") /\ w \in PF!WarningIDs(checklist.checks)
    /\ checklist' = [checklist EXCEPT
          !.ticked = IF w \in @ THEN @ \ {w} ELSE @ \cup {w},
          !.touched = @ \cup {w}]
    /\ Still /\ UNCHANGED <<studio, planner, said, last>>

TickAll ==
    /\ PressIn("checklist")
    /\ LET all == PF!WarningIDs(checklist.checks)
       IN checklist' = [checklist EXCEPT !.ticked = IF @ = all THEN {} ELSE all,
                                         !.touched = all]
    /\ Still /\ UNCHANGED <<studio, planner, said, last>>

(* Enter does nothing until every warning is ticked; what is ticked goes to *)
(* the authorisation of the flags.                                          *)
ConfirmChecklist ==
    /\ PressIn("checklist")
    /\ checklist.ticked = PF!WarningIDs(checklist.checks)
    /\ screen' = IF PF!Authorize(checklist.checks, checklist.ticked) = "ok"
                 THEN "launched" ELSE "end"
    /\ UNCHANGED <<intent, checklist, studio, planner, said, last>>

(* Escape, q, or the context is cancelled.                                  *)
Decline ==
    /\ screen \in {"checklist", "studio"}
    /\ Enters("end") /\ UNCHANGED dialogVars

(* Another command of rein, or the report on the session.                   *)
OtherCommand ==
    /\ screen \in {"inspect", "command"}
    /\ Enters("end") /\ UNCHANGED dialogVars

------------------------------------------------------------------------------
(* The studio.  A preview is a dry run of the handoff for one destination   *)
(* and policy; it is made once and kept.                                    *)

Selection == <<studio.to[studio.destination], Policies[studio.policy]>>

Ready(pair) == pair \in DOMAIN planner.made

(* Warnings: none while the preview is being made, or could not be.         *)
Warnings(pair) ==
    IF Ready(pair) /\ ~ planner.made[pair].failed THEN planner.made[pair].warnings ELSE {}

(* Planner.Compute, for the selection there will be.                        *)
Compute(pair) ==
    planner' = [planner EXCEPT !.pending = IF Ready(pair) THEN @ ELSE @ \cup {pair}]

(* withoutSourceAgent: the source's own agent is no destination.            *)
Without(agent) ==
    LET kept == {i \in DOMAIN Receivers : Receivers[i] # agent}
        nth(n) == CHOOSE i \in kept : Cardinality({j \in kept : j <= i}) = n
    IN [n \in 1..Cardinality(kept) |-> Receivers[nth(n)]]

OpenStudio ==
    LET to == Without(AgentOf[intent.key])
    IN /\ screen = "handoff"
       /\ IF to = <<>> THEN Enters("end") /\ UNCHANGED dialogVars
          ELSE /\ Enters("studio")
               /\ studio' = [NoStudio EXCEPT !.to = to]
               /\ planner' = [NoPlanner EXCEPT !.pending = {<<to[1], Policies[1]>>}]
               /\ said' = [p \in {<<to[i], Policies[j]>> : i \in DOMAIN to,
                                                         j \in DOMAIN Policies} |-> {}]
               /\ UNCHANGED <<checklist, last, presses>>

(* A dry run ends: it found warnings, or the handoff cannot be planned.     *)
Previewed(pair) ==
    /\ screen = "studio" /\ pair \in planner.pending
    /\ \E preview \in [failed : {FALSE}, warnings : Previews]
                      \cup {[failed |-> TRUE, warnings |-> {}]} :
          planner' = [made |-> [p \in DOMAIN planner.made \cup {pair} |->
                                   IF p = pair THEN preview ELSE planner.made[p]],
                      pending |-> planner.pending \ {pair}]
    /\ Still /\ UNCHANGED <<listVars, keys, checklist, studio, said, last, presses>>

(* A mistake: the acknowledgement is kept from one selection to the next.   *)
SelectKeeping(d, p) == [studio EXCEPT !.destination = d, !.policy = p]

(* selectionChanged: an acknowledgement is of one selection.                *)
Select(d, p) ==
    [studio EXCEPT !.destination = d, !.policy = p, !.acknowledged = FALSE]

Wrap(i, n) == ((i - 1) % n) + 1

Cycle(d, p) ==
    /\ PressIn("studio")
    /\ studio' = Select(d, p)
    /\ Compute(<<studio.to[d], Policies[p]>>)
    /\ Still /\ UNCHANGED <<checklist, said, last>>

CyclePolicy(delta) == Cycle(studio.destination, Wrap(studio.policy + delta, Len(Policies)))

CycleDestination(delta) ==
    Cycle(Wrap(studio.destination + delta, Len(studio.to)), studio.policy)

Acknowledge ==
    /\ PressIn("studio") /\ Warnings(Selection) # {}
    /\ studio' = [studio EXCEPT !.acknowledged = ~ @]
    /\ said' = [said EXCEPT ![Selection] =
                   IF studio.acknowledged THEN {} ELSE Warnings(Selection)]
    /\ Still /\ UNCHANGED <<checklist, planner, last>>

(* A mistake: an export that was refused is remembered.                     *)
RefuseForgetting == studio' = [studio EXCEPT !.export = @ \/ last' = "export"]

Refuse == studio' = [studio EXCEPT !.export = FALSE]

(* send: not what cannot be planned, nor what warns and is not              *)
(* acknowledged.  The intent carries the warnings that were acknowledged.   *)
Send(key) ==
    /\ PressIn("studio") /\ last' = key
    /\ IF \/ Ready(Selection) /\ planner.made[Selection].failed
          \/ Warnings(Selection) # {} /\ ~ studio.acknowledged
       THEN Refuse /\ Still
       ELSE /\ studio' = [studio EXCEPT !.export = @ \/ key = "export"]
            /\ screen' = "handed"
            /\ intent' = [action |-> "handoff", key |-> intent.key, selection |-> Selection,
                          export |-> studio'.export,
                          acknowledged |-> IF studio.acknowledged THEN Warnings(Selection) ELSE {}]
    /\ UNCHANGED <<checklist, planner, said>>

DialogsNext ==
    \/ SessionIsGone \/ OtherCommand \/ Decline
    \/ \E checks \in Environments : LooksAround(checks)
    \/ \E w \in PF!WarningIDs(checklist.checks) : Tick(w)
    \/ TickAll \/ ConfirmChecklist
    \/ OpenStudio
    \/ \E pair \in planner.pending : Previewed(pair)
    \/ \E delta \in {1, -1} : screen = "studio" /\ (CyclePolicy(delta) \/ CycleDestination(delta))
    \/ screen = "studio" /\ (Acknowledge \/ Send("launch") \/ Send("export"))

------------------------------------------------------------------------------
(* What a dialog hands on is what its user said of what was on the screen:  *)
(* a launch that asked has every warning of its report ticked by a key      *)
(* (NewChecklist, AllAccepted); a handoff carries warnings the user         *)
(* accepted for its own destination and policy, all of those its preview    *)
(* showed, and is an export when the key that sent it asked for one         *)
(* (selectionChanged, send).                                                *)
DecisionIsWhatWasShown ==
    /\ screen = "launched" =>
          PF!WarningIDs(checklist.checks) = checklist.ticked \cap checklist.touched
    /\ screen = "handed" =>
          /\ intent.acknowledged = Warnings(intent.selection)
          /\ intent.acknowledged \subseteq said[intent.selection]
          /\ intent.export <=> last = "export"
=============================================================================
