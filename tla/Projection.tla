----------------------------- MODULE Projection -----------------------------
(***************************************************************************)
(* What of a transcript goes into the capsule of a handoff                 *)
(* (internal/handoff/policy.go, checkpoint.go; internal/capsule/           *)
(* validate.go): the events that fit the budget of a policy, newest first, *)
(* completed so that no result stands without its call; the rest, put      *)
(* beside; the state of the task as the calls and results of the whole     *)
(* transcript tell it; and the bounds a capsule is refused for.            *)
(***************************************************************************)
EXTENDS Transcript

CONSTANTS Balanced,   \* DefaultProjectionBudgetBytes
          Cap,        \* HardProjectionCapBytes
          Marker,     \* the length of TruncationMarker
          MaxEvents   \* MaxEvents

ASSUME BudgetAssumption ==
    /\ {Balanced, Cap, Marker, MaxText, MaxEvents} \subseteq Nat
    /\ Marker < Balanced /\ Balanced < Cap /\ MaxText < Cap

Policies == {"checkpoint", "balanced", "full"}

-----------------------------------------------------------------------------
budgetBytes(policy) ==
    CASE policy = "checkpoint" -> 0
      [] policy = "balanced"   -> Balanced
      [] policy = "full"       -> Cap

projectionEligible(e) == e.port \notin {"omitted", "referenced"}

truncateEventTo(e, bytes) == [e EXCEPT !.size = bytes, !.port = "summarized"]

(* From the newest event back: what fits is taken; the first one that does  *)
(* not is cut to what is left and is the last, unless less than a marker is *)
(* left: then it is passed over and the older ones are still tried.         *)
Chosen(events, budget) ==
    LET Pick(i, s) ==
            LET e    == events[i]
                left == budget - s.used
            IN  CASE s.full \/ ~projectionEligible(e) -> s
                  [] ~s.full /\ projectionEligible(e) /\ e.size <= left ->
                         [s EXCEPT !.chosen = (i :> e) @@ s.chosen, !.used = s.used + e.size]
                  [] ~s.full /\ projectionEligible(e) /\ e.size > left /\ left > Marker ->
                         [s EXCEPT !.chosen = (i :> truncateEventTo(e, left)) @@ s.chosen,
                                   !.full = TRUE]
                  [] OTHER -> s
        none == [chosen |-> << >>, used |-> 0, full |-> budget = 0]
    IN  FoldLeft(LAMBDA s, i : Pick(i, s), none,
                 [i \in DOMAIN events |-> Len(events) + 1 - i]).chosen

(* The last call of an id is the one its results belong to; 0 is none.      *)
CallAt(events, call) ==
    SelectLastInSeq(events, LAMBDA e : e.kind = "tool_call" /\ e.call # NoCall /\ e.call = call)

(* A mistake: a result whose call did not fit is shown all the same.        *)
completeToolPairsLoose(events, chosen) ==
    [i \in {k \in DOMAIN chosen : chosen[k].kind = "tool_result"
                                     => CallAt(events, chosen[k].link) > 0} |-> chosen[i]]

(* A chosen result takes its call with it, whatever the budget; without a   *)
(* call it is not shown.                                                    *)
completeToolPairs(events, chosen) ==
    LET Alone == {i \in DOMAIN chosen :
                     chosen[i].kind = "tool_result" /\ CallAt(events, chosen[i].link) = 0}
        Kept  == DOMAIN chosen \ Alone
        Calls == {CallAt(events, chosen[i].link) : i \in {k \in Kept : chosen[k].kind = "tool_result"}}
    IN  [i \in Kept \cup Calls |-> IF i \in Kept THEN chosen[i] ELSE events[i]]

(* The events shown, in their order, and the ids of those put beside.       *)
Apply(policy, events) ==
    LET chosen == completeToolPairs(events, Chosen(events, budgetBytes(policy)))
        shown  == SelectSeq([i \in DOMAIN events |-> i], LAMBDA i : i \in DOMAIN chosen)
    IN  [included |-> [i \in DOMAIN shown |-> chosen[shown[i]]],
         sidecar  |-> {events[i].id : i \in DOMAIN events \ DOMAIN chosen}]

-----------------------------------------------------------------------------
(* DeriveCheckpoint: over all the events, shown or not.                     *)
UserTurns(events) ==
    LET users == SelectSeq(events, LAMBDA e :
                     e.actor = "user" /\ e.kind = "message" /\ e.size > 0)
    IN  [i \in DOMAIN users |-> users[i].turn]

indexToolPairs(events) ==
    LET linked == SelectSeq(events, LAMBDA e : e.kind = "tool_result" /\ e.link # NoCall)
    IN  [call \in {linked[i].link : i \in DOMAIN linked} |->
             linked[SelectInSeq(linked, LAMBDA e : e.link = call)]]

(* A mistake: the last result of a call is asked, and a failed one counts.  *)
classifyAnyResult(events) ==
    LET results == indexToolPairs(events)
        calls   == {events[i].call : i \in {k \in DOMAIN events : events[k].kind = "tool_call"}}
    IN  [completed |-> calls \cap DOMAIN results, pending |-> calls \ DOMAIN results]

(* A call is completed by a first result that is no error; one that ended   *)
(* in an error is neither completed nor pending.                            *)
classifyToolEvidence(events) ==
    LET results == indexToolPairs(events)
        calls   == {events[i].call : i \in {k \in DOMAIN events : events[k].kind = "tool_call"}}
    IN  [completed |-> {c \in calls \cap DOMAIN results : ~results[c].error},
         pending   |-> calls \ DOMAIN results]

DeriveCheckpoint(events) ==
    [asked |-> UserTurns(events)] @@ classifyToolEvidence(events)

-----------------------------------------------------------------------------
(* What a capsule is refused for.                                           *)
Validate(events) ==
    /\ Len(events) <= MaxEvents
    /\ \A i, j \in DOMAIN events : i # j => events[i].id # events[j].id
    /\ \A i \in DOMAIN events :
          /\ i > 1 => events[i].order >= events[i - 1].order
          /\ events[i].size <= MaxText
          /\ events[i].kind = "tool_result" =>
                \E j \in DOMAIN events :
                   events[j].kind = "tool_call" /\ events[j].call # NoCall /\ events[j].call = events[i].link
=============================================================================
