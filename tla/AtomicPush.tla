----------------------------- MODULE AtomicPush -----------------------------
(***************************************************************************)
(* What PushSession promises its callers, with no store, no manifest and   *)
(* no retries in sight: a push takes effect in one step or not at all.     *)
(* In that step the session's head is exactly the base the caller named,   *)
(* and the new snapshot is appended to the session's history.  A push that *)
(* answers "ok" took effect, once, between the call and the answer.  A     *)
(* push that is refused, fails or dies may have taken effect all the same: *)
(* its answer can be lost.                                                 *)
(***************************************************************************)
EXTENDS Naturals, Sequences

CONSTANTS Devices, Sessions, Ids

VARIABLES history,  \* history[s]: the snapshots that have been s's head
          client    \* client[d]: the push d is waiting for

vars == <<history, client>>

Tip(s) == IF history[s] = <<>> THEN 0 ELSE history[s][Len(history[s])]

Unused(n) == \A s \in Sessions : \A i \in 1..Len(history[s]) : history[s][i] # n

Quiet == [phase |-> "idle", session |-> CHOOSE s \in Sessions : TRUE, base |-> 0]

Init == /\ history = [s \in Sessions |-> <<>>]
        /\ client = [d \in Devices |-> Quiet]

Ask(d) ==
    /\ client[d].phase = "idle"
    /\ \E s \in Sessions, base \in Ids \cup {0} :
          client' = [client EXCEPT ![d] = [phase |-> "asked", session |-> s, base |-> base]]
    /\ UNCHANGED history

(* The one step in which a push takes effect; the answer may come with it. *)
Publish(d) ==
    /\ client[d].phase = "asked"
    /\ Tip(client[d].session) = client[d].base
    /\ \E n \in Ids : /\ Unused(n)
                      /\ history' = [history EXCEPT ![client[d].session] = Append(@, n)]
    /\ \E answer \in {"published", "ok", "refused"} :
          client' = [client EXCEPT ![d].phase = answer]

Refuse(d) ==
    /\ client[d].phase \in {"asked", "published"}
    /\ client' = [client EXCEPT ![d].phase = "refused"]
    /\ UNCHANGED history

Leave(d) ==
    /\ client[d].phase # "idle"
    /\ client' = [client EXCEPT ![d] = Quiet]
    /\ UNCHANGED history

Next == \E d \in Devices : Ask(d) \/ Publish(d) \/ Refuse(d) \/ Leave(d)

Spec == Init /\ [][Next]_vars
=============================================================================
