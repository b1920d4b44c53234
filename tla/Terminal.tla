------------------------------ MODULE Terminal ------------------------------
(***************************************************************************)
(* The commands that have the terminal to themselves: bare rein, which     *)
(* shows the list and what follows from it, rein init, rein handoff from   *)
(* the plan of its destination to the session it finds there, and rein     *)
(* sync verify.  They share only the terminal, so a behaviour is about one *)
(* of them.                                                                *)
(***************************************************************************)
EXTENDS Dialogs, Setup

CONSTANTS Launchers, Capsules, TicksPerSecond, MaxTicks, MaxLaunches, MaxStored, MaxUses,
          MaxPushes, MaxRenewals, MaxChecks

ASSUME DestinationsAssumption ==
    /\ TicksPerSecond \in Nat \ {0} /\ MaxTicks \in Nat
    /\ MaxLaunches \in Nat /\ MaxStored \in Nat /\ MaxUses \in Nat

ASSUME VerificationAssumption ==
    MaxPushes \in Nat /\ MaxRenewals \in Nat /\ MaxChecks \in Nat

VARIABLES command, destination, stored, ticks, launch, outcomes, launches, uses,
          world, locker, access, check, console, bounds

D == INSTANCE Destinations

V == INSTANCE Verification

ASSUME CapsulesAssumption == D!Nobody \notin Capsules

destinationVars == <<destination, stored, ticks, launch, outcomes, launches, uses>>

verificationVars == <<world, locker, access, check, console, bounds>>

dialogsAndList == <<listVars, screen, intent, keys, dialogVars>>

vars == <<dialogsAndList, setupVars, destinationVars, verificationVars, command>>

(* Each command begins with what the others would use as it may be; only    *)
(* its own varies.                                                          *)
Init ==
    /\ ListInit /\ DialogsInit /\ SetupInit /\ D!DestinationsInit /\ V!VerificationInit
    /\ command \in {"rein", "init", "handoff", "verify"}
    /\ command # "init" => remote = {}
    /\ command # "rein" => ~ list.inside /\ \A h \in Heights : list.height <= h
    /\ command # "handoff" =>
          destination = [agent |-> "claude", known |-> TRUE, seconds |-> FALSE]
    /\ command # "verify" =>
          /\ world = [index |-> "sealed", snapshots |-> "sealed", open |-> FALSE,
                      hosted |-> FALSE]
          /\ locker.named = {}

Next ==
    \/ /\ command = "rein" /\ ListNext
       /\ UNCHANGED <<dialogVars, setupVars, destinationVars, verificationVars, command>>
    \/ /\ command = "rein" /\ DialogsNext
       /\ UNCHANGED <<setupVars, destinationVars, verificationVars, command>>
    \/ /\ command = "init" /\ SetupNext
       /\ UNCHANGED <<dialogsAndList, destinationVars, verificationVars, command>>
    \/ /\ command = "handoff" /\ D!DestinationsNext
       /\ UNCHANGED <<dialogsAndList, setupVars, verificationVars, command>>
    \/ /\ command = "verify" /\ V!VerificationNext
       /\ UNCHANGED <<dialogsAndList, setupVars, destinationVars, command>>

Spec == Init /\ [][Next]_vars

------------------------------------------------------------------------------
(* The list is in order after every message: types, a cursor on a session   *)
(* that is in sight, no row verified beyond its slots and retries, and none  *)
(* left unverified on a quiet screen (rebuildRows, clampOffset,             *)
(* Prober.Probe).                                                           *)
ListIsUsable == ListTypeOK /\ CursorOnSession /\ ProbesBounded /\ NoRowForgotten

(* A setup leaves one profile's files, from answers the wizard has checked,  *)
(* and keeps the records of the account that is set up again.               *)
SetupIsWhole == SetupTypeOK /\ ReviewIsValid /\ HomeIsOfOneProfile /\ RecordsKept

(* A handoff names as its session only one that stems from its own capsule   *)
(* (Verify of every destination).                                           *)
ResolvedIsTheHandoff == D!ResolvedIsTheHandoff

(* A report alarms of what is there, and of nothing that is not (the steps   *)
(* of verify.Run).                                                          *)
ReportIsHonest == V!ReportIsHonest
=============================================================================
