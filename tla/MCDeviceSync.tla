---------------------------- MODULE MCDeviceSync ----------------------------
(* Push, pull and resolve on two devices with a few edits.                 *)
EXTENDS DeviceSync, TLC

CONSTANTS s1, s2

(* Session contents: sets of edits.                                        *)
MCBodies == SUBSET (1..MaxEdits)

(* One session and the forks conflict resolution may make of it.           *)
RemoteForks == {s1} \cup {<<"remote", s1, n>> : n \in 1..MaxSnapshots}

(* Two sessions and the forks conflict resolution may make of them.        *)
TwoWithForks == {s1, s2} \cup {<<"remote", s, n>> : s \in {s1, s2}, n \in 1..MaxSnapshots}

(* One session and the forks pull makes while an agent has it open.        *)
ActiveForks == {s1} \cup {<<"active", s1, n>> : n \in 1..MaxSnapshots}

(* Two sessions, the forks conflict resolution may make of them, and those *)
(* pull makes of the first.                                                *)
TwoWithAllForks == TwoWithForks \cup ActiveForks

Symmetry == Permutations(Devices)
=============================================================================
