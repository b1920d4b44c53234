----------------------------- MODULE MCHandoff -----------------------------
(* Two commands and a user who answers.                                    *)
EXTENDS Handoff, TLC

(* Commands are alike, and so are the processes that record an answer.     *)
Symmetry == Permutations(Procs) \cup Permutations(Askers)
=============================================================================
