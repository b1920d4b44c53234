------------------------------ MODULE MCDaemon ------------------------------
(* One daemon with short intervals.                                        *)
EXTENDS Daemon, TLC
=============================================================================
