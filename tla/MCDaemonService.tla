--------------------------- MODULE MCDaemonService ---------------------------
(* Two daemon processes and the commands of a shell on one device.         *)
EXTENDS DaemonService, TLC
=============================================================================
