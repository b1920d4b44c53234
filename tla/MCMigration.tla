---------------------------- MODULE MCMigration ----------------------------
(* Two devices that leave the locker for one bucket.                       *)
EXTENDS Migration, TLC
=============================================================================
