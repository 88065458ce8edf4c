---------------------------- MODULE MCVscDriver -----------------------------
(* Instances of VscDriver for TLC.                                          *)
EXTENDS VscDriver, TLC

CONSTANTS p1, p2

MCMakes == p1 :> {"two", "zero", "read"} @@ p2 :> {"nonblock", "nonblockRead"}

=============================================================================
