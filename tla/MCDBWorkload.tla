--------------------------- MODULE MCDBWorkload ---------------------------
(* Instances of DBWorkload for TLC. *)
EXTENDS DBWorkload

AnyTable == 0 .. TableMax
=============================================================================
