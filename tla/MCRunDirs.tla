----------------------------- MODULE MCRunDirs -----------------------------
(* Instances of RunDirs for TLC. *)
EXTENDS RunDirs, TLC

CapSmall == [r \in Roots |-> 8]
Symm == Permutations(Dirs) \cup Permutations(Procs)
=============================================================================
