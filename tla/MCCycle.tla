------------------------------ MODULE MCCycle ------------------------------
(* Instances of Cycle for TLC. *)
EXTENDS Cycle

CONSTANTS d1, d2, a, b

BuiltinSources == <<[name |-> a, approxB |-> 0], [name |-> b, approxB |-> 1]>>
NoOverride == {<< >>}
Jittered == JitterBudget(TotalMB)
RunDirLists == {<< >>, <<d1, d2>>}
Loads == {<<10, 1>>, <<10, 3>>, <<50, 1>>}
=============================================================================
