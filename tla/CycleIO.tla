------------------------------ MODULE CycleIO ------------------------------
(***************************************************************************)
(* What the rest of the system relies on of the phases of a cycle, as far  *)
(* as the disk is concerned: they write only while they run, at most one   *)
(* download file is open, and neither writer exceeds its share.            *)
(***************************************************************************)
EXTENDS Naturals

CONSTANTS
    NetMax,     \* largest download volume of a cycle
    WriteMax    \* largest write pass of a cycle

VARIABLES
    running,    \* the phases are running
    netLeft,    \* what the downloads may still write
    diskLeft,   \* what the write pass may still write
    open        \* bytes of the open download file, or 0

vars == <<running, netLeft, diskLeft, open>>

Init == running = FALSE /\ netLeft = 0 /\ diskLeft = 0 /\ open = 0

\* The phases start, with directories to write to or without.
Start ==
    /\ ~running
    /\ running' = TRUE
    /\ netLeft' \in {0, NetMax} /\ diskLeft' \in {0, WriteMax}
    /\ UNCHANGED open

Write ==
    /\ running
    /\ \E n \in 1 .. diskLeft : diskLeft' = diskLeft - n
    /\ UNCHANGED <<running, netLeft, open>>

Open ==
    /\ running /\ open = 0
    /\ \E n \in 1 .. netLeft : netLeft' = netLeft - n /\ open' = n
    /\ UNCHANGED <<running, diskLeft>>

Close ==
    /\ running
    /\ open' = 0
    /\ UNCHANGED <<running, netLeft, diskLeft>>

\* The phases are over, whatever is left of their shares.
End ==
    /\ running /\ open = 0
    /\ running' = FALSE /\ netLeft' = 0 /\ diskLeft' = 0
    /\ UNCHANGED open

Next == Start \/ Write \/ Open \/ Close \/ End

Spec == Init /\ [][Next]_vars
=============================================================================
