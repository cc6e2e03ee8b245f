----------------------------- MODULE DirLease -----------------------------
(***************************************************************************)
(* What the keeper promises about its run directories, whatever loops and  *)
(* checks it uses: a directory belongs to the cycle that created it, and   *)
(* nobody removes it before that cycle has written its last file.  What a  *)
(* cycle leaves behind may be removed by anybody.                          *)
(***************************************************************************)
CONSTANTS Dirs, Procs

VARIABLES
    present,    \* the directories that exist
    holds,      \* holds[p]: the directories the cycle of p created
    releasing   \* processes whose cycle has nothing left to write

Init ==
    /\ present \in SUBSET Dirs
    /\ holds = [p \in Procs |-> {}]
    /\ releasing = {}

Acquire(p, d) ==
    /\ p \notin releasing
    /\ d \notin present
    /\ \A q \in Procs : d \notin holds[q]
    /\ present' = present \cup {d}
    /\ holds' = [holds EXCEPT ![p] = @ \cup {d}]
    /\ UNCHANGED releasing

\* The cycle of p is about to clean up.
Release(p) ==
    /\ releasing' = releasing \cup {p}
    /\ UNCHANGED <<present, holds>>

Remove(d) ==
    /\ \A p \in Procs : d \in holds[p] => p \in releasing
    /\ present' = present \ {d}
    /\ UNCHANGED <<holds, releasing>>

\* The cycle of p is over, by returning or by a crash.
Abandon(p) ==
    /\ holds' = [holds EXCEPT ![p] = {}]
    /\ releasing' = releasing \ {p}
    /\ UNCHANGED present

Next ==
    \/ \E p \in Procs : Release(p) \/ Abandon(p) \/ \E d \in Dirs : Acquire(p, d)
    \/ \E d \in Dirs : Remove(d)

Spec == Init /\ [][Next]_<<present, holds, releasing>>
=============================================================================
