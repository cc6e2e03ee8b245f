--------------------------- MODULE CyclePromise ---------------------------
(***************************************************************************)
(* What the daemon keeps to, whatever the scheduler does: while it serves  *)
(* there are keep-alive cycles again and again, under a fixed spec one at  *)
(* a time; after the stop has drained there are none.                      *)
(***************************************************************************)
EXTENDS Naturals

VARIABLES
    serial,     \* the schedule is a fixed spec
    phase,      \* "off" before the start, "on", "stopping", "stopped"
    cycles      \* keep-alive cycles being executed

vars == <<serial, phase, cycles>>

Init == serial \in BOOLEAN /\ phase = "off" /\ cycles = 0

Start == phase = "off" /\ phase' = "on" /\ UNCHANGED <<serial, cycles>>

Stop == phase = "on" /\ phase' = "stopping" /\ UNCHANGED <<serial, cycles>>

\* A cycle may still begin while the daemon is stopping, with a cancelled
\* context.
Begin ==
    /\ phase \in {"on", "stopping"}
    /\ serial => cycles = 0
    /\ cycles' = cycles + 1
    /\ UNCHANGED <<serial, phase>>

End == cycles > 0 /\ cycles' = cycles - 1 /\ UNCHANGED <<serial, phase>>

Stopped ==
    /\ phase = "stopping" /\ cycles = 0
    /\ phase' = "stopped"
    /\ UNCHANGED <<serial, cycles>>

Next == Start \/ Stop \/ Begin \/ End \/ Stopped

\* Cycles end as long as there are any, a stop completes, and a serving daemon
\* has cycles for ever.
Live ==
    /\ []<>(cycles = 0) \/ []<><<cycles' < cycles>>_vars
    /\ phase = "stopping" ~> phase = "stopped"
    /\ []<>(cycles > 0 \/ phase # "on")

Spec == Init /\ [][Next]_vars /\ Live
=============================================================================
