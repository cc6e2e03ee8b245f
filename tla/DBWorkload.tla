---------------------------- MODULE DBWorkload ----------------------------
(***************************************************************************)
(* The database workload of internal/keeper/dbworkload.go: a tick of the   *)
(* scheduler makes sure the pool and the table exist and performs a few    *)
(* operations, whose mix follows an in-memory count of the table's rows.   *)
(* The database, which others use too, fails and comes back, and a         *)
(* statement may be executed although its answer is lost.                  *)
(*                                                                         *)
(* Rows are counted, their contents left out.  The scheduler runs one tick *)
(* at a time (CronApp).                                                    *)
(***************************************************************************)
EXTENDS Integers

CONSTANTS
    MaxRows,            \* cfg.DB.MaxRows
    InsertMax,          \* rows of an insert: 1 .. 5
    DeleteMax,          \* rows of a small delete: 1 .. 5
    BulkMin, BulkMax,   \* rows of a delete above the high mark: 20 .. 200
    OpsMax,             \* operations of a tick: 1 .. 3
    ReconcileEvery,     \* dbReconcileEvery
    InitTable,          \* rows the table may have when the daemon starts
    TableMax,           \* bound: the table grows no further
    DriftMax,           \* bound on missed
    Faults              \* of "fail", "cancel", "outage", "lostInsert",
                        \* "lostDelete", "extDelete": what can happen

ASSUME DBAssumption ==
    /\ MaxRows \in Nat \ {0}
    /\ InsertMax \in Nat \ {0} /\ DeleteMax \in Nat \ {0} /\ OpsMax \in Nat \ {0}
    /\ BulkMin \in Nat \ {0} /\ BulkMax \in Nat
    /\ ReconcileEvery \in Nat \ {0}
    /\ InitTable \subseteq Nat /\ TableMax \in Nat /\ DriftMax \in Nat

VARIABLES
    pc,         \* where Tick is
    opsLeft,    \* operations the tick has yet to perform
    opened,     \* the pool exists (gorm # nil)
    migrated,   \* the table exists and has been counted
    rows,       \* the in-memory counter
    ticks,      \* completed ticks, modulo ReconcileEvery
    downLogged, \* the outage has been reported
    table,      \* rows in the table
    missed,     \* history: rows inserted without an answer since the last count
    sel,        \* rows selected for deletion that still exist
    dbUp        \* the database answers

tickVars == <<opened, migrated, downLogged, ticks>>
vars == <<pc, opsLeft, opened, migrated, rows, ticks, downLogged, table, missed, sel, dbUp>>

High == (MaxRows * 90) \div 100
Low == (MaxRows * 70) \div 100

AtMost(m, n) == IF m <= n THEN m ELSE n

TypeOK ==
    /\ pc \in {"idle", "ready", "op", "delete", "reconcile"}
    /\ opsLeft \in 0 .. OpsMax
    /\ opened \in BOOLEAN /\ migrated \in BOOLEAN
    /\ downLogged \in BOOLEAN /\ dbUp \in BOOLEAN
    /\ rows \in Int
    /\ ticks \in 0 .. ReconcileEvery - 1
    /\ table \in Nat /\ sel \in Nat /\ missed \in Nat

Init ==
    /\ pc = "idle" /\ opsLeft = 0
    /\ opened = FALSE /\ migrated = FALSE /\ downLogged = FALSE
    /\ rows = 0 /\ ticks = 0
    /\ table \in InitTable /\ missed = 0 /\ sel = 0
    /\ dbUp = TRUE

----------------------------------------------------------------------------
(* Tick and ensureReady.                                                   *)

BeginTick ==
    /\ pc = "idle"
    /\ pc' = "ready"
    /\ UNCHANGED <<missed, opsLeft, rows, table, sel, tickVars, dbUp>>

\* Opening, the ping, the migration or the count fails: reported once.
NotReady ==
    /\ pc = "ready" /\ ~migrated
    /\ ~dbUp \/ "fail" \in Faults
    /\ opened' \in {opened, TRUE}
    /\ downLogged' = TRUE
    /\ pc' = "idle"
    /\ UNCHANGED <<missed, opsLeft, migrated, ticks, rows, table, sel, dbUp>>

StartOps ==
    /\ pc' = "op"
    /\ opsLeft' \in 1 .. OpsMax
    /\ downLogged' = FALSE
    /\ UNCHANGED <<ticks, table, sel, dbUp>>

\* Mutant: the counter is not initialised from the table.
MigrateUncounted ==
    /\ pc = "ready" /\ ~migrated /\ dbUp
    /\ opened' = TRUE /\ migrated' = TRUE
    /\ rows' = rows /\ missed' = 0
    /\ StartOps

\* The first time: the table is migrated and counted.
Migrate ==
    /\ pc = "ready" /\ ~migrated /\ dbUp
    /\ opened' = TRUE /\ migrated' = TRUE
    /\ rows' = table /\ missed' = 0
    /\ StartOps

\* From then on the database is not asked again.
AlreadyReady ==
    /\ pc = "ready" /\ migrated
    /\ StartOps
    /\ UNCHANGED <<opened, migrated, rows, missed>>

\* The tick's context is done before the next operation.
Cancelled ==
    /\ "cancel" \in Faults
    /\ pc = "op" /\ opsLeft > 0
    /\ pc' = "idle" /\ opsLeft' = 0
    /\ UNCHANGED <<missed, rows, table, sel, tickVars, dbUp>>

\* An operation fails: the tick is over.
OpFails ==
    /\ \/ pc = "op" /\ opsLeft > 0
       \/ pc = "delete"
    /\ ~dbUp \/ "fail" \in Faults
    /\ pc' = "idle" /\ opsLeft' = 0 /\ sel' = 0
    /\ UNCHANGED <<missed, rows, table, tickVars, dbUp>>

\* Mutant: the tick counter only ever counts to the last tick before a count.
EndTickStuck ==
    /\ pc = "op" /\ opsLeft = 0
    /\ ticks' = AtMost(ticks + 1, ReconcileEvery - 1)
    /\ pc' = IF ticks' = 0 THEN "reconcile" ELSE "idle"
    /\ UNCHANGED <<missed, opsLeft, opened, migrated, downLogged, rows, table, sel, dbUp>>

\* All operations done: only now the tick is counted.
EndTick ==
    /\ pc = "op" /\ opsLeft = 0
    /\ ticks' = (ticks + 1) % ReconcileEvery
    /\ pc' = IF ticks' = 0 THEN "reconcile" ELSE "idle"
    /\ UNCHANGED <<missed, opsLeft, opened, migrated, downLogged, rows, table, sel, dbUp>>

Reconcile ==
    /\ pc = "reconcile" /\ dbUp
    /\ rows' = table /\ missed' = 0
    /\ pc' = "idle"
    /\ UNCHANGED <<opsLeft, table, sel, tickVars, dbUp>>

ReconcileFails ==
    /\ pc = "reconcile"
    /\ ~dbUp \/ "fail" \in Faults
    /\ pc' = "idle"
    /\ UNCHANGED <<missed, opsLeft, rows, table, sel, tickVars, dbUp>>

----------------------------------------------------------------------------
(* The operations.                                                         *)

\* Mutant: the cooldown band performs no deletes.
NextOpsNoCooldown(n) ==
    CASE n >= High            -> {"delete"}
      [] Low <= n /\ n < High -> {"read"}
      [] OTHER                -> {"insert", "read", "delete"}

\* nextOp: what may be drawn at a row count; selects, updates and reports
\* change no count and are one kind here.
NextOps(n) ==
    CASE n >= High            -> {"delete"}
      [] Low <= n /\ n < High -> {"delete", "read"}
      [] OTHER                -> {"insert", "read", "delete"}

\* Mutant: the loop of a tick runs once too often.
DrawOneMore(kind) ==
    /\ pc = "op" /\ opsLeft >= 0 /\ dbUp
    /\ kind \in NextOps(rows)

\* oneOp draws kind, and the database answers.
Draw(kind) ==
    /\ pc = "op" /\ opsLeft > 0 /\ dbUp
    /\ kind \in NextOps(rows)

OpRead ==
    /\ Draw("read")
    /\ opsLeft' = opsLeft - 1
    /\ UNCHANGED <<missed, pc, rows, table, sel, tickVars, dbUp>>

OpInsert(n) ==
    /\ Draw("insert")
    /\ table + n <= TableMax
    /\ table' = table + n
    /\ rows' = rows + n
    /\ opsLeft' = opsLeft - 1
    /\ UNCHANGED <<missed, pc, sel, tickVars, dbUp>>

\* The rows are inserted, the answer is lost: the counter stays.
InsertLost(n) ==
    /\ "lostInsert" \in Faults
    /\ Draw("insert")
    /\ table + n <= TableMax /\ missed + n <= DriftMax
    /\ table' = table + n /\ missed' = missed + n
    /\ pc' = "idle" /\ opsLeft' = 0
    /\ UNCHANGED <<rows, sel, tickVars, dbUp>>

Batch == IF rows >= High THEN BulkMin .. BulkMax ELSE 1 .. DeleteMax

\* opDelete first selects the oldest ids; with none it is done.
SelectOldest(n) ==
    /\ Draw("delete")
    /\ n \in Batch
    /\ sel' = AtMost(n, table)
    /\ IF table = 0 THEN pc' = pc /\ opsLeft' = opsLeft - 1
                    ELSE pc' = "delete" /\ UNCHANGED opsLeft
    /\ UNCHANGED <<missed, rows, table, tickVars, dbUp>>

\* It then deletes those that are still there and subtracts their number.
DeleteSelected ==
    /\ pc = "delete" /\ dbUp
    /\ table' = table - sel
    /\ rows' = rows - sel
    /\ sel' = 0
    /\ pc' = "op" /\ opsLeft' = opsLeft - 1
    /\ UNCHANGED <<missed, tickVars, dbUp>>

DeleteLost ==
    /\ "lostDelete" \in Faults
    /\ pc = "delete" /\ dbUp
    /\ table' = table - sel
    /\ sel' = 0
    /\ pc' = "idle" /\ opsLeft' = 0
    /\ UNCHANGED <<missed, rows, tickVars, dbUp>>

----------------------------------------------------------------------------
(* The database and its other users.                                       *)

\* Somebody deletes k rows, hit of them selected by the running opDelete.
ExtDelete(k, hit) ==
    /\ "extDelete" \in Faults
    /\ k \in 1 .. table
    /\ hit \in 0 .. AtMost(k, sel)
    /\ k - hit <= table - sel
    /\ table' = table - k /\ sel' = sel - hit
    /\ UNCHANGED <<missed, pc, opsLeft, rows, tickVars, dbUp>>

Outage ==
    /\ "outage" \in Faults
    /\ dbUp' = ~dbUp
    /\ UNCHANGED <<missed, pc, opsLeft, rows, table, sel, tickVars>>

----------------------------------------------------------------------------
Insert == \E n \in 1 .. InsertMax : OpInsert(n)
Select == \E n \in 1 .. DeleteMax \cup BulkMin .. BulkMax : SelectOldest(n)

TickStep ==
    \/ BeginTick
    \/ Migrate
    \/ AlreadyReady
    \/ OpRead
    \/ Insert
    \/ Select
    \/ DeleteSelected
    \/ EndTick
    \/ Reconcile

Failure ==
    \/ NotReady
    \/ Cancelled
    \/ OpFails
    \/ ReconcileFails
    \/ \E n \in 1 .. InsertMax : InsertLost(n)
    \/ DeleteLost

Next ==
    \/ TickStep
    \/ Failure
    \/ \E k \in 1 .. table, hit \in 0 .. sel : ExtDelete(k, hit)
    \/ Outage

Spec == Init /\ [][Next]_vars

\* Ticks keep coming and go on; every kind of operation the mix allows is drawn
\* again and again, and the database does not fail for ever: outages end, ticks
\* complete, a delete and a count succeed again and again.
FairSpec ==
    /\ Spec
    /\ WF_vars(TickStep)
    /\ SF_vars(Select) /\ SF_vars(DeleteSelected) /\ SF_vars(Reconcile)
    /\ <>[]dbUp
    /\ []<><<EndTick>>_vars

----------------------------------------------------------------------------
(* Properties.                                                             *)

\* The workload adds no row while the table holds the low mark or more, however
\* its counter has drifted by outside deletes, failures and lost answers; only
\* rows that were inserted without an answer since the last count do not count
\* (nextOp, dbworkload.go:228-251).
NoGrowthAboveLow == [][table' > table => table - missed < Low]_vars

\* A table at the low mark or above is drained below it: one filled under a larger
\* MaxRows, and one the counter says nothing of, because inserts were executed
\* without an answer (nextOp and reconcile, dbworkload.go:224-240, 376-390).
Drains == table >= Low ~> table < Low

\* Drift is corrected (dbReconcileEvery, dbworkload.go:61-63).
DriftCorrected == (migrated /\ rows # table) ~> rows = table
=============================================================================
