-------------------------- MODULE DBWorkloadProofs --------------------------
(***************************************************************************)
(* Proofs about DBWorkload for any marks, batch sizes and faults: the      *)
(* table stays below its cap, goes down once it is at the low mark, and a  *)
(* tick is short.                                                          *)
(***************************************************************************)
EXTENDS DBWorkload, TLAPS

\* Operations run on a table that has been counted.
StageInv ==
    /\ pc \in {"op", "delete", "reconcile"} => migrated
    /\ pc = "delete" => opsLeft > 0
    /\ sel <= table

\* Only lost answers of inserts put the table ahead of the counter.
CounterAhead == migrated => table <= rows + missed

IInv == TypeOK /\ StageInv /\ CounterAhead

\* A new workload satisfies the invariant, whatever the table holds
\* (NewDBWorkload, dbworkload.go:82-93).
LEMMA InitIInv == Init => IInv
  <1> SUFFICES ASSUME Init PROVE IInv
    OBVIOUS
  <1> USE DBAssumption DEF Init
  <1>1. opsLeft \in 0 .. OpsMax /\ ticks \in 0 .. ReconcileEvery - 1
    OBVIOUS
  <1>2. TypeOK
    <2>1. table \in Nat /\ rows \in Int /\ sel \in Nat /\ missed \in Nat
      OBVIOUS
    <2>2. opened \in BOOLEAN /\ migrated \in BOOLEAN /\ downLogged \in BOOLEAN /\ dbUp \in BOOLEAN
      OBVIOUS
    <2> QED
      BY <1>1, <2>1, <2>2 DEF TypeOK
  <1>3. StageInv /\ CounterAhead
    BY <1>2 DEF TypeOK, StageInv, CounterAhead
  <1> QED
    BY <1>2, <1>3 DEF IInv

\* What the helpers return.
LEMMA AtMostType == \A m, n \in Int : AtMost(m, n) \in {m, n} /\ AtMost(m, n) <= n
  BY DEF AtMost

\* Every step of a tick, every failure and every outside change preserves it.
LEMMA NextIInv == IInv /\ [Next]_vars => IInv'
  <1> SUFFICES ASSUME IInv, [Next]_vars PROVE IInv'
    OBVIOUS
  <1> USE DBAssumption DEF IInv, TypeOK, StageInv, CounterAhead
  <1>1. CASE BeginTick
    BY <1>1 DEF BeginTick, tickVars
  <1>2. CASE NotReady
    BY <1>2 DEF NotReady
  <1>3. CASE Migrate
    <2>1. opsLeft' \in 0 .. OpsMax /\ pc' = "op"
      BY <1>3 DEF Migrate, StartOps
    <2>2. table' = table /\ rows' = table /\ missed' = 0 /\ sel' = sel /\ migrated' = TRUE
      BY <1>3 DEF Migrate, StartOps
    <2>3. TypeOK'
      <3>1. opened' = TRUE /\ downLogged' = FALSE /\ missed' = 0 /\ UNCHANGED <<ticks, dbUp>>
        BY <1>3 DEF Migrate, StartOps
      <3>2. /\ opened' \in BOOLEAN /\ migrated' \in BOOLEAN
            /\ downLogged' \in BOOLEAN /\ dbUp' \in BOOLEAN
        BY <2>2, <3>1, Zenon
      <3> QED
        BY <2>1, <2>2, <3>1, <3>2
    <2> QED
      BY <2>1, <2>2, <2>3
  <1>4. CASE AlreadyReady
    <2>1. opsLeft' \in 0 .. OpsMax /\ pc' = "op"
      BY <1>4 DEF AlreadyReady, StartOps
    <2> QED
      BY <1>4, <2>1 DEF AlreadyReady, StartOps
  <1>5. CASE Cancelled
    BY <1>5 DEF Cancelled, tickVars
  <1>6. CASE OpFails
    BY <1>6 DEF OpFails, tickVars
  <1>7. CASE EndTick
    BY <1>7 DEF EndTick
  <1>8. CASE Reconcile
    BY <1>8 DEF Reconcile, tickVars
  <1>9. CASE ReconcileFails
    BY <1>9 DEF ReconcileFails, tickVars
  <1>10. CASE OpRead
    BY <1>10 DEF OpRead, Draw, tickVars
  <1>11. ASSUME NEW n \in 1 .. InsertMax, OpInsert(n) PROVE IInv'
    BY <1>11 DEF OpInsert, Draw, tickVars
  <1>12. ASSUME NEW n \in 1 .. InsertMax, InsertLost(n) PROVE IInv'
    BY <1>12 DEF InsertLost, Draw, tickVars
  <1>13. ASSUME NEW n \in 1 .. DeleteMax \cup BulkMin .. BulkMax, SelectOldest(n)
         PROVE  IInv'
    <2>1. n \in Nat /\ sel' \in {n, table} /\ sel' <= table
      BY <1>13, AtMostType DEF SelectOldest
    <2> QED
      BY <1>13, <2>1 DEF SelectOldest, Draw, tickVars
  <1>14. CASE DeleteSelected
    <2>1. opsLeft' \in 0 .. OpsMax /\ rows' \in Int
      BY <1>14 DEF DeleteSelected
    <2>2. table' \in Nat /\ (table <= rows + missed => table' <= rows' + missed')
      BY <1>14 DEF DeleteSelected
    <2> QED
      BY <1>14, <2>1, <2>2 DEF DeleteSelected, tickVars
  <1>15. CASE DeleteLost
    BY <1>15 DEF DeleteLost, tickVars
  <1>16. ASSUME NEW k \in 1 .. table, NEW hit \in 0 .. sel, ExtDelete(k, hit)
         PROVE  IInv'
    BY <1>16 DEF ExtDelete, tickVars
  <1>17. CASE Outage
    BY <1>17 DEF Outage, tickVars
  <1>18. CASE UNCHANGED vars
    BY <1>18 DEF vars
  <1> QED
    BY <1>1, <1>2, <1>3, <1>4, <1>5, <1>6, <1>7, <1>8, <1>9, <1>10, <1>11, <1>12,
       <1>13, <1>14, <1>15, <1>16, <1>17, <1>18
       DEF Next, TickStep, Failure, Insert, Select

\* The invariant holds in every reachable state of the workload.
THEOREM InductiveInvariant == Spec => []IInv
  BY InitIInv, NextIInv, PTL DEF Spec

\* Type correctness: neither the table nor a selection is ever negative,
\* whatever is deleted behind a running opDelete (dbworkload.go:353-373).
THEOREM TypeCorrect == Spec => []TypeOK
  <1>1. IInv => TypeOK
    BY DEF IInv
  <1> QED
    BY <1>1, InductiveInvariant, PTL

\* Only inserts make the table grow.
LEMMA GrowthIsInsert ==
    ASSUME IInv, Next, table' > table
    PROVE  \E n \in 1 .. InsertMax : OpInsert(n) \/ InsertLost(n)
  <1> USE DBAssumption DEF IInv, TypeOK, StageInv
  <1>0. ~(table' = table)
    OBVIOUS
  <1>1. CASE TickStep
    BY <1>1 DEF TickStep, Insert, Select, BeginTick, Migrate, AlreadyReady, StartOps,
       OpRead, SelectOldest, DeleteSelected, EndTick, Reconcile
  <1>2. CASE Failure
    <2>1. ~DeleteLost
      BY DEF DeleteLost
    <2>2. ~(NotReady \/ Cancelled \/ OpFails \/ ReconcileFails)
      BY <1>0 DEF NotReady, Cancelled, OpFails, ReconcileFails
    <2> QED
      BY <1>2, <2>1, <2>2 DEF Failure
  <1>3. CASE (\E k \in 1 .. table, hit \in 0 .. sel : ExtDelete(k, hit)) \/ Outage
    BY <1>3 DEF ExtDelete, Outage
  <1> QED
    BY <1>1, <1>2, <1>3 DEF Next

\* Inserts are drawn below the low mark only.
LEMMA InsertsBelowLow == ASSUME TypeOK, "insert" \in NextOps(rows) PROVE rows < Low
  <1>1. ~(rows >= High) /\ ~(Low <= rows /\ rows < High)
    BY DEF NextOps
  <1>2. High \in Int /\ Low \in Int /\ rows \in Int
    BY DBAssumption DEF High, Low, TypeOK
  <1>3. Low <= High
    BY DBAssumption DEF High, Low
  <1> QED
    BY <1>1, <1>2, <1>3

\* The table never grows from the low mark upwards, for every MaxRows and every
\* fault, but for rows the counter has not heard of (nextOp,
\* dbworkload.go:228-251).
THEOREM GrowthStops == Spec => NoGrowthAboveLow
  <1>1. IInv /\ [Next]_vars => [table' > table => table - missed < Low]_vars
    <2> SUFFICES ASSUME IInv, Next, table' > table PROVE table - missed < Low
      BY DEF vars
    <2> USE DBAssumption DEF IInv, TypeOK
    <2>1. PICK n \in 1 .. InsertMax : OpInsert(n) \/ InsertLost(n)
      BY GrowthIsInsert
    <2>2. "insert" \in NextOps(rows) /\ table <= rows + missed
      BY <2>1 DEF OpInsert, InsertLost, Draw, StageInv, CounterAhead
    <2>3. rows < Low /\ Low \in Int
      BY <2>2, InsertsBelowLow DEF Low
    <2> QED
      BY <2>2, <2>3
  <1> QED
    BY <1>1, InductiveInvariant, PTL DEF Spec, NoGrowthAboveLow
----------------------------------------------------------------------------
(* The size of the table.                                                  *)

\* Never above T, which it may have when the daemon starts and which an insert
\* below the low mark reaches at most.
TableInv(T) == table <= T /\ missed <= DriftMax

\* What a step adds to the table is a small insert below the low mark.
LEMMA GrowthIsSmall ==
    ASSUME IInv, Next, missed <= DriftMax, table' > table
    PROVE  table' <= Low - 1 + InsertMax + DriftMax
  <1> USE DBAssumption DEF IInv, TypeOK
  <1>1. PICK n \in 1 .. InsertMax : OpInsert(n) \/ InsertLost(n)
    BY GrowthIsInsert
  <1>2. table <= rows + missed /\ rows < Low
    <2>1. pc = "op" /\ "insert" \in NextOps(rows)
      BY <1>1 DEF OpInsert, InsertLost, Draw
    <2> QED
      BY <2>1, InsertsBelowLow DEF StageInv, CounterAhead
  <1>3. table' = table + n /\ n <= InsertMax
    BY <1>1 DEF OpInsert, InsertLost
  <1>4. Low \in Int /\ rows \in Int /\ table \in Int /\ missed \in Int /\ n \in Int
    BY DEF Low
  <1>5. InsertMax \in Int /\ DriftMax \in Int
    OBVIOUS
  <1> HIDE DBAssumption DEF IInv, TypeOK
  <1> QED
    BY <1>2, <1>3, <1>4, <1>5

\* Where the bound on unanswered rows is used up.
LEMMA DriftIsBounded == IInv /\ [Next]_vars => (missed <= DriftMax => missed' <= DriftMax)
  <1> SUFFICES ASSUME IInv, [Next]_vars, missed <= DriftMax PROVE missed' <= DriftMax
    OBVIOUS
  <1> USE DBAssumption DEF IInv, TypeOK
  <1>1. CASE missed' = missed
    BY <1>1
  <1>2. CASE Migrate \/ Reconcile
    BY <1>2 DEF Migrate, Reconcile
  <1>3. ASSUME NEW n \in 1 .. InsertMax, InsertLost(n) PROVE missed' <= DriftMax
    BY <1>3 DEF InsertLost
  <1>4. CASE TickStep
    BY <1>1, <1>2, <1>4 DEF TickStep, Insert, Select, BeginTick, AlreadyReady,
       OpRead, OpInsert, SelectOldest, DeleteSelected, EndTick
  <1>5. CASE Failure
    BY <1>1, <1>3, <1>5 DEF Failure, NotReady, Cancelled, OpFails, ReconcileFails, DeleteLost
  <1>6. CASE (\E k \in 1 .. table, hit \in 0 .. sel : ExtDelete(k, hit)) \/ Outage
    BY <1>1, <1>6 DEF ExtDelete, Outage
  <1>7. CASE UNCHANGED vars
    BY <1>1, <1>7 DEF vars
  <1> QED
    BY <1>4, <1>5, <1>6, <1>7 DEF Next

\* T has room for one insert below the low mark and for the rows whose inserts were
\* not answered since the last count, and the table does not start above it.
Roomy(T) == (\A t \in InitTable : t <= T) /\ Low - 1 + InsertMax + DriftMax <= T

LEMMA NextTableInv ==
    ASSUME NEW CONSTANT T \in Nat, Roomy(T)
    PROVE  /\ Init => TableInv(T)
           /\ IInv /\ TableInv(T) /\ [Next]_vars => TableInv(T)'
  <1>1. Init => TableInv(T)
    BY DBAssumption DEF Init, TableInv, Roomy
  <1>2. ASSUME IInv, TableInv(T), [Next]_vars PROVE TableInv(T)'
    <2>1. missed' <= DriftMax
      BY <1>2, DriftIsBounded DEF TableInv
    <2>2. table \in Nat /\ table' \in Nat /\ Low \in Int
      BY <1>2, NextIInv, DBAssumption DEF IInv, TypeOK, Low
    <2>3. CASE table' > table
      <3>1. Next
        BY <1>2, <2>2, <2>3 DEF vars
      <3>2. table' <= Low - 1 + InsertMax + DriftMax
        BY <1>2, <2>3, <3>1, GrowthIsSmall DEF TableInv
      <3> QED
        BY <2>1, <2>2, <3>2, DBAssumption DEF TableInv, Roomy
    <2>4. CASE ~(table' > table)
      BY <1>2, <2>1, <2>2, <2>4 DEF TableInv
    <2> QED
      BY <2>3, <2>4
  <1> QED
    BY <1>1, <1>2

\* The cap.  A table that does not start above T never gets above it, if T has
\* room for an insert; for MaxRows = T this is what config.go:164 promises, and the
\* room it takes is the 30% above the low mark.
THEOREM TableStaysBounded ==
  ASSUME NEW CONSTANT T \in Nat, Roomy(T)
  PROVE  Spec => [](table <= T)
  <1>1. /\ Init => TableInv(T)
        /\ IInv /\ TableInv(T) /\ [Next]_vars => TableInv(T)'
    BY NextTableInv
  <1>2. TableInv(T) => table <= T
    BY DEF TableInv
  <1> QED
    BY <1>1, <1>2, InductiveInvariant, PTL DEF Spec

\* With the batches of opInsert and every insert answered MaxRows is such a cap from
\* 11 rows on; an insert of five takes a table of six rows past 10 (config.go:164,
\* dbworkload.go:273).
THEOREM MaxRowsIsKept ==
  ASSUME InsertMax = 5, DriftMax = 0, MaxRows >= 11, \A t \in InitTable : t <= MaxRows
  PROVE  Spec => [](table <= MaxRows)
  <1>1. MaxRows \in Nat
    BY DBAssumption
  <1>2. Roomy(MaxRows)
    BY <1>1 DEF Low, Roomy
  <1>3. /\ Init => TableInv(MaxRows)
        /\ IInv /\ TableInv(MaxRows) /\ [Next]_vars => TableInv(MaxRows)'
    BY <1>1, <1>2, NextTableInv
  <1>4. TableInv(MaxRows) => table <= MaxRows
    BY DEF TableInv
  <1> QED
    BY <1>3, <1>4, InductiveInvariant, PTL DEF Spec

\* The drain.  While the counter is at the low mark or above, no operation raises it,
\* and a delete that removes anything lowers it and the table by the same number; only
\* counting the table can set it higher.  That deletes are drawn, and that a counter
\* that differs from the table is set right, is what Drains leaves to fairness (nextOp
\* and opDelete, dbworkload.go:228-251, 353-373).
THEOREM DrainGoesDown ==
    Spec => [][rows >= Low =>
                  \/ rows' = rows
                  \/ DeleteSelected /\ rows' < rows /\ table - table' = rows - rows'
                  \/ (Migrate \/ Reconcile) /\ rows' = table]_vars
  <1>1. IInv /\ [Next]_vars => [rows >= Low =>
                                    \/ rows' = rows
                                    \/ DeleteSelected /\ rows' < rows /\ table - table' = rows - rows'
                                    \/ (Migrate \/ Reconcile) /\ rows' = table]_vars
    <2> SUFFICES ASSUME IInv, Next, rows >= Low, rows' # rows
                 PROVE  \/ DeleteSelected /\ rows' < rows /\ table - table' = rows - rows'
                        \/ (Migrate \/ Reconcile) /\ rows' = table
      OBVIOUS
    <2>1. CASE Insert
      <3>1. "insert" \in NextOps(rows)
        BY <2>1 DEF Insert, OpInsert, Draw
      <3>2. rows < Low /\ Low \in Int /\ rows \in Int
        BY <3>1, InsertsBelowLow, DBAssumption DEF IInv, TypeOK, Low
      <3> QED
        BY <3>2
    <2>2. CASE DeleteSelected
      <3>1. rows' = rows - sel /\ table' = table - sel /\ sel \in Nat /\ rows \in Int /\ table \in Nat
        BY <2>2 DEF DeleteSelected, IInv, TypeOK
      <3> QED
        BY <2>2, <3>1
    <2>3. CASE Migrate \/ Reconcile
      BY <2>3 DEF Migrate, Reconcile
    <2>4. CASE BeginTick \/ AlreadyReady \/ OpRead \/ Select \/ EndTick
      BY <2>4 DEF BeginTick, AlreadyReady, OpRead, Select, SelectOldest, EndTick
    <2>5. CASE Failure
      BY <2>5 DEF Failure, NotReady, Cancelled, OpFails, ReconcileFails, InsertLost, DeleteLost
    <2>6. CASE (\E k \in 1 .. table, hit \in 0 .. sel : ExtDelete(k, hit)) \/ Outage
      BY <2>6 DEF ExtDelete, Outage
    <2> QED
      BY <2>1, <2>2, <2>3, <2>4, <2>5, <2>6 DEF Next, TickStep
  <1> QED
    BY <1>1, InductiveInvariant, PTL DEF Spec

----------------------------------------------------------------------------
(* The steps of a tick.                                                    *)

\* How many steps a tick has left: two for each operation, one to count the table.
TickSteps ==
    CASE pc = "ready"     -> 2 * OpsMax + 3
      [] pc = "op"        -> 2 * opsLeft + 2
      [] pc = "delete"    -> 2 * opsLeft + 1
      [] pc = "reconcile" -> 1
      [] OTHER            -> 0

\* A tick ends after at most 2 * OpsMax + 3 steps of its own, whichever operations
\* are drawn and whatever fails; changes of others and outages give it no step
\* more, and only the next tick begins again (Tick, dbworkload.go:119-147).
THEOREM TicksRunOut ==
    /\ Spec => [](TickSteps \in 0 .. 2 * OpsMax + 3)
    /\ Spec => [][\/ BeginTick /\ TickSteps = 0
                  \/ TickSteps' < TickSteps
                  \/ pc' = pc /\ TickSteps' = TickSteps]_vars
  <1> USE DBAssumption DEF TickSteps
  <1>1. IInv => TickSteps \in 0 .. 2 * OpsMax + 3
    BY DEF IInv, TypeOK
  <1>2. IInv /\ [Next]_vars => [\/ BeginTick /\ TickSteps = 0
                                \/ TickSteps' < TickSteps
                                \/ pc' = pc /\ TickSteps' = TickSteps]_vars
    <2> SUFFICES ASSUME IInv, Next
                 PROVE  \/ BeginTick /\ TickSteps = 0
                        \/ TickSteps' < TickSteps
                        \/ pc' = pc /\ TickSteps' = TickSteps
      OBVIOUS
    <2>0. opsLeft \in 0 .. OpsMax /\ opsLeft' \in 0 .. OpsMax
      BY NextIInv DEF IInv, TypeOK
    <2>1. CASE BeginTick
      BY <2>1 DEF BeginTick
    <2>2. CASE NotReady \/ Migrate \/ AlreadyReady
      <3>1. pc = "ready" /\ pc' \in {"op", "idle"}
        BY <2>2 DEF NotReady, Migrate, AlreadyReady, StartOps
      <3> QED
        BY <2>0, <3>1
    <2>3. CASE Cancelled \/ OpFails \/ \E n \in 1 .. InsertMax : InsertLost(n)
      <3>1. pc \in {"op", "delete"} /\ pc' = "idle"
        BY <2>3 DEF Cancelled, OpFails, InsertLost, Draw
      <3> QED
        BY <2>0, <3>1
    <2>4. CASE OpRead \/ Insert
      <3>1. pc = "op" /\ pc' = "op" /\ opsLeft' = opsLeft - 1
        BY <2>4 DEF OpRead, Insert, OpInsert, Draw
      <3> QED
        BY <2>0, <3>1
    <2>5. CASE Select
      <3>1. /\ pc = "op"
            /\ \/ pc' = "op" /\ opsLeft' = opsLeft - 1
               \/ pc' = "delete" /\ opsLeft' = opsLeft
        BY <2>5 DEF Select, SelectOldest, Draw
      <3> QED
        BY <2>0, <3>1
    <2>6. CASE DeleteSelected
      <3>1. pc = "delete" /\ pc' = "op" /\ opsLeft' = opsLeft - 1
        BY <2>6 DEF DeleteSelected
      <3> QED
        BY <2>0, <3>1
    <2>7. CASE DeleteLost
      <3>1. pc = "delete" /\ pc' = "idle"
        BY <2>7 DEF DeleteLost
      <3> QED
        BY <2>0, <3>1
    <2>8. CASE EndTick
      <3>1. pc = "op" /\ pc' \in {"reconcile", "idle"}
        BY <2>8 DEF EndTick
      <3> QED
        BY <2>0, <3>1
    <2>9. CASE Reconcile \/ ReconcileFails
      <3>1. pc = "reconcile" /\ pc' = "idle"
        BY <2>9 DEF Reconcile, ReconcileFails
      <3> QED
        BY <3>1
    <2>10. CASE (\E k \in 1 .. table, hit \in 0 .. sel : ExtDelete(k, hit)) \/ Outage
      <3>1. pc' = pc /\ opsLeft' = opsLeft
        BY <2>10 DEF ExtDelete, Outage
      <3> QED
        BY <3>1
    <2> QED
      BY <2>1, <2>2, <2>3, <2>4, <2>5, <2>6, <2>7, <2>8, <2>9, <2>10
         DEF Next, TickStep, Failure
  <1> QED
    BY <1>1, <1>2, InductiveInvariant, PTL DEF Spec
=============================================================================
