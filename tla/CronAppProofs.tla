--------------------------- MODULE CronAppProofs ---------------------------
(***************************************************************************)
(* Proofs about CronApp for any number of goroutines and entry ids, and    *)
(* for goroutines that are as late for their overlap check as can be.  In  *)
(* fixed mode cycles never overlap; in interval mode they do only when a   *)
(* goroutine passes its check under an entry that has been replaced, and   *)
(* only then can the schedule multiply.  It never dies.  Once the loop is  *)
(* stopped the daemon runs out of steps.                                   *)
(***************************************************************************)
EXTENDS CronApp, FunctionTheorems, FiniteSetTheorems, WellFoundedInduction, TLAPS

\* Each entry is executed by one goroutine at a time (the overlap policy).
TokenInv ==
    \A j, k \in Jobs : jst[j] \in Active /\ jst[k] \in Active /\ jid[j] = jid[k] => j = k

\* Only cycles of interval mode reschedule.
KindInv ==
    \A j \in Jobs : jst[j] \in {"unarm", "remove", "clear", "arm", "record"} =>
        intervalMod /\ jid[j] \in CycleIds

\* Fixed mode: one entry for good, and every cycle is of that entry.
FixedInv ==
    /\ CycleEntries = {entry}
    /\ \A j \in Jobs : jst[j] # "none" /\ jid[j] \in CycleIds => jid[j] = entry

\* Interval mode: unless somebody is rescheduling, the entry that is known of is
\* registered; what AddFunc has returned is registered and still to be known of.
KnownInv ==
    /\ Rescheduling = {} => hasEntry /\ entry \in CycleEntries
    /\ \A j \in Jobs : jst[j] = "record" => added[j] \in CycleEntries \ {entry}
    /\ \A j, k \in Jobs : jst[j] = "record" /\ jst[k] = "record" /\ added[j] = added[k]
                              => j = k

\* The stages of the main goroutine.
MainInv ==
    /\ ctx = "nil" <=> main = "new"
    /\ looping <=> main \in {"serving", "cancelled"}
    /\ main \in {"new", "ctx", "close", "stopped"} => \A j \in Jobs : jst[j] = "none"
    /\ main = "stopped" => pool # "open"

BaseInv ==
    /\ TypeOK
    /\ TokenInv
    /\ KindInv
    /\ MainInv
    /\ ~intervalMod => FixedInv
    /\ intervalMod => KnownInv

\* Interval mode without overlaps: what the cycle that is under way has done to
\* the schedule.
ChainInv ==
    /\ (\A j \in Jobs : ~InCycle(j)) => hasEntry /\ CycleEntries = {entry}
    /\ \A j \in Jobs : InCycle(j) =>
          CASE jst[j] \in {"run", "unarm", "remove", "done"} ->
                  hasEntry /\ CycleEntries = {entry}
            [] jst[j] = "clear" -> hasEntry /\ CycleEntries = {}
            [] jst[j] = "arm" -> ~hasEntry /\ CycleEntries = {}
            [] jst[j] = "record" -> ~hasEntry /\ CycleEntries = {added[j]}

\* ... and without late passes: the cycle is of the entry it will replace, and no
\* goroutine of the new entry is there before the cycle is over.
PunctualInv ==
    \A j \in Jobs : InCycle(j) =>
        /\ jst[j] \in {"run", "unarm", "remove"} => jid[j] = entry
        /\ jst[j] = "done" => added[j] = entry
        /\ jst[j] \in {"record", "done"} => \A k \in Jobs : jid[k] # added[j]

----------------------------------------------------------------------------
\* The state New leaves satisfies the invariants (app.go:50-87).
LEMMA InitInv == Init => BaseInv /\ NoOverlap /\ PunctualInv /\ (intervalMod => ChainInv)
  <1> SUFFICES ASSUME Init PROVE BaseInv /\ NoOverlap /\ PunctualInv /\ (intervalMod => ChainInv)
    OBVIOUS
  <1> USE CronAssumption
  <1>0. entry \in CycleIds /\ \A j \in Jobs : jst[j] = "none"
    BY DEF Init
  <1>1. TypeOK
    BY <1>0 DEF Init, TypeOK, Ids, JobStates
  <1>2. TokenInv /\ KindInv /\ NoOverlap /\ MainInv /\ PunctualInv
    BY <1>0 DEF Init, TokenInv, KindInv, NoOverlap, MainInv, PunctualInv, InCycle, Active
  <1>3. CycleEntries = {entry}
    BY <1>0 DEF Init, CycleEntries
  <1>4. intervalMod => KnownInv /\ ChainInv
    BY <1>0, <1>3 DEF Init, KnownInv, ChainInv, InCycle, Active
  <1>5. FixedInv
    BY <1>0, <1>3 DEF FixedInv
  <1> QED
    BY <1>1, <1>2, <1>4, <1>5 DEF BaseInv

\* No step changes the mode.
LEMMA ModeStays == [Next]_vars => intervalMod' = intervalMod
  BY DEF Next, MainStep, JobStep, MakeCtx, CronStart, Cancel, CronStop, Drained, CloseDB,
     Fire, CheckOverlap, Skip, Release, CycleEnds, Unarm, Remove, Clear, Arm, Record, TickOpens,
     TickEnds, mainVars, vars

\* Steps of the main goroutine and the opening of the pool leave the schedule and
\* the goroutines alone.
LEMMA MainFrame ==
    MainStep \/ Cancel \/ (\E j \in Jobs : TickOpens(j)) \/ UNCHANGED vars =>
        UNCHANGED <<intervalMod, entries, entry, hasEntry, jst, jid, added>>
  BY DEF MainStep, MakeCtx, CronStart, Cancel, CronStop, Drained, CloseDB, TickOpens, vars,
     mainVars, appVars, jobVars

\* What a step of goroutine j does to the others.
LEMMA OthersRest ==
    ASSUME TypeOK, NEW j \in Jobs, JobStep(j) \/ \E i \in Ids : Fire(i, j)
    PROVE  /\ \A k \in Jobs \ {j} : jst'[k] = jst[k] /\ jid'[k] = jid[k] /\ added'[k] = added[k]
           /\ UNCHANGED <<main, ctx, looping, pool>>
  BY DEF TypeOK, JobStep, Fire, CheckOverlap, Skip, Release, CycleEnds, Unarm, Remove, Clear, Arm,
     Record, TickEnds, mainVars, appVars

\* The id a new entry gets is one nobody refers to.
LEMMA ArmFresh ==
    ASSUME NEW j \in Jobs, Arm(j)
    PROVE  \E i \in CycleIds : /\ FreshId(i)
                              /\ entries' = entries \cup {i}
                              /\ added' = [added EXCEPT ![j] = i]
                              /\ jst' = [jst EXCEPT ![j] = "record"]
                              /\ UNCHANGED <<mainVars, entry, hasEntry, jid, pool>>
  <1> DEFINE i == CHOOSE i \in CycleIds : FreshId(i)
  <1>1. i \in CycleIds /\ FreshId(i)
    BY DEF Arm
  <1> QED
    BY <1>1 DEF Arm

\* Every step of the main goroutine, of the scheduler and of a job preserves the
\* invariant, however late goroutines are for their check.
LEMMA NextBase == BaseInv /\ [Next]_vars => BaseInv'
  <1> SUFFICES ASSUME BaseInv, [Next]_vars PROVE BaseInv'
    OBVIOUS
  <1> USE CronAssumption DEF BaseInv
  <1>0. intervalMod' = intervalMod
    BY ModeStays
  <1>1. CASE MainStep \/ Cancel \/ (\E j \in Jobs : TickOpens(j)) \/ UNCHANGED vars
    <2>1. UNCHANGED <<intervalMod, entries, entry, hasEntry, jst, jid, added>>
      BY <1>1, MainFrame
    <2>2. TypeOK'
      <3>1. CASE MainStep \/ Cancel
        BY <2>1, <3>1 DEF TypeOK, MainStep, MakeCtx, CronStart, Cancel, CronStop, Drained, CloseDB
      <3>2. CASE (\E j \in Jobs : TickOpens(j)) \/ UNCHANGED vars
        BY <2>1, <3>2 DEF TypeOK, TickOpens, vars, mainVars
      <3> QED
        BY <1>1, <3>1, <3>2
    <2>3. MainInv'
      <3>1. CASE MainStep \/ Cancel
        BY <2>1, <3>1 DEF TypeOK, MainInv, MainStep, MakeCtx, CronStart, Cancel, CronStop, Drained,
           CloseDB
      <3>2. CASE (\E j \in Jobs : TickOpens(j)) \/ UNCHANGED vars
        BY <2>1, <3>2 DEF MainInv, TickOpens, vars, mainVars
      <3> QED
        BY <1>1, <3>1, <3>2
    <2> QED
      BY <2>1, <2>2, <2>3 DEF TokenInv, KindInv, FixedInv, KnownInv, CycleEntries, Rescheduling
  <1>2. ASSUME NEW i \in Ids, NEW j \in Jobs, Fire(i, j) PROVE BaseInv'
    <2>1. TypeOK'
      BY <1>2 DEF TypeOK, JobStates, Ids, Fire, Ripe, mainVars, appVars
    <2>2. TokenInv' /\ KindInv'
      BY <1>0, <1>2 DEF TokenInv, KindInv, TypeOK, Active, JobStates, Fire, Ripe, mainVars, appVars
    <2>3. MainInv'
      BY <1>2 DEF MainInv, TypeOK, Fire, Ripe, mainVars, appVars
    <2>4. ASSUME ~intervalMod PROVE FixedInv'
      BY <2>4, <1>2 DEF FixedInv, KindInv, CycleEntries, TypeOK, Fire, Ripe, mainVars, appVars
    <2>5. ASSUME intervalMod PROVE KnownInv'
      BY <2>5, <1>2
         DEF KnownInv, KindInv, CycleEntries, Rescheduling, TypeOK, Fire, Ripe, mainVars, appVars
    <2> QED
      BY <1>0, <2>1, <2>2, <2>3, <2>4, <2>5
  <1>3. ASSUME NEW j \in Jobs, CheckOverlap(j) PROVE BaseInv'
    <2>1. TypeOK'
      BY <1>3 DEF TypeOK, JobStates, Ids, CheckOverlap, Busy, mainVars, appVars
    <2>2. TokenInv' /\ KindInv'
      BY <1>0, <1>3
         DEF TokenInv, KindInv, TypeOK, Active, JobStates, CheckOverlap, Busy, mainVars, appVars
    <2>3. MainInv'
      BY <1>3 DEF MainInv, TypeOK, CheckOverlap, Busy, mainVars, appVars
    <2>4. ASSUME ~intervalMod PROVE FixedInv'
      BY <2>4, <1>3
         DEF FixedInv, KindInv, CycleEntries, TypeOK, CheckOverlap, Busy, mainVars, appVars
    <2>5. ASSUME intervalMod PROVE KnownInv'
      BY <2>5, <1>3
         DEF KnownInv, KindInv, CycleEntries, Rescheduling, TypeOK, CheckOverlap, Busy, mainVars, appVars
    <2> QED
      BY <1>0, <2>1, <2>2, <2>3, <2>4, <2>5
  <1>4. ASSUME NEW j \in Jobs, Skip(j) PROVE BaseInv'
    <2>1. TypeOK'
      BY <1>4 DEF TypeOK, JobStates, Ids, Skip, Busy, mainVars, appVars
    <2>2. TokenInv' /\ KindInv'
      BY <1>0, <1>4 DEF TokenInv, KindInv, TypeOK, Active, JobStates, Skip, Busy, mainVars, appVars
    <2>3. MainInv'
      BY <1>4 DEF MainInv, TypeOK, Skip, Busy, mainVars, appVars
    <2>4. ASSUME ~intervalMod PROVE FixedInv'
      BY <2>4, <1>4 DEF FixedInv, KindInv, CycleEntries, TypeOK, Skip, Busy, mainVars, appVars
    <2>5. ASSUME intervalMod PROVE KnownInv'
      BY <2>5, <1>4
         DEF KnownInv, KindInv, CycleEntries, Rescheduling, TypeOK, Skip, Busy, mainVars, appVars
    <2> QED
      BY <1>0, <2>1, <2>2, <2>3, <2>4, <2>5
  <1>5. ASSUME NEW j \in Jobs, Release(j) PROVE BaseInv'
    <2>1. TypeOK'
      BY <1>5 DEF TypeOK, JobStates, Ids, Release, mainVars, appVars
    <2>2. TokenInv' /\ KindInv'
      BY <1>0, <1>5 DEF TokenInv, KindInv, TypeOK, Active, JobStates, Release, mainVars, appVars
    <2>3. MainInv'
      BY <1>5 DEF MainInv, TypeOK, Release, mainVars, appVars
    <2>4. ASSUME ~intervalMod PROVE FixedInv'
      BY <2>4, <1>5 DEF FixedInv, KindInv, CycleEntries, TypeOK, Release, mainVars, appVars
    <2>5. ASSUME intervalMod PROVE KnownInv'
      BY <2>5, <1>5
         DEF KnownInv, KindInv, CycleEntries, Rescheduling, TypeOK, Release, mainVars, appVars
    <2> QED
      BY <1>0, <2>1, <2>2, <2>3, <2>4, <2>5
  <1>6. ASSUME NEW j \in Jobs, CycleEnds(j) PROVE BaseInv'
    <2>1. TypeOK'
      BY <1>6 DEF TypeOK, JobStates, Ids, CycleEnds, mainVars, appVars
    <2>2. TokenInv' /\ KindInv'
      BY <1>0, <1>6 DEF TokenInv, KindInv, TypeOK, Active, JobStates, CycleEnds, mainVars, appVars
    <2>3. MainInv'
      BY <1>6 DEF MainInv, TypeOK, CycleEnds, mainVars, appVars
    <2>4. ASSUME ~intervalMod PROVE FixedInv'
      BY <2>4, <1>6 DEF FixedInv, KindInv, CycleEntries, TypeOK, CycleEnds, mainVars, appVars
    <2>5. ASSUME intervalMod PROVE KnownInv'
      BY <2>5, <1>6
         DEF KnownInv, KindInv, CycleEntries, Rescheduling, TypeOK, CycleEnds, mainVars, appVars
    <2> QED
      BY <1>0, <2>1, <2>2, <2>3, <2>4, <2>5
  <1>7. ASSUME NEW j \in Jobs, Unarm(j) PROVE BaseInv'
    <2>1. TypeOK'
      BY <1>7 DEF TypeOK, JobStates, Ids, Unarm, mainVars, appVars
    <2>2. TokenInv' /\ KindInv'
      BY <1>0, <1>7 DEF TokenInv, KindInv, TypeOK, Active, JobStates, Unarm, mainVars, appVars
    <2>3. MainInv'
      BY <1>7 DEF MainInv, TypeOK, Unarm, mainVars, appVars
    <2>4. ASSUME ~intervalMod PROVE FixedInv'
      BY <2>4, <1>7 DEF FixedInv, KindInv, CycleEntries, TypeOK, Unarm, mainVars, appVars
    <2>5. ASSUME intervalMod PROVE KnownInv'
      BY <2>5, <1>7
         DEF KnownInv, KindInv, CycleEntries, Rescheduling, TypeOK, Unarm, mainVars, appVars
    <2> QED
      BY <1>0, <2>1, <2>2, <2>3, <2>4, <2>5
  <1>8. ASSUME NEW j \in Jobs, Remove(j) PROVE BaseInv'
    <2>1. TypeOK'
      BY <1>8 DEF TypeOK, JobStates, Ids, Remove, mainVars, appVars
    <2>2. TokenInv' /\ KindInv'
      BY <1>0, <1>8 DEF TokenInv, KindInv, TypeOK, Active, JobStates, Remove, mainVars, appVars
    <2>3. MainInv'
      BY <1>8 DEF MainInv, TypeOK, Remove, mainVars, appVars
    <2>4. ASSUME ~intervalMod PROVE FixedInv'
      BY <2>4, <1>8 DEF FixedInv, KindInv, CycleEntries, TypeOK, Remove, mainVars, appVars
    <2>5. ASSUME intervalMod PROVE KnownInv'
      BY <2>5, <1>8
         DEF KnownInv, KindInv, CycleEntries, Rescheduling, TypeOK, Remove, mainVars, appVars
    <2> QED
      BY <1>0, <2>1, <2>2, <2>3, <2>4, <2>5
  <1>9. ASSUME NEW j \in Jobs, Clear(j) PROVE BaseInv'
    <2>1. TypeOK'
      BY <1>9 DEF TypeOK, JobStates, Ids, Clear, mainVars, appVars
    <2>2. TokenInv' /\ KindInv'
      BY <1>0, <1>9 DEF TokenInv, KindInv, TypeOK, Active, JobStates, Clear, mainVars, appVars
    <2>3. MainInv'
      BY <1>9 DEF MainInv, TypeOK, Clear, mainVars, appVars
    <2>4. ASSUME ~intervalMod PROVE FixedInv'
      BY <2>4, <1>9 DEF FixedInv, KindInv, CycleEntries, TypeOK, Clear, mainVars, appVars
    <2>5. ASSUME intervalMod PROVE KnownInv'
      BY <2>5, <1>9
         DEF KnownInv, KindInv, CycleEntries, Rescheduling, TypeOK, Clear, mainVars, appVars
    <2> QED
      BY <1>0, <2>1, <2>2, <2>3, <2>4, <2>5
  <1>10. ASSUME NEW j \in Jobs, Arm(j) PROVE BaseInv'
    <2>0. PICK i \in CycleIds : /\ FreshId(i)
                                  /\ entries' = entries \cup {i}
                                  /\ added' = [added EXCEPT ![j] = i]
                                  /\ jst' = [jst EXCEPT ![j] = "record"]
                                  /\ UNCHANGED <<mainVars, entry, hasEntry, jid, pool>>
      BY <1>10, ArmFresh
    <2>a. jst[j] = "arm"
      BY <1>10 DEF Arm
    <2>1. TypeOK'
      BY <2>0, <2>a DEF TypeOK, JobStates, Ids, FreshId, mainVars, appVars
    <2>2. TokenInv' /\ KindInv'
      BY <1>0, <2>0, <2>a
         DEF TokenInv, KindInv, TypeOK, Active, JobStates, FreshId, mainVars, appVars
    <2>3. MainInv'
      BY <2>0, <2>a DEF MainInv, TypeOK, FreshId, mainVars, appVars
    <2>4. ASSUME ~intervalMod PROVE FixedInv'
      BY <2>4, <2>0, <2>a DEF FixedInv, KindInv, CycleEntries, TypeOK, FreshId, mainVars, appVars
    <2>5. ASSUME intervalMod PROVE KnownInv'
      BY <2>5, <2>0, <2>a
         DEF KnownInv, KindInv, CycleEntries, Rescheduling, TypeOK, FreshId, mainVars, appVars
    <2> QED
      BY <1>0, <2>1, <2>2, <2>3, <2>4, <2>5
  <1>11. ASSUME NEW j \in Jobs, Record(j) PROVE BaseInv'
    <2>1. TypeOK'
      BY <1>11
         DEF TypeOK, JobStates, Ids, KindInv, KnownInv, CycleEntries, Record, mainVars, appVars
    <2>2. TokenInv' /\ KindInv'
      BY <1>0, <1>11 DEF TokenInv, KindInv, TypeOK, Active, JobStates, Record, mainVars, appVars
    <2>3. MainInv'
      BY <1>11 DEF MainInv, TypeOK, Record, mainVars, appVars
    <2>4. ASSUME ~intervalMod PROVE FixedInv'
      BY <2>4, <1>11 DEF FixedInv, KindInv, CycleEntries, TypeOK, Record, mainVars, appVars
    <2>5. ASSUME intervalMod PROVE KnownInv'
      BY <2>5, <1>11
         DEF KnownInv, KindInv, CycleEntries, Rescheduling, TypeOK, Record, mainVars, appVars
    <2> QED
      BY <1>0, <2>1, <2>2, <2>3, <2>4, <2>5
  <1>12. ASSUME NEW j \in Jobs, TickEnds(j) PROVE BaseInv'
    <2>1. TypeOK'
      BY <1>12 DEF TypeOK, JobStates, Ids, TickEnds, mainVars, appVars
    <2>2. TokenInv' /\ KindInv'
      BY <1>0, <1>12 DEF TokenInv, KindInv, TypeOK, Active, JobStates, TickEnds, mainVars, appVars
    <2>3. MainInv'
      BY <1>12 DEF MainInv, TypeOK, TickEnds, mainVars, appVars
    <2>4. ASSUME ~intervalMod PROVE FixedInv'
      BY <2>4, <1>12 DEF FixedInv, KindInv, CycleEntries, TypeOK, TickEnds, mainVars, appVars
    <2>5. ASSUME intervalMod PROVE KnownInv'
      BY <2>5, <1>12
         DEF KnownInv, KindInv, CycleEntries, Rescheduling, TypeOK, TickEnds, mainVars, appVars
    <2> QED
      BY <1>0, <2>1, <2>2, <2>3, <2>4, <2>5
  <1> QED
    BY <1>1, <1>2, <1>3, <1>4, <1>5, <1>6, <1>7, <1>8, <1>9, <1>10, <1>11, <1>12 DEF Next, JobStep

----------------------------------------------------------------------------
(* Interval mode: cycles one at a time keep the schedule single, and they  *)
(* are one at a time unless a goroutine passes its check late.             *)

\* Goroutines that a step does not touch are in a cycle after it as before.
LEMMA OthersInCycle ==
    ASSUME TypeOK, NEW j \in Jobs, JobStep(j) \/ \E i \in Ids : Fire(i, j)
    PROVE  \A k \in Jobs \ {j} : InCycle(k)' <=> InCycle(k)
  BY OthersRest DEF InCycle

\* A goroutine with a stage of scheduleNext behind or before it is in a cycle.
LEMMA InScheduleNext ==
    ASSUME KindInv, NEW j \in Jobs, jst[j] \in {"unarm", "remove", "clear", "arm", "record"}
    PROVE  InCycle(j)
  BY DEF KindInv, InCycle, Active, JobStates

\* Without overlaps every step leaves the schedule as the cycle under way needs it.
LEMMA NextChain ==
    ASSUME BaseInv, intervalMod, NoOverlap, NoOverlap', ChainInv, [Next]_vars
    PROVE  ChainInv'
  <1>1. CASE MainStep \/ Cancel \/ (\E j \in Jobs : TickOpens(j)) \/ UNCHANGED vars
    <2>1. UNCHANGED <<entries, entry, hasEntry, jst, jid, added>>
      BY <1>1, MainFrame
    <2> QED
      BY <2>1 DEF ChainInv, CycleEntries, InCycle
  <1>2. ASSUME NEW j \in Jobs, JobStep(j) \/ \E i \in Ids : Fire(i, j)
        PROVE  ChainInv'
    <2> USE DEF BaseInv
    <2>1. \A k \in Jobs \ {j} : /\ InCycle(k)' <=> InCycle(k)
                                /\ jst'[k] = jst[k] /\ added'[k] = added[k]
      BY <1>2, OthersInCycle, OthersRest
    <2>2. jst \in [Jobs -> JobStates] /\ jid \in [Jobs -> Ids \cup {NoId}]
      BY DEF TypeOK
    <2>3. CASE (\E i \in Ids : Fire(i, j)) \/ Skip(j)
      <3>1. UNCHANGED <<entries, entry, hasEntry>>
        BY <2>3 DEF Fire, Skip, appVars
      <3>2. ~InCycle(j) /\ ~InCycle(j)'
        BY <2>2, <2>3 DEF Fire, Skip, InCycle, Active, JobStates
      <3> QED
        BY <2>1, <3>1, <3>2 DEF ChainInv, CycleEntries
    <2>4. CASE CheckOverlap(j)
      <3>1. UNCHANGED <<entries, entry, hasEntry>> /\ jst'[j] = "run" /\ ~InCycle(j)
        BY <2>2, <2>4 DEF CheckOverlap, InCycle, Active, JobStates, appVars
      <3>2. CASE InCycle(j)'
        <4>1. \A k \in Jobs \ {j} : ~InCycle(k)'
          BY <3>2 DEF NoOverlap
        <4>2. \A k \in Jobs : ~InCycle(k)
          BY <2>1, <3>1, <4>1
        <4> QED
          BY <3>1, <4>1, <4>2 DEF ChainInv, CycleEntries
      <3>3. CASE ~InCycle(j)'
        BY <2>1, <3>1, <3>3 DEF ChainInv, CycleEntries
      <3> QED
        BY <3>2, <3>3
    <2>5. CASE TickEnds(j)
      <3>1. UNCHANGED <<entries, entry, hasEntry>>
        BY <2>5 DEF TickEnds, appVars
      <3>2. ~InCycle(j) /\ ~InCycle(j)'
        BY <2>2, <2>5, CronAssumption DEF TickEnds, InCycle
      <3> QED
        BY <2>1, <3>1, <3>2 DEF ChainInv, CycleEntries
    <2>6. CASE Release(j)
      <3>1. UNCHANGED <<entries, entry, hasEntry>> /\ jst[j] = "done" /\ ~InCycle(j)'
        BY <2>2, <2>6 DEF Release, InCycle, Active, JobStates, appVars
      <3>2. CASE InCycle(j)
        <4>1. hasEntry /\ CycleEntries = {entry} /\ \A k \in Jobs : ~InCycle(k)'
          BY <2>1, <3>1, <3>2 DEF ChainInv, NoOverlap
        <4> QED
          BY <3>1, <4>1 DEF ChainInv, CycleEntries
      <3>3. CASE ~InCycle(j)
        BY <2>1, <3>1, <3>3 DEF ChainInv, CycleEntries
      <3> QED
        BY <3>2, <3>3
    <2>7. ASSUME CycleEnds(j) \/ Unarm(j) \/ Remove(j) \/ Clear(j) \/ Arm(j) \/ Record(j)
          PROVE  ChainInv'
      <3>1. InCycle(j)
        BY <2>7, InScheduleNext
           DEF CycleEnds, Unarm, Remove, Clear, Arm, Record, InCycle, Active, JobStates
      <3>2. \A k \in Jobs \ {j} : ~InCycle(k) /\ ~InCycle(k)'
        BY <2>1, <3>1 DEF NoOverlap
      <3>3. SUFFICES /\ InCycle(j)'
                     /\ jst'[j] \in {"run", "unarm", "remove", "done"} =>
                            hasEntry' /\ CycleEntries' = {entry'}
                     /\ jst'[j] = "clear" => hasEntry' /\ CycleEntries' = {}
                     /\ jst'[j] = "arm" => ~hasEntry' /\ CycleEntries' = {}
                     /\ jst'[j] = "record" => ~hasEntry' /\ CycleEntries' = {added'[j]}
        BY <3>2 DEF ChainInv, InCycle, Active, JobStates
      <3>4. CASE CycleEnds(j) \/ Unarm(j)
        <4>1. hasEntry /\ CycleEntries = {entry}
          BY <3>1, <3>4 DEF ChainInv, CycleEnds, Unarm
        <4>2. jst'[j] \in {"unarm", "remove"} /\ jid' = jid
              /\ UNCHANGED <<entries, entry, hasEntry>>
          BY <2>2, <3>4, <4>1 DEF CycleEnds, Unarm, appVars
        <4> QED
          BY <3>1, <4>1, <4>2 DEF InCycle, Active, JobStates, CycleEntries
      <3>5. CASE Remove(j)
        <4>1. hasEntry /\ CycleEntries = {entry}
          BY <3>1, <3>5 DEF ChainInv, Remove
        <4>2. jst'[j] = "clear" /\ jid' = jid /\ hasEntry' /\ CycleEntries' = {}
          BY <2>2, <3>5, <4>1 DEF Remove, CycleEntries
        <4> QED
          BY <3>1, <4>2 DEF InCycle, Active, JobStates
      <3>6. CASE Clear(j)
        <4>1. CycleEntries = {}
          BY <3>1, <3>6 DEF ChainInv, Clear
        <4>2. jst'[j] = "arm" /\ jid' = jid /\ ~hasEntry' /\ CycleEntries' = {}
          BY <2>2, <3>6, <4>1 DEF Clear, CycleEntries
        <4> QED
          BY <3>1, <4>2 DEF InCycle, Active, JobStates
      <3>7. CASE Arm(j)
        <4>1. jst[j] = "arm" /\ ~hasEntry /\ CycleEntries = {}
          BY <3>1, <3>7 DEF ChainInv, Arm
        <4>2. PICK i \in CycleIds : /\ entries' = entries \cup {i}
                                    /\ added' = [added EXCEPT ![j] = i]
                                    /\ jst' = [jst EXCEPT ![j] = "record"]
                                    /\ UNCHANGED <<hasEntry, jid>>
          BY <3>7, ArmFresh
        <4>3. added'[j] = i /\ jst'[j] = "record"
          BY <2>2, <4>2 DEF TypeOK
        <4>4. CycleEntries' = {added'[j]} /\ ~hasEntry'
          BY <4>1, <4>2, <4>3 DEF CycleEntries
        <4> QED
          BY <3>1, <4>2, <4>3, <4>4 DEF InCycle, Active, JobStates
      <3>8. CASE Record(j)
        <4>1. CycleEntries = {added[j]}
          BY <3>1, <3>8 DEF ChainInv, Record
        <4>2. jst'[j] = "done" /\ jid' = jid /\ hasEntry' /\ CycleEntries' = {entry'}
          BY <2>2, <3>8, <4>1 DEF Record, CycleEntries
        <4> QED
          BY <3>1, <4>2 DEF InCycle, Active, JobStates
      <3> QED
        BY <2>7, <3>4, <3>5, <3>6, <3>7, <3>8
    <2> QED
      BY <1>2, <2>3, <2>4, <2>5, <2>6, <2>7 DEF JobStep
  <1> QED
    BY <1>1, <1>2 DEF Next

\* Without late passes a goroutine that passes its check finds no cycle under way:
\* one of the entry known of would hold it, and one that has replaced it has not
\* yet released it when the new entry is ripe.
LEMMA NextPunctual ==
    ASSUME BaseInv, intervalMod, NoOverlap, ChainInv, PunctualInv, [Next]_vars, ~LatePass
    PROVE  NoOverlap' /\ PunctualInv'
  <1>1. CASE MainStep \/ Cancel \/ (\E j \in Jobs : TickOpens(j)) \/ UNCHANGED vars
    BY <1>1, MainFrame DEF NoOverlap, PunctualInv, InCycle
  <1>2. ASSUME NEW j \in Jobs, JobStep(j) \/ \E i \in Ids : Fire(i, j)
        PROVE  NoOverlap' /\ PunctualInv'
    <2> USE DEF BaseInv
    <2>1. \A k \in Jobs \ {j} : /\ InCycle(k)' <=> InCycle(k)
                                /\ jst'[k] = jst[k] /\ jid'[k] = jid[k] /\ added'[k] = added[k]
      BY <1>2, OthersInCycle, OthersRest
    <2>2. /\ jst \in [Jobs -> JobStates] /\ jid \in [Jobs -> Ids \cup {NoId}]
          /\ added \in [Jobs -> CycleIds \cup {NoId}]
      BY DEF TypeOK
    <2>3. ASSUME NEW i \in Ids, Fire(i, j) PROVE NoOverlap' /\ PunctualInv'
      <3>1. entry' = entry /\ jid'[j] = i /\ added' = added
        BY <2>2, <2>3 DEF Fire, appVars
      <3>2. ~InCycle(j) /\ ~InCycle(j)'
        BY <2>2, <2>3 DEF Fire, InCycle, Active, JobStates
      <3>3. \A k \in Jobs : jst[k] \in {"record", "done"} => added[k] # i
        BY <2>3 DEF Fire, Ripe
      <3> QED
        BY <2>1, <3>1, <3>2, <3>3 DEF NoOverlap, PunctualInv
    <2>4. CASE Skip(j)
      <3>1. entry' = entry /\ jid'[j] = NoId /\ added' = added
        BY <2>2, <2>4 DEF Skip, appVars
      <3>2. ~InCycle(j) /\ ~InCycle(j)'
        BY <2>2, <2>4 DEF Skip, InCycle, Active, JobStates
      <3>3. \A k \in Jobs : InCycle(k) /\ jst[k] \in {"record", "done"} => added[k] \in CycleIds
        <4> SUFFICES ASSUME NEW k \in Jobs, InCycle(k), jst[k] \in {"record", "done"}
                     PROVE  added[k] \in CycleIds
          OBVIOUS
        <4>1. CASE jst[k] = "record"
          BY <4>1 DEF KnownInv, CycleEntries
        <4>2. CASE jst[k] = "done"
          BY <4>2 DEF PunctualInv, TypeOK
        <4> QED
          BY <4>1, <4>2
      <3> QED
        BY <2>1, <3>1, <3>2, <3>3, CronAssumption DEF NoOverlap, PunctualInv
    <2>5. CASE CheckOverlap(j)
      <3>1. /\ entry' = entry /\ jid' = jid /\ added' = added
            /\ jst[j] = "spawned" /\ jst'[j] = "run" /\ ~InCycle(j)
        BY <2>2, <2>5 DEF CheckOverlap, InCycle, Active, JobStates, appVars
      <3>2. CASE jid[j] \in CycleIds
        <4>1. jid[j] \in CycleEntries
          BY <2>5, <3>2 DEF LatePass, CycleEntries
        <4>2. ASSUME NEW k \in Jobs, InCycle(k) PROVE FALSE
          <5>1. jst[k] \notin {"clear", "arm"}
            BY <4>1, <4>2 DEF ChainInv
          <5>2. CASE jst[k] \in {"run", "unarm", "remove"}
            <6>1. jid[k] = jid[j]
              BY <4>1, <4>2, <5>2 DEF ChainInv, PunctualInv
            <6> QED
              BY <2>5, <4>2, <6>1 DEF CheckOverlap, Busy, InCycle
          <5>3. CASE jst[k] \in {"record", "done"}
            <6>1. jst[k] = "record" => CycleEntries = {added[k]}
              BY <4>2 DEF ChainInv
            <6>2. jst[k] = "done" => CycleEntries = {entry} /\ added[k] = entry
              BY <4>2 DEF ChainInv, PunctualInv
            <6> QED
              BY <4>1, <4>2, <5>3, <6>1, <6>2 DEF PunctualInv
          <5> QED
            BY <4>2, <5>1, <5>2, <5>3 DEF InCycle, Active, JobStates
        <4>3. jid[j] = entry
          BY <4>1, <4>2 DEF ChainInv
        <4> QED
          BY <2>1, <3>1, <4>2, <4>3 DEF NoOverlap, PunctualInv
      <3>3. CASE jid[j] \notin CycleIds
        <4>1. ~InCycle(j)'
          BY <3>1, <3>3 DEF InCycle
        <4> QED
          BY <2>1, <3>1, <4>1 DEF NoOverlap, PunctualInv
      <3> QED
        BY <3>2, <3>3
    <2>6. CASE TickEnds(j)
      <3>1. entry' = entry /\ jid' = jid /\ added' = added
        BY <2>6 DEF TickEnds, appVars
      <3>2. ~InCycle(j) /\ ~InCycle(j)'
        BY <2>2, <2>6, CronAssumption DEF TickEnds, InCycle
      <3> QED
        BY <2>1, <3>1, <3>2 DEF NoOverlap, PunctualInv
    <2>7. CASE Release(j)
      <3>1. entry' = entry /\ jid'[j] = NoId /\ ~InCycle(j)' /\ jst[j] = "done"
        BY <2>2, <2>7 DEF Release, InCycle, Active, JobStates, appVars
      <3>2. CASE InCycle(j)
        <4>1. \A k \in Jobs : ~InCycle(k)'
          BY <2>1, <3>1, <3>2 DEF NoOverlap
        <4> QED
          BY <4>1 DEF NoOverlap, PunctualInv
      <3>3. CASE ~InCycle(j)
        <4>1. ASSUME NEW k \in Jobs, InCycle(k), jst[k] \in {"record", "done"}
              PROVE  added[k] # NoId
          BY <4>1, CronAssumption DEF KnownInv, PunctualInv, TypeOK, CycleEntries
        <4> QED
          BY <2>1, <3>1, <3>3, <4>1 DEF NoOverlap, PunctualInv
      <3> QED
        BY <3>2, <3>3
    <2>8. ASSUME CycleEnds(j) \/ Unarm(j) \/ Remove(j) \/ Clear(j) \/ Arm(j) \/ Record(j)
          PROVE  NoOverlap' /\ PunctualInv'
      <3>1. InCycle(j)
        BY <2>8, InScheduleNext
           DEF CycleEnds, Unarm, Remove, Clear, Arm, Record, InCycle, Active, JobStates
      <3>2. \A k \in Jobs \ {j} : ~InCycle(k) /\ ~InCycle(k)'
        BY <2>1, <3>1 DEF NoOverlap
      <3>3. jid' = jid
        BY <2>8 DEF CycleEnds, Unarm, Remove, Clear, Arm, Record
      <3>4. SUFFICES /\ jst'[j] \in {"run", "unarm", "remove"} => jid'[j] = entry'
                     /\ jst'[j] = "done" => added'[j] = entry'
                     /\ jst'[j] \in {"record", "done"} => \A k \in Jobs : jid'[k] # added'[j]
        BY <3>2 DEF NoOverlap, PunctualInv
      <3>5. CASE CycleEnds(j) \/ Unarm(j)
        <4>1. jst[j] \in {"run", "unarm"} /\ jst'[j] \in {"unarm", "remove", "arm"} /\ entry' = entry
          BY <2>2, <3>5 DEF CycleEnds, Unarm, appVars
        <4> QED
          BY <3>1, <3>3, <4>1 DEF PunctualInv
      <3>6. CASE Remove(j) \/ Clear(j)
        <4>1. jst'[j] \in {"clear", "arm"}
          BY <2>2, <3>6 DEF Remove, Clear
        <4> QED
          BY <4>1
      <3>7. CASE Arm(j)
        <4>1. PICK i \in CycleIds : /\ FreshId(i)
                                    /\ added' = [added EXCEPT ![j] = i]
                                    /\ jst' = [jst EXCEPT ![j] = "record"]
          BY <3>7, ArmFresh
        <4>2. added'[j] = i /\ jst'[j] = "record"
          BY <2>2, <4>1
        <4> QED
          BY <3>3, <4>1, <4>2 DEF FreshId
      <3>8. CASE Record(j)
        <4>1. jst[j] = "record" /\ jst'[j] = "done" /\ added' = added /\ entry' = added[j]
          BY <2>2, <3>8 DEF Record
        <4> QED
          BY <3>1, <3>3, <4>1 DEF PunctualInv
      <3> QED
        BY <2>8, <3>5, <3>6, <3>7, <3>8
    <2> QED
      BY <1>2, <2>3, <2>4, <2>5, <2>6, <2>7, <2>8 DEF JobStep
  <1> QED
    BY <1>1, <1>2 DEF Next

----------------------------------------------------------------------------
\* The invariant holds in every reachable state of the daemon's scheduling.
THEOREM InductiveBase == Spec => []BaseInv
  <1>1. Init => BaseInv
    BY InitInv
  <1> QED
    BY <1>1, NextBase, PTL DEF Spec

\* Type correctness: scheduleNext never remembers an id AddFunc did not give it
\* for the keep-alive job (app.go:123-136).
THEOREM TypeCorrect == Spec => []TypeOK
  <1>1. BaseInv => TypeOK
    BY DEF BaseInv
  <1> QED
    BY <1>1, InductiveBase, PTL

\* Once Stop has closed the pool nothing runs and nothing reopens it, in either
\* mode and however late goroutines start (app.go:103-110).
THEOREM StopIsQuiet == Spec => []QuietAfterClose
  <1>1. BaseInv => QuietAfterClose
    BY DEF BaseInv, MainInv, QuietAfterClose
  <1> QED
    BY <1>1, InductiveBase, PTL

\* No job ever runs without a run context (app.go:91-92).
THEOREM ContextComesFirst == Spec => []CtxReady
  <1>1. BaseInv => CtxReady
    BY DEF BaseInv, MainInv, CtxReady, Active, JobStates
  <1> QED
    BY <1>1, InductiveBase, PTL

\* Under a fixed spec cycles never overlap, however late a goroutine reaches its
\* check: every cycle is of the one entry the scheduler skips (app.go:53, 76-81).
THEOREM FixedModeIsSerial == Spec => []FixedModeSerial
  <1>1. BaseInv => FixedModeSerial
    BY DEF BaseInv, TokenInv, FixedInv, FixedModeSerial, NoOverlap, InCycle, Active, JobStates
  <1> QED
    BY <1>1, InductiveBase, PTL

\* The schedule never dies: whatever cycles overlap and wherever their reschedules
\* meet, an entry that scheduleNext knows of is registered when the last of them is
\* over (app.go:123-136).
THEOREM ScheduleNeverDies == Spec => []ScheduleSurvives
  <1>1. BaseInv => ScheduleSurvives
    <2> SUFFICES ASSUME BaseInv, \A j \in Jobs : ~InCycle(j)
                 PROVE  /\ CycleEntries # {}
                        /\ intervalMod => hasEntry /\ entry \in CycleEntries
      BY DEF ScheduleSurvives
    <2>1. Rescheduling = {}
      BY InScheduleNext DEF BaseInv, Rescheduling
    <2> QED
      BY <2>1 DEF BaseInv, FixedInv, KnownInv
  <1> QED
    BY <1>1, InductiveBase, PTL

\* One entry and only one between cycles, as long as no two cycles have overlapped
\* (app.go:40-41).
THEOREM SingleWithoutOverlap == Spec => StrayNeedsOverlap
  <1>1. BaseInv /\ (intervalMod => ChainInv) => OneSchedule
    <2> SUFFICES ASSUME BaseInv, intervalMod => ChainInv, \A j \in Jobs : ~InCycle(j)
                 PROVE  /\ Cardinality(CycleEntries) = 1
                        /\ intervalMod => hasEntry /\ CycleEntries = {entry}
      BY DEF OneSchedule
    <2>1. CycleEntries = {entry} /\ (intervalMod => hasEntry)
      BY DEF BaseInv, ChainInv, FixedInv
    <2>2. Cardinality({entry}) = 1
      BY FS_Singleton
    <2> QED
      BY <2>1, <2>2
  <1>2. Init => (intervalMod => ChainInv)
    BY InitInv
  <1>3. BaseInv /\ NoOverlap /\ NoOverlap' /\ (intervalMod => ChainInv) /\ [Next]_vars
            => (intervalMod => ChainInv)'
    BY NextChain, ModeStays
  <1> QED
    BY <1>1, <1>2, <1>3, InductiveBase, PTL DEF Spec, StrayNeedsOverlap

\* Cycles overlap in one way only: a goroutine that was started for an entry passes
\* its check after the running cycle has replaced that entry.  Where this never
\* happens, no two cycles are ever under way together (app.go:138-141).
THEOREM OverlapNeedsLatePass == Spec /\ [][~LatePass]_vars => []NoOverlap
  <1> DEFINE Inv == NoOverlap /\ (intervalMod => ChainInv /\ PunctualInv)
  <1>1. Init => Inv
    BY InitInv
  <1>2. BaseInv /\ BaseInv' /\ Inv /\ [Next]_vars /\ [~LatePass]_vars => Inv'
    <2> SUFFICES ASSUME BaseInv, BaseInv', Inv, [Next]_vars, [~LatePass]_vars PROVE Inv'
      OBVIOUS
    <2>0. intervalMod' = intervalMod
      BY ModeStays
    <2>1. CASE ~intervalMod
      <3>1. NoOverlap'
        BY <2>0, <2>1 DEF BaseInv, TokenInv, FixedInv, NoOverlap, InCycle, Active, JobStates
      <3> QED
        BY <2>0, <2>1, <3>1
    <2>2. CASE intervalMod /\ UNCHANGED vars
      <3>1. UNCHANGED <<entries, entry, hasEntry, jst, jid, added>>
        BY <2>2 DEF vars
      <3> QED
        BY <2>0, <2>2, <3>1 DEF NoOverlap, ChainInv, PunctualInv, CycleEntries, InCycle
    <2>3. CASE intervalMod /\ ~LatePass
      <3>1. NoOverlap' /\ PunctualInv'
        BY <2>3, NextPunctual
      <3>2. ChainInv'
        BY <2>3, <3>1, NextChain
      <3> QED
        BY <3>1, <3>2
    <2> QED
      BY <2>1, <2>2, <2>3
  <1>3. Inv => NoOverlap
    OBVIOUS
  <1> QED
    BY <1>1, <1>2, <1>3, InductiveBase, PTL DEF Spec

----------------------------------------------------------------------------
(* The safety part of CyclePromise.                                        *)

InCycleSet == {j \in Jobs : InCycle(j)}

\* A step starts one cycle at most or ends one at most.
LEMMA CyclesChangeByOne ==
    ASSUME IsFiniteSet(Jobs), TypeOK, NEW j \in Jobs, JobStep(j) \/ \E i \in Ids : Fire(i, j)
    PROVE  LET n == Cardinality(InCycleSet)  m == Cardinality(InCycleSet') IN
           /\ n \in Nat
           /\ \/ m = n
              \/ m = n + 1 /\ CheckOverlap(j) /\ jid[j] \in CycleIds
              \/ n > 0 /\ m = n - 1
  <1>1. IsFiniteSet(InCycleSet) /\ Cardinality(InCycleSet) \in Nat
    BY FS_Subset, FS_CardinalityType DEF InCycleSet
  <1>2. \A k \in Jobs \ {j} : k \in InCycleSet' <=> k \in InCycleSet
    BY OthersInCycle DEF InCycleSet
  <1>3. InCycleSet \subseteq Jobs /\ InCycleSet' \subseteq Jobs
    BY DEF InCycleSet
  <1>4. CASE j \in InCycleSet <=> j \in InCycleSet'
    <2>1. InCycleSet' = InCycleSet
      BY <1>2, <1>3, <1>4
    <2> QED
      BY <1>1, <2>1
  <1>5. CASE j \notin InCycleSet /\ j \in InCycleSet'
    <2>1. InCycleSet' = InCycleSet \cup {j}
      BY <1>2, <1>3, <1>5
    <2>2. Cardinality(InCycleSet') = Cardinality(InCycleSet) + 1
      BY <1>1, <1>5, <2>1, FS_AddElement
    <2>3. ~InCycle(j) /\ InCycle(j)'
      BY <1>5 DEF InCycleSet
    <2>4. jst \in [Jobs -> JobStates] /\ jid \in [Jobs -> Ids \cup {NoId}]
      BY DEF TypeOK
    <2>5. CheckOverlap(j) /\ jid[j] \in CycleIds
      BY <2>3, <2>4 DEF JobStep, Fire, CheckOverlap, Skip, Release, CycleEnds, Unarm, Remove, Clear,
         Arm, Record, TickEnds, InCycle, Active, JobStates
    <2> QED
      BY <1>1, <2>2, <2>5
  <1>6. CASE j \in InCycleSet /\ j \notin InCycleSet'
    <2>1. InCycleSet' = InCycleSet \ {j}
      BY <1>2, <1>3, <1>6
    <2>2. Cardinality(InCycleSet') = Cardinality(InCycleSet) - 1
      BY <1>1, <1>6, <2>1, FS_RemoveElement
    <2>3. Cardinality(InCycleSet) > 0
      BY <1>1, <1>6, FS_EmptySet
    <2> QED
      BY <1>1, <2>2, <2>3
  <1> QED
    BY <1>4, <1>5, <1>6

\* Every step of the daemon is a step of CyclePromise or invisible to it: none
\* begins before Start or after the stop has drained, and under a fixed spec only
\* when none is under way (app.go:101-110, 138-155).
LEMMA StepIsPromised ==
  ASSUME IsFiniteSet(Jobs), BaseInv, [Next]_vars
  PROVE  [Promise!Next]_(Promise!vars)
  <1> USE DEF Promise!Next, Promise!vars, BaseInv
  <1>0. intervalMod' = intervalMod
    BY ModeStays
  <1>1. CASE MainStep \/ Cancel \/ (\E j \in Jobs : TickOpens(j)) \/ UNCHANGED vars
    <2>1. UNCHANGED <<jst, jid>>
      BY <1>1, MainFrame
    <2>2. UNCHANGED Cardinality({j \in Jobs : InCycle(j)})
      BY <2>1 DEF InCycle
    <2>3. main = "close" => Cardinality({j \in Jobs : InCycle(j)}) = 0
      <3>1. main = "close" => {j \in Jobs : InCycle(j)} = {}
        BY DEF MainInv, InCycle, Active
      <3> QED
        BY <3>1, FS_EmptySet
    <2>4. CASE MainStep \/ Cancel
      BY <1>0, <2>2, <2>3, <2>4
         DEF MainStep, MakeCtx, CronStart, Cancel, CronStop, Drained, CloseDB,
         Promise!Start, Promise!Stop, Promise!Stopped
    <2>5. CASE (\E j \in Jobs : TickOpens(j)) \/ UNCHANGED vars
      BY <1>0, <2>2, <2>5 DEF TickOpens, mainVars, vars
    <2> QED
      BY <1>1, <2>4, <2>5
  <1>2. ASSUME NEW j \in Jobs, JobStep(j) \/ \E i \in Ids : Fire(i, j)
        PROVE  [Promise!Next]_(Promise!vars)
    <2>1. main' = main
      BY <1>2, OthersRest
    <2>2. CASE Cardinality(InCycleSet') = Cardinality(InCycleSet)
      BY <1>0, <2>1, <2>2 DEF InCycleSet
    <2>3. CASE /\ Cardinality(InCycleSet') = Cardinality(InCycleSet) + 1
               /\ CheckOverlap(j) /\ jid[j] \in CycleIds
      <3>1. main \notin {"new", "ctx", "close", "stopped"}
        BY <2>3 DEF MainInv, CheckOverlap
      <3>2. main \in {"serving", "cancelled", "drain"}
        BY <3>1 DEF TypeOK
      <3>3. ~intervalMod => Cardinality(InCycleSet) = 0
        <4>1. ASSUME ~intervalMod, NEW k \in Jobs, InCycle(k) PROVE FALSE
          <5>1. jid[k] = jid[j]
            BY <2>3, <4>1 DEF FixedInv, CheckOverlap, InCycle, Active, JobStates
          <5> QED
            BY <2>3, <4>1, <5>1 DEF CheckOverlap, Busy, InCycle
        <4> QED
          BY <4>1, FS_EmptySet DEF InCycleSet
      <3> QED
        BY <1>0, <2>1, <2>3, <3>2, <3>3 DEF InCycleSet, Promise!Begin
    <2>4. CASE /\ Cardinality(InCycleSet) > 0
               /\ Cardinality(InCycleSet') = Cardinality(InCycleSet) - 1
      BY <1>0, <2>1, <2>4 DEF InCycleSet, Promise!End
    <2> QED
      BY <1>2, <2>2, <2>3, <2>4, CyclesChangeByOne
  <1> QED
    BY <1>1, <1>2 DEF Next

\* The scheduling implements CyclePromise but for its liveness, in either mode: a
\* fixed spec has its cycles one at a time, and no cycle of either mode begins
\* before Start or outlasts the drain.
THEOREM PromiseIsSafe ==
  ASSUME IsFiniteSet(Jobs)
  PROVE  Spec => Promise!Init /\ [][Promise!Next]_(Promise!vars)
  <1>1. Init => Promise!Init
    <2> SUFFICES ASSUME Init PROVE Promise!Init
      OBVIOUS
    <2>1. {j \in Jobs : InCycle(j)} = {}
      BY DEF Init, InCycle, Active
    <2> QED
      BY <2>1, FS_EmptySet DEF Init, Promise!Init
  <1>2. BaseInv /\ [Next]_vars => [Promise!Next]_(Promise!vars)
    BY StepIsPromised
  <1> QED
    BY <1>1, <1>2, InductiveBase, PTL DEF Spec

----------------------------------------------------------------------------
(* Why a stop ends: once the loop is stopped nothing starts any more, and  *)
(* what runs has only so many steps left.                                  *)

\* The lexicographic order on n natural numbers.
Lower(n) == LexProductOrdering(OpToRel(<, Nat), Nat, n)

\* The goroutines, numbered.
JobCount == Cardinality(Jobs)
JobAt == CHOOSE b \in Bijection(1 .. JobCount, Jobs) : TRUE

\* Steps a goroutine has left.
JobSteps(j) ==
    CASE jst[j] = "spawned" -> 8
      [] jst[j] = "run"     -> 7
      [] jst[j] = "unarm"   -> 6
      [] jst[j] = "remove"  -> 5
      [] jst[j] = "clear"   -> 4
      [] jst[j] = "arm"     -> 3
      [] jst[j] = "record"  -> 2
      [] jst[j] = "done"    -> 1
      [] OTHER              -> 0

\* Stop itself, the pool that a tick may still open, then each goroutine.
StopRank ==
    [k \in 1 .. JobCount + 2 |->
        CASE k = 1 -> (CASE main = "stopped" -> 0 [] main = "close" -> 1 [] OTHER -> 2)
          [] k = 2 -> (IF pool = "none" THEN 1 ELSE 0)
          [] OTHER -> JobSteps(JobAt[k - 2])]

\* The loop is stopped.
Stopping == main \in {"drain", "close", "stopped"}

\* Every goroutine has one number.
LEMMA JobsNumbered ==
    ASSUME IsFiniteSet(Jobs)
    PROVE  /\ JobCount \in Nat
           /\ \A k \in 1 .. JobCount : JobAt[k] \in Jobs
           /\ \A j \in Jobs : \E k \in 1 .. JobCount : JobAt[k] = j
           /\ \A k, l \in 1 .. JobCount : JobAt[k] = JobAt[l] => k = l
  <1>1. JobCount \in Nat /\ ExistsBijection(1 .. JobCount, Jobs)
    BY FS_CardinalityType DEF JobCount
  <1>2. JobAt \in Bijection(1 .. JobCount, Jobs)
    BY <1>1 DEF JobAt, ExistsBijection
  <1> QED
    BY <1>1, <1>2, Fun_BijectionProperties

\* A goroutine has at most eight steps left.
LEMMA JobStepsType == \A j : JobSteps(j) \in 0 .. 8
  BY DEF JobSteps

\* The rank is so many numbers.
LEMMA StopRankType == ASSUME IsFiniteSet(Jobs) PROVE StopRank \in [1 .. JobCount + 2 -> Nat]
  <1>1. \A k : (CASE k = 1 -> (CASE main = "stopped" -> 0 [] main = "close" -> 1 [] OTHER -> 2)
                  [] k = 2 -> (IF pool = "none" THEN 1 ELSE 0)
                  [] OTHER -> JobSteps(JobAt[k - 2])) \in Nat
    BY JobStepsType
  <1> QED
    BY <1>1 DEF StopRank

LEMMA StopRankTypeNext == (IsFiniteSet(Jobs) => StopRank \in [1 .. JobCount + 2 -> Nat])'
  <1>1. IsFiniteSet(Jobs) => StopRank \in [1 .. JobCount + 2 -> Nat]
    BY StopRankType
  <1> QED
    BY <1>1, PTL

\* A step of a goroutine is one of those it had left.
LEMMA JobStepLowers ==
    ASSUME BaseInv, NEW j \in Jobs, JobStep(j)
    PROVE  /\ JobSteps(j)' < JobSteps(j)
           /\ \A k \in Jobs \ {j} : JobSteps(k)' = JobSteps(k)
           /\ UNCHANGED <<main, pool>>
  <1>1. jst \in [Jobs -> JobStates]
    BY DEF BaseInv, TypeOK
  <1>2. \A k \in Jobs \ {j} : jst'[k] = jst[k]
    BY <1>1 DEF JobStep, CheckOverlap, Skip, CycleEnds, Unarm, Remove, Clear, Arm, Record,
       TickEnds, Release
  <1>3. <<jst[j], jst'[j]>> \in
            {<<"spawned", "none">>, <<"spawned", "run">>, <<"run", "unarm">>,
             <<"run", "done">>, <<"unarm", "remove">>, <<"remove", "clear">>,
             <<"clear", "arm">>, <<"unarm", "arm">>, <<"arm", "record">>,
             <<"record", "done">>, <<"done", "none">>}
    BY <1>1 DEF JobStep, CheckOverlap, Skip, CycleEnds, Unarm, Remove, Clear, Arm, Record,
       TickEnds, Release
  <1>4. UNCHANGED <<main, pool>>
    BY DEF JobStep, CheckOverlap, Skip, CycleEnds, Unarm, Remove, Clear, Arm, Record,
       TickEnds, Release, mainVars
  <1>5. JobSteps(j)' < JobSteps(j)
    BY <1>3 DEF JobSteps
  <1>6. \A k \in Jobs \ {j} : JobSteps(k)' = JobSteps(k)
    BY <1>2 DEF JobSteps
  <1> QED
    BY <1>4, <1>5, <1>6

\* What a step lowers, with everything before it unchanged.
LEMMA LowerAt ==
    ASSUME NEW n \in Nat, NEW f \in [1 .. n -> Nat], NEW g \in [1 .. n -> Nat], NEW k \in 1 .. n,
           f[k] < g[k], \A i \in 1 .. k - 1 : f[i] = g[i]
    PROVE  <<f, g>> \in Lower(n)
  <1>1. <<f[k], g[k]>> \in OpToRel(<, Nat)
    BY DEF OpToRel
  <1> QED
    BY <1>1 DEF Lower, LexProductOrdering

\* A step after the loop was stopped.
LEMMA StopStepLowers ==
    ASSUME IsFiniteSet(Jobs), BaseInv, Stopping, Next
    PROVE  Stopping' /\ <<StopRank', StopRank>> \in Lower(JobCount + 2)
  <1>0. JobCount + 2 \in Nat /\ JobCount \in Nat
    BY JobsNumbered
  <1>1. StopRank \in [1 .. JobCount + 2 -> Nat] /\ StopRank' \in [1 .. JobCount + 2 -> Nat]
    BY StopRankType, StopRankTypeNext
  <1>2. /\ StopRank[1] = (CASE main = "stopped" -> 0 [] main = "close" -> 1 [] OTHER -> 2)
        /\ StopRank'[1] = (CASE main' = "stopped" -> 0 [] main' = "close" -> 1 [] OTHER -> 2)
    BY <1>0 DEF StopRank
  <1>3. /\ StopRank[2] = (IF pool = "none" THEN 1 ELSE 0)
        /\ StopRank'[2] = (IF pool' = "none" THEN 1 ELSE 0)
    BY <1>0 DEF StopRank
  <1>4. \A k \in 1 .. JobCount :
            StopRank[k + 2] = JobSteps(JobAt[k]) /\ StopRank'[k + 2] = JobSteps(JobAt[k])'
    <2> SUFFICES ASSUME NEW k \in 1 .. JobCount
                 PROVE  /\ StopRank[k + 2] = JobSteps(JobAt[k])
                        /\ StopRank'[k + 2] = JobSteps(JobAt[k])'
      OBVIOUS
    <2>1. k + 2 \in 1 .. JobCount + 2 /\ k + 2 # 1 /\ k + 2 # 2 /\ (k + 2) - 2 = k
      BY <1>0
    <2> QED
      BY <2>1 DEF StopRank
  <1>5. ~looping
    BY DEF BaseInv, MainInv, Stopping
  <1>6. CASE MainStep \/ Cancel
    <2>1. Drained \/ CloseDB
      BY <1>6 DEF MainStep, MakeCtx, CronStart, Cancel, CronStop, Stopping
    <2>2. Stopping' /\ StopRank'[1] < StopRank[1]
      BY <1>2, <2>1 DEF Drained, CloseDB, Stopping
    <2>3. 1 \in 1 .. JobCount + 2 /\ \A i \in 1 .. 1 - 1 : StopRank'[i] = StopRank[i]
      BY <1>0
    <2> QED
      BY <1>0, <1>1, <2>2, <2>3, LowerAt
  <1>7. ASSUME NEW j \in Jobs, TickOpens(j)
        PROVE  Stopping' /\ <<StopRank', StopRank>> \in Lower(JobCount + 2)
    <2>1. main' = main /\ pool = "none" /\ pool' = "open"
      BY <1>7 DEF TickOpens, mainVars
    <2>2. Stopping' /\ StopRank'[1] = StopRank[1] /\ StopRank'[2] < StopRank[2]
      BY <1>2, <1>3, <2>1 DEF Stopping
    <2>3. 2 \in 1 .. JobCount + 2 /\ \A i \in 1 .. 2 - 1 : StopRank'[i] = StopRank[i]
      BY <1>0, <2>2
    <2> QED
      BY <1>0, <1>1, <2>2, <2>3, LowerAt
  <1>8. ASSUME NEW j \in Jobs, JobStep(j)
        PROVE  Stopping' /\ <<StopRank', StopRank>> \in Lower(JobCount + 2)
    <2>1. PICK k \in 1 .. JobCount : JobAt[k] = j
      BY JobsNumbered
    <2>2. main' = main /\ pool' = pool
      BY <1>8, JobStepLowers
    <2>3. StopRank'[k + 2] < StopRank[k + 2]
      BY <1>4, <1>8, <2>1, JobStepLowers
    <2>4. ASSUME NEW l \in 1 .. JobCount, l # k PROVE StopRank'[l + 2] = StopRank[l + 2]
      <3>1. JobAt[l] \in Jobs \ {j}
        BY <2>1, <2>4, JobsNumbered
      <3> QED
        BY <1>4, <1>8, <3>1, JobStepLowers
    <2>5. ASSUME NEW i \in 1 .. (k + 2) - 1 PROVE StopRank'[i] = StopRank[i]
      <3>1. CASE i \in {1, 2}
        BY <1>2, <1>3, <2>2, <3>1
      <3>2. CASE i \notin {1, 2}
        <4>1. i - 2 \in 1 .. JobCount /\ i - 2 # k /\ (i - 2) + 2 = i
          BY <1>0, <3>2
        <4> QED
          BY <2>4, <4>1
      <3> QED
        BY <3>1, <3>2
    <2>6. k + 2 \in 1 .. JobCount + 2
      BY <1>0
    <2>7. <<StopRank', StopRank>> \in Lower(JobCount + 2)
      BY <1>0, <1>1, <2>3, <2>5, <2>6, LowerAt
    <2> QED
      BY <2>2, <2>7 DEF Stopping
  <1>9. ~\E i \in Ids, j \in Jobs : Fire(i, j)
    BY <1>5 DEF Fire
  <1> QED
    BY <1>6, <1>7, <1>8, <1>9 DEF Next

\* A stop ends: from the moment the scheduler's loop is stopped every step of the
\* daemon goes down in an order without endless descent, in either mode, however
\* many goroutines are under way and however late they start.  So the wait of Stop
\* is as long as what runs already; that each goroutine goes on is left to
\* fairness, and that a cycle and a tick end to CycleRunsOut and TicksRunOut
\* (app.go:103-110).
THEOREM StopRunsOut ==
  ASSUME IsFiniteSet(Jobs)
  PROVE  /\ IsWellFoundedOn(Lower(JobCount + 2), [1 .. JobCount + 2 -> Nat])
         /\ Spec => [](StopRank \in [1 .. JobCount + 2 -> Nat])
         /\ Spec => [][Stopping => Stopping' /\ <<StopRank', StopRank>> \in Lower(JobCount + 2)]_vars
  <1>1. IsWellFoundedOn(Lower(JobCount + 2), [1 .. JobCount + 2 -> Nat])
    <2>1. JobCount + 2 \in Nat
      BY JobsNumbered
    <2> QED
      BY <2>1, NatLessThanWellFounded, WFLexProductOrdering DEF Lower
  <1>2. StopRank \in [1 .. JobCount + 2 -> Nat]
    BY StopRankType
  <1>3. BaseInv /\ [Next]_vars =>
            [Stopping => Stopping' /\ <<StopRank', StopRank>> \in Lower(JobCount + 2)]_vars
    BY StopStepLowers
  <1>4. Spec => [](StopRank \in [1 .. JobCount + 2 -> Nat])
    BY <1>2, PTL
  <1> QED
    BY <1>1, <1>3, <1>4, InductiveBase, PTL DEF Spec
=============================================================================
