------------------------------ MODULE CronApp ------------------------------
(***************************************************************************)
(* The daemon's scheduling: App of internal/app/app.go on top of the cron  *)
(* scheduler (cronx, robfig/cron) with the "skip" overlap policy.          *)
(*                                                                         *)
(* The scheduler's loop starts a goroutine for every entry that fires; the *)
(* goroutine runs the entry's job unless another goroutine of the same     *)
(* entry still does.  In interval mode the job of a cycle replaces the     *)
(* entry it knows of when the cycle is over.  Time is abstracted: an entry *)
(* may fire whenever the loop runs, and a goroutine may be late for its    *)
(* overlap check.                                                          *)
(***************************************************************************)
EXTENDS Naturals, FiniteSets

CONSTANTS
    CycleIds,       \* entry ids of the keep-alive job
    DbIds,          \* entry id of the database job; empty without a driver
    NoId,           \* no entry
    Jobs,           \* bound: goroutines of the scheduler alive at a time
    MaxEntries      \* bound: keep-alive entries registered at a time

ASSUME CronAssumption ==
    /\ CycleIds \cap DbIds = {}
    /\ CycleIds # {}
    /\ NoId \notin CycleIds \cup DbIds
    /\ MaxEntries \in Nat \ {0}

VARIABLES
    intervalMod, \* App.intervalMod: Schedule.Spec is empty
    main,       \* where the main goroutine is: New, Start, serving, Stop
    ctx,        \* runCtx: "nil", "live" or "cancelled"
    looping,    \* the scheduler's loop is running
    entries,    \* ids of the registered entries
    entry,      \* App.entry
    hasEntry,   \* App.hasEntry
    jst,        \* jst[j]: where goroutine j is
    jid,        \* jid[j]: the entry goroutine j was started for
    added,      \* added[j]: the id AddFunc returned to j
    pool        \* the database pool: "none", "open" or "closed"

appVars == <<entries, entry, hasEntry>>
jobVars == <<jst, jid, added>>
mainVars == <<intervalMod, main, ctx, looping>>
vars == <<intervalMod, main, ctx, looping, entries, entry, hasEntry, jst, jid, added, pool>>

Ids == CycleIds \cup DbIds

\* "spawned": before the overlap check.  "run": the cycle or the tick.
\* "unarm", "remove", "clear", "arm", "record": scheduleNext, one access to
\* shared state each.  "done": the job has returned and the entry is to be
\* released.
JobStates == {"none", "spawned", "run", "unarm", "remove", "clear", "arm", "record", "done"}
Active == JobStates \ {"none", "spawned"}

\* The overlap policy: a job of entry i is being executed.
Busy(i) == \E j \in Jobs : jst[j] \in Active /\ jid[j] = i

TypeOK ==
    /\ intervalMod \in BOOLEAN
    /\ main \in {"new", "ctx", "serving", "cancelled", "drain", "close", "stopped"}
    /\ ctx \in {"nil", "live", "cancelled"}
    /\ looping \in BOOLEAN
    /\ entries \subseteq Ids
    /\ entry \in CycleIds
    /\ hasEntry \in BOOLEAN
    /\ jst \in [Jobs -> JobStates]
    /\ jid \in [Jobs -> Ids \cup {NoId}]
    /\ added \in [Jobs -> CycleIds \cup {NoId}]
    /\ pool \in {"none", "open", "closed"}

\* New has registered the database job and one keep-alive entry.  Which id an
\* entry has makes no difference.
Init ==
    /\ intervalMod \in BOOLEAN
    /\ main = "new" /\ ctx = "nil" /\ looping = FALSE
    /\ entry = CHOOSE i \in CycleIds : TRUE
    /\ entries = DbIds \cup {entry}
    /\ hasEntry = intervalMod
    /\ jst = [j \in Jobs |-> "none"]
    /\ jid = [j \in Jobs |-> NoId]
    /\ added = [j \in Jobs |-> NoId]
    /\ pool = "none"

----------------------------------------------------------------------------
(* The main goroutine.                                                     *)

\* Mutant: the scheduler is started before it has a context to run under.
MakeCtxLate ==
    /\ main = "new"
    /\ main' = "ctx" /\ looping' = TRUE
    /\ UNCHANGED <<intervalMod, ctx, appVars, jobVars, pool>>

\* Start: the run context first ...
MakeCtx ==
    /\ main = "new"
    /\ main' = "ctx" /\ ctx' = "live"
    /\ UNCHANGED <<intervalMod, looping, appVars, jobVars, pool>>

\* ... then cron.Start.
CronStart ==
    /\ main = "ctx"
    /\ main' = "serving" /\ looping' = TRUE
    /\ UNCHANGED <<intervalMod, ctx, appVars, jobVars, pool>>

\* A signal arrives; Stop cancels the run context.
Cancel ==
    /\ main = "serving"
    /\ main' = "cancelled" /\ ctx' = "cancelled"
    /\ UNCHANGED <<intervalMod, looping, appVars, jobVars, pool>>

\* cron.Stop ends the loop.
CronStop ==
    /\ main = "cancelled"
    /\ main' = "drain" /\ looping' = FALSE
    /\ UNCHANGED <<intervalMod, ctx, appVars, jobVars, pool>>

\* Mutant: Stop does not wait for the scheduler to drain.
DrainedEarly ==
    /\ main = "drain"
    /\ main' = "close"
    /\ UNCHANGED <<intervalMod, ctx, looping, appVars, jobVars, pool>>

\* The context of cron.Stop is done when every goroutine it started is.
Drained ==
    /\ main = "drain"
    /\ \A j \in Jobs : jst[j] = "none"
    /\ main' = "close"
    /\ UNCHANGED <<intervalMod, ctx, looping, appVars, jobVars, pool>>

\* dbw.Close closes the pool if one was opened.
CloseDB ==
    /\ main = "close"
    /\ main' = "stopped"
    /\ pool' = IF pool = "open" THEN "closed" ELSE pool
    /\ UNCHANGED <<intervalMod, ctx, looping, appVars, jobVars>>

----------------------------------------------------------------------------
(* The scheduler.                                                          *)

\* A new entry fires no sooner than its gap (NextCycleGap; "@every" rounds to at
\* least a second), and the job that registered it returns at once.
Ripe(i) ==
    intervalMod => \A j \in Jobs : jst[j] \in {"record", "done"} => added[j] # i

\* An entry fires and its goroutine j starts.
Fire(i, j) ==
    /\ looping /\ i \in entries /\ Ripe(i)
    /\ jst[j] = "none"
    /\ jst' = [jst EXCEPT ![j] = "spawned"]
    /\ jid' = [jid EXCEPT ![j] = i]
    /\ UNCHANGED <<mainVars, appVars, added, pool>>

\* Mutant: the scheduler is configured without the overlap policy.
RunAnyway(j) ==
    /\ jst[j] = "spawned"
    /\ jst' = [jst EXCEPT ![j] = "run"]
    /\ UNCHANGED <<mainVars, appVars, jid, added, pool>>

\* SkipIfStillRunning: take the entry and run ...
CheckOverlap(j) ==
    /\ jst[j] = "spawned" /\ ~Busy(jid[j])
    /\ jst' = [jst EXCEPT ![j] = "run"]
    /\ UNCHANGED <<mainVars, appVars, jid, added, pool>>

\* ... or skip.
Skip(j) ==
    /\ jst[j] = "spawned" /\ Busy(jid[j])
    /\ jst' = [jst EXCEPT ![j] = "none"]
    /\ jid' = [jid EXCEPT ![j] = NoId]
    /\ UNCHANGED <<mainVars, appVars, added, pool>>

\* The job has returned or panicked; the entry is released.
Release(j) ==
    /\ jst[j] = "done"
    /\ jst' = [jst EXCEPT ![j] = "none"]
    /\ jid' = [jid EXCEPT ![j] = NoId]
    /\ added' = [added EXCEPT ![j] = NoId]
    /\ UNCHANGED <<mainVars, appVars, pool>>

----------------------------------------------------------------------------
(* The jobs.                                                               *)

\* Keeper.Run returns, with or without an error, or panics: in interval mode
\* the deferred scheduleNext is next.
CycleEnds(j) ==
    /\ jst[j] = "run" /\ jid[j] \in CycleIds
    /\ jst' = [jst EXCEPT ![j] = IF intervalMod THEN "unarm" ELSE "done"]
    /\ UNCHANGED <<mainVars, appVars, jid, added, pool>>

\* What overlapping reschedules have left behind: entries scheduleNext will
\* never remove.
Stray == (entries \cap CycleIds) \ (IF hasEntry THEN {entry} ELSE {})

\* The goroutines inside scheduleNext.
Rescheduling == {j \in Jobs : jst[j] \in {"remove", "clear", "arm", "record"}}

\* The bound MaxEntries: reschedules that could leave one entry more wait.
Bounded ==
    Rescheduling = {} \/ Cardinality(Stray) + Cardinality(Rescheduling) < MaxEntries

\* scheduleNext looks whether it knows of an entry ...
Unarm(j) ==
    /\ jst[j] = "unarm"
    /\ Bounded
    /\ jst' = [jst EXCEPT ![j] = IF hasEntry THEN "remove" ELSE "arm"]
    /\ UNCHANGED <<mainVars, appVars, jid, added, pool>>

\* Mutant: the old entry is forgotten but not removed.
RemoveForgets(j) ==
    /\ jst[j] = "remove"
    /\ jst' = [jst EXCEPT ![j] = "clear"]
    /\ UNCHANGED <<mainVars, appVars, jid, added, pool>>

\* ... removes it ...
Remove(j) ==
    /\ jst[j] = "remove"
    /\ jst' = [jst EXCEPT ![j] = "clear"]
    /\ entries' = entries \ {entry}
    /\ UNCHANGED <<mainVars, entry, hasEntry, jid, added, pool>>

\* ... and forgets it.
Clear(j) ==
    /\ jst[j] = "clear"
    /\ jst' = [jst EXCEPT ![j] = "arm"]
    /\ hasEntry' = FALSE
    /\ UNCHANGED <<mainVars, entries, entry, jid, added, pool>>

\* An id nobody refers to any more stands for the next new one.
FreshId(i) ==
    /\ i \in CycleIds \ (entries \cup {entry})
    /\ \A j \in Jobs : jid[j] # i /\ added[j] # i

\* Mutant: AddFunc may refuse the spec it is given; the old entry is gone.
ArmRefused(j) ==
    /\ jst[j] = "arm"
    /\ \E i \in CycleIds : FreshId(i)
    /\ LET i == CHOOSE i \in CycleIds : FreshId(i) IN
          /\ added' = [added EXCEPT ![j] = i]
          /\ \/ jst' = [jst EXCEPT ![j] = "record"] /\ entries' = entries \cup {i}
             \/ jst' = [jst EXCEPT ![j] = "done"] /\ UNCHANGED entries
    /\ UNCHANGED <<mainVars, entry, hasEntry, jid, pool>>

\* AddFunc registers a new entry ("@every" and a duration always parses); which
\* of the fresh ids it gets makes no difference.
Arm(j) ==
    /\ jst[j] = "arm"
    /\ \E i \in CycleIds : FreshId(i)
    /\ LET i == CHOOSE i \in CycleIds : FreshId(i) IN
          /\ entries' = entries \cup {i}
          /\ added' = [added EXCEPT ![j] = i]
    /\ jst' = [jst EXCEPT ![j] = "record"]
    /\ UNCHANGED <<mainVars, entry, hasEntry, jid, pool>>

\* Mutant: the new entry is remembered without the flag that says there is one.
RecordIdOnly(j) ==
    /\ jst[j] = "record"
    /\ entry' = added[j]
    /\ jst' = [jst EXCEPT ![j] = "done"]
    /\ UNCHANGED <<mainVars, entries, hasEntry, jid, added, pool>>

\* Mutant: the id is looked up among the scheduler's entries.
RecordLookup(j) ==
    /\ jst[j] = "record"
    /\ \E i \in entries : entry' = i
    /\ hasEntry' = TRUE
    /\ jst' = [jst EXCEPT ![j] = "done"]
    /\ UNCHANGED <<mainVars, entries, jid, added, pool>>

\* ... and scheduleNext remembers its id.
Record(j) ==
    /\ jst[j] = "record"
    /\ entry' = added[j] /\ hasEntry' = TRUE
    /\ jst' = [jst EXCEPT ![j] = "done"]
    /\ UNCHANGED <<mainVars, entries, jid, added, pool>>

\* A tick of the database workload opens the pool when it is not open.
TickOpens(j) ==
    /\ jst[j] = "run" /\ jid[j] \in DbIds
    /\ pool = "none"
    /\ pool' = "open"
    /\ UNCHANGED <<mainVars, appVars, jobVars>>

TickEnds(j) ==
    /\ jst[j] = "run" /\ jid[j] \in DbIds
    /\ jst' = [jst EXCEPT ![j] = "done"]
    /\ UNCHANGED <<mainVars, appVars, jid, added, pool>>

----------------------------------------------------------------------------
MainStep == MakeCtx \/ CronStart \/ CronStop \/ Drained \/ CloseDB

JobStep(j) ==
    \/ CheckOverlap(j)
    \/ Skip(j)
    \/ CycleEnds(j)
    \/ Unarm(j)
    \/ Remove(j)
    \/ Clear(j)
    \/ Arm(j)
    \/ Record(j)
    \/ TickEnds(j)
    \/ Release(j)

Next ==
    \/ MainStep
    \/ Cancel
    \/ \E i \in Ids, j \in Jobs : Fire(i, j)
    \/ \E j \in Jobs : JobStep(j) \/ TickOpens(j)

Spec == Init /\ [][Next]_vars

\* Goroutines make progress, a cycle and a tick end by their deadlines, an
\* entry that is due again and again is fired; strong fairness, as the bound on
\* goroutines may leave none free at times.  Nothing forces a signal.
FairSpec ==
    /\ Spec
    /\ WF_vars(MainStep)
    /\ \A j \in Jobs : WF_vars(JobStep(j))
    /\ SF_vars(\E i \in CycleIds, j \in Jobs : Fire(i, j))

----------------------------------------------------------------------------
(* Properties.                                                             *)

InCycle(j) == jst[j] \in Active /\ jid[j] \in CycleIds

\* Cycles never overlap, their rescheduling included: the claim of the comments
\* that guard App.entry and App.hasEntry (app.go:37-39, 138-141).  Interval mode
\* breaks it: the overlap policy guards one entry, and a goroutine of the old one
\* may still be on its way when the new one is registered.
NoOverlap == \A j, k \in Jobs : InCycle(j) /\ InCycle(k) => j = k

\* Under a fixed spec there is one entry for good, and its policy is enough,
\* however late goroutines are (app.go:76-81).
FixedModeSerial == ~intervalMod => NoOverlap

CycleEntries == entries \cap CycleIds

\* The schedule never dies, overlapping reschedules included: while no cycle is
\* under way an entry is registered that scheduleNext knows of, although it
\* removes the old one first and its fields are written without a lock
\* (app.go:123-136).
ScheduleSurvives ==
    (\A j \in Jobs : ~InCycle(j)) =>
        /\ CycleEntries # {}
        /\ intervalMod => hasEntry /\ entry \in CycleEntries

\* While no cycle is under way there is exactly one keep-alive entry, the one
\* scheduleNext would replace (app.go:123-136, 142-149).
OneSchedule ==
    (\A j \in Jobs : ~InCycle(j)) =>
        /\ Cardinality(CycleEntries) = 1
        /\ intervalMod => hasEntry /\ CycleEntries = {entry}

\* A goroutine passes its check although its entry has been replaced meanwhile.
LatePass == \E j \in Jobs : CheckOverlap(j) /\ jid[j] \in CycleIds \ entries

\* The schedule multiplies only after cycles have overlapped: then two of them
\* may reschedule at once, and the entry of one is never removed (app.go:40-41).
StrayNeedsOverlap == []NoOverlap => []OneSchedule

\* No job ever runs without a run context, which would be a nil parent for
\* its deadline (Start, app.go:91-92).
CtxReady == \A j \in Jobs : jst[j] \in Active => ctx # "nil"

\* After the pool is closed no job runs and none is left that could open it
\* again; the pool is never closed under a running tick (Stop, app.go:103-110).
QuietAfterClose ==
    main = "stopped" => pool # "open" /\ \A j \in Jobs : jst[j] = "none"

\* The daemon's promise, with its liveness.
Promise == INSTANCE CyclePromise WITH
              serial <- ~intervalMod,
              phase <- CASE main \in {"new", "ctx"}  -> "off"
                         [] main = "serving"         -> "on"
                         [] main = "stopped"         -> "stopped"
                         [] OTHER                    -> "stopping",
              cycles <- Cardinality({j \in Jobs : InCycle(j)})
PromiseKept == Promise!Spec
=============================================================================
