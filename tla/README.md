# A TLA+ model of oracle-keeper

oracle-keeper keeps a cloud instance from looking idle: a daemon runs
*keep-alive cycles* at random intervals (CPU burn, memory, downloads, disk
writes), keeps or removes the files they produce, and optionally works on a
database table.  This directory holds TLA+ modules for the parts of it whose
correctness depends on order, failure and sharing, the TLC configurations that
check them on small instances, and proofs for all instances (TLAPS).

## 1. The system

### Inventory

| Part | Code | State | Operations | Interacts with |
|---|---|---|---|---|
| Cycle and run directories | `internal/keeper/keeper.go` `Run`; `disk.go` | `run-*` directories on the roots; per cycle `roots`, `fileRoots`, `runDirs` | `prepareRoots`, `purgeRoots`, `baselinePct`, `makeRunDir`, `sweepStale`, `writePass`, `cleanupRunDirs` | file system, other processes on the same roots, other users of the volume |
| Downloads | `net.go` | budget, open file, `netStats` | `planDownloads`, `runDownloads`, `downloadOne` | run directories, HTTP servers |
| Phases | `keeper.go` `runPhases`, `cpu.go`, `mem.go`, `writePass` of `disk.go` | four goroutines under one context, a WaitGroup | burn, hold, download, write | share `k.rng`, the result record, the run directories |
| Scheduling | `internal/app/app.go` | `entry`, `hasEntry`, `runCtx`; the scheduler's entries and goroutines | `New`, `Start`, `Stop`, `runCycle`, `runDBTick`, `scheduleNext` | cronx / robfig cron, `Keeper`, `DBWorkload` |
| Database workload | `dbworkload.go` | pool, `migrated`, `rows`, `ticks`, `downLogged`; the table | `Tick`, `ensureReady`, `nextOp`, `op*`, `reconcile`, `Close` | the database and its other users |
| Busy check, sizing | `busy.go`, `cpu.go`, `mem.go`, `keeper.go` | none | `decideBusy`, `burnCores`, `clampDuty`, `dutyAt`, `NextCycleGap`, `jitterBudget` | sampled host load |
| Configuration | `pkg/config` | none | `Load`, `validate` | every part |
| Commands | `cmd/keeper/main.go` | none | `serve`, `once` | `once` is a second process on the daemon's roots |
| Build and deployment | Docker, compose, CI | none | | |

### What is hard, and what makes each part correct

*Run directories.*  Two processes (the daemon and `once`, which the README of
the repository recommends to run in the same container) work on the same roots
without any lock.  Each loops over roots and directories, so any step of the
other may come in between; each may be killed at any point.  Correct means: a
directory in use is not removed by somebody else; what a cycle creates is
removed (delete mode) or bounded (retain mode); a root does not stay unusable
because of the keeper's own files.

*Scheduling.*  The comments derive the safety of unsynchronised fields from the
overlap policy of the scheduler, but interval mode uses a new entry for every
cycle and the policy guards a single entry.  Correct means: cycles are serial
(they are not in interval mode, see section 3), exactly one entry is armed between
cycles, the chain of rescheduling never breaks, and `Stop` leaves nothing running.

*Database workload.*  The mix of operations follows a counter in memory that
drifts from the table.  Correct means: the table does not grow past the marks
because of drift, it is drained, and drift is corrected.

*Planning and downloads.*  Round-robin passes draw chunks of sources with
different caps and sizes; servers misbehave and the cycle may be cancelled
between any two steps.  Correct means: requests stay inside their files, no host
serves more than its cap and the cycle no more than its budget whatever the
servers send, the passes end, and they end only when nothing can be taken; the
statistics add up.

*Phases.*  Four goroutines, two of them conditional, under one context and one
WaitGroup.  Correct means: the cycle returns, and only after all of them; memory
and disk shares are respected; all disks get their part of the write pass; what
the goroutines share is not used by two at a time.

The hazards, each at its line of code with the properties that cover it, are
listed in `PROJECT.json`.

## 2. Modules

| Module | What it is |
|---|---|
| `RunDirs` | `Keeper.Run`, `disk.go` and the files of `net.go`, executed by several processes |
| `DirLease` | abstract: a directory belongs to the cycle that created it and is removed by nobody before that cycle cleans up |
| `CronApp` | `App` on the cron scheduler |
| `CyclePromise` | abstract: cycles again and again, under a fixed spec one at a time, none after the stop |
| `DBWorkload` | `DBWorkload.Tick` and everything it calls |
| `PlanDownloads` | `planDownloads`, visit by visit |
| `Downloads` | extends it: the network goroutine, `runDownloads` and `downloadOne` |
| `Cycle` | extends that: one cycle, `Run` and `runPhases` with all four goroutines |
| `CycleIO` | abstract: what `RunDirs` relies on of the phases |
| `MCRunDirs`, `MCCronApp`, `MCDBWorkload`, `MCDownloads`, `MCCycle` | the instances TLC checks |
| `RunDirsProofs`, `CronAppProofs`, `DBWorkloadProofs`, `PlanDownloadsProofs`, `DownloadsProofs`, `CycleProofs` | theorems and proofs; the last three extend each other as their modules do |
| `FootprintProofs` | extends `RunDirsProofs`: the bound on the keeper's own bytes |
| `TerminationProofs` | extends `CycleProofs`: why downloads and cycles end |

Definitions keep the names of the source where they can.  `PROJECT.json` maps
each definition to its lines.  Operators marked "Mutant" are plausible bugs of
the definition that follows them; no specification uses them.  They show that a
property would notice the bug.

`RunDirs` and `Cycle` are two views of a cycle.  `RunDirs` has several processes
and the file system, and knows of the phases only that two writers have shares
of which they write until the phases end.  `Cycle` has one process and all its
goroutines, and takes the run directories as given.  `CycleIO` is the contract
between the two: `SharesKept` shows that the goroutines of `Cycle` implement it.

### RunDirs

`home`, `size` and `stale` are the file system's view of the run directories:
where each lies, how many bytes it holds, and whether it was last modified more
than `staleDirAge` (26 h) ago.  `foreign` is what everybody else occupies.  The
other variables are local variables of `Run` for each process: `usable` is
`roots`, `mine` is `runDirs`, `victims` the directories the current loop has found
and not dealt with, `sample` the usage `baselinePct` has read, `todo` the roots the
loop has yet to visit, `netLeft`, `diskLeft` and `open` the progress of the two
writers.

A loop iteration over a root is one step: `PrepareRoot`, `PurgeRoot`, `MakeRunDir`,
`SweepRoot`; `baselinePct` is two, the stat of the volume (`BaselineStat`) and the
walk over the keeper's own files, which decides (`BaselineRoot`).  Each removal of
a directory is another (`RemoveDir`), and a sweep checks the age of a directory
only then (`Condemned`, `SweepSpares`).  `EndLoop` goes to the next loop of `Run`
in the order of the code, which depends on `RetainFiles`.  The iterations of a loop
may come in any order, a superset of the configured order.  The two writers
interleave freely between `StartPhases` and `EndPhases`.  The error paths, switched
by `Faults`, are `PrepareFails`, `ListFails`, `BaselineFails` (the stat fails, which
opens the gate, as in the code), `WalkFails` (the walk misses some or all bytes, so
that they count as the usage of others and the gate may close), `MakeRunDirFails`,
`RemoveFails` (which may have removed part of the files) and `NetCloseKeeps`;
`Crash` is SIGKILL.  `GoStale` is the passage of 26 hours, `ForeignChange` the rest
of the volume.

`Init` is what earlier processes may have left: any directories of any age that fit
the volumes, in retain mode with at most the mark and one cycle of every process,
since each of them may have been killed after a purge that found the volume just
below the mark.

Simplifications: one root is one volume; sizes are small units; the write pass
may choose any of its directories for the next unit rather than the next in
turn; the mark is compared with the total size of the volume; a busy host or a
cancelled jitter is a process that stays `idle`.  A purge or sweep lists the
directories of a root and then goes through the list one at a time, which is what
`os.ReadDir` followed by a loop does; the sweep reads the age of a directory and
removes it in one step.

### CronApp

`main` is the program counter of the main goroutine through `Start` and `Stop`.
`entries` is the scheduler's list, `entry` and `hasEntry` the fields of `App`.
`jst[j]` is where goroutine `j` of the scheduler is: before the overlap check
(`spawned`), in the job (`run`), in `scheduleNext` before one of its five accesses to
shared state (`unarm`, `remove`, `clear`, `arm`, `record`), or returned (`done`)
with the entry not released yet.  `Fire`, `CheckOverlap`, `Skip`, `Release` and
`FreshId` model the external scheduler from how `app.go` configures it: a goroutine
per firing, a token per entry (the `skip` policy), new ids for new entries.  The
code of the scheduler is not part of the repository.

`intervalMod` is fixed by `New`: both schedule modes are behaviours of one
specification.  Time is left out but for one fact, `Ripe`: a new entry fires no
sooner than its gap after it was registered (minutes by default, a second at the
least), by which time the job that registered it has returned.  A goroutine may be
as late for its overlap check as it likes, in either mode: nothing in the scheduler
says otherwise.  So cycles may overlap in interval mode, several goroutines may be
inside `scheduleNext` at a time, and entries may be left over that nobody removes
(`Stray`).  Each of the five accesses is atomic in the model; in Go they are a data
race as soon as two reschedules meet.

### DBWorkload

`pc` walks through `Tick`: `ready` (ensureReady), `op`, `delete` (between the
SELECT and the DELETE of `opDelete`), `reconcile`.  `table` is the number of
rows in the database, `rows` the counter in memory, `sel` the number of selected
rows that still exist; outside deletes (`ExtDelete`) may hit them in between.
`missed` is a history variable: rows inserted without an answer since the last
count.  `NextOps` gives what `nextOp` can draw.  `InsertLost` and `DeleteLost` are
statements that were executed although their answer was lost; `Outage` toggles
the database; `Cancelled` is the deadline of a tick.  Since the scheduler runs
one tick at a time (`CronApp`), there is one `pc`.

### PlanDownloads and Downloads

A source is a name and a size, 0 for a source of any size (`%d` in its URL).
`order`, `at`, `progressed`, `remaining`, `used` and `tasks` are the variables of
`planDownloads`; `SkipSource` and `TakeChunk` are one visit of the inner loop,
`EndPass` the end of a pass.  `Room` is `capB`, `Chunks` and `Offsets` what
`randInt64` can return for the chunk and its offset.

`net` is where the goroutine is.  `NextTask`, `RequestFails` or `Receive` and
`FinishDownload`, and `Pause` are one iteration of `runDownloads`; `stats` is
`netStats`, `file` what `io.CopyN` has copied and where to, `tried` a history
variable.  Every error return of `downloadOne` is `RequestFails`, since all of
them count a failure and nothing else.  `Receive` copies any number of bytes up
to the wanted length: a server that closes early, a timeout, a cancellation, or
one that ignores the Range header and sends everything.  After a cancellation a
request can only fail.

### Cycle

`main` is where `Run` is; `cpu`, `mem`, `net` and `pass` where the goroutines
are.  `wg` is the WaitGroup: each goroutine subtracts itself with its last step
and `Return` waits for 0.  `split` draws whether the burn has two parts, with
`DrawPause` the draw of the break between them.  `workers` are the goroutines of
`burnCPU`, each of which ends at its deadline or when it sees the cancellation.
`avail` is the sample taken before the roots were prepared; `others` is what
other programs use of the memory, and changes.  `turn` is the file counter of
`writePass`.  `Cancel` is the deadline of the cycle or the daemon's stop.

Simplifications: the units of memory and bytes are small; a burn or hold of no
duration is not modelled; a sample that fails is the freedom of `SkipCycle`.

## 3. Runs and what they show

Distinct states are approximate.

| Run | Instance | Property | Shows |
|---|---|---|---|
| `RunDirs_delete` | delete mode, 2 processes, 1 root, 3 directories, crashes, failing stats, lists and creations; 1 920 000 | `TypeOK`, `LiveDirsSurvive`, `LeaseKept`, `CyclesCleanUp` | the daemon and `once` never take each other's directories; refinement of `DirLease`; only crashes leave directories behind |
| `RunDirs_footprint` | retain mode, 2 processes, crashes, symmetry; 39 000 | `FootprintBound` | own bytes stay below mark + processes x cycle; with fewer cycles in the bound it is violated |
| `RunDirs_retain_live` | retain mode, 1 process, fair; 32 000 | `LeaseKept`, `RootsComeBack` | purges keep the lease; own files do not shut a root out for ever |
| `RunDirs_delete_live` | delete mode, 1 process, fair, no minimum space; 3 600 | `OrphansReclaimed` | leftovers go away |
| `CronApp_serve` | both schedule modes and the database job, 2 goroutines, fair; 85 000 | `TypeOK`, `FixedModeSerial`, `ScheduleSurvives`, `CtxReady`, `QuietAfterClose`, `StrayNeedsOverlap`, `PromiseKept` | fixed-mode cycles are serial; the schedule never dies, and multiplies only after an overlap; the stop is complete; refinement of `CyclePromise` with its liveness |
| `DBWorkload_tick` | every initial table 0..14, MaxRows 10, all faults, fair; 26 000 | `TypeOK`, `NoGrowthAboveLow`, `Drains`, `DriftCorrected` | no growth from the low mark up but by unanswered inserts; draining and correction |
| `Downloads_net` | 3 built-in sources (any size, 3, 7) or an override `a, b, a`; budget 0 or 10, cap 4, minimum 2; 0 to 2 directories; fair; 2 070 000 | `NetTypeOK`, `RangesInside`, `PlanIsMaximal`, `PoliteToHosts`, `NoTaskLost`, `DownloadsEnd` | ranges, caps, budget and statistics are right whatever servers and cancellation do, and planning and downloading end |
| `Cycle_run` | 2 sources, 0 or 2 directories, 2 cores, 2 levels of foreign memory, budget 1 to 2, write pass 2 to 3; fair; 1 190 000 | `TypeOK`, `AllJoined`, `FloorKept`, `DisksShareTheLoad`, `SharesKept`, `CycleReturns` | a cycle ends, after all its goroutines, within its shares; refinement of `CycleIO` |

Deadlock is not checked where the modelled part may stop for good: a daemon that
has stopped (`CronApp`), a cycle that has returned (`Downloads`, `Cycle`).

### Disagreements between the code and what it says of itself

Four runs are expected to violate a property that a comment or the README of
the repository states; `PROJECT.json` quotes the lines.

| Run | Statement | What happens |
|---|---|---|
| `RunDirs_shared_retain` | purge runs "before the fresh run dir exists" | `once` reaches the mark and purges the directory the daemon is filling; the daemon's later writes fail |
| `RunDirs_full_root` | the sweep reclaims space of killed cycles | the sweep visits only roots with `MinFreeMB` left; leftovers that fill the root are never visited |
| `Cycle_rng` | a Keeper "is safe for sequential use" | one cycle of a split burn draws from `k.rng` in the CPU goroutine while its network goroutine shuffles, plans or pauses: a data race |
| `CronApp_overlap` | "cycles can never overlap" (interval mode), the skip policy "guarantees cycles never stack" | the entry of a cycle fires as the cycle ends; its goroutine reaches the overlap check after `scheduleNext` has replaced the entry and the cycle is released, passes it under the removed entry, and its cycle is still running when the new entry fires |

`CronApp_overlap` needs no long delay: the late goroutine only has to outlast what
the running job has left, `scheduleNext` and the release, which is microseconds.
It does need two rare coincidences of time, which the model leaves open: that the
replaced entry fires again just as its cycle ends, and that the late cycle outlasts
the gap to the next one.  `OverlapNeedsLatePass` proves that there is no other way,
`FixedModeSerial` that one entry for good excludes it, `ScheduleSurvives` and
`PromiseKept` what holds nevertheless.  The consequence that stays is `Stray`: two
cycles that reschedule at once register two entries, of which only one is ever
replaced; `StrayNeedsOverlap` says that nothing else has this effect.

Others were read off the code, and the models follow the code there:

* `dbworkload.go:106-108` (and the repository's README) has errors logged once
  per state change; `downLogged` covers `ensureReady` only, which returns at once
  after the migration, so every failing tick of a later outage logs.
* `disk.go:203-205` has the write pass guarantee I/O "on every mounted disk"; one
  disk that refuses the first byte of a file ends the pass for all of them
  (`WriteRefused`).  `DisksShareTheLoad` is about a pass that was not refused.
* `mem.go:19` calls the sample that sizes the memory exercise fresh; it is taken
  before the roots are prepared and purged (`keeper.go:81`, `251`).  `FloorKept`
  states what it can still promise.
* `config.go:74` compares the load average with the logical cores; the code takes
  `cpu.cores` when it is set (`keeper.go:85-86`, `BurnCores`).
* `net.go:290-296`: a download that a cancellation cuts off before its answer is
  not logged but counted as a failure; `skipped` counts only tasks seen at the top
  of the loop, so a cycle cancelled in the middle of a download reports none.
  `NoTaskLost` leaves this case out.
* `dbworkload.go:42-43` and `config.go:164-165` have inserts stop at 90 % of
  `MaxRows`; `nextOp` (and its own comment) stops them from 70 % on, so 90 % is
  reached only by a table that was larger to begin with.
* `dbworkload.go:61-62` has the counter re-synced every 50 ticks; only ticks
  without an error are counted (lines 134-146).
* `config.go:164` has `MaxRows` cap the table; an insert of up to five rows below
  70 % passes a cap that is small enough (`MaxRows = 10`).

### Bounds

* Two processes are the daemon and `once`.  Directory names: two processes on
  one root need one each and a third is a leftover; when all are used up
  creating one counts as failed.  Each root is handled by itself, and what a cycle
  carries from one loop to the next is a set of roots: the runs have one, the
  theorems any number.
* Volumes have 8 units, a cycle writes 2 to 4, the mark is at 2 or 4.
  `ForeignLevels` reaches the mark without or with the keeper's own bytes and
  leaves less than `MinFree` in `RunDirs_retain_live`.
* `RunDirs_delete` has no failing removals: they leave directories behind, as
  `CyclesCleanUp` says.  `RunDirs_delete_live` has them, and the theorems about live
  directories hold with all faults.
* `RunDirs_footprint` uses only `mkdir` and `crash` of the faults: a purge
  that cannot list or remove bounds nothing.
* `CronApp`: two goroutines (`Jobs`), of cycles or ticks: a cycle and a late one, or
  a cycle and a tick; two reschedules meet, and a tick meets the stop.  Four ids of
  the keep-alive job are enough for every id that something refers to.  `MaxEntries`
  2 lets overlapping reschedules leave one entry too many; the next reschedule that
  could add to them waits for those under way (`Bounded`).
* `MaxRows` 10 gives marks 9 and 7 and tables beyond both; batches are scaled
  down (deletes of 4 to 6 instead of 20 to 200), operations per tick are at
  most 3, `ReconcileEvery` is 3 instead of 50.  `DriftMax` bounds `missed`.
* `Downloads_net`: source `b` is smaller than the cap of a host, `c` larger, `a`
  has no size; budget 10 takes one pass or two, is spent or leaves a rest below
  the minimum; the override names `a` twice, so that its cap is shared and budget
  is left over.  Two directories rotate over up to four tasks.
* `Cycle_run`: `WriteMB` 3 with files of 2 gives one or two files over two
  directories, so that the second is reached in some passes; the allocation of
  4 of 10 units is scaled down to 3 at one level of foreign memory and to nothing
  at the other; the loads are idle, busy by load average and busy by utilization.

## 4. Fairness

* `RunDirs`: a process that can go on does (`WF ProcStep`, `WF RootStep`): the
  scheduler of the daemon fires for ever and a host that is idle again and again
  lets `BeginCycle` happen; every phase is bounded by the cycle's context.
  Strong fairness on `PrepareRoot`, `PurgeRoot`, `SweepRoot` and `RemoveDir`:
  a call that is tried in cycle after cycle does not fail every time.  `WF
  GoStale`: time passes.  Writes have no fairness.
* `CronApp`: goroutines run (`WF JobStep`, which includes that `Run` and
  `Tick` end: their contexts have deadlines, and `Stop` cancels them);
  `WF MainStep`; strong fairness on firing cycles because the bound on
  goroutines may leave none free for a moment.  No fairness on `Cancel`: a
  signal may never come.
* `DBWorkload`: ticks come for ever (the cron entry); deletes are drawn again
  and again (a random choice with positive probability), a `DELETE` and a
  `COUNT` that are tried for ever succeed sometimes, and ticks complete again
  and again.  `<>[]dbUp`: outages come and go but at last one ends; one that falls
  on every fiftieth tick defeats the counter, in the code as in the model.
* `Downloads`: the goroutine goes on (`WF NetStep`): requests have a timeout
  (`RequestTimeout`, which `validate` requires to be positive), the pause a timer.
  Nothing forces an answer, a failure or a cancellation.
* `Cycle`: weak fairness for each goroutine and for `Run`: jitter, break and hold
  have timers, workers a deadline, requests a timeout, and a write returns.  None
  for `Cancel` and the other programs: `CycleReturns` does not rest on
  `MaxRunDuration`.

## 5. Proofs

For every value of the constants, from the named assumptions of each module
(`DiskAssumption`, `CronAssumption`, `DBAssumption`, `PlanAssumption`,
`DownloadsAssumption`, `CycleAssumption`, what `validate` and the code guarantee;
`DiskAssumption` also has finitely many processes, at least one, and finitely many
directory names; `ProcessesRunOut` and `StopRunsOut` ask besides for finitely many
roots and goroutines):

**RunDirsProofs.**  `TypeCorrect`; `LiveDirsAreSafe` and `LeaseIsKept` under
`SoleOwner`: delete mode with any number of processes, or retain mode with one.
(`RunDirs_shared_retain` shows the condition is needed.)  `LiveDirsSurvive` is
not inductive: a directory may be removed although it is in use if it is among
the `victims` of a loop or `stale`.  `IInv` therefore adds `StageInv` (what
a process holds where), `Unshared` (no directory is in two cycles: `Fresh`),
`StaleInv` (a stale directory belongs to nobody: `GoStale` skips live ones and a
new directory is recent), `VictimsInv` (a purge's victims belong to nobody, the
cleanup's to the process itself; between listing and removing nobody can adopt
a victim, because names are fresh) and `OpenInv` (bytes of an open download are
in its directory).  A sweep may have directories in use on its list: its check of
the age just before the removal spares them (`RemovedIsNobodys`).  The
refinement maps every step to `Acquire`, `Release` (the cycle begins its own
cleanup), `Remove`, `Abandon` or a stutter.

`DeleteModeCleansUp`: in delete mode, while removals do not fail, only a crash
that cuts a cycle short leaves a directory behind.  It needs `CleanInv` beside
`IInv`: a cycle in its cleanup still has every directory left among its victims.

`UsableStaysCurrent`: a retain-mode cycle works with the roots that have space after
its purge, not before it (`UsableIsCurrent`, stated in this module and checked by no
run), under `Undisturbed` (one process, no failing stat, constant foreign use).
`CurrentInv` adds what the second
`prepareRoots` has found so far; the lemma `VolumesRest` shows that no volume
changes while the roots are prepared again and gated, which is what the purge
before it would break.

`ProcessesRunOut`: a cycle runs out of steps.  `ProcRank` is, for each process, the
stages of `Run` ahead, the roots its loop has yet to visit, the directories and the
baseline it is dealing with, what it may still write, and its open download, in
lexicographic order;
every step of the process but `BeginCycle` lowers it, faults and crashes included,
and no step of another process, of other users or of time touches it.  It needs no
`SoleOwner`: a process whose directories are taken away ends all the same.

That a directory in use does not age 26 hours is an assumption about the
environment (`GoStale`): `MaxRunDuration` is 45 minutes by default, but
`validate` does not bound it.

**FootprintProofs.**  `FootprintIsBounded`: in retain mode, with any number of
processes, roots and directories and crashes anywhere, the keeper's own bytes on a
volume stay below the mark plus one cycle of every process.  The hypothesis
`PurgesWork` excludes purges that cannot list or remove; `MakeRunDir` may fail.
The quantity is a sum over directories, which the provers do not follow step by
step.  `Bytes` therefore gives every byte a name (directory and position), `Ours`
is the number of bytes, and `FootInv` says that every byte on a volume can have a
slot of its own, either one of those below the mark or one of those
of a process, of which there are as many as a cycle may write.  The slots of a
process that may be filled grow as its `Reserve` (what it may still write before
its next purge) shrinks, so a write finds a new one.  When the purge of a process
passes a root it either finds the volume below the mark, and everything moves to
the slots below it, or lists every directory of the keeper there; the slots of the
process are free again once those are removed.  Slots are counted once, at the end
(`SlotCount`).  The contents `Init` allows fit because they are at most as many as
the slots (`InitFoot`).  `GoneIsEmpty` keeps a directory that does not exist, or is created
again, from bringing bytes along.

**CronAppProofs.**  Goroutines may be as late as they like in all theorems but one.
`BaseInv` is inductive without further ado: `TokenInv` is the overlap policy,
`KindInv` says that only cycles of interval mode reschedule, `MainInv` ties the
scheduler to `Start` and `Stop`, `FixedInv` says that fixed mode has one entry for
good, and `KnownInv` what interval mode keeps although reschedules overlap: an id
that `AddFunc` returned is registered, is not yet the one known of, and belongs to
one goroutine, so that whoever records last leaves a registered entry.  It gives
`TypeCorrect`, `ContextComesFirst`, `StopIsQuiet`, `FixedModeIsSerial` and
`ScheduleNeverDies`.

`SingleWithoutOverlap` and `OverlapNeedsLatePass` say what the overlap of section 3
is for and where it comes from.  `ChainInv` tells which of `entry`, `hasEntry`,
`entries` and `added` agree in each stage of the one cycle under way; it is kept by
every step from and to a state without overlap, so that only overlaps lead to
stray entries.  With `PunctualInv` (the cycle is of the entry it will replace, and
nobody is there of the new one) it excludes overlaps in behaviours in which no
goroutine passes its check under a removed entry: `[][~LatePass]_vars` is a
hypothesis of that theorem, not a property of the code.

`PromiseIsSafe` is the refinement of `CyclePromise` without its liveness, for finitely
many goroutines: initial states map to initial states and every step to a step or a
stutter; a step changes the number of cycles by one at most (`CyclesChangeByOne`).

`StopRunsOut`: from `CronStop` on, every step of the daemon lowers `StopRank`, the
progress of `Stop`, whether a tick may still open the pool, and the steps each
goroutine has left; nothing starts any more.  The goroutines are numbered
(`JobAt`) to have a lexicographic order on them, for any finite number.  With
`CycleRunsOut` and `TicksRunOut`, which are about the steps inside a job, it is
why `Stop` waits for a bounded amount of work.

**DBWorkloadProofs.**  `TypeCorrect`; `GrowthStops`: no step adds rows at or above
the low mark, unanswered inserts left out.  The strengthening is `table <= rows +
missed` once the table was counted.  `TableStaysBounded` is what follows for the
table itself: it stays within any cap it does not start above if the cap has room,
over the low mark, for one insert and for `DriftMax`, the rows whose inserts were
not answered between two counts.  For `MaxRows` as the cap this is the promise of
`config.go:164`; `MaxRowsIsKept` has it, with the batches of the code and every insert
answered, from 11 rows on (section 3 has the exception).  `DrainGoesDown` is the descent behind `Drains`, which is
about the table: while the counter is at the low mark or above, a delete that selects
rows takes as many out of the table as off the counter, and the counter rises only
when the table is counted.  `TicksRunOut`: a tick has at most `2 * OpsMax + 3` steps,
whatever is drawn and whatever fails.

**PlanDownloadsProofs.**  `PlanInv` is inductive: types, ranges, caps
(`WithinCaps`) and `SweptSoFar`: in a pass that has planned nothing, every source
visited has no room.  The last makes a plan maximal when a pass ends without
progress.  `PlanWithinCaps` is the theorem about `PlanSpec` alone.

**DownloadsProofs.**  `NetTypeCorrect`, `RangesAreInside`, `PlansAreMaximal`,
`NoTaskIsLost`.  `NetInv` adds to `PlanInv` that `tried` follows the position in
the loop (`Counted`).  The proofs go through `NetInvNext`, a step of the goroutine,
and `NetInvFrame`, a step of anything else, so that `CycleProofs` can use them.

`PoliteAlways`: no source serves more than `HostCap` and all of them no more than
the budget, whatever the servers send.  `PoliteToHosts` is about sums over the
plan; instead of reasoning about the folds, an account of the plan is carried
along: `Accounted` says that there are running sums over the tasks, per source
and in all, that never exceed `used` and the budget spent, and `WithinPlan` that
the bytes served so far are within the sums up to the task at hand.

**CycleProofs.**  `CycleTypeCorrect`, `AllAreJoined`, `FloorIsKept`,
`DisksDoShare`.  `Joining`: the WaitGroup is the number of goroutines at work.
`Headroom`: what is held fits the sample.  `Rotation`: each directory whose turn
has come has bytes, and `turn` files hold at most `turn` times a file's size, so
that a complete pass has been to every directory it has a file for.

`PoliteInCycle` is `PoliteAlways` with the other goroutines running.
`SharesAreKept` is the refinement of `CycleIO`, the contract on which `RunDirs`
rests.  `ShareInv` joins `CycleInv` with `WithinPlan` (downloads within the budget
of the cycle, hence within `NetMax`) and `Destinations` (bytes go to a directory
only if there is one); every step maps to a step of `CycleIO` or a stutter.

**TerminationProofs.**  Liveness under fairness is out of the prover's reach, but
the argument behind it is not.  `CycleRunsOut`: each step of `Run` and of a
goroutine lowers `CycleRank`, eleven numbers in lexicographic order, of which
there is no endless descent (`NoEndlessDescent`); a cancellation and the other
programs leave it alone.  The places are where `Run`, the burn, its workers, the
hold and the write pass are, what is left to write, and `NetRank`.  The last is
the rank of `DownloadsRunOut`: before the downloads, the budget that remains (a
chunk takes at least the minimum), whether another pass may be productive, and the
sources ahead; in the downloads, the tasks ahead and the steps of the one at
hand.  What is left to fairness is that a goroutine that has not ended takes its
next step, and to TLC that there is always one.

## 6. What is only model-checked, and what is not modelled

Only model-checked: the liveness properties (`RootsComeBack`,
`OrphansReclaimed`, `Drains`, `DriftCorrected`, `DownloadsEnd`, `CycleReturns`,
the liveness of `PromiseKept`), which rest on fairness and `ENABLED` and are out
of the prover's reach.  What goes down on the way is proved for `DownloadsEnd` and
`CycleReturns` (`TerminationProofs`), for a cycle on its roots (`ProcessesRunOut`),
for the end of a stop in `PromiseKept` (`StopRunsOut`) and for `Drains`
(`DrainGoesDown`).  Every invariant and every action property of a passing run is
proved, under the hypotheses section 5 names; so are `StrayNeedsOverlap`, `LeaseKept`,
`SharesKept` and the safety part of `PromiseKept`.  `NoOverlap`, which the code does
not keep, is proved for behaviours without a late pass.

Not modelled: the floating-point shape of the burn (`clampDuty`, `dutyAt`) and
`NextInterval`, which no order of steps depends on; host sampling (gopsutil)
beyond its possible results; HTTP beyond success, failure and short reads; SQL
beyond counts; logging; URLs; a `BurnDuration` of zero or less, which `validate`
admits and with which burn and hold return at once; `MinFreeMB` values so large
that their product with 2^20 wraps; argument parsing; loading of the
configuration; the build.

## 7. Plan

Written in this order: `RunDirs` (the behaviour that matters most: files of others
and the user's disk), `CronApp`, `DBWorkload`, `PlanDownloads`, `Downloads`,
`Cycle`; then the proofs of each, the bound of `FootprintProofs`, and last the ranks
of `TerminationProofs`, of a process, a stop and a tick.  What could follow: a
composition of `Cycle` and `CronApp`, in which `Stop` drains a cycle step by step,
so that `StopRunsOut` and `CycleRunsOut` become one theorem.
