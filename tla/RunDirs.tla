------------------------------ MODULE RunDirs ------------------------------
(***************************************************************************)
(* The life of the keeper's files on disk: Keeper.Run (keeper.go) and the  *)
(* helpers of disk.go and net.go that create, fill and remove run-*        *)
(* directories, executed by several processes that share the same roots:   *)
(* the daemon and the `once` command.                                      *)
(*                                                                         *)
(* One loop iteration over a root or a directory is one step (the gate on  *)
(* a root's baseline is two), so another process, a crash or other users   *)
(* of the volume may act in between.                                       *)
(* Every root is a volume of its own.  Bytes are counted in coarse units.  *)
(***************************************************************************)
EXTENDS Integers, FiniteSets

CONSTANTS
    Procs,          \* keeper processes that share the roots
    Roots,          \* cfg.Disk.Roots
    Dirs,           \* the names os.MkdirTemp can return
    None,           \* the home of a directory that does not exist
    Cap,            \* [Roots -> Nat]: size of each volume
    PurgePercent,   \* cfg.Disk.PurgePercent
    MinFree,        \* cfg.Disk.MinFreeMB
    RetainFiles,    \* cfg.Disk.RetainFiles
    NetMax,         \* largest download volume of a cycle (TotalMB + 20%)
    WriteMax,       \* largest write pass of a cycle (WriteMB + 20%)
    ForeignLevels,  \* what other users of a volume may occupy on it
    Faults          \* which of "read", "mkdir", "remove", "crash" can happen

ASSUME DiskAssumption ==
    /\ None \notin Roots \cup Dirs \cup Procs
    /\ IsFiniteSet(Procs) /\ Procs # {} /\ IsFiniteSet(Dirs)
    /\ RetainFiles \in BOOLEAN
    /\ PurgePercent \in 1 .. 100
    /\ MinFree \in Nat /\ NetMax \in Nat /\ WriteMax \in Nat
    /\ Cap \in [Roots -> Nat \ {0}]
    /\ ForeignLevels \subseteq Nat
    /\ Faults \subseteq {"read", "mkdir", "remove", "crash"}

VARIABLES
    home,       \* home[d]: the root directory d lies in, or None
    size,       \* size[d]: bytes of the files in d
    stale,      \* directories not modified for staleDirAge (26 h)
    foreign,    \* foreign[r]: bytes of everybody else on the volume of r
    pc,         \* pc[p]: where process p is in Keeper.Run
    todo,       \* todo[p]: roots the current loop of p has yet to visit
    usable,     \* usable[p]: `roots` of Run, the roots with enough space
    fileRoots,  \* fileRoots[p]: the roots that passed the baseline gate
    mine,       \* mine[p]: `runDirs` of Run
    sample,     \* sample[p]: the usage the baseline gate of p is judging
    victims,    \* victims[p]: directories the current loop of p has found and
                \* not dealt with
    netLeft,    \* netLeft[p]: download budget not used yet
    diskLeft,   \* diskLeft[p]: bytes the write pass has yet to write
    open        \* open[p]: the download file being written

dirVars  == <<home, size, stale>>
planVars == <<usable, fileRoots, mine, sample>>
workVars == <<netLeft, diskLeft, open>>
vars == <<home, size, stale, foreign, pc, todo, usable, fileRoots, mine,
          sample, victims, netLeft, diskLeft, open>>

Stages == {"idle", "prepare", "purge", "reprepare", "baseline", "mkdir",
           "sweep", "phases", "cleanup"}

NoFile == [dir |-> None, bytes |-> 0]
NoSample == [root |-> None, used |-> 0]

----------------------------------------------------------------------------
(* What the file system shows.                                             *)

DirsIn(r) == {d \in Dirs : home[d] = r}

\* dirSize: the bytes of the files in some directories, one by one.
Bytes(dirs) == UNION {{d} \X (1 .. size[d]) : d \in dirs}

\* retainedBytes: how many the keeper's own directories under r hold.
Ours(r) == Cardinality(Bytes(DirsIn(r)))

Used(r) == foreign[r] + Ours(r)
Free(r) == Cap[r] - Used(r)

AtMark(r, bytes) == 100 * bytes >= PurgePercent * Cap[r]

\* MkdirTemp never returns a name some process still refers to.
Fresh == {d \in Dirs : /\ home[d] = None
                       /\ \A p \in Procs : d \notin mine[p] \cup victims[p]}

CycleMax == NetMax + WriteMax

\* Below the mark plus a cycle of every process.
WithinFootprint(r, bytes) ==
    100 * bytes < PurgePercent * Cap[r] + 100 * Cardinality(Procs) * CycleMax

----------------------------------------------------------------------------
TypeOK ==
    /\ home \in [Dirs -> Roots \cup {None}]
    /\ size \in [Dirs -> Nat]
    /\ stale \subseteq Dirs
    /\ foreign \in [Roots -> Nat]
    /\ pc \in [Procs -> Stages]
    /\ todo \in [Procs -> SUBSET Roots]
    /\ usable \in [Procs -> SUBSET Roots]
    /\ fileRoots \in [Procs -> SUBSET Roots]
    /\ mine \in [Procs -> SUBSET Dirs]
    /\ sample \in [Procs -> [root : Roots \cup {None}, used : Nat]]
    /\ victims \in [Procs -> SUBSET Dirs]
    /\ netLeft \in [Procs -> 0 .. NetMax]
    /\ diskLeft \in [Procs -> 0 .. WriteMax]
    /\ open \in [Procs -> [dir : Dirs \cup {None}, bytes : Nat]]

\* A process starts with what earlier ones left on the volumes: the remains of
\* killed cycles, and in retain mode the files of former cycles under the same
\* mark, of which each process may have added one after its last purge.
Init ==
    /\ home \in [Dirs -> Roots \cup {None}]
    /\ size \in [Dirs -> 0 .. CycleMax]
    /\ stale \in SUBSET Dirs
    /\ \A d \in Dirs : home[d] = None => size[d] = 0 /\ d \notin stale
    /\ foreign \in [Roots -> ForeignLevels]
    /\ \A r \in Roots :
          /\ Used(r) <= Cap[r]
          /\ RetainFiles => WithinFootprint(r, Ours(r))
    /\ pc = [p \in Procs |-> "idle"]
    /\ todo = [p \in Procs |-> {}]
    /\ usable = [p \in Procs |-> {}]
    /\ fileRoots = [p \in Procs |-> {}]
    /\ mine = [p \in Procs |-> {}]
    /\ sample = [p \in Procs |-> NoSample]
    /\ victims = [p \in Procs |-> {}]
    /\ netLeft = [p \in Procs |-> 0]
    /\ diskLeft = [p \in Procs |-> 0]
    /\ open = [p \in Procs |-> NoFile]

----------------------------------------------------------------------------
(* The loops of Run.                                                       *)

\* The host is idle: Run goes on to prepareRoots.
BeginCycle(p) ==
    /\ pc[p] = "idle"
    /\ pc' = [pc EXCEPT ![p] = "prepare"]
    /\ todo' = [todo EXCEPT ![p] = Roots]
    /\ usable' = [usable EXCEPT ![p] = {}]
    /\ UNCHANGED <<dirVars, foreign, fileRoots, mine, sample, victims, workVars>>

\* The loop of stage s takes root r.
Visit(p, s, r) ==
    /\ pc[p] = s
    /\ victims[p] = {} /\ sample[p] = NoSample
    /\ r \in todo[p]
    /\ todo' = [todo EXCEPT ![p] = @ \ {r}]
    /\ UNCHANGED <<foreign, pc, workVars>>

\* prepareRoots keeps the roots with at least MinFreeMB left.
PrepareRoot(p, r) ==
    /\ \E s \in {"prepare", "reprepare"} : Visit(p, s, r)
    /\ usable' = [usable EXCEPT ![p] = IF Free(r) >= MinFree THEN @ \cup {r} ELSE @]
    /\ UNCHANGED <<dirVars, fileRoots, mine, sample, victims>>

\* MkdirAll or the stat fails: the root is skipped.
PrepareFails(p, r) ==
    /\ "read" \in Faults
    /\ \E s \in {"prepare", "reprepare"} : Visit(p, s, r)
    /\ UNCHANGED <<dirVars, planVars, victims>>

\* Mutant: the purge spares recent directories, as the sweep does.
PurgeStaleOnly(p, r) ==
    /\ Visit(p, "purge", r)
    /\ victims' = [victims EXCEPT
                      ![p] = IF AtMark(r, Used(r)) THEN DirsIn(r) \cap stale ELSE {}]
    /\ UNCHANGED <<dirVars, planVars>>

\* purgeRoots: at the mark, every run dir found under the root is to go.
PurgeRoot(p, r) ==
    /\ Visit(p, "purge", r)
    /\ victims' = [victims EXCEPT ![p] = IF AtMark(r, Used(r)) THEN DirsIn(r) ELSE {}]
    /\ UNCHANGED <<dirVars, planVars>>

\* sweepStale looks at the run dirs of a root one by one.
SweepRoot(p, r) ==
    /\ Visit(p, "sweep", r)
    /\ victims' = [victims EXCEPT ![p] = DirsIn(r)]
    /\ UNCHANGED <<dirVars, planVars>>

\* The stat or the ReadDir of a purge or a sweep fails: next root.
ListFails(p, r) ==
    /\ "read" \in Faults
    /\ \E s \in {"purge", "sweep"} : Visit(p, s, r)
    /\ UNCHANGED <<dirVars, planVars, victims>>

\* baselinePct: the usage of the volume ...
BaselineStat(p, r) ==
    /\ Visit(p, "baseline", r)
    /\ sample' = [sample EXCEPT ![p] = [root |-> r, used |-> Used(r)]]
    /\ UNCHANGED <<dirVars, usable, fileRoots, mine, victims>>

\* ... less the n bytes the walk over the keeper's directories finds then: no
\* files where the rest alone reaches the mark.
Gate(p, r, n) ==
    /\ sample[p] # NoSample /\ sample[p].root = r
    /\ fileRoots' = [fileRoots EXCEPT
                        ![p] = IF AtMark(r, sample[p].used - n) THEN @ ELSE @ \cup {r}]
    /\ sample' = [sample EXCEPT ![p] = NoSample]
    /\ UNCHANGED <<dirVars, foreign, pc, todo, usable, mine, victims, workVars>>

BaselineRoot(p, r) == Gate(p, r, Ours(r))

\* The stat fails: baselinePct reports 0, which opens the gate.
BaselineFails(p, r) ==
    /\ "read" \in Faults
    /\ Visit(p, "baseline", r)
    /\ fileRoots' = [fileRoots EXCEPT ![p] = @ \cup {r}]
    /\ UNCHANGED <<dirVars, usable, mine, sample, victims>>

\* The walk cannot list the root or some directories: their bytes count as the
\* usage of others, which may close the gate.
WalkFails(p, r) ==
    /\ "read" \in Faults
    /\ \E n \in 0 .. Ours(r) : Gate(p, r, n)

\* Mutant: the directory has a fixed name and may be there already.
MakeRunDirReuses(p, r, d) ==
    /\ Visit(p, "mkdir", r)
    /\ d \in Fresh \cup DirsIn(r)
    /\ home' = [home EXCEPT ![d] = r]
    /\ mine' = [mine EXCEPT ![p] = @ \cup {d}]
    /\ UNCHANGED <<size, stale, usable, fileRoots, sample, victims>>

MakeRunDir(p, r, d) ==
    /\ Visit(p, "mkdir", r)
    /\ d \in Fresh
    /\ home' = [home EXCEPT ![d] = r]
    /\ mine' = [mine EXCEPT ![p] = @ \cup {d}]
    /\ UNCHANGED <<size, stale, usable, fileRoots, sample, victims>>

\* The bound on names counts as a failure: with Dirs used up nothing is made.
MakeRunDirFails(p, r) ==
    /\ "mkdir" \in Faults \/ Fresh = {}
    /\ Visit(p, "mkdir", r)
    /\ UNCHANGED <<dirVars, planVars, victims>>

\* The loop that follows stage s, and the roots it visits.
After(s) ==
    CASE s = "prepare" /\ RetainFiles -> "purge"
      [] s = "purge"                  -> "reprepare"
      [] s = "baseline"               -> "mkdir"
      [] s = "mkdir" /\ ~RetainFiles  -> "sweep"
      [] OTHER                        -> "baseline"

\* Mutant: only the usable roots are purged.
RootsOfUsable(p, s) ==
    CASE s = "reprepare"                       -> Roots
      [] s \in {"purge", "baseline", "sweep"}  -> usable[p]
      [] s = "mkdir"                           -> fileRoots[p]

RootsOf(p, s) ==
    CASE s \in {"purge", "reprepare"}   -> Roots
      [] s \in {"baseline", "sweep"}    -> usable[p]
      [] s = "mkdir"                    -> fileRoots[p]

\* Stages after which another loop follows; the phases follow the last one.
LastLoop == IF RetainFiles THEN "mkdir" ELSE "sweep"
Loops == {"prepare", "purge", "reprepare", "baseline", "mkdir"} \ {LastLoop}

Done(p) == todo[p] = {} /\ victims[p] = {} /\ sample[p] = NoSample

\* A loop is through and the next one starts.
EndLoop(p) ==
    /\ pc[p] \in Loops
    /\ Done(p)
    /\ LET s == After(pc[p]) IN
       /\ pc' = [pc EXCEPT ![p] = s]
       /\ todo' = [todo EXCEPT ![p] = RootsOf(p, s)]
       /\ usable' = [usable EXCEPT ![p] = IF s = "reprepare" THEN {} ELSE @]
    /\ UNCHANGED <<dirVars, foreign, fileRoots, mine, sample, victims, workVars>>

\* Mutants: the sweep does not check the age, or checks it the wrong way.
CondemnedAnyAge(p, d) == d \in victims[p]
CondemnedRecent(p, d) == d \in victims[p] /\ (pc[p] = "sweep" => d \notin stale)

\* The loop is going to remove d: a sweep checks the age of each directory it has
\* found just before it removes it, a purge and a cleanup remove them all.
Condemned(p, d) == d \in victims[p] /\ (pc[p] = "sweep" => d \in stale)

\* The sweep leaves a directory that is not 26 hours old, or gone already.
SweepSpares(p, d) ==
    /\ d \in victims[p] /\ ~Condemned(p, d)
    /\ victims' = [victims EXCEPT ![p] = @ \ {d}]
    /\ UNCHANGED <<dirVars, foreign, pc, todo, planVars, workVars>>

\* RemoveAll of one directory; a directory already gone is no error.
RemoveDir(p, d) ==
    /\ Condemned(p, d)
    /\ victims' = [victims EXCEPT ![p] = @ \ {d}]
    /\ home' = [home EXCEPT ![d] = None]
    /\ size' = [size EXCEPT ![d] = 0]
    /\ stale' = stale \ {d}
    /\ UNCHANGED <<foreign, pc, todo, planVars, workVars>>

\* RemoveAll fails, perhaps after it removed files; that makes d recent again.
RemoveFails(p, d) ==
    /\ "remove" \in Faults
    /\ Condemned(p, d)
    /\ victims' = [victims EXCEPT ![p] = @ \ {d}]
    /\ \E left \in 0 .. size[d] :
          /\ size' = [size EXCEPT ![d] = left]
          /\ stale' = IF left < size[d] THEN stale \ {d} ELSE stale
    /\ UNCHANGED <<home, foreign, pc, todo, planVars, workVars>>

----------------------------------------------------------------------------
(* The phases that write: downloads and the write pass run concurrently.   *)

\* runPhases starts the two writers, when there is a directory to write to.
StartPhases(p) ==
    /\ pc[p] = LastLoop
    /\ Done(p)
    /\ pc' = [pc EXCEPT ![p] = "phases"]
    /\ netLeft' = [netLeft EXCEPT ![p] = IF mine[p] = {} THEN 0 ELSE NetMax]
    /\ diskLeft' = [diskLeft EXCEPT ![p] = IF mine[p] = {} THEN 0 ELSE WriteMax]
    /\ UNCHANGED <<dirVars, foreign, todo, planVars, victims, open>>

\* A directory of p that still exists on a volume with n units left.
Writable(p, d, n) == d \in mine[p] /\ home[d] # None /\ Free(home[d]) >= n

\* writePass writes and syncs one more chunk.
DiskWrite(p, d) ==
    /\ pc[p] = "phases" /\ diskLeft[p] > 0
    /\ Writable(p, d, 1)
    /\ size' = [size EXCEPT ![d] = @ + 1]
    /\ stale' = stale \ {d}
    /\ diskLeft' = [diskLeft EXCEPT ![p] = @ - 1]
    /\ UNCHANGED <<home, foreign, pc, todo, planVars, victims, netLeft, open>>

\* The pass ends early: cancelled, its smaller random total, a refusing disk.
DiskStop(p) ==
    /\ pc[p] = "phases" /\ diskLeft[p] > 0
    /\ diskLeft' = [diskLeft EXCEPT ![p] = 0]
    /\ UNCHANGED <<dirVars, foreign, pc, todo, planVars, victims, netLeft, open>>

\* Mutant: a server that ignores the Range header sends all it has, and all of
\* it is stored.
NetWriteUncapped(p, d, n) ==
    /\ pc[p] = "phases" /\ open[p] = NoFile /\ netLeft[p] > 0
    /\ Writable(p, d, n + 1)
    /\ size' = [size EXCEPT ![d] = @ + n + 1]
    /\ stale' = stale \ {d}
    /\ netLeft' = [netLeft EXCEPT ![p] = @ - n - 1]
    /\ open' = [open EXCEPT ![p] = [dir |-> d, bytes |-> n + 1]]
    /\ UNCHANGED <<home, foreign, pc, todo, planVars, victims, diskLeft>>

\* downloadOne creates its file and n units arrive (short reads count).
NetWrite(p, d, n) ==
    /\ pc[p] = "phases" /\ open[p] = NoFile
    /\ n \in 1 .. netLeft[p]
    /\ Writable(p, d, n)
    /\ size' = [size EXCEPT ![d] = @ + n]
    /\ stale' = stale \ {d}
    /\ netLeft' = [netLeft EXCEPT ![p] = @ - n]
    /\ open' = [open EXCEPT ![p] = [dir |-> d, bytes |-> n]]
    /\ UNCHANGED <<home, foreign, pc, todo, planVars, victims, diskLeft>>

\* The file is synced and closed; delete mode removes it right away.
NetClose(p) ==
    /\ pc[p] = "phases" /\ open[p] # NoFile
    /\ open' = [open EXCEPT ![p] = NoFile]
    /\ size' = IF RetainFiles THEN size
               ELSE [size EXCEPT ![open[p].dir] = @ - open[p].bytes]
    /\ UNCHANGED <<home, stale, foreign, pc, todo, planVars, victims,
                   netLeft, diskLeft>>

\* Delete mode: os.Remove fails and the file waits for cleanupRunDirs.
NetCloseKeeps(p) ==
    /\ "remove" \in Faults /\ ~RetainFiles
    /\ pc[p] = "phases" /\ open[p] # NoFile
    /\ open' = [open EXCEPT ![p] = NoFile]
    /\ UNCHANGED <<dirVars, foreign, pc, todo, planVars, victims,
                   netLeft, diskLeft>>

\* The downloads end: all served, failed, or the cycle is cancelled.
NetStop(p) ==
    /\ pc[p] = "phases" /\ open[p] = NoFile /\ netLeft[p] > 0
    /\ netLeft' = [netLeft EXCEPT ![p] = 0]
    /\ UNCHANGED <<dirVars, foreign, pc, todo, planVars, victims, diskLeft, open>>

PhasesOver(p) == netLeft[p] = 0 /\ diskLeft[p] = 0 /\ open[p] = NoFile

\* Mutants: the deferred cleanup is given every run dir it can find, or the
\* list as it was before the directories were made.
EndPhasesAll(p) ==
    /\ ~RetainFiles
    /\ pc[p] = "phases" /\ PhasesOver(p)
    /\ pc' = [pc EXCEPT ![p] = "cleanup"]
    /\ victims' = [victims EXCEPT ![p] = {d \in Dirs : home[d] # None}]
    /\ UNCHANGED <<dirVars, foreign, todo, planVars, workVars>>

EndPhasesNone(p) ==
    /\ ~RetainFiles
    /\ pc[p] = "phases" /\ PhasesOver(p)
    /\ pc' = [pc EXCEPT ![p] = "cleanup"]
    /\ UNCHANGED <<dirVars, foreign, todo, planVars, victims, workVars>>

\* wg.Wait returns; delete mode runs the deferred cleanupRunDirs.
EndPhases(p) ==
    /\ ~RetainFiles
    /\ pc[p] = "phases" /\ PhasesOver(p)
    /\ pc' = [pc EXCEPT ![p] = "cleanup"]
    /\ victims' = [victims EXCEPT ![p] = mine[p]]
    /\ UNCHANGED <<dirVars, foreign, todo, planVars, workVars>>

\* Run returns: the cycle's plan is forgotten.
Return(p) ==
    /\ \/ pc[p] = "cleanup" /\ victims[p] = {}
       \/ pc[p] = "phases" /\ RetainFiles /\ PhasesOver(p)
    /\ pc' = [pc EXCEPT ![p] = "idle"]
    /\ usable' = [usable EXCEPT ![p] = {}]
    /\ fileRoots' = [fileRoots EXCEPT ![p] = {}]
    /\ mine' = [mine EXCEPT ![p] = {}]
    /\ UNCHANGED <<dirVars, foreign, todo, sample, victims, workVars>>

----------------------------------------------------------------------------
(* The environment.                                                        *)

\* SIGKILL, power loss: the deferred cleanup never fires, files stay.
Crash(p) ==
    /\ "crash" \in Faults /\ pc[p] # "idle"
    /\ pc' = [pc EXCEPT ![p] = "idle"]
    /\ todo' = [todo EXCEPT ![p] = {}]
    /\ usable' = [usable EXCEPT ![p] = {}]
    /\ fileRoots' = [fileRoots EXCEPT ![p] = {}]
    /\ mine' = [mine EXCEPT ![p] = {}]
    /\ sample' = [sample EXCEPT ![p] = NoSample]
    /\ victims' = [victims EXCEPT ![p] = {}]
    /\ netLeft' = [netLeft EXCEPT ![p] = 0]
    /\ diskLeft' = [diskLeft EXCEPT ![p] = 0]
    /\ open' = [open EXCEPT ![p] = NoFile]
    /\ UNCHANGED <<dirVars, foreign>>

\* 26 hours pass over a directory no cycle is using: staleDirAge is far above
\* the MaxRunDuration of a cycle.
GoStale(d) ==
    /\ home[d] # None /\ d \notin stale
    /\ \A p \in Procs : d \notin mine[p]
    /\ stale' = stale \cup {d}
    /\ UNCHANGED <<home, size, foreign, pc, todo, planVars, victims, workVars>>

ForeignChange(r) ==
    /\ \E f \in ForeignLevels \ {foreign[r]} :
          /\ f + Ours(r) <= Cap[r]
          /\ foreign' = [foreign EXCEPT ![r] = f]
    /\ UNCHANGED <<dirVars, pc, todo, planVars, victims, workVars>>

----------------------------------------------------------------------------
RootStep(p, r) ==
    \/ PrepareRoot(p, r)
    \/ PurgeRoot(p, r)
    \/ SweepRoot(p, r)
    \/ BaselineStat(p, r)
    \/ BaselineRoot(p, r)
    \/ \E d \in Dirs : MakeRunDir(p, r, d)
    \/ MakeRunDirFails(p, r)

RootFault(p, r) ==
    \/ PrepareFails(p, r)
    \/ ListFails(p, r)
    \/ BaselineFails(p, r)
    \/ WalkFails(p, r)

DirStep(p, d) ==
    \/ RemoveDir(p, d)
    \/ DiskWrite(p, d)
    \/ \E n \in 1 .. NetMax : NetWrite(p, d, n)

ProcStep(p) ==
    \/ BeginCycle(p)
    \/ EndLoop(p)
    \/ \E d \in Dirs : SweepSpares(p, d)
    \/ StartPhases(p)
    \/ DiskStop(p)
    \/ NetClose(p)
    \/ NetCloseKeeps(p)
    \/ NetStop(p)
    \/ EndPhases(p)
    \/ Return(p)

Next ==
    \/ \E p \in Procs :
          \/ ProcStep(p)
          \/ Crash(p)
          \/ \E r \in Roots : RootStep(p, r) \/ RootFault(p, r)
          \/ \E d \in Dirs : DirStep(p, d) \/ RemoveFails(p, d)
    \/ \E d \in Dirs : GoStale(d)
    \/ \E r \in Roots : ForeignChange(r)

Spec == Init /\ [][Next]_vars

----------------------------------------------------------------------------
(* Fairness: the scheduler starts cycles again and again on a host that is *)
(* idle again and again, a started cycle goes on, and a system call on the *)
(* same file does not fail for ever.  Writes are not fair: a cycle may     *)
(* download nothing.                                                       *)

Fairness ==
    /\ \A p \in Procs : WF_vars(ProcStep(p))
    /\ \A p \in Procs, r \in Roots :
          /\ WF_vars(RootStep(p, r))
          /\ SF_vars(PrepareRoot(p, r))
          /\ SF_vars(PurgeRoot(p, r))
          /\ SF_vars(SweepRoot(p, r))
    /\ \A p \in Procs, d \in Dirs : SF_vars(RemoveDir(p, d))
    /\ \A d \in Dirs : WF_vars(GoStale(d))

FairSpec == Spec /\ Fairness

----------------------------------------------------------------------------
(* Properties.                                                             *)

Orphaned(d) == home[d] # None /\ \A p \in Procs : d \notin mine[p]

\* The directories a cycle is filling exist until the cycle itself removes
\* them: no sweep, purge or cleanup of another process takes them away
\* (keeper.go:95-131).  In retain mode this needs a single process.
LiveDirsSurvive ==
    \A p \in Procs : pc[p] # "cleanup" => \A d \in mine[p] : home[d] # None

\* The same as a protocol: a run dir is created by one cycle, under a name no
\* other cycle uses, and removed by nobody before that cycle's own cleanup (in
\* retain mode by nobody before the cycle ends, with a single process).
Lease == INSTANCE DirLease WITH
            present <- {d \in Dirs : home[d] # None},
            holds <- mine,
            releasing <- {p \in Procs : pc[p] = "cleanup"}
LeaseKept == Lease!Spec

\* Retain mode: what the keeper stores on a volume stays below the mark plus
\* one cycle's writes for every process, however the cycles interleave with
\* purges (purgeRoots, keeper.go:95-101), as long as purges do not fail.
FootprintBound == \A r \in Roots : WithinFootprint(r, Ours(r))

\* Delete mode: only a crash leaves a directory behind that nobody is going to
\* clean up, as long as removals do not fail; no error path and no step of
\* another process does (the deferred cleanupRunDirs, keeper.go:125-130).  A
\* process killed after its cleanup leaves nothing.
CutShort(p) == Crash(p) /\ (pc[p] = "cleanup" => victims[p] # {})
CyclesCleanUp ==
    [][\A d \in Dirs : Orphaned(d)' => Orphaned(d) \/ \E p \in Procs : CutShort(p)]_vars

\* Retain mode: a root that is skipped for lack of space because of the
\* keeper's own files comes back into use (purgeRoots, disk.go:98-101).
ShutOut == {r \in Roots : Free(r) < MinFree /\ ~AtMark(r, foreign[r])}
RootsComeBack == \A r \in Roots : r \in ShutOut ~> r \notin ShutOut

\* Delete mode: a directory whose cycle was killed is removed eventually
\* (sweepStale, disk.go:66-69).
OrphansReclaimed == \A d \in Dirs : Orphaned(d) ~> home[d] = None
=============================================================================
