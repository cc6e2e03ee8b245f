--------------------------- MODULE RunDirsProofs ---------------------------
(***************************************************************************)
(* Proofs about RunDirs for any roots, volumes, processes and faults:      *)
(* type correctness, the survival of live directories, the refinement of   *)
(* DirLease, and why a cycle runs out of steps.                            *)
(***************************************************************************)
EXTENDS RunDirs, FiniteSetTheorems, FunctionTheorems, WellFoundedInduction, TLAPS

\* The promise about live directories is made in delete mode, where any
\* number of processes may share the roots, and in retain mode to one process.
SoleOwner == ~RetainFiles \/ \A p, q \in Procs : p = q

\* What a process may hold where it is in Run.
StageInv ==
    \A p \in Procs :
        /\ mine[p] # {} => pc[p] \in {"mkdir", "sweep", "phases", "cleanup"}
        /\ victims[p] # {} => pc[p] \in {"purge", "sweep", "cleanup"}
        /\ pc[p] = "purge" => RetainFiles
        /\ pc[p] \in {"sweep", "cleanup"} => ~RetainFiles
        /\ open[p] # NoFile => pc[p] = "phases"
        /\ sample[p] # NoSample => pc[p] = "baseline"

\* No directory belongs to two cycles.
Unshared == \A p, q \in Procs : p # q => mine[p] \cap mine[q] = {}

\* A stale directory exists and belongs to no cycle.
StaleInv == \A d \in stale : Orphaned(d)

\* A purge has directories of no cycle on its list, the cleanup its own; a sweep
\* has any, and checks their age.
VictimsInv ==
    \A p \in Procs :
        /\ pc[p] = "cleanup" => victims[p] \subseteq mine[p]
        /\ pc[p] \notin {"sweep", "cleanup"} =>
              \A q \in Procs : victims[p] \cap mine[q] = {}

\* Delete mode: the bytes of an open download are in a directory of its cycle.
OpenInv ==
    \A p \in Procs :
        ~RetainFiles /\ open[p] # NoFile =>
            /\ open[p].dir \in mine[p]
            /\ open[p].bytes <= size[open[p].dir]

LeaseInv == StaleInv /\ LiveDirsSurvive /\ VictimsInv /\ OpenInv

IInv == TypeOK /\ StageInv /\ Unshared /\ (SoleOwner => LeaseInv)

----------------------------------------------------------------------------
(* Two facts the steps rest on.                                            *)

\* What the walk over a root finds is a number of bytes.
LEMMA BytesCounted ==
    ASSUME TypeOK, NEW r
    PROVE  IsFiniteSet(Bytes(DirsIn(r))) /\ Ours(r) \in Nat
  <1> DEFINE Files(d) == {d} \X (1 .. size[d])
  <1>1. IsFiniteSet(DirsIn(r))
    BY DiskAssumption, FS_Subset DEF DirsIn
  <1>2. IsFiniteSet({Files(d) : d \in DirsIn(r)})
    <2>1. PICK n \in Nat : ExistsSurjection(1 .. n, DirsIn(r))
      BY <1>1, FS_NatSurjection
    <2>2. PICK f \in [1 .. n -> DirsIn(r)] : \A d \in DirsIn(r) : \E i \in 1 .. n : f[i] = d
      BY <2>1, Fun_SurjectionProperties DEF ExistsSurjection
    <2>3. PICK g : g = [i \in 1 .. n |-> Files(f[i])]
      OBVIOUS
    <2>4. g \in [1 .. n -> {Files(d) : d \in DirsIn(r)}]
      BY <2>2, <2>3
    <2>5. \A t \in {Files(d) : d \in DirsIn(r)} : \E i \in 1 .. n : g[i] = t
      BY <2>2, <2>3
    <2>6. ExistsSurjection(1 .. n, {Files(d) : d \in DirsIn(r)})
      BY <2>4, <2>5, Fun_IsSurj DEF ExistsSurjection
    <2> QED
      BY <2>6, FS_NatSurjection
  <1>3. \A d \in DirsIn(r) : IsFiniteSet(Files(d))
    <2> SUFFICES ASSUME NEW d \in DirsIn(r) PROVE IsFiniteSet(Files(d))
      OBVIOUS
    <2>1. size[d] \in Nat
      BY DEF DirsIn, TypeOK
    <2>2. IsFiniteSet(1 .. size[d])
      BY <2>1, FS_Interval
    <2>3. IsFiniteSet({d})
      BY FS_Singleton
    <2> QED
      BY <2>2, <2>3, FS_Product
  <1>4. IsFiniteSet(UNION {Files(d) : d \in DirsIn(r)})
    BY <1>2, <1>3, FS_UNION
  <1> QED
    BY <1>4, FS_CardinalityType DEF Ours, Bytes

\* A directory that is being removed belongs to no cycle that still needs it.
LEMMA RemovedIsNobodys ==
    ASSUME IInv, LeaseInv, NEW p \in Procs, NEW d \in Dirs, RemoveDir(p, d) \/ RemoveFails(p, d)
    PROVE  \A q \in Procs : d \in mine[q] => pc[q] = "cleanup"
  <1>1. Condemned(p, d)
    BY DEF RemoveDir, RemoveFails
  <1>2. CASE pc[p] = "sweep"
    BY <1>1, <1>2 DEF Condemned, LeaseInv, StaleInv, Orphaned
  <1>3. CASE pc[p] # "sweep"
    BY <1>1, <1>3 DEF Condemned, IInv, LeaseInv, VictimsInv, Unshared
  <1> QED
    BY <1>2, <1>3

----------------------------------------------------------------------------
(* The initial states satisfy the invariant.                               *)
LEMMA InitIInv == Init => IInv
  <1> SUFFICES ASSUME Init PROVE IInv
    OBVIOUS
  <1> USE DiskAssumption
  <1>1. TypeOK
    <2>1. size \in [Dirs -> Nat]
      BY DEF Init, CycleMax
    <2>2. open \in [Procs -> [dir : Dirs \cup {None}, bytes : Nat]]
      BY DEF Init, NoFile
    <2>3. foreign \in [Roots -> Nat]
      BY DEF Init
    <2>4. sample \in [Procs -> [root : Roots \cup {None}, used : Nat]]
      BY DEF Init, NoSample
    <2> QED
      BY <2>1, <2>2, <2>3, <2>4 DEF Init, TypeOK, Stages
  <1>2. StageInv /\ Unshared
    BY DEF Init, StageInv, Unshared
  <1>3. StaleInv
    BY DEF Init, StaleInv, Orphaned
  <1>4. LiveDirsSurvive /\ VictimsInv /\ OpenInv
    BY DEF Init, LiveDirsSurvive, VictimsInv, OpenInv
  <1> QED
    BY <1>1, <1>2, <1>3, <1>4 DEF IInv, LeaseInv

----------------------------------------------------------------------------
(* Every step preserves the invariant.                                     *)
LEMMA NextIInv == IInv /\ [Next]_vars => IInv'
  <1> SUFFICES ASSUME IInv, [Next]_vars PROVE IInv'
    OBVIOUS
  <1> USE DiskAssumption DEF IInv
  <1>1. ASSUME NEW p \in Procs, BeginCycle(p) PROVE IInv'
    <2>1. TypeOK'
      BY <1>1 DEF TypeOK, Stages, NoFile, BeginCycle, dirVars, planVars, workVars
    <2>2. StageInv'
      BY <1>1 DEF StageInv, TypeOK, BeginCycle, dirVars, planVars, workVars
    <2>3. Unshared'
      BY <1>1 DEF Unshared, TypeOK, BeginCycle, dirVars, planVars, workVars
    <2>4. ASSUME SoleOwner PROVE LeaseInv'
      <3> USE <2>4 DEF LeaseInv
      <3>1. StaleInv'
        BY <1>1 DEF StaleInv, Orphaned, TypeOK, BeginCycle, dirVars, planVars, workVars
      <3>2. LiveDirsSurvive'
        BY <1>1 DEF LiveDirsSurvive, StageInv, TypeOK, BeginCycle, dirVars, planVars, workVars
      <3>3. VictimsInv'
        BY <1>1 DEF VictimsInv, StageInv, TypeOK, BeginCycle, dirVars, planVars, workVars
      <3>4. OpenInv'
        BY <1>1 DEF OpenInv, StageInv, TypeOK, BeginCycle, dirVars, planVars, workVars
      <3> QED
        BY <3>1, <3>2, <3>3, <3>4
    <2> QED
      BY <2>1, <2>2, <2>3, <2>4 DEF IInv, SoleOwner
  <1>2. ASSUME NEW p \in Procs, NEW r \in Roots, PrepareRoot(p, r) PROVE IInv'
    <2>1. TypeOK'
      BY <1>2 DEF TypeOK, Stages, NoFile, PrepareRoot, Visit, dirVars, planVars, workVars
    <2>2. StageInv'
      BY <1>2 DEF StageInv, TypeOK, PrepareRoot, Visit, dirVars, planVars, workVars
    <2>3. Unshared'
      BY <1>2 DEF Unshared, TypeOK, PrepareRoot, Visit, dirVars, planVars, workVars
    <2>4. ASSUME SoleOwner PROVE LeaseInv'
      <3> USE <2>4 DEF LeaseInv
      <3>1. StaleInv'
        BY <1>2 DEF StaleInv, Orphaned, TypeOK, PrepareRoot, Visit, dirVars, planVars, workVars
      <3>2. LiveDirsSurvive'
        BY <1>2
           DEF LiveDirsSurvive, StageInv, TypeOK, PrepareRoot, Visit, dirVars, planVars, workVars
      <3>3. VictimsInv'
        BY <1>2 DEF VictimsInv, StageInv, TypeOK, PrepareRoot, Visit, dirVars, planVars, workVars
      <3>4. OpenInv'
        BY <1>2 DEF OpenInv, StageInv, TypeOK, PrepareRoot, Visit, dirVars, planVars, workVars
      <3> QED
        BY <3>1, <3>2, <3>3, <3>4
    <2> QED
      BY <2>1, <2>2, <2>3, <2>4 DEF IInv, SoleOwner
  <1>3. ASSUME NEW p \in Procs, NEW r \in Roots, PrepareFails(p, r) PROVE IInv'
    <2>1. TypeOK'
      BY <1>3 DEF TypeOK, Stages, NoFile, PrepareFails, Visit, dirVars, planVars, workVars
    <2>2. StageInv'
      BY <1>3 DEF StageInv, TypeOK, PrepareFails, Visit, dirVars, planVars, workVars
    <2>3. Unshared'
      BY <1>3 DEF Unshared, TypeOK, PrepareFails, Visit, dirVars, planVars, workVars
    <2>4. ASSUME SoleOwner PROVE LeaseInv'
      <3> USE <2>4 DEF LeaseInv
      <3>1. StaleInv'
        BY <1>3 DEF StaleInv, Orphaned, TypeOK, PrepareFails, Visit, dirVars, planVars, workVars
      <3>2. LiveDirsSurvive'
        BY <1>3
           DEF LiveDirsSurvive, StageInv, TypeOK, PrepareFails, Visit, dirVars, planVars, workVars
      <3>3. VictimsInv'
        BY <1>3 DEF VictimsInv, StageInv, TypeOK, PrepareFails, Visit, dirVars, planVars, workVars
      <3>4. OpenInv'
        BY <1>3 DEF OpenInv, StageInv, TypeOK, PrepareFails, Visit, dirVars, planVars, workVars
      <3> QED
        BY <3>1, <3>2, <3>3, <3>4
    <2> QED
      BY <2>1, <2>2, <2>3, <2>4 DEF IInv, SoleOwner
  <1>4. ASSUME NEW p \in Procs, NEW r \in Roots, PurgeRoot(p, r) PROVE IInv'
    <2>1. TypeOK'
      BY <1>4 DEF TypeOK, Stages, NoFile, PurgeRoot, Visit, DirsIn, dirVars, planVars, workVars
    <2>2. StageInv'
      BY <1>4 DEF StageInv, TypeOK, PurgeRoot, Visit, DirsIn, dirVars, planVars, workVars
    <2>3. Unshared'
      BY <1>4 DEF Unshared, TypeOK, PurgeRoot, Visit, DirsIn, dirVars, planVars, workVars
    <2>4. ASSUME SoleOwner PROVE LeaseInv'
      <3> USE <2>4 DEF LeaseInv
      <3>1. StaleInv'
        BY <1>4
           DEF StaleInv, Orphaned, TypeOK, PurgeRoot, Visit, DirsIn, dirVars, planVars, workVars
      <3>2. LiveDirsSurvive'
        BY <1>4
           DEF LiveDirsSurvive, StageInv, TypeOK, PurgeRoot, Visit, DirsIn, dirVars, planVars, workVars
      <3>3. VictimsInv'
        <4>1. RetainFiles /\ \A q \in Procs : q = p
          BY <1>4 DEF StageInv, PurgeRoot, Visit, SoleOwner
        <4>2. \A q \in Procs : mine[q] = {}
          BY <4>1, <1>4 DEF StageInv, PurgeRoot, Visit
        <4> QED
          BY <4>2, <1>4 DEF VictimsInv, TypeOK, PurgeRoot, Visit, planVars
      <3>4. OpenInv'
        BY <1>4 DEF OpenInv, StageInv, TypeOK, PurgeRoot, Visit, DirsIn, dirVars, planVars, workVars
      <3> QED
        BY <3>1, <3>2, <3>3, <3>4
    <2> QED
      BY <2>1, <2>2, <2>3, <2>4 DEF IInv, SoleOwner
  <1>5. ASSUME NEW p \in Procs, NEW r \in Roots, SweepRoot(p, r) PROVE IInv'
    <2>1. TypeOK'
      BY <1>5 DEF TypeOK, Stages, NoFile, SweepRoot, Visit, DirsIn, dirVars, planVars, workVars
    <2>2. StageInv'
      BY <1>5 DEF StageInv, TypeOK, SweepRoot, Visit, DirsIn, dirVars, planVars, workVars
    <2>3. Unshared'
      BY <1>5 DEF Unshared, TypeOK, SweepRoot, Visit, DirsIn, dirVars, planVars, workVars
    <2>4. ASSUME SoleOwner PROVE LeaseInv'
      <3> USE <2>4 DEF LeaseInv
      <3>1. StaleInv'
        BY <1>5
           DEF StaleInv, Orphaned, TypeOK, SweepRoot, Visit, DirsIn, dirVars, planVars, workVars
      <3>2. LiveDirsSurvive'
        BY <1>5
           DEF LiveDirsSurvive, StageInv, TypeOK, SweepRoot, Visit, DirsIn, dirVars, planVars, workVars
      <3>3. VictimsInv'
        BY <1>5 DEF VictimsInv, TypeOK, SweepRoot, Visit, planVars
      <3>4. OpenInv'
        BY <1>5 DEF OpenInv, StageInv, TypeOK, SweepRoot, Visit, DirsIn, dirVars, planVars, workVars
      <3> QED
        BY <3>1, <3>2, <3>3, <3>4
    <2> QED
      BY <2>1, <2>2, <2>3, <2>4 DEF IInv, SoleOwner
  <1>6. ASSUME NEW p \in Procs, NEW r \in Roots, ListFails(p, r) PROVE IInv'
    <2>1. TypeOK'
      BY <1>6 DEF TypeOK, Stages, NoFile, ListFails, Visit, dirVars, planVars, workVars
    <2>2. StageInv'
      BY <1>6 DEF StageInv, TypeOK, ListFails, Visit, dirVars, planVars, workVars
    <2>3. Unshared'
      BY <1>6 DEF Unshared, TypeOK, ListFails, Visit, dirVars, planVars, workVars
    <2>4. ASSUME SoleOwner PROVE LeaseInv'
      <3> USE <2>4 DEF LeaseInv
      <3>1. StaleInv'
        BY <1>6 DEF StaleInv, Orphaned, TypeOK, ListFails, Visit, dirVars, planVars, workVars
      <3>2. LiveDirsSurvive'
        BY <1>6 DEF LiveDirsSurvive, StageInv, TypeOK, ListFails, Visit, dirVars, planVars, workVars
      <3>3. VictimsInv'
        BY <1>6 DEF VictimsInv, StageInv, TypeOK, ListFails, Visit, dirVars, planVars, workVars
      <3>4. OpenInv'
        BY <1>6 DEF OpenInv, StageInv, TypeOK, ListFails, Visit, dirVars, planVars, workVars
      <3> QED
        BY <3>1, <3>2, <3>3, <3>4
    <2> QED
      BY <2>1, <2>2, <2>3, <2>4 DEF IInv, SoleOwner
  <1>7. ASSUME NEW p \in Procs, NEW r \in Roots, BaselineStat(p, r) PROVE IInv'
    <2>1. TypeOK'
      <3>1. [root |-> r, used |-> Used(r)] \in [root : Roots \cup {None}, used : Nat]
        BY BytesCounted DEF Used, TypeOK
      <3> QED
        BY <1>7, <3>1 DEF TypeOK, BaselineStat, Visit, dirVars, workVars
    <2>2. StageInv'
      BY <1>7 DEF StageInv, TypeOK, BaselineStat, Visit, dirVars, planVars, workVars
    <2>3. Unshared'
      BY <1>7 DEF Unshared, TypeOK, BaselineStat, Visit, dirVars, planVars, workVars
    <2>4. ASSUME SoleOwner PROVE LeaseInv'
      <3> USE <2>4 DEF LeaseInv
      <3>1. StaleInv'
        BY <1>7 DEF StaleInv, Orphaned, TypeOK, BaselineStat, Visit, dirVars, planVars, workVars
      <3>2. LiveDirsSurvive'
        BY <1>7
           DEF LiveDirsSurvive, StageInv, TypeOK, BaselineStat, Visit, dirVars, planVars, workVars
      <3>3. VictimsInv'
        BY <1>7 DEF VictimsInv, StageInv, TypeOK, BaselineStat, Visit, dirVars, planVars, workVars
      <3>4. OpenInv'
        BY <1>7 DEF OpenInv, StageInv, TypeOK, BaselineStat, Visit, dirVars, planVars, workVars
      <3> QED
        BY <3>1, <3>2, <3>3, <3>4
    <2> QED
      BY <2>1, <2>2, <2>3, <2>4 DEF IInv, SoleOwner
  <1>8. ASSUME NEW p \in Procs, NEW r \in Roots, NEW n, Gate(p, r, n) PROVE IInv'
    <2>1. TypeOK'
      BY <1>8 DEF TypeOK, Stages, NoSample, Gate, dirVars, planVars, workVars
    <2>2. StageInv'
      BY <1>8 DEF StageInv, TypeOK, Gate, dirVars, planVars, workVars
    <2>3. Unshared'
      BY <1>8 DEF Unshared, TypeOK, Gate, dirVars, planVars, workVars
    <2>4. ASSUME SoleOwner PROVE LeaseInv'
      <3> USE <2>4 DEF LeaseInv
      <3>1. StaleInv'
        BY <1>8 DEF StaleInv, Orphaned, TypeOK, Gate, dirVars, planVars, workVars
      <3>2. LiveDirsSurvive'
        BY <1>8 DEF LiveDirsSurvive, StageInv, TypeOK, Gate, dirVars, planVars, workVars
      <3>3. VictimsInv'
        BY <1>8 DEF VictimsInv, StageInv, TypeOK, Gate, dirVars, planVars, workVars
      <3>4. OpenInv'
        BY <1>8 DEF OpenInv, StageInv, TypeOK, Gate, dirVars, planVars, workVars
      <3> QED
        BY <3>1, <3>2, <3>3, <3>4
    <2> QED
      BY <2>1, <2>2, <2>3, <2>4 DEF IInv, SoleOwner
  <1>9. ASSUME NEW p \in Procs, NEW r \in Roots, BaselineFails(p, r) PROVE IInv'
    <2>1. TypeOK'
      BY <1>9 DEF TypeOK, Stages, NoFile, BaselineFails, Visit, dirVars, planVars, workVars
    <2>2. StageInv'
      BY <1>9 DEF StageInv, TypeOK, BaselineFails, Visit, dirVars, planVars, workVars
    <2>3. Unshared'
      BY <1>9 DEF Unshared, TypeOK, BaselineFails, Visit, dirVars, planVars, workVars
    <2>4. ASSUME SoleOwner PROVE LeaseInv'
      <3> USE <2>4 DEF LeaseInv
      <3>1. StaleInv'
        BY <1>9 DEF StaleInv, Orphaned, TypeOK, BaselineFails, Visit, dirVars, planVars, workVars
      <3>2. LiveDirsSurvive'
        BY <1>9
           DEF LiveDirsSurvive, StageInv, TypeOK, BaselineFails, Visit, dirVars, planVars, workVars
      <3>3. VictimsInv'
        BY <1>9 DEF VictimsInv, StageInv, TypeOK, BaselineFails, Visit, dirVars, planVars, workVars
      <3>4. OpenInv'
        BY <1>9 DEF OpenInv, StageInv, TypeOK, BaselineFails, Visit, dirVars, planVars, workVars
      <3> QED
        BY <3>1, <3>2, <3>3, <3>4
    <2> QED
      BY <2>1, <2>2, <2>3, <2>4 DEF IInv, SoleOwner
  <1>10. ASSUME NEW p \in Procs, NEW r \in Roots, NEW d \in Dirs, MakeRunDir(p, r, d) PROVE IInv'
    <2>1. TypeOK'
      BY <1>10 DEF TypeOK, Stages, NoFile, MakeRunDir, Visit, Fresh, dirVars, planVars, workVars
    <2>2. StageInv'
      BY <1>10 DEF StageInv, TypeOK, MakeRunDir, Visit, Fresh, dirVars, planVars, workVars
    <2>3. Unshared'
      BY <1>10 DEF Unshared, TypeOK, MakeRunDir, Visit, Fresh, dirVars, planVars, workVars
    <2>4. ASSUME SoleOwner PROVE LeaseInv'
      <3> USE <2>4 DEF LeaseInv
      <3>1. StaleInv'
        BY <1>10
           DEF StaleInv, Orphaned, TypeOK, MakeRunDir, Visit, Fresh, dirVars, planVars, workVars
      <3>2. LiveDirsSurvive'
        BY <1>10
           DEF LiveDirsSurvive, StageInv, TypeOK, MakeRunDir, Visit, Fresh, dirVars, planVars, workVars
      <3>3. VictimsInv'
        BY <1>10
           DEF VictimsInv, StageInv, TypeOK, MakeRunDir, Visit, Fresh, dirVars, planVars, workVars
      <3>4. OpenInv'
        BY <1>10
           DEF OpenInv, StageInv, TypeOK, MakeRunDir, Visit, Fresh, dirVars, planVars, workVars
      <3> QED
        BY <3>1, <3>2, <3>3, <3>4
    <2> QED
      BY <2>1, <2>2, <2>3, <2>4 DEF IInv, SoleOwner
  <1>11. ASSUME NEW p \in Procs, NEW r \in Roots, MakeRunDirFails(p, r) PROVE IInv'
    <2>1. TypeOK'
      BY <1>11 DEF TypeOK, Stages, NoFile, MakeRunDirFails, Visit, dirVars, planVars, workVars
    <2>2. StageInv'
      BY <1>11 DEF StageInv, TypeOK, MakeRunDirFails, Visit, dirVars, planVars, workVars
    <2>3. Unshared'
      BY <1>11 DEF Unshared, TypeOK, MakeRunDirFails, Visit, dirVars, planVars, workVars
    <2>4. ASSUME SoleOwner PROVE LeaseInv'
      <3> USE <2>4 DEF LeaseInv
      <3>1. StaleInv'
        BY <1>11 DEF StaleInv, Orphaned, TypeOK, MakeRunDirFails, Visit, dirVars, planVars, workVars
      <3>2. LiveDirsSurvive'
        BY <1>11
           DEF LiveDirsSurvive, StageInv, TypeOK, MakeRunDirFails, Visit, dirVars, planVars, workVars
      <3>3. VictimsInv'
        BY <1>11
           DEF VictimsInv, StageInv, TypeOK, MakeRunDirFails, Visit, dirVars, planVars, workVars
      <3>4. OpenInv'
        BY <1>11 DEF OpenInv, StageInv, TypeOK, MakeRunDirFails, Visit, dirVars, planVars, workVars
      <3> QED
        BY <3>1, <3>2, <3>3, <3>4
    <2> QED
      BY <2>1, <2>2, <2>3, <2>4 DEF IInv, SoleOwner
  <1>12. ASSUME NEW p \in Procs, EndLoop(p) PROVE IInv'
    <2>1. TypeOK'
      BY <1>12
         DEF TypeOK, Stages, NoFile, EndLoop, Loops, LastLoop, Done, After, RootsOf, dirVars, planVars, workVars
    <2>2. StageInv'
      BY <1>12
         DEF StageInv, TypeOK, EndLoop, Loops, LastLoop, Done, After, RootsOf, dirVars, planVars, workVars
    <2>3. Unshared'
      BY <1>12
         DEF Unshared, TypeOK, EndLoop, Loops, LastLoop, Done, After, RootsOf, dirVars, planVars, workVars
    <2>4. ASSUME SoleOwner PROVE LeaseInv'
      <3> USE <2>4 DEF LeaseInv
      <3>1. StaleInv'
        BY <1>12
           DEF StaleInv, Orphaned, TypeOK, EndLoop, Loops, LastLoop, Done, After, RootsOf, dirVars, planVars, workVars
      <3>2. LiveDirsSurvive'
        BY <1>12
           DEF LiveDirsSurvive, StageInv, TypeOK, EndLoop, Loops, LastLoop, Done, After, RootsOf, dirVars, planVars, workVars
      <3>3. VictimsInv'
        BY <1>12
           DEF VictimsInv, StageInv, TypeOK, EndLoop, Loops, LastLoop, Done, After, RootsOf, dirVars, planVars, workVars
      <3>4. OpenInv'
        BY <1>12
           DEF OpenInv, StageInv, TypeOK, EndLoop, Loops, LastLoop, Done, After, RootsOf, dirVars, planVars, workVars
      <3> QED
        BY <3>1, <3>2, <3>3, <3>4
    <2> QED
      BY <2>1, <2>2, <2>3, <2>4 DEF IInv, SoleOwner
  <1>13. ASSUME NEW p \in Procs, NEW d \in Dirs, SweepSpares(p, d) PROVE IInv'
    <2>1. TypeOK'
      BY <1>13 DEF TypeOK, Stages, NoFile, SweepSpares, dirVars, planVars, workVars
    <2>2. StageInv'
      BY <1>13 DEF StageInv, TypeOK, SweepSpares, dirVars, planVars, workVars
    <2>3. Unshared'
      BY <1>13 DEF Unshared, TypeOK, SweepSpares, dirVars, planVars, workVars
    <2>4. ASSUME SoleOwner PROVE LeaseInv'
      <3> USE <2>4 DEF LeaseInv
      <3>1. StaleInv'
        BY <1>13 DEF StaleInv, Orphaned, TypeOK, SweepSpares, dirVars, planVars, workVars
      <3>2. LiveDirsSurvive'
        BY <1>13 DEF LiveDirsSurvive, StageInv, TypeOK, SweepSpares, dirVars, planVars, workVars
      <3>3. VictimsInv'
        BY <1>13 DEF VictimsInv, StageInv, TypeOK, SweepSpares, dirVars, planVars, workVars
      <3>4. OpenInv'
        BY <1>13 DEF OpenInv, StageInv, TypeOK, SweepSpares, dirVars, planVars, workVars
      <3> QED
        BY <3>1, <3>2, <3>3, <3>4
    <2> QED
      BY <2>1, <2>2, <2>3, <2>4 DEF IInv, SoleOwner
  <1>14. ASSUME NEW p \in Procs, NEW d \in Dirs, RemoveDir(p, d) PROVE IInv'
    <2>1. TypeOK'
      BY <1>14 DEF TypeOK, Stages, NoFile, RemoveDir, dirVars, planVars, workVars
    <2>2. StageInv'
      BY <1>14 DEF StageInv, TypeOK, RemoveDir, dirVars, planVars, workVars
    <2>3. Unshared'
      BY <1>14 DEF Unshared, TypeOK, RemoveDir, dirVars, planVars, workVars
    <2>4. ASSUME SoleOwner PROVE LeaseInv'
      <3> USE <2>4 DEF LeaseInv
      <3>0. \A q \in Procs : pc[q] # "cleanup" => d \notin mine[q]
        BY <1>14, RemovedIsNobodys
      <3>1. StaleInv'
        BY <1>14 DEF StaleInv, Orphaned, TypeOK, RemoveDir, dirVars, planVars, workVars
      <3>2. LiveDirsSurvive'
        BY <3>0, <1>14 DEF LiveDirsSurvive, TypeOK, RemoveDir, dirVars, planVars, workVars
      <3>3. VictimsInv'
        BY <1>14 DEF VictimsInv, StageInv, TypeOK, RemoveDir, dirVars, planVars, workVars
      <3>4. OpenInv'
        BY <3>0, <1>14 DEF OpenInv, StageInv, TypeOK, RemoveDir, dirVars, planVars, workVars
      <3> QED
        BY <3>1, <3>2, <3>3, <3>4
    <2> QED
      BY <2>1, <2>2, <2>3, <2>4 DEF IInv, SoleOwner
  <1>15. ASSUME NEW p \in Procs, NEW d \in Dirs, RemoveFails(p, d) PROVE IInv'
    <2>1. TypeOK'
      BY <1>15 DEF TypeOK, Stages, NoFile, RemoveFails, dirVars, planVars, workVars
    <2>2. StageInv'
      BY <1>15 DEF StageInv, TypeOK, RemoveFails, dirVars, planVars, workVars
    <2>3. Unshared'
      BY <1>15 DEF Unshared, TypeOK, RemoveFails, dirVars, planVars, workVars
    <2>4. ASSUME SoleOwner PROVE LeaseInv'
      <3> USE <2>4 DEF LeaseInv
      <3>0. \A q \in Procs : pc[q] # "cleanup" => d \notin mine[q]
        BY <1>15, RemovedIsNobodys
      <3>1. StaleInv'
        BY <1>15 DEF StaleInv, Orphaned, TypeOK, RemoveFails, dirVars, planVars, workVars
      <3>2. LiveDirsSurvive'
        BY <1>15 DEF LiveDirsSurvive, StageInv, TypeOK, RemoveFails, dirVars, planVars, workVars
      <3>3. VictimsInv'
        BY <1>15 DEF VictimsInv, StageInv, TypeOK, RemoveFails, dirVars, planVars, workVars
      <3>4. OpenInv'
        BY <3>0, <1>15 DEF OpenInv, StageInv, TypeOK, RemoveFails, dirVars, planVars, workVars
      <3> QED
        BY <3>1, <3>2, <3>3, <3>4
    <2> QED
      BY <2>1, <2>2, <2>3, <2>4 DEF IInv, SoleOwner
  <1>16. ASSUME NEW p \in Procs, StartPhases(p) PROVE IInv'
    <2>1. TypeOK'
      BY <1>16 DEF TypeOK, Stages, NoFile, StartPhases, LastLoop, Done, dirVars, planVars, workVars
    <2>2. StageInv'
      BY <1>16 DEF StageInv, TypeOK, StartPhases, LastLoop, Done, dirVars, planVars, workVars
    <2>3. Unshared'
      BY <1>16 DEF Unshared, TypeOK, StartPhases, LastLoop, Done, dirVars, planVars, workVars
    <2>4. ASSUME SoleOwner PROVE LeaseInv'
      <3> USE <2>4 DEF LeaseInv
      <3>1. StaleInv'
        BY <1>16
           DEF StaleInv, Orphaned, TypeOK, StartPhases, LastLoop, Done, dirVars, planVars, workVars
      <3>2. LiveDirsSurvive'
        BY <1>16
           DEF LiveDirsSurvive, StageInv, TypeOK, StartPhases, LastLoop, Done, dirVars, planVars, workVars
      <3>3. VictimsInv'
        BY <1>16
           DEF VictimsInv, StageInv, TypeOK, StartPhases, LastLoop, Done, dirVars, planVars, workVars
      <3>4. OpenInv'
        BY <1>16
           DEF OpenInv, StageInv, TypeOK, StartPhases, LastLoop, Done, dirVars, planVars, workVars
      <3> QED
        BY <3>1, <3>2, <3>3, <3>4
    <2> QED
      BY <2>1, <2>2, <2>3, <2>4 DEF IInv, SoleOwner
  <1>17. ASSUME NEW p \in Procs, NEW d \in Dirs, DiskWrite(p, d) PROVE IInv'
    <2>1. TypeOK'
      BY <1>17 DEF TypeOK, Stages, NoFile, DiskWrite, Writable, dirVars, planVars, workVars
    <2>2. StageInv'
      BY <1>17 DEF StageInv, TypeOK, DiskWrite, Writable, dirVars, planVars, workVars
    <2>3. Unshared'
      BY <1>17 DEF Unshared, TypeOK, DiskWrite, Writable, dirVars, planVars, workVars
    <2>4. ASSUME SoleOwner PROVE LeaseInv'
      <3> USE <2>4 DEF LeaseInv
      <3>1. StaleInv'
        BY <1>17 DEF StaleInv, Orphaned, TypeOK, DiskWrite, Writable, dirVars, planVars, workVars
      <3>2. LiveDirsSurvive'
        BY <1>17
           DEF LiveDirsSurvive, StageInv, TypeOK, DiskWrite, Writable, dirVars, planVars, workVars
      <3>3. VictimsInv'
        BY <1>17 DEF VictimsInv, StageInv, TypeOK, DiskWrite, Writable, dirVars, planVars, workVars
      <3>4. OpenInv'
        BY <1>17 DEF OpenInv, StageInv, TypeOK, DiskWrite, Writable, dirVars, planVars, workVars
      <3> QED
        BY <3>1, <3>2, <3>3, <3>4
    <2> QED
      BY <2>1, <2>2, <2>3, <2>4 DEF IInv, SoleOwner
  <1>18. ASSUME NEW p \in Procs, DiskStop(p) PROVE IInv'
    <2>1. TypeOK'
      BY <1>18 DEF TypeOK, Stages, NoFile, DiskStop, dirVars, planVars, workVars
    <2>2. StageInv'
      BY <1>18 DEF StageInv, TypeOK, DiskStop, dirVars, planVars, workVars
    <2>3. Unshared'
      BY <1>18 DEF Unshared, TypeOK, DiskStop, dirVars, planVars, workVars
    <2>4. ASSUME SoleOwner PROVE LeaseInv'
      <3> USE <2>4 DEF LeaseInv
      <3>1. StaleInv'
        BY <1>18 DEF StaleInv, Orphaned, TypeOK, DiskStop, dirVars, planVars, workVars
      <3>2. LiveDirsSurvive'
        BY <1>18 DEF LiveDirsSurvive, StageInv, TypeOK, DiskStop, dirVars, planVars, workVars
      <3>3. VictimsInv'
        BY <1>18 DEF VictimsInv, StageInv, TypeOK, DiskStop, dirVars, planVars, workVars
      <3>4. OpenInv'
        BY <1>18 DEF OpenInv, StageInv, TypeOK, DiskStop, dirVars, planVars, workVars
      <3> QED
        BY <3>1, <3>2, <3>3, <3>4
    <2> QED
      BY <2>1, <2>2, <2>3, <2>4 DEF IInv, SoleOwner
  <1>19. ASSUME NEW p \in Procs, NEW d \in Dirs, NEW n \in 1 .. NetMax, NetWrite(p, d, n) PROVE IInv'
    <2>1. TypeOK'
      BY <1>19 DEF TypeOK, Stages, NoFile, NetWrite, Writable, dirVars, planVars, workVars
    <2>2. StageInv'
      BY <1>19 DEF StageInv, TypeOK, NetWrite, Writable, dirVars, planVars, workVars
    <2>3. Unshared'
      BY <1>19 DEF Unshared, TypeOK, NetWrite, Writable, dirVars, planVars, workVars
    <2>4. ASSUME SoleOwner PROVE LeaseInv'
      <3> USE <2>4 DEF LeaseInv
      <3>1. StaleInv'
        BY <1>19 DEF StaleInv, Orphaned, TypeOK, NetWrite, Writable, dirVars, planVars, workVars
      <3>2. LiveDirsSurvive'
        BY <1>19
           DEF LiveDirsSurvive, StageInv, TypeOK, NetWrite, Writable, dirVars, planVars, workVars
      <3>3. VictimsInv'
        BY <1>19 DEF VictimsInv, StageInv, TypeOK, NetWrite, Writable, dirVars, planVars, workVars
      <3>4. OpenInv'
        BY <1>19 DEF OpenInv, StageInv, TypeOK, NetWrite, Writable, dirVars, planVars, workVars
      <3> QED
        BY <3>1, <3>2, <3>3, <3>4
    <2> QED
      BY <2>1, <2>2, <2>3, <2>4 DEF IInv, SoleOwner
  <1>20. ASSUME NEW p \in Procs, NetClose(p) PROVE IInv'
    <2>1. TypeOK'
      <3>1. size' \in [Dirs -> Nat]
        <4>1. CASE RetainFiles
          BY <4>1, <1>20 DEF TypeOK, NetClose
        <4>2. CASE ~RetainFiles
          <5>1. open[p].dir \in Dirs /\ open[p].bytes \in Nat
                  /\ open[p].bytes <= size[open[p].dir]
            BY <4>2, <1>20 DEF SoleOwner, LeaseInv, OpenInv, TypeOK, NetClose
          <5>2. size[open[p].dir] - open[p].bytes \in Nat
            BY <5>1 DEF TypeOK
          <5> QED
            BY <4>2, <5>1, <5>2, <1>20 DEF TypeOK, NetClose
        <4> QED
          BY <4>1, <4>2
      <3>2. open' \in [Procs -> [dir : Dirs \cup {None}, bytes : Nat]]
        BY <1>20 DEF TypeOK, NoFile, NetClose
      <3> QED
        BY <3>1, <3>2, <1>20 DEF TypeOK, NetClose, planVars
    <2>2. StageInv'
      BY <1>20 DEF StageInv, TypeOK, NetClose, dirVars, planVars, workVars
    <2>3. Unshared'
      BY <1>20 DEF Unshared, TypeOK, NetClose, dirVars, planVars, workVars
    <2>4. ASSUME SoleOwner PROVE LeaseInv'
      <3> USE <2>4 DEF LeaseInv
      <3>1. StaleInv'
        BY <1>20 DEF StaleInv, Orphaned, TypeOK, NetClose, dirVars, planVars, workVars
      <3>2. LiveDirsSurvive'
        BY <1>20 DEF LiveDirsSurvive, StageInv, TypeOK, NetClose, dirVars, planVars, workVars
      <3>3. VictimsInv'
        BY <1>20 DEF VictimsInv, StageInv, TypeOK, NetClose, dirVars, planVars, workVars
      <3>4. OpenInv'
        <4> SUFFICES ASSUME NEW q \in Procs, ~RetainFiles, open'[q] # NoFile
                     PROVE  /\ open'[q].dir \in mine'[q]
                            /\ open'[q].bytes <= size'[open'[q].dir]
          BY DEF OpenInv
        <4>1. q # p /\ open'[q] = open[q] /\ mine' = mine
          BY <1>20 DEF TypeOK, NetClose, planVars
        <4>2. open[q].dir \in mine[q] /\ open[p].dir \in mine[p]
          BY <4>1, <1>20 DEF OpenInv, NetClose
        <4>3. open[q].dir # open[p].dir
          BY <4>1, <4>2 DEF Unshared
        <4>4. size'[open[q].dir] = size[open[q].dir]
          BY <4>2, <4>3, <1>20 DEF NetClose, TypeOK
        <4> QED
          BY <4>1, <4>2, <4>4 DEF OpenInv
      <3> QED
        BY <3>1, <3>2, <3>3, <3>4
    <2> QED
      BY <2>1, <2>2, <2>3, <2>4 DEF IInv, SoleOwner
  <1>21. ASSUME NEW p \in Procs, NetCloseKeeps(p) PROVE IInv'
    <2>1. TypeOK'
      BY <1>21 DEF TypeOK, Stages, NoFile, NetCloseKeeps, dirVars, planVars, workVars
    <2>2. StageInv'
      BY <1>21 DEF StageInv, TypeOK, NetCloseKeeps, dirVars, planVars, workVars
    <2>3. Unshared'
      BY <1>21 DEF Unshared, TypeOK, NetCloseKeeps, dirVars, planVars, workVars
    <2>4. ASSUME SoleOwner PROVE LeaseInv'
      <3> USE <2>4 DEF LeaseInv
      <3>1. StaleInv'
        BY <1>21 DEF StaleInv, Orphaned, TypeOK, NetCloseKeeps, dirVars, planVars, workVars
      <3>2. LiveDirsSurvive'
        BY <1>21 DEF LiveDirsSurvive, StageInv, TypeOK, NetCloseKeeps, dirVars, planVars, workVars
      <3>3. VictimsInv'
        BY <1>21 DEF VictimsInv, StageInv, TypeOK, NetCloseKeeps, dirVars, planVars, workVars
      <3>4. OpenInv'
        BY <1>21 DEF OpenInv, StageInv, TypeOK, NetCloseKeeps, dirVars, planVars, workVars
      <3> QED
        BY <3>1, <3>2, <3>3, <3>4
    <2> QED
      BY <2>1, <2>2, <2>3, <2>4 DEF IInv, SoleOwner
  <1>22. ASSUME NEW p \in Procs, NetStop(p) PROVE IInv'
    <2>1. TypeOK'
      BY <1>22 DEF TypeOK, Stages, NoFile, NetStop, dirVars, planVars, workVars
    <2>2. StageInv'
      BY <1>22 DEF StageInv, TypeOK, NetStop, dirVars, planVars, workVars
    <2>3. Unshared'
      BY <1>22 DEF Unshared, TypeOK, NetStop, dirVars, planVars, workVars
    <2>4. ASSUME SoleOwner PROVE LeaseInv'
      <3> USE <2>4 DEF LeaseInv
      <3>1. StaleInv'
        BY <1>22 DEF StaleInv, Orphaned, TypeOK, NetStop, dirVars, planVars, workVars
      <3>2. LiveDirsSurvive'
        BY <1>22 DEF LiveDirsSurvive, StageInv, TypeOK, NetStop, dirVars, planVars, workVars
      <3>3. VictimsInv'
        BY <1>22 DEF VictimsInv, StageInv, TypeOK, NetStop, dirVars, planVars, workVars
      <3>4. OpenInv'
        BY <1>22 DEF OpenInv, StageInv, TypeOK, NetStop, dirVars, planVars, workVars
      <3> QED
        BY <3>1, <3>2, <3>3, <3>4
    <2> QED
      BY <2>1, <2>2, <2>3, <2>4 DEF IInv, SoleOwner
  <1>23. ASSUME NEW p \in Procs, EndPhases(p) PROVE IInv'
    <2>1. TypeOK'
      BY <1>23 DEF TypeOK, Stages, NoFile, EndPhases, PhasesOver, dirVars, planVars, workVars
    <2>2. StageInv'
      BY <1>23 DEF StageInv, TypeOK, EndPhases, PhasesOver, dirVars, planVars, workVars
    <2>3. Unshared'
      BY <1>23 DEF Unshared, TypeOK, EndPhases, PhasesOver, dirVars, planVars, workVars
    <2>4. ASSUME SoleOwner PROVE LeaseInv'
      <3> USE <2>4 DEF LeaseInv
      <3>1. StaleInv'
        BY <1>23 DEF StaleInv, Orphaned, TypeOK, EndPhases, PhasesOver, dirVars, planVars, workVars
      <3>2. LiveDirsSurvive'
        BY <1>23
           DEF LiveDirsSurvive, StageInv, TypeOK, EndPhases, PhasesOver, dirVars, planVars, workVars
      <3>3. VictimsInv'
        BY <1>23
           DEF VictimsInv, StageInv, TypeOK, EndPhases, PhasesOver, dirVars, planVars, workVars
      <3>4. OpenInv'
        BY <1>23 DEF OpenInv, StageInv, TypeOK, EndPhases, PhasesOver, dirVars, planVars, workVars
      <3> QED
        BY <3>1, <3>2, <3>3, <3>4
    <2> QED
      BY <2>1, <2>2, <2>3, <2>4 DEF IInv, SoleOwner
  <1>24. ASSUME NEW p \in Procs, Return(p) PROVE IInv'
    <2>1. TypeOK'
      BY <1>24 DEF TypeOK, Stages, NoFile, Return, PhasesOver, dirVars, planVars, workVars
    <2>2. StageInv'
      BY <1>24 DEF StageInv, TypeOK, Return, PhasesOver, dirVars, planVars, workVars
    <2>3. Unshared'
      BY <1>24 DEF Unshared, TypeOK, Return, PhasesOver, dirVars, planVars, workVars
    <2>4. ASSUME SoleOwner PROVE LeaseInv'
      <3> USE <2>4 DEF LeaseInv
      <3>1. StaleInv'
        BY <1>24 DEF StaleInv, Orphaned, TypeOK, Return, PhasesOver, dirVars, planVars, workVars
      <3>2. LiveDirsSurvive'
        BY <1>24
           DEF LiveDirsSurvive, StageInv, TypeOK, Return, PhasesOver, dirVars, planVars, workVars
      <3>3. VictimsInv'
        BY <1>24 DEF VictimsInv, StageInv, TypeOK, Return, PhasesOver, dirVars, planVars, workVars
      <3>4. OpenInv'
        BY <1>24 DEF OpenInv, StageInv, TypeOK, Return, PhasesOver, dirVars, planVars, workVars
      <3> QED
        BY <3>1, <3>2, <3>3, <3>4
    <2> QED
      BY <2>1, <2>2, <2>3, <2>4 DEF IInv, SoleOwner
  <1>25. ASSUME NEW p \in Procs, Crash(p) PROVE IInv'
    <2>1. TypeOK'
      BY <1>25 DEF TypeOK, Stages, NoFile, NoSample, Crash, dirVars, planVars, workVars
    <2>2. StageInv'
      BY <1>25 DEF StageInv, TypeOK, Crash, dirVars, planVars, workVars
    <2>3. Unshared'
      BY <1>25 DEF Unshared, TypeOK, Crash, dirVars, planVars, workVars
    <2>4. ASSUME SoleOwner PROVE LeaseInv'
      <3> USE <2>4 DEF LeaseInv
      <3>1. StaleInv'
        BY <1>25 DEF StaleInv, Orphaned, TypeOK, Crash, dirVars, planVars, workVars
      <3>2. LiveDirsSurvive'
        BY <1>25 DEF LiveDirsSurvive, StageInv, TypeOK, Crash, dirVars, planVars, workVars
      <3>3. VictimsInv'
        BY <1>25 DEF VictimsInv, StageInv, TypeOK, Crash, dirVars, planVars, workVars
      <3>4. OpenInv'
        BY <1>25 DEF OpenInv, StageInv, TypeOK, Crash, dirVars, planVars, workVars
      <3> QED
        BY <3>1, <3>2, <3>3, <3>4
    <2> QED
      BY <2>1, <2>2, <2>3, <2>4 DEF IInv, SoleOwner
  <1>26. ASSUME NEW d \in Dirs, GoStale(d) PROVE IInv'
    <2>1. TypeOK'
      BY <1>26 DEF TypeOK, Stages, NoFile, GoStale, dirVars, planVars, workVars
    <2>2. StageInv'
      BY <1>26 DEF StageInv, TypeOK, GoStale, dirVars, planVars, workVars
    <2>3. Unshared'
      BY <1>26 DEF Unshared, TypeOK, GoStale, dirVars, planVars, workVars
    <2>4. ASSUME SoleOwner PROVE LeaseInv'
      <3> USE <2>4 DEF LeaseInv
      <3>1. StaleInv'
        BY <1>26 DEF StaleInv, Orphaned, TypeOK, GoStale, dirVars, planVars, workVars
      <3>2. LiveDirsSurvive'
        BY <1>26 DEF LiveDirsSurvive, StageInv, TypeOK, GoStale, dirVars, planVars, workVars
      <3>3. VictimsInv'
        BY <1>26 DEF VictimsInv, StageInv, TypeOK, GoStale, dirVars, planVars, workVars
      <3>4. OpenInv'
        BY <1>26 DEF OpenInv, StageInv, TypeOK, GoStale, dirVars, planVars, workVars
      <3> QED
        BY <3>1, <3>2, <3>3, <3>4
    <2> QED
      BY <2>1, <2>2, <2>3, <2>4 DEF IInv, SoleOwner
  <1>27. ASSUME NEW r \in Roots, ForeignChange(r) PROVE IInv'
    <2>1. TypeOK'
      BY <1>27 DEF TypeOK, Stages, NoFile, ForeignChange, dirVars, planVars, workVars
    <2>2. StageInv'
      BY <1>27 DEF StageInv, TypeOK, ForeignChange, dirVars, planVars, workVars
    <2>3. Unshared'
      BY <1>27 DEF Unshared, TypeOK, ForeignChange, dirVars, planVars, workVars
    <2>4. ASSUME SoleOwner PROVE LeaseInv'
      <3> USE <2>4 DEF LeaseInv
      <3>1. StaleInv'
        BY <1>27 DEF StaleInv, Orphaned, TypeOK, ForeignChange, dirVars, planVars, workVars
      <3>2. LiveDirsSurvive'
        BY <1>27 DEF LiveDirsSurvive, StageInv, TypeOK, ForeignChange, dirVars, planVars, workVars
      <3>3. VictimsInv'
        BY <1>27 DEF VictimsInv, StageInv, TypeOK, ForeignChange, dirVars, planVars, workVars
      <3>4. OpenInv'
        BY <1>27 DEF OpenInv, StageInv, TypeOK, ForeignChange, dirVars, planVars, workVars
      <3> QED
        BY <3>1, <3>2, <3>3, <3>4
    <2> QED
      BY <2>1, <2>2, <2>3, <2>4 DEF IInv, SoleOwner
  <1>28. CASE UNCHANGED vars
    BY <1>28
       DEF vars, TypeOK, StageInv, Unshared, SoleOwner, LeaseInv, StaleInv, Orphaned, LiveDirsSurvive, VictimsInv, OpenInv
  <1> QED
    BY <1>1, <1>2, <1>3, <1>4, <1>5, <1>6, <1>7, <1>8, <1>9, <1>10, <1>11, <1>12, <1>13, <1>14, <1>15, <1>16, <1>17, <1>18, <1>19, <1>20, <1>21, <1>22, <1>23, <1>24, <1>25, <1>26, <1>27, <1>28
       DEF Next, ProcStep, RootStep, RootFault, DirStep, BaselineRoot, WalkFails

\* The invariant holds in every reachable state of Keeper.Run.
THEOREM InductiveInvariant == Spec => []IInv
  <1> QED
    BY InitIInv, NextIInv, PTL DEF Spec

\* Type correctness: in particular no directory's bytes ever become negative
\* when delete mode removes a download file (net.go:271-275).
THEOREM TypeCorrect == Spec => []TypeOK
  <1>1. IInv => TypeOK
    BY DEF IInv
  <1> QED
    BY <1>1, InductiveInvariant, PTL

\* No directory that a cycle is filling disappears: in delete mode with any
\* number of processes, in retain mode with one (keeper.go:95-131).
THEOREM LiveDirsAreSafe == SoleOwner => (Spec => []LiveDirsSurvive)
  <1> SUFFICES ASSUME SoleOwner PROVE Spec => []LiveDirsSurvive
    OBVIOUS
  <1>1. IInv => LiveDirsSurvive
    BY DEF IInv, LeaseInv
  <1> QED
    BY <1>1, InductiveInvariant, PTL

----------------------------------------------------------------------------
(* RunDirs implements DirLease under the same condition.                   *)

\* Initially no cycle holds a directory, in both modules.
LEMMA InitLease == Init => Lease!Init
  BY DEF Init, Lease!Init

\* Every step of Keeper.Run is an Acquire, a Release, a Remove, an Abandon or a
\* stutter.
LEMMA StepLease ==
    ASSUME SoleOwner, IInv, [Next]_vars
    PROVE  [Lease!Next]_<<{d \in Dirs : home[d] # None}, mine,
                          {p \in Procs : pc[p] = "cleanup"}>>
  <1> DEFINE present == {d \in Dirs : home[d] # None}
             cleaning == {p \in Procs : pc[p] = "cleanup"}
  <1> SUFFICES [Lease!Next]_<<present, mine, cleaning>>
    OBVIOUS
  <1> USE DiskAssumption
  <1>1. ASSUME NEW p \in Procs, NEW r \in Roots, NEW d \in Dirs, MakeRunDir(p, r, d)
        PROVE  Lease!Acquire(p, d)
    BY <1>1 DEF MakeRunDir, Visit, Fresh, IInv, TypeOK, Lease!Acquire
  <1>2. ASSUME NEW p \in Procs, NEW d \in Dirs, RemoveDir(p, d)
        PROVE  Lease!Remove(d)
    <2>1. \A q \in Procs : d \in mine[q] => q \in cleaning
      BY <1>2, RemovedIsNobodys DEF IInv
    <2> QED
      BY <2>1, <1>2 DEF RemoveDir, Condemned, planVars, IInv, TypeOK, Lease!Remove
  <1>3. ASSUME NEW p \in Procs, Return(p) \/ Crash(p)
        PROVE  Lease!Abandon(p)
    BY <1>3 DEF Return, Crash, dirVars, IInv, TypeOK, Lease!Abandon
  <1>4. ASSUME UNCHANGED <<home, mine>>, cleaning' = cleaning
        PROVE  UNCHANGED <<present, mine, cleaning>>
    BY <1>4
  <1>5. ASSUME NEW p \in Procs, EndPhases(p)
        PROVE  Lease!Release(p)
    BY <1>5 DEF EndPhases, dirVars, planVars, IInv, TypeOK, Lease!Release
  <1>6. ASSUME NEW p \in Procs,
               BeginCycle(p) \/ EndLoop(p) \/ StartPhases(p) \/ DiskStop(p)
                 \/ NetClose(p) \/ NetCloseKeeps(p) \/ NetStop(p)
                 \/ \E d \in Dirs : SweepSpares(p, d)
        PROVE  UNCHANGED <<home, mine>> /\ cleaning' = cleaning
    <2>1. UNCHANGED <<home, mine>>
      BY <1>6 DEF BeginCycle, EndLoop, StartPhases, DiskStop, NetClose,
          NetCloseKeeps, NetStop, SweepSpares, dirVars, planVars
    <2>2. CASE BeginCycle(p) \/ StartPhases(p) \/ EndLoop(p)
      <3>1. pc[p] # "cleanup" /\ \E s \in Stages \ {"cleanup"} : pc' = [pc EXCEPT ![p] = s]
        BY <2>2 DEF BeginCycle, StartPhases, EndLoop, LastLoop, Loops, After, Stages
      <3> QED
        BY <2>1, <3>1 DEF IInv, TypeOK
    <2>3. CASE \/ DiskStop(p) \/ NetClose(p) \/ NetCloseKeeps(p) \/ NetStop(p)
               \/ \E d \in Dirs : SweepSpares(p, d)
      BY <2>1, <2>3 DEF DiskStop, NetClose, NetCloseKeeps, NetStop, SweepSpares
    <2> QED
      BY <1>6, <2>2, <2>3
  <1>7. ASSUME NEW p \in Procs, NEW r \in Roots,
               PrepareRoot(p, r) \/ PurgeRoot(p, r) \/ SweepRoot(p, r)
                 \/ BaselineStat(p, r) \/ BaselineRoot(p, r)
                 \/ MakeRunDirFails(p, r) \/ RootFault(p, r)
        PROVE  UNCHANGED <<home, mine>> /\ cleaning' = cleaning
    BY <1>7 DEF PrepareRoot, PurgeRoot, SweepRoot, BaselineStat, BaselineRoot, Gate,
        MakeRunDirFails, RootFault, PrepareFails, ListFails, BaselineFails, WalkFails,
        Visit, dirVars, planVars
  <1>8. ASSUME NEW p \in Procs, NEW d \in Dirs,
               DiskWrite(p, d) \/ RemoveFails(p, d)
                 \/ (\E n \in 1 .. NetMax : NetWrite(p, d, n))
        PROVE  UNCHANGED <<home, mine>> /\ cleaning' = cleaning
    BY <1>8 DEF DiskWrite, RemoveFails, NetWrite, planVars
  <1>9. CASE UNCHANGED vars
    BY <1>9, <1>4 DEF vars
  <1>10. CASE Next
    <2>1. CASE \E d \in Dirs : GoStale(d)
      BY <2>1, <1>4 DEF GoStale, planVars
    <2>2. CASE \E r \in Roots : ForeignChange(r)
      BY <2>2, <1>4 DEF ForeignChange, dirVars, planVars
    <2>3. ASSUME NEW p \in Procs,
                 \/ ProcStep(p)
                 \/ Crash(p)
                 \/ \E r \in Roots : RootStep(p, r) \/ RootFault(p, r)
                 \/ \E d \in Dirs : DirStep(p, d) \/ RemoveFails(p, d)
          PROVE  Lease!Next \/ (UNCHANGED <<home, mine>> /\ cleaning' = cleaning)
      <3>1. CASE ProcStep(p) \/ Crash(p)
        BY <3>1, <1>3, <1>5, <1>6 DEF ProcStep, Lease!Next
      <3>2. CASE \E r \in Roots : RootStep(p, r) \/ RootFault(p, r)
        BY <3>2, <1>1, <1>7 DEF RootStep, Lease!Next
      <3>3. CASE \E d \in Dirs : DirStep(p, d) \/ RemoveFails(p, d)
        BY <3>3, <1>2, <1>8 DEF DirStep, Lease!Next
      <3> QED
        BY <2>3, <3>1, <3>2, <3>3
    <2> QED
      BY <1>10, <1>4, <2>1, <2>2, <2>3 DEF Next
  <1> QED
    BY <1>9, <1>10

\* A run dir is created by one cycle and removed by nobody before that cycle's
\* own cleanup (makeRunDir, cleanupRunDirs, sweepStale, purgeRoots).
THEOREM LeaseIsKept == SoleOwner => (Spec => LeaseKept)
  <1> SUFFICES ASSUME SoleOwner PROVE Spec => LeaseKept
    OBVIOUS
  <1>1. IInv /\ [Next]_vars => [Lease!Next]_<<{d \in Dirs : home[d] # None}, mine,
                                              {p \in Procs : pc[p] = "cleanup"}>>
    BY StepLease
  <1> QED
    BY <1>1, InitLease, InductiveInvariant, PTL DEF Spec, LeaseKept, Lease!Spec

----------------------------------------------------------------------------
(* Delete mode cleans up after itself.                                     *)

\* A cycle in its cleanup has yet to remove whatever is left of its directories.
CleanInv ==
    \A p \in Procs : pc[p] = "cleanup" =>
        \A d \in mine[p] : home[d] # None => d \in victims[p]

\* A step by which no process begins its cleanup.
KeepsCleanups ==
    /\ UNCHANGED <<home, mine>>
    /\ \A p \in Procs : pc'[p] = "cleanup" => pc[p] = "cleanup" /\ victims'[p] = victims[p]

\* The other steps of Next: directories appear and disappear, cycles end.
ChangesDirs ==
    \/ \E p \in Procs, r \in Roots, d \in Dirs : MakeRunDir(p, r, d)
    \/ \E p \in Procs, d \in Dirs : RemoveDir(p, d)
    \/ \E p \in Procs : EndPhases(p) \/ Return(p) \/ Crash(p)

\* As long as removals do not fail, every step is of one of the two kinds.
LEMMA StepKinds ==
    ASSUME "remove" \notin Faults, IInv, Next
    PROVE  KeepsCleanups \/ ChangesDirs
  <1> USE DEF IInv, TypeOK, KeepsCleanups
  <1>1. ASSUME NEW p \in Procs, BeginCycle(p) \/ StartPhases(p) PROVE KeepsCleanups
    BY <1>1 DEF BeginCycle, StartPhases, dirVars, planVars
  <1>2. ASSUME NEW p \in Procs, EndLoop(p) PROVE KeepsCleanups
    <2>1. After(pc[p]) # "cleanup"
      BY DEF After
    <2> QED
      BY <1>2, <2>1 DEF EndLoop, dirVars
  <1>3. ASSUME NEW p \in Procs,
               \/ DiskStop(p) \/ NetClose(p) \/ NetCloseKeeps(p) \/ NetStop(p)
               \/ \E d \in Dirs : SweepSpares(p, d)
        PROVE  KeepsCleanups
    BY <1>3 DEF DiskStop, NetClose, NetCloseKeeps, NetStop, SweepSpares, Condemned,
        dirVars, planVars
  <1>4. ASSUME NEW p \in Procs, NEW r \in Roots,
               PurgeRoot(p, r) \/ SweepRoot(p, r)
        PROVE  KeepsCleanups
    BY <1>4 DEF PurgeRoot, SweepRoot, Visit, dirVars, planVars
  <1>5. ASSUME NEW p \in Procs, NEW r \in Roots,
               PrepareRoot(p, r) \/ BaselineStat(p, r) \/ BaselineRoot(p, r)
                 \/ MakeRunDirFails(p, r) \/ RootFault(p, r)
        PROVE  KeepsCleanups
    BY <1>5 DEF PrepareRoot, BaselineStat, BaselineRoot, Gate, MakeRunDirFails, RootFault,
        PrepareFails, ListFails, BaselineFails, WalkFails, Visit, dirVars, planVars
  <1>6. ASSUME NEW p \in Procs, NEW d \in Dirs,
               DiskWrite(p, d) \/ \E n \in 1 .. NetMax : NetWrite(p, d, n)
        PROVE  KeepsCleanups
    BY <1>6 DEF DiskWrite, NetWrite, planVars
  <1>7. ASSUME NEW d \in Dirs, GoStale(d) PROVE KeepsCleanups
    BY <1>7 DEF GoStale, planVars
  <1>8. ASSUME NEW r \in Roots, ForeignChange(r) PROVE KeepsCleanups
    BY <1>8 DEF ForeignChange, dirVars, planVars
  <1>9. \A p \in Procs, d \in Dirs : ~RemoveFails(p, d)
    BY DEF RemoveFails
  <1>10. ASSUME NEW p \in Procs, ProcStep(p) PROVE KeepsCleanups \/ ChangesDirs
    BY <1>10, <1>1, <1>2, <1>3 DEF ProcStep, ChangesDirs
  <1>11. ASSUME NEW p \in Procs, NEW r \in Roots, RootStep(p, r) \/ RootFault(p, r)
         PROVE  KeepsCleanups \/ ChangesDirs
    BY <1>11, <1>4, <1>5 DEF RootStep, ChangesDirs
  <1>12. ASSUME NEW p \in Procs, NEW d \in Dirs, DirStep(p, d)
         PROVE  KeepsCleanups \/ ChangesDirs
    BY <1>12, <1>6 DEF DirStep, ChangesDirs
  <1>13. ASSUME NEW p \in Procs, Crash(p) PROVE ChangesDirs
    BY <1>13 DEF ChangesDirs
  <1> HIDE DEF IInv, TypeOK, KeepsCleanups
  <1> QED
    BY <1>7, <1>8, <1>9, <1>10, <1>11, <1>12, <1>13 DEF Next

\* CleanInv is inductive beside IInv.
LEMMA NextClean ==
    ASSUME "remove" \notin Faults, IInv, CleanInv, [Next]_vars
    PROVE  CleanInv'
  <1> USE DEF CleanInv
  <1>1. CASE UNCHANGED vars
    BY <1>1 DEF vars
  <1>2. CASE KeepsCleanups
    BY <1>2 DEF KeepsCleanups
  <1>3. ASSUME NEW p \in Procs, NEW r \in Roots, NEW d \in Dirs, MakeRunDir(p, r, d)
        PROVE  CleanInv'
    BY <1>3 DEF MakeRunDir, Visit, Fresh, IInv, TypeOK
  <1>4. ASSUME NEW p \in Procs, NEW d \in Dirs, RemoveDir(p, d)
        PROVE  CleanInv'
    BY <1>4 DEF RemoveDir, planVars, IInv, TypeOK
  <1>5. ASSUME NEW p \in Procs, EndPhases(p) \/ Return(p) \/ Crash(p)
        PROVE  CleanInv'
    <2>1. TypeOK
      BY DEF IInv
    <2>2. CASE EndPhases(p)
      BY <2>1, <2>2 DEF EndPhases, dirVars, planVars, TypeOK
    <2>3. CASE Return(p)
      BY <2>1, <2>3 DEF Return, dirVars, planVars, TypeOK
    <2>4. CASE Crash(p)
      BY <2>1, <2>4 DEF Crash, dirVars, planVars, TypeOK
    <2> QED
      BY <1>5, <2>2, <2>3, <2>4
  <1> QED
    BY <1>1, <1>2, <1>3, <1>4, <1>5, StepKinds DEF ChangesDirs

\* Delete mode: whatever fails but a removal, and whatever the other processes
\* do, a directory is left behind by a crash only (keeper.go:116-130).
THEOREM DeleteModeCleansUp ==
    ~RetainFiles /\ "remove" \notin Faults => (Spec => CyclesCleanUp)
  <1> SUFFICES ASSUME ~RetainFiles, "remove" \notin Faults PROVE Spec => CyclesCleanUp
    OBVIOUS
  <1>1. Init => CleanInv
    BY DEF Init, CleanInv
  <1>2. IInv /\ CleanInv /\ [Next]_vars => CleanInv'
    BY NextClean
  <1>3. IInv /\ CleanInv /\ [Next]_vars
          => [\A d \in Dirs : Orphaned(d)' => Orphaned(d) \/ \E p \in Procs : CutShort(p)]_vars
    <2> SUFFICES ASSUME IInv, CleanInv, Next, NEW d \in Dirs, Orphaned(d)',
                        \A p \in Procs : ~CutShort(p)
                 PROVE  Orphaned(d)
      OBVIOUS
    <2> USE DEF Orphaned
    <2>1. CASE KeepsCleanups
      BY <2>1 DEF KeepsCleanups
    <2>2. ASSUME NEW p \in Procs, NEW r \in Roots, NEW e \in Dirs, MakeRunDir(p, r, e)
          PROVE  Orphaned(d)
      BY <2>2 DEF MakeRunDir, Visit, IInv, TypeOK
    <2>3. ASSUME NEW p \in Procs, NEW e \in Dirs, RemoveDir(p, e)
          PROVE  Orphaned(d)
      BY <2>3 DEF RemoveDir, planVars, IInv, TypeOK
    <2>4. ASSUME NEW p \in Procs, EndPhases(p)
          PROVE  Orphaned(d)
      BY <2>4 DEF EndPhases, dirVars, planVars
    <2>5. ASSUME NEW p \in Procs, Return(p) \/ Crash(p)
          PROVE  Orphaned(d)
      <3>1. home[d] # None /\ \A q \in Procs \ {p} : d \notin mine[q]
        BY <2>5 DEF Return, Crash, dirVars, IInv, TypeOK
      <3>2. CASE Return(p)
        BY <3>1, <3>2 DEF Return, CleanInv
      <3>3. CASE Crash(p)
        BY <3>1, <3>3 DEF CutShort, CleanInv
      <3> QED
        BY <2>5, <3>2, <3>3
    <2> QED
      BY <2>1, <2>2, <2>3, <2>4, <2>5, StepKinds DEF ChangesDirs
  <1> QED
    BY <1>1, <1>2, <1>3, InductiveInvariant, PTL DEF Spec, CyclesCleanUp

----------------------------------------------------------------------------
(* Retain mode works with the roots as they are after its purge.           *)

\* One process, alone on its volumes, whose stats do not fail.
Undisturbed ==
    /\ RetainFiles /\ "read" \notin Faults
    /\ \A p, q \in Procs : p = q
    /\ \A f, g \in ForeignLevels : f = g

\* The roots a retain-mode cycle works with are those that have space after its
\* purge, not before it (keeper.go:100).
UsableIsCurrent ==
    \A p \in Procs : pc[p] = "baseline" => usable[p] = {r \in Roots : Free(r) >= MinFree}

\* The roots found usable so far are those with space among the ones visited.
CurrentInv ==
    /\ foreign \in [Roots -> ForeignLevels]
    /\ \A p \in Procs : pc[p] = "reprepare" =>
          usable[p] = {r \in Roots \ todo[p] : Free(r) >= MinFree}
    /\ UsableIsCurrent

\* While the roots are prepared again and gated, no volume changes.
LEMMA VolumesRest ==
    ASSUME Undisturbed, IInv, foreign \in [Roots -> ForeignLevels], Next,
           NEW p \in Procs, pc[p] \in {"reprepare", "baseline"}
    PROVE  UNCHANGED <<home, size, foreign>>
  <1>0. /\ \A q \in Procs : pc[q] \in {"reprepare", "baseline"} /\ victims[q] = {}
        /\ \A r \in Roots : ForeignLevels \ {foreign[r]} = {}
    BY DEF Undisturbed, IInv, StageInv
  <1>1. ASSUME NEW q \in Procs, ProcStep(q) PROVE UNCHANGED <<home, size, foreign>>
    BY <1>0, <1>1 DEF ProcStep, BeginCycle, EndLoop, StartPhases, DiskStop, NetClose,
       NetCloseKeeps, NetStop, SweepSpares, EndPhases, Return, dirVars
  <1>2. ASSUME NEW q \in Procs, NEW r \in Roots, RootStep(q, r) \/ RootFault(q, r)
        PROVE  UNCHANGED <<home, size, foreign>>
    BY <1>0, <1>2
       DEF RootStep, RootFault, PrepareRoot, PurgeRoot, SweepRoot, BaselineStat, BaselineRoot, Gate,
       MakeRunDir, MakeRunDirFails, PrepareFails, ListFails, BaselineFails, WalkFails, Visit, dirVars
  <1>3. ASSUME NEW q \in Procs, NEW d \in Dirs, DirStep(q, d) \/ RemoveFails(q, d)
        PROVE  FALSE
    BY <1>0, <1>3 DEF DirStep, RemoveDir, RemoveFails, Condemned, DiskWrite, NetWrite
  <1>4. ASSUME NEW q \in Procs, Crash(q) PROVE UNCHANGED <<home, size, foreign>>
    BY <1>4 DEF Crash, dirVars
  <1>5. ASSUME NEW d \in Dirs, GoStale(d) PROVE UNCHANGED <<home, size, foreign>>
    BY <1>5 DEF GoStale
  <1>6. ASSUME NEW r \in Roots, ForeignChange(r) PROVE FALSE
    BY <1>0, <1>6 DEF ForeignChange
  <1> QED
    BY <1>1, <1>2, <1>3, <1>4, <1>5, <1>6 DEF Next

\* How a process comes to the stages in question, or stays in them.
LEMMA StageSteps ==
    ASSUME Undisturbed, IInv, Next, NEW p \in Procs, pc'[p] \in {"reprepare", "baseline"}
    PROVE  \/ /\ pc[p] = "purge" /\ pc'[p] = "reprepare"
              /\ usable'[p] = {} /\ todo'[p] = Roots
           \/ /\ pc[p] = "reprepare" /\ pc'[p] = "baseline"
              /\ usable'[p] = usable[p] /\ todo[p] = {}
           \/ /\ pc[p] = "reprepare" /\ pc'[p] = "reprepare"
              /\ \E r \in todo[p] :
                    /\ todo'[p] = todo[p] \ {r}
                    /\ usable'[p] = IF Free(r) >= MinFree THEN usable[p] \cup {r} ELSE usable[p]
           \/ pc[p] = "reprepare" /\ pc'[p] = "reprepare" /\ UNCHANGED <<usable, todo>>
           \/ pc[p] = "baseline" /\ pc'[p] = "baseline" /\ usable'[p] = usable[p]
  <1> USE DEF IInv, TypeOK
  <1>0. RetainFiles /\ "read" \notin Faults /\ \A q \in Procs : q = p
    BY DEF Undisturbed
  <1>1. CASE EndLoop(p)
    <2>1. /\ pc[p] \in Loops /\ pc'[p] = After(pc[p]) /\ todo[p] = {}
          /\ todo'[p] = RootsOf(p, After(pc[p]))
          /\ usable'[p] = IF After(pc[p]) = "reprepare" THEN {} ELSE usable[p]
      BY <1>1 DEF EndLoop, Done
    <2>2. CASE pc[p] = "purge"
      BY <1>0, <2>1, <2>2 DEF After, RootsOf
    <2>3. CASE pc[p] = "reprepare"
      BY <1>0, <2>1, <2>3 DEF After
    <2>4. CASE pc[p] \in {"prepare", "baseline"}
      BY <1>0, <2>1, <2>4 DEF After
    <2> QED
      BY <1>0, <2>1, <2>2, <2>3, <2>4 DEF Loops, LastLoop
  <1>2. CASE BeginCycle(p) \/ StartPhases(p) \/ EndPhases(p) \/ Return(p) \/ Crash(p)
    BY <1>2 DEF BeginCycle, StartPhases, EndPhases, Return, Crash
  <1>3. CASE \/ DiskStop(p) \/ NetClose(p) \/ NetCloseKeeps(p) \/ NetStop(p)
             \/ \E d \in Dirs : SweepSpares(p, d)
    BY <1>3 DEF DiskStop, NetClose, NetCloseKeeps, NetStop, SweepSpares, planVars
  <1>4. ASSUME NEW r \in Roots, PrepareRoot(p, r)
        PROVE  /\ pc[p] = "reprepare" /\ pc'[p] = "reprepare"
               /\ r \in todo[p] /\ todo'[p] = todo[p] \ {r}
               /\ usable'[p] = IF Free(r) >= MinFree THEN usable[p] \cup {r} ELSE usable[p]
    <2> HIDE DEF Free
    <2> QED
      BY <1>4 DEF PrepareRoot, Visit
  <1>5. ASSUME NEW r \in Roots,
               \/ PurgeRoot(p, r) \/ SweepRoot(p, r)
               \/ BaselineStat(p, r) \/ BaselineRoot(p, r)
               \/ \E d \in Dirs : MakeRunDir(p, r, d)
               \/ MakeRunDirFails(p, r) \/ RootFault(p, r)
        PROVE  pc[p] = "baseline" /\ pc'[p] = "baseline" /\ usable'[p] = usable[p]
    <2>1. ASSUME NEW n, Gate(p, r, n)
          PROVE  pc[p] = "baseline" /\ pc'[p] = "baseline" /\ usable'[p] = usable[p]
      BY <2>1 DEF Gate, StageInv
    <2> QED
      BY <1>0, <1>5, <2>1 DEF PurgeRoot, SweepRoot, BaselineStat, BaselineRoot, MakeRunDir,
         MakeRunDirFails, RootFault, PrepareFails, ListFails, BaselineFails, WalkFails,
         Visit, planVars
  <1>6. ASSUME NEW d \in Dirs, DirStep(p, d) \/ RemoveFails(p, d) \/ GoStale(d)
        PROVE  UNCHANGED <<pc, usable, todo>>
    BY <1>6 DEF DirStep, RemoveDir, DiskWrite, NetWrite, RemoveFails, GoStale, planVars
  <1>7. ASSUME NEW r \in Roots, ForeignChange(r) PROVE UNCHANGED <<pc, usable, todo>>
    BY <1>7 DEF ForeignChange, planVars
  <1>8. CASE UNCHANGED <<pc, usable, todo>>
    BY <1>8
  <1>9. CASE ProcStep(p) \/ Crash(p)
    BY <1>1, <1>2, <1>3, <1>9 DEF ProcStep
  <1>10. ASSUME NEW r \in Roots, RootStep(p, r) \/ RootFault(p, r)
         PROVE  \/ PrepareRoot(p, r)
                \/ pc[p] = "baseline" /\ pc'[p] = "baseline" /\ usable'[p] = usable[p]
    BY <1>5, <1>10 DEF RootStep
  <1> HIDE DEF IInv, TypeOK
  <1> QED
    BY <1>0, <1>4, <1>6, <1>7, <1>8, <1>9, <1>10 DEF Next

\* CurrentInv is inductive beside IInv.
LEMMA NextCurrent ==
    ASSUME Undisturbed, IInv, CurrentInv, [Next]_vars PROVE CurrentInv'
  <1>1. CASE UNCHANGED vars
    BY <1>1 DEF vars, CurrentInv, UsableIsCurrent, Free, Used, Ours, Bytes, DirsIn
  <1>2. CASE Next
    <2>1. foreign' \in [Roots -> ForeignLevels]
      <3>1. CASE \E r \in Roots : ForeignChange(r)
        BY <3>1 DEF ForeignChange, CurrentInv
      <3>2. CASE foreign' = foreign
        BY <3>2 DEF CurrentInv
      <3>3. \/ \E r \in Roots : ForeignChange(r)
            \/ foreign' = foreign
        <4>1. ASSUME NEW p \in Procs, ProcStep(p) \/ Crash(p) PROVE foreign' = foreign
          BY <4>1 DEF ProcStep, BeginCycle, EndLoop, StartPhases, DiskStop, NetClose,
             NetCloseKeeps, NetStop, SweepSpares, EndPhases, Return, Crash
        <4>2. ASSUME NEW p \in Procs, NEW r \in Roots, RootStep(p, r) \/ RootFault(p, r)
              PROVE  foreign' = foreign
          BY <4>2
             DEF RootStep, RootFault, PrepareRoot, PurgeRoot, SweepRoot, BaselineStat, BaselineRoot, Gate,
             MakeRunDir, MakeRunDirFails, PrepareFails, ListFails, BaselineFails, WalkFails, Visit
        <4>3. ASSUME NEW p \in Procs, NEW d \in Dirs, DirStep(p, d) \/ RemoveFails(p, d)
              PROVE  foreign' = foreign
          BY <4>3 DEF DirStep, RemoveDir, RemoveFails, Condemned, DiskWrite, NetWrite
        <4>4. ASSUME NEW d \in Dirs, GoStale(d) PROVE foreign' = foreign
          BY <4>4 DEF GoStale
        <4> QED
          BY <1>2, <4>1, <4>2, <4>3, <4>4 DEF Next
      <3> QED
        BY <3>1, <3>2, <3>3
    <2>2. ASSUME NEW p \in Procs, pc[p] \in {"reprepare", "baseline"}
          PROVE  \A r \in Roots : Free(r)' = Free(r)
      <3>1. UNCHANGED <<home, size, foreign>>
        BY <1>2, <2>2, VolumesRest DEF CurrentInv
      <3> QED
        BY <3>1 DEF Free, Used, Ours, Bytes, DirsIn
    <2>3. ASSUME NEW p \in Procs, pc'[p] = "reprepare"
          PROVE  usable'[p] = {r \in Roots \ todo'[p] : Free(r)' >= MinFree}
      <3>1. CASE usable'[p] = {} /\ todo'[p] = Roots
        BY <3>1
      <3>2. CASE pc[p] = "reprepare"
        <4>1. /\ usable[p] = {r \in Roots \ todo[p] : Free(r) >= MinFree}
              /\ todo[p] \subseteq Roots
              /\ \A r \in Roots : Free(r)' = Free(r)
          BY <2>2, <3>2 DEF CurrentInv, IInv, TypeOK
        <4>2. CASE UNCHANGED <<usable, todo>>
          BY <4>1, <4>2
        <4>3. ASSUME NEW r \in todo[p], todo'[p] = todo[p] \ {r},
                     usable'[p] = IF Free(r) >= MinFree THEN usable[p] \cup {r} ELSE usable[p]
              PROVE  usable'[p] = {s \in Roots \ todo'[p] : Free(s)' >= MinFree}
          BY <4>1, <4>3
        <4> QED
          BY <1>2, <2>3, <3>2, <4>2, <4>3, StageSteps
      <3> QED
        BY <1>2, <2>3, <3>1, <3>2, StageSteps
    <2>4. ASSUME NEW p \in Procs, pc'[p] = "baseline"
          PROVE  usable'[p] = {r \in Roots : Free(r)' >= MinFree}
      <3>1. /\ usable'[p] = usable[p]
            /\ pc[p] = "baseline" \/ (pc[p] = "reprepare" /\ todo[p] = {})
        BY <1>2, <2>4, StageSteps
      <3>2. usable[p] = {r \in Roots : Free(r) >= MinFree}
        BY <3>1 DEF CurrentInv, UsableIsCurrent
      <3>3. \A r \in Roots : Free(r)' = Free(r)
        BY <2>2, <3>1
      <3> QED
        BY <3>1, <3>2, <3>3
    <2> QED
      BY <2>1, <2>3, <2>4 DEF CurrentInv, UsableIsCurrent
  <1> QED
    BY <1>1, <1>2

\* Retain mode: the roots of a cycle are those with space after its purge, for
\* any number of roots and directories and whatever removals fail
\* (keeper.go:94-101).
THEOREM UsableStaysCurrent == Undisturbed => (Spec => []UsableIsCurrent)
  <1> SUFFICES ASSUME Undisturbed PROVE Spec => []UsableIsCurrent
    OBVIOUS
  <1>1. Init => CurrentInv
    BY DEF Init, CurrentInv, UsableIsCurrent
  <1>2. IInv /\ CurrentInv /\ [Next]_vars => CurrentInv'
    BY NextCurrent
  <1>3. CurrentInv => UsableIsCurrent
    BY DEF CurrentInv
  <1> QED
    BY <1>1, <1>2, <1>3, InductiveInvariant, PTL DEF Spec
----------------------------------------------------------------------------
(* Why a cycle ends: each step of a process lowers a rank of its own.      *)

\* The steps of process p.
StepOf(p) ==
    \/ ProcStep(p)
    \/ Crash(p)
    \/ \E r \in Roots : RootStep(p, r) \/ RootFault(p, r)
    \/ \E d \in Dirs : DirStep(p, d) \/ RemoveFails(p, d)

\* How many stages are ahead of each.
StagesLeft(s) ==
    CASE s = "prepare"   -> 8
      [] s = "purge"     -> 7
      [] s = "reprepare" -> 6
      [] s = "baseline"  -> 5
      [] s = "mkdir"     -> 4
      [] s = "sweep"     -> 3
      [] s = "phases"    -> 2
      [] s = "cleanup"   -> 1
      [] OTHER           -> 0

\* The directories a loop has yet to deal with, and the root it has yet to gate.
Pending(p) == Cardinality(victims[p]) + (IF sample[p] = NoSample THEN 0 ELSE 1)

\* The stages ahead, the roots of the loop, what it has yet to do for the root it
\* visits, what may still be written, and the open download.
ProcRank(p) ==
    <<StagesLeft(pc[p]), Cardinality(todo[p]), Pending(p),
      netLeft[p] + diskLeft[p], IF open[p] = NoFile THEN 0 ELSE 1>>

\* The lexicographic order on five natural numbers.
Ranks == [1 .. 5 -> Nat]
Below == LexProductOrdering(OpToRel(<, Nat), Nat, 5)

\* The rank of a process is five numbers.
LEMMA ProcRankType ==
    ASSUME IsFiniteSet(Roots), TypeOK, NEW p \in Procs
    PROVE  /\ StagesLeft(pc[p]) \in Nat
           /\ IsFiniteSet(todo[p]) /\ Cardinality(todo[p]) \in Nat
           /\ IsFiniteSet(victims[p]) /\ Cardinality(victims[p]) \in Nat /\ Pending(p) \in Nat
           /\ netLeft[p] + diskLeft[p] \in Nat
           /\ ProcRank(p) \in Ranks
  <1>1. StagesLeft(pc[p]) \in Nat
    BY DEF StagesLeft
  <1>2. IsFiniteSet(todo[p]) /\ Cardinality(todo[p]) \in Nat
    <2>1. todo[p] \in SUBSET Roots
      BY DEF TypeOK
    <2> QED
      BY <2>1, FS_Subset, FS_CardinalityType
  <1>3. IsFiniteSet(victims[p]) /\ Cardinality(victims[p]) \in Nat /\ Pending(p) \in Nat
    <2>1. victims[p] \in SUBSET Dirs
      BY DEF TypeOK
    <2>2. IsFiniteSet(victims[p]) /\ Cardinality(victims[p]) \in Nat
      BY <2>1, DiskAssumption, FS_Subset, FS_CardinalityType
    <2> QED
      BY <2>2 DEF Pending
  <1>4. netLeft[p] + diskLeft[p] \in Nat
    BY DiskAssumption DEF TypeOK
  <1>5. (IF open[p] = NoFile THEN 0 ELSE 1) \in Nat
    OBVIOUS
  <1>6. \A a, b, c, d, e \in Nat : <<a, b, c, d, e>> \in [1 .. 5 -> Nat]
    OBVIOUS
  <1>7. ProcRank(p) \in Ranks
    BY <1>1, <1>2, <1>3, <1>4, <1>5, <1>6 DEF ProcRank, Ranks
  <1> QED
    BY <1>1, <1>2, <1>3, <1>4, <1>7

\* The same of the next state.
LEMMA ProcRankTypeNext ==
    (IsFiniteSet(Roots) /\ TypeOK => \A p \in Procs : ProcRank(p) \in Ranks)'
  <1>1. IsFiniteSet(Roots) /\ TypeOK => \A p \in Procs : ProcRank(p) \in Ranks
    BY ProcRankType
  <1> QED
    BY <1>1, PTL

\* What a step lowers, with everything before it unchanged.
LEMMA BelowAt ==
    ASSUME NEW f \in Ranks, NEW g \in Ranks, NEW k \in 1 .. 5,
           f[k] < g[k], \A i \in 1 .. k - 1 : f[i] = g[i]
    PROVE  <<f, g>> \in Below
  <1>1. <<f[k], g[k]>> \in OpToRel(<, Nat)
    BY DEF OpToRel, Ranks
  <1> QED
    BY <1>1 DEF Below, LexProductOrdering, Ranks

\* A loop takes one root off its list, or gates the root it has taken off.
LEMMA VisitTakesOne ==
    ASSUME TypeOK, NEW p \in Procs, NEW r \in Roots, RootStep(p, r) \/ RootFault(p, r)
    PROVE  /\ pc' = pc
           /\ \/ r \in todo[p] /\ todo'[p] = todo[p] \ {r}
              \/ /\ todo' = todo /\ victims' = victims
                 /\ sample[p] # NoSample /\ sample'[p] = NoSample
  <1>1. (\E s \in Stages : Visit(p, s, r)) \/ (\E n : Gate(p, r, n))
    BY DEF RootStep, RootFault, PrepareRoot, PurgeRoot, SweepRoot, BaselineStat,
       BaselineRoot, MakeRunDir, MakeRunDirFails, PrepareFails, ListFails, BaselineFails,
       WalkFails, Stages
  <1>2. CASE \E s \in Stages : Visit(p, s, r)
    BY <1>2 DEF Visit, TypeOK
  <1>3. CASE \E n : Gate(p, r, n)
    BY <1>3 DEF Gate, TypeOK, NoSample
  <1> QED
    BY <1>1, <1>2, <1>3

\* Each step of a process but the first of a cycle takes something off its work.
LEMMA StepTakesOff ==
    ASSUME TypeOK, NEW p \in Procs, StepOf(p), ~BeginCycle(p)
    PROVE  \/ StagesLeft(pc'[p]) < StagesLeft(pc[p])
           \/ /\ pc'[p] = pc[p]
              /\ \E r \in todo[p] : todo'[p] = todo[p] \ {r}
           \/ /\ pc'[p] = pc[p] /\ todo'[p] = todo[p] /\ sample'[p] = sample[p]
              /\ \E d \in victims[p] : victims'[p] = victims[p] \ {d}
           \/ /\ pc'[p] = pc[p] /\ todo'[p] = todo[p] /\ victims'[p] = victims[p]
              /\ sample[p] # NoSample /\ sample'[p] = NoSample
           \/ /\ pc'[p] = pc[p] /\ todo'[p] = todo[p]
              /\ victims'[p] = victims[p] /\ sample'[p] = sample[p]
              /\ \/ netLeft'[p] + diskLeft'[p] < netLeft[p] + diskLeft[p]
                 \/ /\ netLeft'[p] = netLeft[p] /\ diskLeft'[p] = diskLeft[p]
                    /\ open[p] # NoFile /\ open'[p] = NoFile
  <1>0. /\ pc \in [Procs -> Stages] /\ todo \in [Procs -> SUBSET Roots]
        /\ victims \in [Procs -> SUBSET Dirs]
        /\ netLeft \in [Procs -> Nat] /\ diskLeft \in [Procs -> Nat]
        /\ open \in [Procs -> [dir : Dirs \cup {None}, bytes : Nat]]
    BY DiskAssumption DEF TypeOK
  <1>1. ASSUME NEW r \in Roots, RootStep(p, r) \/ RootFault(p, r)
        PROVE  /\ pc'[p] = pc[p]
               /\ \/ \E s \in todo[p] : todo'[p] = todo[p] \ {s}
                  \/ /\ todo'[p] = todo[p] /\ victims'[p] = victims[p]
                     /\ sample[p] # NoSample /\ sample'[p] = NoSample
    BY <1>1, VisitTakesOne
  <1>2. ASSUME NEW d \in Dirs, RemoveDir(p, d) \/ RemoveFails(p, d) \/ SweepSpares(p, d)
        PROVE  /\ pc'[p] = pc[p] /\ todo'[p] = todo[p] /\ sample'[p] = sample[p]
               /\ \E e \in victims[p] : victims'[p] = victims[p] \ {e}
    BY <1>0, <1>2 DEF RemoveDir, RemoveFails, SweepSpares, Condemned, planVars
  <1>3. CASE DiskStop(p) \/ NetStop(p) \/ \E d \in Dirs : DiskWrite(p, d)
    <2>1. pc' = pc /\ todo' = todo /\ victims' = victims /\ sample' = sample
      BY <1>3 DEF DiskStop, NetStop, DiskWrite, planVars
    <2>2. netLeft'[p] + diskLeft'[p] < netLeft[p] + diskLeft[p]
      BY <1>0, <1>3 DEF DiskStop, NetStop, DiskWrite
    <2> QED
      BY <2>1, <2>2
  <1>4. ASSUME NEW d \in Dirs, NEW n \in 1 .. NetMax, NetWrite(p, d, n)
        PROVE  /\ pc' = pc /\ todo' = todo /\ victims' = victims /\ sample' = sample
               /\ netLeft'[p] + diskLeft'[p] < netLeft[p] + diskLeft[p]
    <2>1. UNCHANGED <<pc, todo, victims, sample, diskLeft>>
      BY <1>4 DEF NetWrite, planVars
    <2>2. netLeft'[p] = netLeft[p] - n
      BY <1>0, <1>4 DEF NetWrite
    <2>3. n \in Nat \ {0} /\ netLeft[p] \in Nat /\ diskLeft[p] \in Nat
      BY <1>0, DiskAssumption
    <2> QED
      BY <2>1, <2>2, <2>3
  <1>5. CASE NetClose(p) \/ NetCloseKeeps(p)
    <2>1. UNCHANGED <<pc, todo, victims, sample, netLeft, diskLeft>>
      BY <1>5 DEF NetClose, NetCloseKeeps, planVars
    <2>2. open[p] # NoFile /\ open'[p] = NoFile
      BY <1>0, <1>5 DEF NetClose, NetCloseKeeps
    <2> QED
      BY <2>1, <2>2
  <1>6. CASE EndLoop(p)
    <2>1. pc[p] \in Loops /\ pc'[p] = After(pc[p])
      BY <1>0, <1>6 DEF EndLoop
    <2>2. StagesLeft(After(pc[p])) < StagesLeft(pc[p])
      BY <2>1 DEF After, Loops, LastLoop, StagesLeft
    <2> QED
      BY <2>1, <2>2
  <1>7. CASE StartPhases(p) \/ EndPhases(p) \/ Return(p) \/ Crash(p)
    <2>1. <<pc[p], pc'[p]>> \in
              ({"mkdir", "sweep"} \X {"phases"}) \cup ({"phases"} \X {"cleanup", "idle"})
              \cup ({"cleanup"} \X {"idle"}) \cup ((Stages \ {"idle"}) \X {"idle"})
      BY <1>0, <1>7 DEF StartPhases, EndPhases, Return, Crash, LastLoop
    <2>2. StagesLeft(pc'[p]) < StagesLeft(pc[p])
      BY <2>1 DEF StagesLeft, Stages
    <2> QED
      BY <2>2
  <1> QED
    BY <1>1, <1>2, <1>3, <1>4, <1>5, <1>6, <1>7 DEF StepOf, ProcStep, DirStep

\* So each lowers its rank.
LEMMA StepLowers ==
    ASSUME IsFiniteSet(Roots), TypeOK, TypeOK', NEW p \in Procs, StepOf(p), ~BeginCycle(p)
    PROVE  <<ProcRank(p)', ProcRank(p)>> \in Below
  <1>1. ProcRank(p) \in Ranks /\ ProcRank(p)' \in Ranks
    BY ProcRankType, ProcRankTypeNext
  <1>2. PICK f \in Ranks, g \in Ranks : f = ProcRank(p)' /\ g = ProcRank(p)
    BY <1>1
  <1>3. \A a, b, c, d, e, h : h = <<a, b, c, d, e>> =>
            h[1] = a /\ h[2] = b /\ h[3] = c /\ h[4] = d /\ h[5] = e
    OBVIOUS
  <1>4. /\ g[1] = StagesLeft(pc[p]) /\ g[2] = Cardinality(todo[p])
        /\ g[3] = Pending(p) /\ g[4] = netLeft[p] + diskLeft[p]
        /\ g[5] = IF open[p] = NoFile THEN 0 ELSE 1
    BY <1>2, <1>3 DEF ProcRank
  <1>5. /\ f[1] = StagesLeft(pc'[p]) /\ f[2] = Cardinality(todo'[p])
        /\ f[3] = Pending(p)' /\ f[4] = netLeft'[p] + diskLeft'[p]
        /\ f[5] = IF open'[p] = NoFile THEN 0 ELSE 1
    BY <1>2, <1>3 DEF ProcRank, StagesLeft, NoFile
  <1>6. \E k \in 1 .. 5 : f[k] < g[k] /\ \A i \in 1 .. k - 1 : f[i] = g[i]
    <2>1. CASE StagesLeft(pc'[p]) < StagesLeft(pc[p])
      <3>1. f[1] < g[1]
        BY <1>4, <1>5, <2>1
      <3> QED
        BY <3>1
    <2>2. CASE pc'[p] = pc[p] /\ \E r \in todo[p] : todo'[p] = todo[p] \ {r}
      <3>1. Cardinality(todo'[p]) = Cardinality(todo[p]) - 1 /\ Cardinality(todo[p]) \in Nat
        BY <2>2, ProcRankType, FS_RemoveElement
      <3>2. f[1] = g[1] /\ f[2] < g[2]
        BY <1>4, <1>5, <2>2, <3>1
      <3> QED
        BY <3>2
    <2>3. CASE /\ pc'[p] = pc[p] /\ todo'[p] = todo[p] /\ sample'[p] = sample[p]
               /\ \E d \in victims[p] : victims'[p] = victims[p] \ {d}
      <3>1. /\ Cardinality(victims'[p]) = Cardinality(victims[p]) - 1
            /\ Cardinality(victims[p]) \in Nat
        BY <2>3, ProcRankType, FS_RemoveElement
      <3>2. Pending(p)' < Pending(p)
        BY <2>3, <3>1 DEF Pending, NoSample
      <3>3. f[1] = g[1] /\ f[2] = g[2] /\ f[3] < g[3]
        BY <1>4, <1>5, <2>3, <3>2
      <3> QED
        BY <3>3
    <2>4. CASE /\ pc'[p] = pc[p] /\ todo'[p] = todo[p] /\ victims'[p] = victims[p]
               /\ sample[p] # NoSample /\ sample'[p] = NoSample
      <3>1. Cardinality(victims[p]) \in Nat
        BY ProcRankType
      <3>2. Pending(p)' < Pending(p)
        BY <2>4, <3>1 DEF Pending, NoSample
      <3>3. f[1] = g[1] /\ f[2] = g[2] /\ f[3] < g[3]
        BY <1>4, <1>5, <2>4, <3>2
      <3> QED
        BY <3>3
    <2>5. ASSUME sample'[p] = sample[p], victims'[p] = victims[p]
          PROVE  Pending(p)' = Pending(p)
      BY <2>5 DEF Pending, NoSample
    <2>6. CASE /\ pc'[p] = pc[p] /\ todo'[p] = todo[p]
               /\ victims'[p] = victims[p] /\ sample'[p] = sample[p]
               /\ netLeft'[p] + diskLeft'[p] < netLeft[p] + diskLeft[p]
      <3>1. f[1] = g[1] /\ f[2] = g[2] /\ f[3] = g[3] /\ f[4] < g[4]
        BY <1>4, <1>5, <2>5, <2>6
      <3> QED
        BY <3>1
    <2>7. CASE /\ pc'[p] = pc[p] /\ todo'[p] = todo[p]
               /\ victims'[p] = victims[p] /\ sample'[p] = sample[p]
               /\ netLeft'[p] = netLeft[p] /\ diskLeft'[p] = diskLeft[p]
               /\ open[p] # NoFile /\ open'[p] = NoFile
      <3>1. f[1] = g[1] /\ f[2] = g[2] /\ f[3] = g[3] /\ f[4] = g[4] /\ f[5] < g[5]
        BY <1>4, <1>5, <2>5, <2>7
      <3> QED
        BY <3>1
    <2> QED
      BY <2>1, <2>2, <2>3, <2>4, <2>6, <2>7, StepTakesOff
  <1> QED
    BY <1>2, <1>6, BelowAt

\* The variables the rank is made of.
RankOf(p) ==
    <<pc[p], todo[p], victims[p], sample[p], netLeft[p], diskLeft[p], open[p]>>

\* What others do leaves it alone.
LEMMA OthersLeaveRank ==
    ASSUME TypeOK, [Next]_vars, NEW p \in Procs, ~StepOf(p)
    PROVE  ProcRank(p)' = ProcRank(p)
  <1> SUFFICES RankOf(p)' = RankOf(p)
    BY DEF RankOf, ProcRank, Pending, StagesLeft, NoFile, NoSample
  <1> USE DEF RankOf
  <1>0. /\ pc \in [Procs -> Stages] /\ todo \in [Procs -> SUBSET Roots]
        /\ victims \in [Procs -> SUBSET Dirs]
        /\ sample \in [Procs -> [root : Roots \cup {None}, used : Nat]]
        /\ netLeft \in [Procs -> 0 .. NetMax] /\ diskLeft \in [Procs -> 0 .. WriteMax]
        /\ open \in [Procs -> [dir : Dirs \cup {None}, bytes : Nat]]
    BY DEF TypeOK
  <1>1. ASSUME NEW q \in Procs \ {p}, StepOf(q)
        PROVE  RankOf(p)' = RankOf(p)
    <2>1. CASE ProcStep(q) \/ Crash(q)
      BY <1>0, <2>1 DEF ProcStep, Crash, BeginCycle, EndLoop, StartPhases, DiskStop, NetClose,
         NetCloseKeeps, NetStop, SweepSpares, EndPhases, Return, dirVars, planVars, workVars
    <2>2. ASSUME NEW r \in Roots, RootStep(q, r) \/ RootFault(q, r)
          PROVE  RankOf(p)' = RankOf(p)
      BY <1>0, <2>2
         DEF RootStep, RootFault, PrepareRoot, PurgeRoot, SweepRoot, BaselineStat, BaselineRoot, Gate,
         MakeRunDir, MakeRunDirFails, PrepareFails, ListFails, BaselineFails, WalkFails, Visit,
         planVars, workVars
    <2>3. ASSUME NEW d \in Dirs, DirStep(q, d) \/ RemoveFails(q, d)
          PROVE  RankOf(p)' = RankOf(p)
      BY <1>0, <2>3 DEF DirStep, RemoveFails, RemoveDir, DiskWrite, NetWrite, planVars, workVars
    <2> QED
      BY <1>1, <2>1, <2>2, <2>3 DEF StepOf
  <1>2. CASE (\E d \in Dirs : GoStale(d)) \/ \E r \in Roots : ForeignChange(r)
    BY <1>2 DEF GoStale, ForeignChange, planVars, workVars
  <1>3. CASE UNCHANGED vars
    BY <1>3 DEF vars
  <1> QED
    BY <1>1, <1>2, <1>3 DEF Next, StepOf

\* A cycle ends: once begun, every step of its process goes down in an order
\* without endless descent, whatever fails, however many roots and directories it
\* has to visit, and other processes, users and the clock cannot set it back: a
\* loop of Run visits a list it has read once (keeper.go:80-131).
THEOREM ProcessesRunOut ==
  ASSUME IsFiniteSet(Roots)
  PROVE  /\ IsWellFoundedOn(Below, Ranks)
         /\ Spec => [](\A p \in Procs : ProcRank(p) \in Ranks)
         /\ Spec => [][\A p \in Procs :
                          \/ BeginCycle(p)
                          \/ StepOf(p) /\ <<ProcRank(p)', ProcRank(p)>> \in Below
                          \/ ~StepOf(p) /\ ProcRank(p)' = ProcRank(p)]_vars
  <1>1. IsWellFoundedOn(Below, Ranks)
    BY NatLessThanWellFounded, WFLexProductOrdering DEF Below, Ranks
  <1>2. TypeOK => \A p \in Procs : ProcRank(p) \in Ranks
    BY ProcRankType
  <1>3. TypeOK /\ TypeOK' /\ [Next]_vars =>
            [\A p \in Procs :
                \/ BeginCycle(p)
                \/ StepOf(p) /\ <<ProcRank(p)', ProcRank(p)>> \in Below
                \/ ~StepOf(p) /\ ProcRank(p)' = ProcRank(p)]_vars
    BY StepLowers, OthersLeaveRank
  <1> QED
    BY <1>1, <1>2, <1>3, TypeCorrect, PTL DEF Spec
=============================================================================
