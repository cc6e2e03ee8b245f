---------------------------- MODULE CycleProofs ----------------------------
(***************************************************************************)
(* Proofs about Cycle.  CycleInv is inductive: the WaitGroup counts the    *)
(* goroutines that are at work, the memory held fits the headroom of the   *)
(* sample, and the write pass has reached every directory up to its turn.  *)
(***************************************************************************)
EXTENDS Cycle, DownloadsProofs

Live(pc) == IF pc \in {"off", "over", "refused"} THEN 0 ELSE 1

Early == {"jitter", "sample", "dirs", "phases"}

\* The group of runPhases has as many members as goroutines are at work.
Joining ==
    /\ wg = Live(cpu) + Live(mem) + Live(net) + Live(pass)
    /\ main \in Early => cpu = "off" /\ mem = "off" /\ net = "off" /\ pass = "off"
    /\ main = "returned" => wg = 0
    /\ cpu \notin {"burn", "again"} => workers = 0
    /\ mem # "hold" => held = 0

Headroom == mem = "hold" => held <= avail - Floor

\* The files written so far have gone round the directories.
Rotation ==
    /\ main \in Early => turn = 0 /\ written = 0
    /\ \A i \in 1 .. Len(runDirs) : i <= turn => onDir[runDirs[i]] > 0
    /\ written <= turn * WriteChunk
    /\ pass # "off" => runDirs # << >> /\ written <= toWrite
    /\ pass = "over" /\ ~cancelled => written >= toWrite

CycleInv ==
    /\ NetInv
    /\ TypeOK
    /\ Joining
    /\ Headroom
    /\ Rotation

----------------------------------------------------------------------------
(* What is drawn for a cycle.                                              *)

\* The number of workers and the volume of the write pass are natural numbers.
LEMMA DrawnNumbers == BurnWorkers \subseteq Nat /\ WriteTotals \subseteq Nat
<1>1. BurnCores \in Nat
  BY CycleAssumption DEF Validated, BurnCores
<1>2. BurnWorkers \subseteq Nat
  BY <1>1 DEF BurnWorkers
<1>3. WriteMB \in Nat
  BY CycleAssumption DEF Validated
<1>4. WriteTotals \subseteq Nat
  BY <1>3 DEF WriteTotals, RandInt64, Greater
<1> QED
  BY <1>2, <1>4

\* What is allocated leaves the floor free.
LEMMA AllocationFits ==
    ASSUME avail \in Int
    PROVE  /\ Floor \in Int /\ Allocation \in Int
           /\ Allocation > 0 => Allocation <= avail - Floor
<1>1. MemTotal * MinFreePercent \in Int /\ MemTotal * AllocPercent \in Int
  BY CycleAssumption
<1>2. Floor \in Int
  BY <1>1 DEF Floor
<1>3. (MemTotal * AllocPercent) \div 100 \in Int
  BY <1>1
<1> HIDE DEF Floor
<1> QED
  BY <1>2, <1>3 DEF Allocation, Lesser

----------------------------------------------------------------------------
\* The invariant holds initially.
LEMMA CycleInvInit == Init => CycleInv
<1> SUFFICES ASSUME Init PROVE CycleInv
  OBVIOUS
<1>1. runDirs = << >> /\ runDirs \in Seq(Dirs)
  BY DEF Init
<1>2. NetInv
  BY <1>1, NetInvInit DEF Init
<1>3. others \in Nat /\ WriteChunk \in Nat
  BY CycleAssumption DEF Init
<1>4. TypeOK
  <2>1. onDir \in [Dirs -> Nat]
    BY DEF Init
  <2>2. /\ main = "jitter" /\ avail = 0 /\ wg = 0 /\ cpu = "off" /\ split = FALSE
        /\ cores = 0 /\ workers = 0 /\ mem = "off" /\ held = 0 /\ pass = "off"
        /\ toWrite = 0 /\ written = 0 /\ turn = 0
    BY DEF Init
  <2>3. NetTypeOK /\ split \in BOOLEAN
    BY <1>2 DEF NetInv, Init
  <2> QED
    BY <1>3, <2>1, <2>2, <2>3 DEF TypeOK
<1>5. Joining /\ Headroom
  BY DEF Init, Joining, Headroom, Live, Early
<1>6. Rotation
  BY <1>1, <1>3 DEF Init, Rotation
<1> QED
  BY <1>2, <1>4, <1>5, <1>6 DEF CycleInv

\* The steps of Run keep it.
LEMMA MainKeepsInv == CycleInv /\ MainStep => CycleInv'
<1> SUFFICES ASSUME CycleInv, MainStep PROVE CycleInv'
  OBVIOUS
<1> USE DEF cpuVars, memVars, passVars, netVars
<1>0. /\ NetInv /\ TypeOK /\ Joining /\ Headroom /\ Rotation /\ NetTypeOK
      /\ cancelled \in BOOLEAN /\ runDirs \in Seq(Dirs)
  BY DEF CycleInv, NetInv, NetTypeOK
<1>1. ASSUME UNCHANGED <<planVars, cancelled, runDirs, netVars, wg, cpuVars, memVars, passVars>>,
             main' \in {"sample", "dirs", "returned"},
             main \in {"jitter", "sample"} \/ (main = "wait" /\ wg = 0),
             main = "wait" => main' = "returned",
             avail' \in Int, mem = "hold" => avail' = avail
      PROVE  CycleInv'
  <2>1. NetInv'
    BY <1>0, <1>1, NetInvFrame
  <2>2. TypeOK'
    BY <1>0, <1>1, <2>1 DEF TypeOK, NetInv
  <2>3. Joining'
    BY <1>0, <1>1 DEF Joining, Live, Early
  <2>4. Headroom'
    BY <1>0, <1>1 DEF Headroom, Floor
  <2>5. Rotation'
    BY <1>0, <1>1 DEF Rotation, Early
  <2> QED
    BY <2>1, <2>2, <2>3, <2>4, <2>5 DEF CycleInv
<1>2. CASE JitterSleep
  <2>1. avail' \in Int /\ avail' = avail
    BY <1>0, <1>2 DEF JitterSleep, TypeOK
  <2>2. /\ main \in {"jitter", "sample"} \/ (main = "wait" /\ wg = 0)
        /\ main' \in {"sample", "dirs", "returned"}
        /\ main = "wait" => main' = "returned"
    BY <1>2 DEF JitterSleep
  <2>3. UNCHANGED <<planVars, cancelled, runDirs, netVars, wg, cpuVars, memVars, passVars>>
    BY <1>2 DEF JitterSleep
  <2> QED
    BY <1>1, <2>1, <2>2, <2>3
<1>3. CASE SkipCycle
  <2>1. avail' \in Int /\ avail' = avail
    BY <1>0, <1>3 DEF SkipCycle, TypeOK
  <2>2. /\ main \in {"jitter", "sample"} \/ (main = "wait" /\ wg = 0)
        /\ main' \in {"sample", "dirs", "returned"}
        /\ main = "wait" => main' = "returned"
    BY <1>3 DEF SkipCycle
  <2>3. UNCHANGED <<planVars, cancelled, runDirs, netVars, wg, cpuVars, memVars, passVars>>
    BY <1>3 DEF SkipCycle
  <2> QED
    BY <1>1, <2>1, <2>2, <2>3
<1>4. CASE SampleLoad
  <2>1. MemTotal - others \in Int
    BY <1>0, CycleAssumption DEF TypeOK
  <2>2. mem = "off"
    BY <1>0, <1>4 DEF SampleLoad, Joining, Early
  <2>3. /\ main \in {"jitter", "sample"} \/ (main = "wait" /\ wg = 0)
        /\ main' \in {"sample", "dirs", "returned"}
        /\ main = "wait" => main' = "returned"
        /\ avail' = MemTotal - others
    BY <1>4 DEF SampleLoad
  <2>5. avail' \in Int /\ (mem = "hold" => avail' = avail)
    BY <2>1, <2>2, <2>3
  <2>4. UNCHANGED <<planVars, cancelled, runDirs, netVars, wg, cpuVars, memVars, passVars>>
    BY <1>4 DEF SampleLoad
  <2> QED
    BY <1>1, <2>3, <2>4, <2>5
<1>5. CASE MakeRunDirs
  <2>1. runDirs' \in Seq(Dirs)
    BY <1>5, DownloadsAssumption DEF MakeRunDirs
  <2>2. NetInv'
    BY <1>0, <1>5, <2>1, NetInvFrame DEF MakeRunDirs
  <2>3. TypeOK'
    BY <1>0, <1>5, <2>2 DEF MakeRunDirs, TypeOK, NetInv
  <2>4. Joining' /\ Headroom'
    BY <1>0, <1>5 DEF MakeRunDirs, Joining, Headroom, Early, Live, Floor
  <2>5. pass = "off" /\ turn = 0 /\ written = 0
    BY <1>0, <1>5 DEF MakeRunDirs, Joining, Rotation, Early
  <2>6. Rotation'
    BY <1>0, <1>5, <2>5 DEF MakeRunDirs, Rotation
  <2> QED
    BY <2>2, <2>3, <2>4, <2>6 DEF CycleInv
<1>6. CASE StartPhases
  <2>0. /\ cpu = "off" /\ mem = "off" /\ net = "off" /\ pass = "off" /\ turn = 0 /\ written = 0
        /\ workers = 0 /\ held = 0
    BY <1>0, <1>6 DEF StartPhases, Joining, Rotation, Early
  <2>1. NetInv'
    BY <1>0, <1>6, <2>0, NetInvFrame DEF StartPhases
  <2>2. cores' \in Nat /\ workers' \in Nat /\ toWrite' \in Nat
    BY <1>6, DrawnNumbers DEF StartPhases
  <2>3. net' \in {"off", "plan"} /\ pass' \in {"off", "next"}
        /\ (pass' = "next" => runDirs # << >>)
    BY <1>6 DEF StartPhases
  <2>4. wg' = 2 + Live(net') + Live(pass')
    BY <1>6, <2>3 DEF StartPhases, GroupSize, Live
  <2>5. /\ main' = "wait" /\ cpu' = "burn" /\ mem' = "size" /\ split' \in BOOLEAN
        /\ UNCHANGED <<cancelled, runDirs, avail, held, others, written, turn, onDir>>
    BY <1>6 DEF StartPhases
  <2>6. TypeOK'
    <3>1. wg' \in 0 .. 4
      BY <2>4 DEF Live
    <3> QED
      BY <1>0, <2>1, <2>2, <2>3, <2>5, <3>1 DEF TypeOK, NetInv
  <2>7. Joining'
    BY <2>0, <2>4, <2>5 DEF Joining, Live, Early
  <2>8. Headroom'
    BY <2>5 DEF Headroom
  <2>9. Rotation'
    BY <1>0, <2>0, <2>2, <2>3, <2>5 DEF Rotation, Early
  <2> QED
    BY <2>1, <2>6, <2>7, <2>8, <2>9 DEF CycleInv
<1>7. CASE Return
  BY <1>0, <1>1, <1>7 DEF Return, TypeOK
<1> QED
  BY <1>2, <1>3, <1>4, <1>5, <1>6, <1>7 DEF MainStep

\* The steps of the network goroutine keep it.
LEMMA NetKeepsInv == CycleInv /\ NetGoroutine => CycleInv'
<1> SUFFICES ASSUME CycleInv, NetGoroutine PROVE CycleInv'
  OBVIOUS
<1> USE DEF cpuVars, memVars, passVars, netVars
<1>0. NetInv /\ TypeOK /\ Joining /\ Headroom /\ Rotation /\ NetStep
  BY DEF CycleInv, NetGoroutine
<1>1. NetInv'
  BY <1>0, NetInvNext
<1>2. Live(net) = 1 /\ net' # "off" /\ net' # "refused"
  BY <1>0 DEF NetStep, PlanStep, BeginDownloads, NextTask, RequestFails, Receive,
              FinishDownload, Pause, AfterTask, Live
<1>3. UNCHANGED <<cancelled, runDirs, main, avail, cpuVars, memVars, passVars>>
  BY <1>0 DEF NetGoroutine, NetStep, PlanStep, BeginDownloads, NextTask, RequestFails, Receive,
              FinishDownload, Pause
<1>4. wg' = (wg - 1) + Live(net')
  BY <1>0, <1>2 DEF NetGoroutine, Live, TypeOK
<1>5. wg >= 1 /\ wg' \in 0 .. 4
  <2>1. wg = Live(cpu) + Live(mem) + 1 + Live(pass)
    BY <1>0, <1>2 DEF Joining
  <2> QED
    BY <1>0, <1>4, <2>1 DEF Live, TypeOK
<1>6. TypeOK'
  BY <1>0, <1>1, <1>3, <1>5 DEF TypeOK, NetInv
<1>7. Joining'
  BY <1>0, <1>2, <1>3, <1>4, <1>5 DEF Joining, Live, Early
<1>8. Headroom' /\ Rotation'
  BY <1>0, <1>3 DEF Headroom, Rotation, Floor
<1> QED
  BY <1>1, <1>6, <1>7, <1>8 DEF CycleInv

\* The steps of the other goroutines and of the environment keep it.
LEMMA OthersKeepInv ==
    CycleInv /\ (CpuStep \/ MemStep \/ PassStep \/ Cancel \/ OtherPrograms) => CycleInv'
<1> SUFFICES ASSUME CycleInv, CpuStep \/ MemStep \/ PassStep \/ Cancel \/ OtherPrograms
             PROVE  CycleInv'
  OBVIOUS
<1> USE DEF cpuVars, memVars, passVars, netVars
<1>0. /\ NetInv /\ TypeOK /\ Joining /\ Headroom /\ Rotation /\ NetTypeOK
      /\ cancelled \in BOOLEAN /\ runDirs \in Seq(Dirs)
  BY DEF CycleInv, NetInv, NetTypeOK
<1>1. UNCHANGED <<planVars, runDirs, netVars, main, avail>>
      /\ cancelled' \in BOOLEAN /\ (cancelled => cancelled')
  BY <1>0 DEF CpuStep, WorkerEnds, BurnEnds, DrawPause, BurnPause,
              MemStep, SkipMemory, TouchMemory, ReleaseMemory,
              PassStep, WriteFile, WriteRefused, PassEnds, Cancel, OtherPrograms
<1>2. NetInv'
  BY <1>0, <1>1, NetInvFrame
<1>3. CASE CpuStep
  <2>1. UNCHANGED <<memVars, passVars, cancelled>>
    BY <1>3 DEF CpuStep, WorkerEnds, BurnEnds, DrawPause, BurnPause
  <2>2. /\ Live(cpu) = 1 /\ cpu' \in {"burn", "draw", "pause", "again", "over"}
        /\ wg' = (wg - 1) + Live(cpu')
        /\ cpu' \notin {"burn", "again"} => workers' = 0
        /\ workers' \in Nat /\ UNCHANGED <<split, cores>>
    <3>1. /\ wg \in Int /\ workers \in Nat /\ cores \in Nat
          /\ cpu \notin {"burn", "again"} => workers = 0
      BY <1>0 DEF TypeOK, Joining
    <3>2. CASE WorkerEnds
      BY <3>1, <3>2 DEF WorkerEnds, Live
    <3>3. CASE BurnEnds
      BY <3>1, <3>3 DEF BurnEnds, Live
    <3>4. CASE DrawPause
      BY <3>1, <3>4 DEF DrawPause, Live
    <3>5. CASE BurnPause
      BY <3>1, <3>5 DEF BurnPause, Live
    <3> QED
      BY <1>3, <3>2, <3>3, <3>4, <3>5 DEF CpuStep
  <2>3. wg = 1 + Live(mem) + Live(net) + Live(pass)
    BY <1>0, <2>2 DEF Joining
  <2>4. wg' \in 0 .. 4 /\ wg >= 1
    BY <1>0, <2>2, <2>3 DEF Live, TypeOK
  <2>5. TypeOK'
    BY <1>0, <1>1, <1>2, <2>1, <2>2, <2>4 DEF TypeOK, NetInv
  <2>6. Joining'
    BY <1>0, <1>1, <2>1, <2>2, <2>3, <2>4 DEF Joining, Live, Early
  <2>7. Headroom' /\ Rotation'
    BY <1>0, <1>1, <2>1 DEF Headroom, Rotation, Floor
  <2> QED
    BY <1>2, <2>5, <2>6, <2>7 DEF CycleInv
<1>4. CASE MemStep
  <2>1. UNCHANGED <<cpuVars, passVars, cancelled, others>>
    BY <1>4 DEF MemStep, SkipMemory, TouchMemory, ReleaseMemory
  <2>2. /\ Live(mem) = 1 /\ mem' \in {"hold", "over"}
        /\ wg' = (wg - 1) + Live(mem')
    BY <1>0, <1>4 DEF MemStep, SkipMemory, TouchMemory, ReleaseMemory, Live, TypeOK
  <2>3. /\ held' \in Nat /\ (mem' # "hold" => held' = 0)
        /\ mem' = "hold" => held' <= avail - Floor
    <3>1. /\ Allocation \in Int /\ Floor \in Int
          /\ Allocation > 0 => Allocation <= avail - Floor
      BY <1>0, AllocationFits DEF TypeOK
    <3>2. CASE TouchMemory
      BY <3>1, <3>2 DEF TouchMemory
    <3>3. CASE SkipMemory \/ ReleaseMemory
      BY <1>0, <3>3 DEF SkipMemory, ReleaseMemory, Joining
    <3> QED
      BY <1>4, <3>2, <3>3 DEF MemStep
  <2>4. wg = Live(cpu) + 1 + Live(net) + Live(pass)
    BY <1>0, <2>2 DEF Joining
  <2>5. wg' \in 0 .. 4 /\ wg >= 1
    BY <1>0, <2>2, <2>4 DEF Live, TypeOK
  <2>6. TypeOK'
    BY <1>0, <1>1, <1>2, <2>1, <2>2, <2>3, <2>5 DEF TypeOK, NetInv
  <2>7. Joining'
    BY <1>0, <1>1, <2>1, <2>2, <2>3, <2>4, <2>5 DEF Joining, Live, Early
  <2>8. Headroom'
    BY <1>1, <2>3 DEF Headroom, Floor
  <2>9. Rotation'
    BY <1>0, <1>1, <2>1 DEF Rotation
  <2> QED
    BY <1>2, <2>6, <2>7, <2>8, <2>9 DEF CycleInv
<1>5. CASE PassStep
  <2>1. UNCHANGED <<cpuVars, memVars, cancelled, toWrite>> /\ pass = "next"
    BY <1>5 DEF PassStep, WriteFile, WriteRefused, PassEnds
  <2>2. pass' \in {"next", "refused", "over"} /\ wg' = (wg - 1) + Live(pass')
    BY <1>0, <1>5 DEF PassStep, WriteFile, WriteRefused, PassEnds, Live, TypeOK
  <2>3. wg = Live(cpu) + Live(mem) + Live(net) + 1
    BY <1>0, <2>1 DEF Joining, Live
  <2>4. wg' \in 0 .. 4 /\ wg >= 1
    BY <1>0, <2>2, <2>3 DEF Live, TypeOK
  <2>5. Joining'
    BY <1>0, <1>1, <2>1, <2>2, <2>3, <2>4 DEF Joining, Live, Early
  <2>6. Headroom'
    BY <1>0, <1>1, <2>1 DEF Headroom, Floor
  <2>7. main \notin Early /\ runDirs # << >> /\ written <= toWrite
    BY <1>0, <2>1 DEF Joining, Rotation
  <2>8. CASE WriteFile
    <3>1. PICK n \in 1 .. Lesser(WriteChunk, toWrite - written) :
            written' = written + n /\ onDir' = [onDir EXCEPT ![Turn] = @ + n]
      BY <2>8 DEF WriteFile
    <3>2. /\ written \in Nat /\ toWrite \in Nat /\ turn \in Nat /\ onDir \in [Dirs -> Nat]
          /\ WriteChunk \in Nat /\ turn' = turn + 1 /\ pass' = "next"
      BY <1>0, <2>1, <2>8, CycleAssumption DEF TypeOK, WriteFile
    <3>3. n \in Nat /\ n > 0 /\ n <= WriteChunk /\ n <= toWrite - written
      BY <3>1, <3>2 DEF Lesser
    <3>4. onDir' \in [Dirs -> Nat] /\ (\A d \in Dirs : onDir'[d] >= onDir[d])
          /\ (Turn \in Dirs => onDir'[Turn] > 0)
      <4>1. ASSUME NEW d \in Dirs
            PROVE  onDir'[d] = IF d = Turn THEN onDir[d] + n ELSE onDir[d]
        BY <3>1, <3>2
      <4>2. onDir' = [d \in Dirs |-> onDir'[d]]
        BY <3>1, <3>2
      <4>3. \A d \in Dirs : onDir[d] \in Nat
        BY <3>2
      <4>4. \A d \in Dirs : onDir'[d] \in Nat /\ onDir'[d] >= onDir[d]
                            /\ (d = Turn => onDir'[d] > 0)
        BY <3>3, <4>1, <4>3
      <4> QED
        BY <4>2, <4>4
    <3>5. TypeOK'
      BY <1>0, <1>1, <1>2, <2>1, <2>2, <2>4, <3>1, <3>2, <3>3, <3>4 DEF TypeOK, NetInv
    <3>6. ASSUME NEW i \in 1 .. Len(runDirs), i <= turn + 1
          PROVE  onDir'[runDirs[i]] > 0
      <4>1. runDirs[i] \in Dirs /\ Len(runDirs) \in Nat
        BY <1>0
      <4>2. CASE i <= turn
        <5>1. onDir[runDirs[i]] > 0
          BY <1>0, <4>2 DEF Rotation
        <5> QED
          BY <3>2, <3>4, <4>1, <5>1
      <4>3. CASE i = turn + 1
        <5>1. turn < Len(runDirs)
          BY <3>2, <4>1, <4>3
        <5>2. turn % Len(runDirs) = turn
          BY <3>2, <4>1, <5>1
        <5>3. Turn = runDirs[i]
          BY <4>3, <5>2 DEF Turn
        <5> QED
          BY <3>4, <4>1, <5>3
      <4> QED
        BY <3>2, <3>6, <4>1, <4>2, <4>3
    <3>7. written' <= turn' * WriteChunk
      <4>1. written <= turn * WriteChunk
        BY <1>0 DEF Rotation
      <4>2. (turn + 1) * WriteChunk = turn * WriteChunk + WriteChunk
        BY <3>2
      <4>3. turn * WriteChunk \in Nat
        BY <3>2
      <4> QED
        BY <3>1, <3>2, <3>3, <4>1, <4>2, <4>3
    <3>8. Rotation'
      BY <1>1, <2>1, <2>7, <3>1, <3>2, <3>3, <3>6, <3>7 DEF Rotation
    <3> QED
      BY <1>2, <2>5, <2>6, <3>5, <3>8 DEF CycleInv
  <2>9. CASE WriteRefused \/ PassEnds
    <3>1. UNCHANGED <<written, turn, onDir>>
      BY <2>9 DEF WriteRefused, PassEnds
    <3>2. TypeOK'
      BY <1>0, <1>1, <1>2, <2>1, <2>2, <2>4, <3>1 DEF TypeOK, NetInv
    <3>3. pass' = "over" => cancelled \/ written >= toWrite
      BY <2>9 DEF WriteRefused, PassEnds
    <3>4. Rotation'
      BY <1>0, <1>1, <2>1, <2>7, <3>1, <3>3 DEF Rotation
    <3> QED
      BY <1>2, <2>5, <2>6, <3>2, <3>4 DEF CycleInv
  <2> QED
    BY <1>5, <2>8, <2>9 DEF PassStep
<1>6. CASE Cancel \/ OtherPrograms
  <2>1. UNCHANGED <<cpuVars, mem, held, passVars, wg>> /\ others' \in Nat
    BY <1>0, <1>6, CycleAssumption DEF Cancel, OtherPrograms, TypeOK
  <2>2. TypeOK'
    BY <1>0, <1>1, <1>2, <2>1 DEF TypeOK, NetInv
  <2>3. Joining' /\ Headroom'
    BY <1>0, <1>1, <2>1 DEF Joining, Headroom, Floor, Live
  <2>4. Rotation'
    BY <1>0, <1>1, <2>1 DEF Rotation
  <2> QED
    BY <1>2, <2>2, <2>3, <2>4 DEF CycleInv
<1> QED
  BY <1>3, <1>4, <1>5, <1>6

\* Every step of a cycle keeps it.
LEMMA CycleInvNext == CycleInv /\ [Next]_vars => CycleInv'
<1>1. CycleInv /\ UNCHANGED vars => CycleInv'
  <2> SUFFICES ASSUME CycleInv, UNCHANGED vars PROVE CycleInv'
    OBVIOUS
  <2> USE DEF vars, cpuVars, memVars, passVars, netVars
  <2>1. NetInv /\ cancelled \in BOOLEAN /\ runDirs \in Seq(Dirs)
    BY DEF CycleInv, NetInv, NetTypeOK
  <2>2. NetInv'
    BY <2>1, NetInvFrame
  <2>3. TypeOK'
    BY <2>2 DEF CycleInv, NetInv, TypeOK
  <2>4. Joining' /\ Headroom' /\ Rotation'
    BY DEF CycleInv, Joining, Headroom, Rotation, Floor, Live
  <2> QED
    BY <2>2, <2>3, <2>4 DEF CycleInv
<1> QED
  BY <1>1, MainKeepsInv, NetKeepsInv, OthersKeepInv DEF Next

\* The invariant holds of every cycle.
LEMMA CycleInvHolds == Spec => []CycleInv
  BY CycleInvInit, CycleInvNext, PTL DEF Spec

----------------------------------------------------------------------------
\* Run returns, and its deferred clean-up runs, only when no goroutine of the
\* cycle is at work, no memory is held and no file is open (keeper.go:226-275).
THEOREM AllAreJoined == Spec => []AllJoined
<1>1. CycleInv => AllJoined
  <2> SUFFICES ASSUME CycleInv, main = "returned" PROVE AllJoined
    BY DEF AllJoined
  <2>1. TypeOK /\ Joining /\ FileClosed
    BY DEF CycleInv, NetInv
  <2>2. Live(cpu) + Live(mem) + Live(net) + Live(pass) = 0
    BY <2>1 DEF Joining
  <2>3. Live(cpu) = 0 /\ Live(mem) = 0 /\ Live(net) = 0 /\ Live(pass) = 0
    BY <2>2 DEF Live
  <2>4. /\ cpu \in {"off", "over"} /\ mem \in {"off", "over"}
        /\ net \in {"off", "over"} /\ pass \in {"off", "refused", "over"}
    BY <2>1, <2>3 DEF Live, TypeOK, NetTypeOK
  <2> QED
    BY <2>1, <2>4 DEF Joining, FileClosed, AllJoined
<1> QED
  BY <1>1, CycleInvHolds, PTL

\* The types of the whole cycle; the WaitGroup never drops below zero.
THEOREM CycleTypeCorrect == Spec => []TypeOK
<1>1. CycleInv => TypeOK
  BY DEF CycleInv
<1> QED
  BY <1>1, CycleInvHolds, PTL

\* The memory exercise keeps MinFreePercent free, as long as other programs use
\* no more than in the sample (mem.go:26-36).
THEOREM FloorIsKept == Spec => []FloorKept
<1>1. CycleInv => FloorKept
  <2> SUFFICES ASSUME CycleInv, mem = "hold", others <= MemTotal - avail
               PROVE  MemTotal - others - held >= Floor
    BY DEF FloorKept
  <2>1. avail \in Int /\ held \in Nat /\ others \in Nat /\ MemTotal \in Nat
    BY CycleAssumption DEF CycleInv, TypeOK
  <2>2. Floor \in Int
    BY <2>1, AllocationFits
  <2>3. held <= avail - Floor
    BY DEF CycleInv, Headroom
  <2> HIDE DEF Floor
  <2> QED
    BY <2>1, <2>2, <2>3
<1> QED
  BY <1>1, CycleInvHolds, PTL

\* A write pass that ends by itself has written all of its volume, and to every
\* directory if the volume is enough for that (disk.go:216-231).
THEOREM DisksDoShare == Spec => []DisksShareTheLoad
<1>1. CycleInv => DisksShareTheLoad
  <2> SUFFICES ASSUME CycleInv, pass = "over", ~cancelled
               PROVE  /\ written = toWrite
                      /\ toWrite > WriteChunk * (Len(runDirs) - 1) =>
                            \A i \in 1 .. Len(runDirs) : onDir[runDirs[i]] > 0
    BY DEF DisksShareTheLoad
  <2>1. /\ written \in Nat /\ toWrite \in Nat /\ turn \in Nat /\ Len(runDirs) \in Nat
        /\ WriteChunk \in Nat \ {0}
    BY CycleAssumption DEF CycleInv, TypeOK, NetTypeOK
  <2>2. written = toWrite
    BY <2>1 DEF CycleInv, Rotation
  <2>3. ASSUME toWrite > WriteChunk * (Len(runDirs) - 1) PROVE turn >= Len(runDirs)
    <3>1. turn * WriteChunk > WriteChunk * (Len(runDirs) - 1)
      BY <2>1, <2>2, <2>3 DEF CycleInv, Rotation
    <3>2. SUFFICES ASSUME turn <= Len(runDirs) - 1 PROVE FALSE
      BY <2>1
    <3>3. turn * WriteChunk <= WriteChunk * (Len(runDirs) - 1)
      BY <2>1, <3>2
    <3> QED
      BY <2>1, <3>1, <3>3
  <2> QED
    BY <2>1, <2>2, <2>3 DEF CycleInv, Rotation
<1> QED
  BY <1>1, CycleInvHolds, PTL
----------------------------------------------------------------------------
(* The shares.  What the downloads and the write pass may still write is   *)
(* bounded by what was drawn for them, and a cycle that has directories    *)
(* discards nothing.                                                       *)

Destinations ==
    /\ runDirs # << >> => stats.discarded = 0
    /\ runDirs = << >> => file.dir = NoDir
    /\ net = "close" /\ runDirs # << >> => file.dir # NoDir
    /\ toWrite <= WriteMax

ShareInv == CycleInv /\ WithinPlan /\ Destinations

\* What is drawn for a cycle fits the largest shares.
LEMMA DrawsFit ==
    /\ NetMax \in Nat /\ WriteMax \in Nat
    /\ \A b \in Budgets : Greater(b, 0) <= NetMax
    /\ \A w \in WriteTotals : w <= WriteMax
<1>1. TotalMB \in Nat /\ WriteMB \in Nat /\ Budgets = JitterBudget(TotalMB)
  BY CycleAssumption DEF Validated
<1>2. /\ (TotalMB * 12) \div 10 \in Nat /\ (TotalMB * 8) \div 10 \in Nat
      /\ (WriteMB * 12) \div 10 \in Nat /\ (WriteMB * 8) \div 10 \in Nat
      /\ (WriteMB * 8) \div 10 <= (WriteMB * 12) \div 10
  BY <1>1
<1>3. ASSUME NEW b \in Budgets PROVE Greater(b, 0) <= NetMax
  BY <1>1, <1>2 DEF JitterBudget, NetMax, Greater
<1>4. ASSUME NEW w \in WriteTotals PROVE w <= WriteMax
  BY <1>1, <1>2 DEF WriteTotals, WriteMax, RandInt64, Greater
<1> QED
  BY <1>2, <1>3, <1>4 DEF NetMax, WriteMax

\* A downloaded file lies in a run directory, if there is one.
LEMMA DestFits ==
    ASSUME NetTypeOK, net = "request"
    PROVE  IF runDirs = << >> THEN Dest = NoDir ELSE Dest \in Dirs /\ Dest # NoDir
<1>1. runDirs \in Seq(Dirs) /\ task \in 1 .. Len(tasks) /\ Len(tasks) \in Nat
  BY DEF NetTypeOK, PlanTypeOK
<1>2. CASE runDirs # << >>
  <2>1. Len(runDirs) \in Nat \ {0}
    BY <1>1, <1>2
  <2>2. ((task - 1) % Len(runDirs)) + 1 \in 1 .. Len(runDirs)
    BY <1>1, <2>1
  <2> QED
    BY <1>1, <1>2, <2>2, DownloadsAssumption DEF Dest
<1> QED
  BY <1>2 DEF Dest

\* They hold initially, and every step of a cycle keeps them.
LEMMA ShareInvInit == Init => ShareInv
<1> SUFFICES ASSUME Init PROVE ShareInv
  OBVIOUS
<1>1. WithinPlan
  BY WithinPlanInit DEF Init, NetInit
<1>2. Destinations
  BY DrawsFit DEF Init, NetInit, Destinations, NoFile
<1> QED
  BY <1>1, <1>2, CycleInvInit DEF ShareInv

LEMMA ShareInvNext == ShareInv /\ [Next]_vars => ShareInv'
<1> SUFFICES ASSUME ShareInv, [Next]_vars PROVE ShareInv'
  OBVIOUS
<1> USE DEF cpuVars, memVars, passVars, netVars
<1>0. /\ CycleInv /\ WithinPlan /\ Destinations /\ NetInv /\ TypeOK /\ NetTypeOK /\ Joining
      /\ FileClosed /\ Fresh
  BY DEF ShareInv, CycleInv, NetInv
<1>1. CycleInv'
  BY <1>0, CycleInvNext
<1>2. CASE NetGoroutine
  <2>1. NetStep /\ UNCHANGED <<runDirs, toWrite>>
    BY <1>2 DEF NetGoroutine, NetStep, PlanStep, BeginDownloads, NextTask, RequestFails,
                Receive, FinishDownload, Pause
  <2>2. WithinPlan'
    BY <1>0, <2>1, WithinPlanNext
  <2>3. Destinations'
    <3>1. CASE Receive
      <4>1. PICK n \in 0 .. tasks[task].want : file' = [dir |-> Dest, bytes |-> n]
        BY <3>1 DEF Receive
      <4>2. file'.dir = Dest /\ UNCHANGED stats
        BY <3>1, <4>1 DEF Receive
      <4> QED
        BY <1>0, <2>1, <3>1, <4>2, DestFits DEF Receive, Destinations, WriteMax
    <3>2. CASE FinishDownload
      <4>1. /\ file' = NoFile /\ net' # "close" /\ net = "close"
            /\ stats'.discarded = stats.discarded + Discarded(file)
            /\ stats.discarded \in Nat
        BY <1>0, <3>2 DEF FinishDownload, AfterTask, NetTypeOK
      <4> QED
        BY <1>0, <2>1, <4>1 DEF Destinations, Discarded, NoFile, WriteMax
    <3>3. CASE PlanStep \/ BeginDownloads \/ NextTask \/ RequestFails \/ Pause
      <4>1. UNCHANGED file /\ stats'.discarded = stats.discarded /\ net' # "close"
        BY <1>0, <3>3 DEF PlanStep, BeginDownloads, NextTask, RequestFails, Pause, AfterTask,
                          NetTypeOK
      <4> QED
        BY <1>0, <2>1, <4>1 DEF Destinations, WriteMax
    <3> QED
      BY <2>1, <3>1, <3>2, <3>3 DEF NetStep
  <2> QED
    BY <1>1, <2>2, <2>3 DEF ShareInv
<1>3. CASE MakeRunDirs
  <2>1. main \in Early /\ UNCHANGED <<planVars, netVars, toWrite>>
    BY <1>3 DEF MakeRunDirs, Early
  <2>2. net = "off" /\ stats = NoStats /\ file = NoFile
    BY <1>0, <2>1 DEF Joining, Fresh, FileClosed
  <2>3. WithinPlan'
    BY <1>0, <2>1, WithinPlanFrame
  <2>4. Destinations'
    BY <1>0, <2>1, <2>2 DEF Destinations, NoStats, NoFile, WriteMax
  <2> QED
    BY <1>1, <2>3, <2>4 DEF ShareInv
<1>4. CASE StartPhases
  <2>1. /\ UNCHANGED <<planVars, task, file, stats, runDirs>> /\ net' \in {"off", "plan"}
        /\ toWrite' \in WriteTotals /\ main \in Early
    BY <1>4 DEF StartPhases, Early
  <2>2. net = "off"
    BY <1>0, <2>1 DEF Joining
  <2>3. WithinPlan'
    BY <1>0, <2>1, <2>2, WithinPlanFrame
  <2>4. Destinations'
    BY <1>0, <2>1, DrawsFit DEF Destinations, WriteMax
  <2> QED
    BY <1>1, <2>3, <2>4 DEF ShareInv
<1>5. CASE UNCHANGED <<planVars, runDirs, netVars, toWrite>>
  <2>1. WithinPlan'
    BY <1>0, <1>5, WithinPlanFrame
  <2>2. Destinations'
    BY <1>0, <1>5 DEF Destinations, WriteMax
  <2> QED
    BY <1>1, <2>1, <2>2 DEF ShareInv
<1>6. MainStep => \/ MakeRunDirs \/ StartPhases
                  \/ UNCHANGED <<planVars, runDirs, netVars, toWrite>>
  BY DEF MainStep, JitterSleep, SkipCycle, SampleLoad, Return
<1>7. CpuStep \/ MemStep \/ PassStep \/ Cancel \/ OtherPrograms \/ UNCHANGED vars
        => UNCHANGED <<planVars, runDirs, netVars, toWrite>>
  BY DEF CpuStep, WorkerEnds, BurnEnds, DrawPause, BurnPause, MemStep, SkipMemory, TouchMemory,
         ReleaseMemory, PassStep, WriteFile, WriteRefused, PassEnds, Cancel, OtherPrograms, vars
<1> QED
  BY <1>2, <1>3, <1>4, <1>5, <1>6, <1>7 DEF Next

LEMMA ShareInvHolds == Spec => []ShareInv
  BY ShareInvInit, ShareInvNext, PTL DEF Spec

\* In a whole cycle, too, the downloads keep within the caps.
THEOREM PoliteInCycle == Spec => []PoliteToHosts
<1>1. ShareInv => PoliteToHosts
  BY PoliteWithinPlan DEF ShareInv, CycleInv
<1> QED
  BY <1>1, ShareInvHolds, PTL

----------------------------------------------------------------------------
(* The refinement of CycleIO.                                              *)

\* A network step is made while the phases run; it opens a file for what it
\* receives, closes it, or is of no concern to the disk.
LEMMA NetStepShares ==
    ASSUME ShareInv, ShareInv', PoliteToHosts', NetGoroutine
    PROVE  [IO!Next]_(IO!vars)
<1>0. /\ CycleInv /\ Destinations /\ NetInv /\ TypeOK /\ NetTypeOK /\ Joining /\ FileClosed
      /\ NetStep /\ Destinations'
      /\ stats.total \in Nat /\ stats.discarded \in Nat /\ file.bytes \in Nat
      /\ NetMax \in Nat
  BY DrawsFit DEF ShareInv, CycleInv, NetInv, NetTypeOK, NetGoroutine
<1>1. Live(net) = 1
  BY <1>0 DEF NetStep, PlanStep, BeginDownloads, NextTask, RequestFails, Receive,
              FinishDownload, Pause, Live
<1>2. main = "wait"
  <2>1. main # "returned"
    BY <1>0, <1>1 DEF Joining, Live, TypeOK
  <2>2. main \notin Early
    BY <1>0, <1>1 DEF Joining, Live
  <2> QED
    BY <1>0, <2>1, <2>2 DEF TypeOK, Early
<1>3. UNCHANGED <<main, runDirs, pass, written>>
  BY <1>0 DEF NetGoroutine, passVars, NetStep, PlanStep, BeginDownloads, NextTask,
              RequestFails, Receive, FinishDownload, Pause
<1>4. CASE Receive
  <2>1. PICK n \in 0 .. tasks[task].want : file' = [dir |-> Dest, bytes |-> n]
    BY <1>4 DEF Receive
  <2>2. file = NoFile /\ UNCHANGED stats /\ file'.dir = Dest /\ file'.bytes = n /\ n \in Nat
    <3>1. file = NoFile /\ UNCHANGED stats /\ file'.dir = Dest /\ file'.bytes = n
      BY <1>0, <1>4, <2>1 DEF Receive, FileClosed
    <3>2. file'.bytes \in Nat
      BY DEF ShareInv, CycleInv, NetInv, NetTypeOK
    <3> QED
      BY <3>1, <3>2
  <2>3. CASE runDirs = << >>
    BY <1>0, <1>2, <1>3, <1>4, <2>2, <2>3, DestFits
    DEF IO!vars, FileBytes, NoFile, Receive, WriteMax, NetMax
  <2>4. CASE runDirs # << >>
    <3>1. file'.dir # NoDir /\ stats.discarded = 0 /\ stats'.discarded = 0
      BY <1>0, <1>4, <2>2, <2>4, DestFits DEF Receive, Destinations
    <3>2. FileBytes = stats.total /\ FileBytes' = stats.total + n
      BY <1>0, <2>2, <3>1 DEF FileBytes, NoFile
    <3>3. stats.total + n <= NetMax
      <4>1. budget' \in Budgets
        BY DEF ShareInv, CycleInv, NetInv, NetTypeOK, PlanTypeOK
      <4>2. Greater(budget', 0) <= NetMax /\ Greater(budget', 0) \in Int
        BY <4>1, DrawsFit, PlanAssumption DEF Greater
      <4>3. stats'.total + file'.bytes <= Greater(budget', 0)
        BY DEF PoliteToHosts, Greater
      <4> QED
        BY <1>0, <2>2, <4>2, <4>3
    <3> HIDE DEF FileBytes
    <3>4. CASE n = 0
      BY <1>0, <1>2, <1>3, <2>2, <2>4, <3>1, <3>2, <3>4 DEF IO!vars, NoFile, WriteMax, NetMax
    <3>5. CASE n > 0
      BY <1>0, <1>2, <1>3, <2>2, <2>4, <3>1, <3>2, <3>3, <3>5
      DEF IO!Next, IO!Open, NoFile, WriteMax, NetMax
    <3> QED
      BY <2>2, <3>4, <3>5
  <2> QED
    BY <2>3, <2>4
<1>5. CASE FinishDownload
  <2>1. /\ file' = NoFile /\ net = "close"
        /\ stats'.total = stats.total + file.bytes
        /\ stats'.discarded = stats.discarded + Discarded(file)
    BY <1>0, <1>5 DEF FinishDownload, NetTypeOK
  <2>2. CASE runDirs = << >>
    BY <1>0, <1>2, <1>3, <2>1, <2>2 DEF IO!vars, Destinations, NoFile, WriteMax, NetMax
  <2>3. CASE runDirs # << >>
    <3>1. file.dir # NoDir /\ Discarded(file) = 0 /\ file'.dir = NoDir
      BY <1>0, <2>1, <2>3 DEF Destinations, NoFile, Discarded
    <3>2. FileBytes' = FileBytes
      BY <1>0, <2>1, <3>1 DEF FileBytes
    <3> QED
      BY <1>2, <1>3, <2>1, <2>3, <3>2 DEF IO!Next, IO!Close, NoFile, WriteMax, NetMax
  <2> QED
    BY <2>2, <2>3
<1>6. CASE PlanStep \/ BeginDownloads \/ NextTask \/ RequestFails \/ Pause
  <2>1. UNCHANGED file /\ stats'.total = stats.total /\ stats'.discarded = stats.discarded
    BY <1>0, <1>6 DEF PlanStep, BeginDownloads, NextTask, RequestFails, Pause, NetTypeOK, netVars
  <2> QED
    BY <1>3, <2>1 DEF IO!vars, FileBytes, WriteMax, NetMax
<1> QED
  BY <1>0, <1>4, <1>5, <1>6 DEF NetStep

\* The phases implement CycleIO: whatever is configured, drawn and sent, nothing
\* is written before the phases start or after they are joined, one download
\* file is open at a time, and neither writer takes more than its share
\* (keeper.go:226-275, net.go:177-276, disk.go:216-231).
THEOREM SharesAreKept == Spec => SharesKept
<1>1. Init => IO!Init
  BY DEF Init, NetInit, IO!Init, NoFile
<1>2. ShareInv /\ ShareInv' /\ PoliteToHosts' /\ [Next]_vars => [IO!Next]_(IO!vars)
  <2> SUFFICES ASSUME ShareInv, ShareInv', PoliteToHosts', [Next]_vars
               PROVE  [IO!Next]_(IO!vars)
    OBVIOUS
  <2> USE DEF cpuVars, memVars, passVars, netVars
  <2>0. /\ CycleInv /\ Destinations /\ NetInv /\ TypeOK /\ NetTypeOK /\ Joining /\ FileClosed
        /\ Fresh /\ Rotation /\ NetMax \in Nat /\ WriteMax \in Nat
        /\ toWrite \in Nat /\ written \in Nat /\ toWrite <= WriteMax
    BY DrawsFit DEF ShareInv, CycleInv, NetInv, Destinations, TypeOK
  <2>1. CASE StartPhases
    <3>1. /\ main = "phases" /\ main' = "wait" /\ main \in Early
          /\ UNCHANGED <<file, stats, runDirs, written>> /\ pass' \in {"off", "next"}
      BY <2>1 DEF StartPhases, Early
    <3>2. stats = NoStats /\ file = NoFile /\ written = 0
      BY <2>0, <3>1 DEF Joining, Fresh, FileClosed, Rotation
    <3>3. FileBytes' = 0
      BY <3>1, <3>2 DEF FileBytes, NoStats, NoFile
    <3> QED
      BY <2>0, <3>1, <3>2, <3>3 DEF IO!Next, IO!Start, NoFile, NetMax, WriteMax
  <2>2. CASE Return
    <3>1. Live(net) = 0
      BY <2>0, <2>2 DEF Return, Joining, Live
    <3>2. file = NoFile
      BY <2>0, <3>1 DEF Live, FileClosed
    <3> QED
      BY <2>2, <3>2 DEF Return, IO!Next, IO!End, NoFile
  <2>3. CASE JitterSleep \/ SkipCycle \/ SampleLoad \/ MakeRunDirs
    BY <2>3 DEF JitterSleep, SkipCycle, SampleLoad, MakeRunDirs, IO!vars
  <2>4. CASE WriteFile
    <3>1. PICK n \in 1 .. Lesser(WriteChunk, toWrite - written) : written' = written + n
      BY <2>4 DEF WriteFile
    <3>2. n \in Nat /\ n > 0 /\ n <= toWrite - written
      BY <2>0, <3>1, CycleAssumption DEF Lesser
    <3>3. /\ pass = "next" /\ pass' = "next"
          /\ UNCHANGED <<main, runDirs, stats, file>>
      BY <2>4 DEF WriteFile
    <3>4. main = "wait"
      <4>1. Live(pass) = 1
        BY <3>3 DEF Live
      <4>2. main # "returned" /\ main \notin Early
        BY <2>0, <3>3, <4>1 DEF Joining, Live, TypeOK
      <4> QED
        BY <2>0, <4>2 DEF TypeOK, Early
    <3>5. FileBytes' = FileBytes
      BY <3>3 DEF FileBytes
    <3>6. /\ n \in 1 .. (WriteMax - written)
          /\ WriteMax - written' = (WriteMax - written) - n
      BY <2>0, <3>1, <3>2
    <3> QED
      BY <3>3, <3>4, <3>5, <3>6 DEF IO!Next, IO!Write, NetMax, WriteMax
  <2>5. CASE WriteRefused \/ PassEnds
    BY <2>5 DEF WriteRefused, PassEnds, IO!vars, FileBytes, NetMax, WriteMax
  <2>6. CASE CpuStep \/ MemStep \/ Cancel \/ OtherPrograms \/ UNCHANGED vars
    <3>1. UNCHANGED <<main, runDirs, stats, file, pass, written>>
      BY <2>6 DEF CpuStep, WorkerEnds, BurnEnds, DrawPause, BurnPause, MemStep, SkipMemory,
                  TouchMemory, ReleaseMemory, Cancel, OtherPrograms, vars
    <3> QED
      BY <3>1 DEF IO!vars, FileBytes, NetMax, WriteMax
  <2>7. CASE NetGoroutine
    BY <2>7, NetStepShares
  <2> QED
    BY <2>1, <2>2, <2>3, <2>4, <2>5, <2>6, <2>7 DEF Next, MainStep, PassStep
<1> QED
  BY <1>1, <1>2, ShareInvHolds, PoliteInCycle, PTL DEF Spec, SharesKept, IO!Spec
=============================================================================
