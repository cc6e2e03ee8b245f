------------------------------- MODULE Cycle -------------------------------
(***************************************************************************)
(* One keep-alive cycle: Keeper.Run and runPhases (keeper.go) with the CPU *)
(* burn (cpu.go), the memory hold (mem.go), the downloads (Downloads) and  *)
(* the write pass (disk.go), as the goroutines they are, under one context *)
(* that may be cancelled at any time.  The directories a cycle works in    *)
(* are those RunDirs leaves it.                                            *)
(***************************************************************************)
EXTENDS Downloads

CONSTANTS
    JitterMinutes,  \* cfg.Schedule.JitterMinutes
    HostLoads,      \* pairs of CPU utilization and load average
    BusyPercent,    \* cfg.Busy.CPUPercent
    LoadFactor,     \* cfg.Busy.LoadFactor, in tenths
    NumCPU,         \* runtime.NumCPU
    ConfCores,      \* cfg.CPU.Cores
    TotalMB,        \* cfg.Net.TotalMB
    WriteMB,        \* cfg.Disk.WriteMB
    WriteChunk,     \* writeChunkB
    MemTotal,       \* memory of the host
    MemMin,         \* 1 MiB: less is not worth an exercise
    AllocPercent,   \* cfg.Mem.AllocPercent
    MinFreePercent, \* cfg.Mem.MinFreePercent
    OtherLevels     \* what other programs may use of the memory

\* What Config.validate guarantees of the values used here.
Validated ==
    /\ JitterMinutes >= 0
    /\ ConfCores >= 0
    /\ AllocPercent \in 0 .. 80 /\ MinFreePercent \in 0 .. 90
    /\ TotalMB >= 0 /\ (TotalMB > 0 => HostCap > 0)
    /\ WriteMB >= 0

\* jitterBudget: 20 % more or less than base, nothing of nothing.
JitterBudget(base) == IF base <= 0 THEN {0} ELSE (base * 8) \div 10 .. (base * 12) \div 10

ASSUME CycleAssumption ==
    /\ {JitterMinutes, ConfCores, AllocPercent, MinFreePercent, TotalMB, WriteMB} \subseteq Int
    /\ Validated
    /\ Budgets = JitterBudget(TotalMB)
    /\ NumCPU \in Nat \ {0}
    /\ WriteChunk \in Nat \ {0}
    /\ MemTotal \in Nat /\ MemMin \in Nat /\ OtherLevels \subseteq Nat

VARIABLES
    main,       \* where Run is
    avail,      \* sample.MemAvailable
    wg,         \* the WaitGroup of runPhases
    cpu,        \* the goroutine of the burn
    split,      \* the burn is split in two
    cores,      \* workers of a burn
    workers,    \* workers of the burn that are still spinning
    mem,        \* the goroutine of the memory hold
    held,       \* memory it holds
    others,     \* memory other programs use
    pass,       \* the goroutine of the write pass
    toWrite,    \* totalB of the write pass
    written,    \* what it has written
    turn,       \* its file count
    onDir       \* what it has written to each run directory

cpuVars == <<cpu, split, cores, workers>>
memVars == <<mem, held, others>>
passVars == <<pass, toWrite, written, turn, onDir>>
vars == <<planVars, cancelled, runDirs, netVars, main, avail, wg,
          cpuVars, memVars, passVars>>

TypeOK ==
    /\ NetTypeOK
    /\ main \in {"jitter", "sample", "dirs", "phases", "wait", "returned"}
    /\ avail \in Int
    /\ wg \in 0 .. 4
    /\ cpu \in {"off", "burn", "draw", "pause", "again", "over"}
    /\ split \in BOOLEAN /\ cores \in Nat /\ workers \in Nat
    /\ mem \in {"off", "size", "hold", "over"}
    /\ held \in Nat /\ others \in Nat
    /\ pass \in {"off", "next", "refused", "over"}
    /\ toWrite \in Nat /\ written \in Nat /\ turn \in Nat
    /\ onDir \in [Dirs -> Nat]

Init ==
    /\ NetInit /\ net = "off" /\ runDirs = << >>
    /\ main = "jitter" /\ avail = 0 /\ wg = 0
    /\ cpu = "off" /\ split = FALSE /\ cores = 0 /\ workers = 0
    /\ mem = "off" /\ held = 0 /\ others \in OtherLevels
    /\ pass = "off" /\ toWrite = 0 /\ written = 0 /\ turn = 0
    /\ onDir = [d \in Dirs |-> 0]

----------------------------------------------------------------------------
(* Run up to the phases.                                                   *)

\* jitterSleep: the delay passes, or the cancellation ends the cycle.
JitterSleep ==
    /\ main = "jitter"
    /\ main' \in IF cancelled /\ JitterMinutes > 0 THEN {"sample", "returned"} ELSE {"sample"}
    /\ UNCHANGED <<planVars, cancelled, runDirs, netVars, avail, wg, cpuVars, memVars, passVars>>

\* burnCores: the configured number of workers, or every core of the host.
BurnCores == IF ConfCores > 0 THEN ConfCores ELSE NumCPU

\* decideBusy: the utilization or the load average reaches its threshold.
DecideBusy(host) == host[1] >= BusyPercent \/ 10 * host[2] >= LoadFactor * BurnCores

\* The host is busy, or sampleLoad fails: the cycle is skipped.
SkipCycle ==
    /\ main = "sample"
    /\ cancelled \/ \E host \in HostLoads : DecideBusy(host)
    /\ main' = "returned"
    /\ UNCHANGED <<planVars, cancelled, runDirs, netVars, avail, wg, cpuVars, memVars, passVars>>

\* The host is idle; the sample keeps what memory is available now.
SampleLoad ==
    /\ main = "sample"
    /\ \E host \in HostLoads : ~DecideBusy(host)
    /\ avail' = MemTotal - others
    /\ main' = "dirs"
    /\ UNCHANGED <<planVars, cancelled, runDirs, netVars, wg, cpuVars, memVars, passVars>>

\* Roots are prepared, purged and gated, and run directories made (RunDirs).
MakeRunDirs ==
    /\ main = "dirs"
    /\ runDirs' \in DirLists
    /\ main' = "phases"
    /\ UNCHANGED <<planVars, cancelled, netVars, avail, wg, cpuVars, memVars, passVars>>

----------------------------------------------------------------------------
(* runPhases.                                                              *)

\* Unpinned, the number of workers varies from half the cores up.
BurnWorkers == IF ConfCores = 0 THEN (BurnCores + 1) \div 2 .. BurnCores ELSE {BurnCores}

WriteTotals ==
    IF WriteMB > 0 THEN RandInt64((WriteMB * 8) \div 10, (WriteMB * 12) \div 10) ELSE {0}

\* Mutant: no wg.Add for the write pass.
GroupSizeShort(n, w) == 2 + IF n = "off" THEN 0 ELSE 1

\* Mutant: wg.Add whether or not the goroutine is started.
GroupSizeAlways(n, w) == 4

\* wg.Add: the burn, the hold, the downloads n and the write pass w.
GroupSize(n, w) == 2 + (IF n = "off" THEN 0 ELSE 1) + (IF w = "off" THEN 0 ELSE 1)

\* The numbers of the cycle are drawn and its goroutines started.
StartPhases ==
    /\ main = "phases"
    /\ main' = "wait"
    /\ split' \in BOOLEAN
    /\ cores' \in BurnWorkers /\ workers' = cores' /\ cpu' = "burn"
    /\ mem' = "size"
    /\ net' = IF TotalMB > 0 THEN "plan" ELSE "off"
    /\ toWrite' \in WriteTotals
    /\ pass' = IF runDirs # << >> /\ toWrite' > 0 THEN "next" ELSE "off"
    /\ wg' = GroupSize(net', pass')
    /\ UNCHANGED <<planVars, cancelled, runDirs, task, file, stats, tried, avail,
                   held, others, written, turn, onDir>>

\* wg.Wait returns.
Return ==
    /\ main = "wait" /\ wg = 0
    /\ main' = "returned"
    /\ UNCHANGED <<planVars, cancelled, runDirs, netVars, avail, wg, cpuVars, memVars, passVars>>

\* The network goroutine; with its last step it leaves the group.
NetGoroutine ==
    /\ NetStep
    /\ wg' = IF net' = "over" THEN wg - 1 ELSE wg
    /\ UNCHANGED <<main, avail, cpuVars, memVars, passVars>>

----------------------------------------------------------------------------
(* The CPU goroutine.                                                      *)

\* A worker's deadline passes or it sees the cancellation.
WorkerEnds ==
    /\ cpu \in {"burn", "again"} /\ workers > 0
    /\ workers' = workers - 1
    /\ UNCHANGED <<planVars, cancelled, runDirs, netVars, main, avail, wg, cpu, split, cores,
                   memVars, passVars>>

\* burnCPU returns; a split burn has a second part.
BurnEnds ==
    /\ cpu \in {"burn", "again"} /\ workers = 0
    /\ IF cpu = "burn" /\ split THEN cpu' = "draw" /\ UNCHANGED wg
                                ELSE cpu' = "over" /\ wg' = wg - 1
    /\ UNCHANGED <<planVars, cancelled, runDirs, netVars, main, avail, split, cores, workers,
                   memVars, passVars>>

\* The length of the break is drawn from k.rng.
DrawPause ==
    /\ cpu = "draw"
    /\ cpu' = "pause"
    /\ UNCHANGED <<planVars, cancelled, runDirs, netVars, main, avail, wg, split, cores, workers,
                   memVars, passVars>>

\* The break is over, or the cancellation ends the burn.
BurnPause ==
    /\ cpu = "pause"
    /\ \/ cpu' = "again" /\ workers' = cores /\ UNCHANGED wg
       \/ cancelled /\ cpu' = "over" /\ wg' = wg - 1 /\ UNCHANGED workers
    /\ UNCHANGED <<planVars, cancelled, runDirs, netVars, main, avail, split, cores,
                   memVars, passVars>>

----------------------------------------------------------------------------
(* The memory goroutine.                                                   *)

Floor == (MemTotal * MinFreePercent) \div 100

\* Mutant: what is to stay free is not subtracted.
AllocationFull == IF avail < Floor THEN 0 ELSE Lesser((MemTotal * AllocPercent) \div 100, avail)

\* What exerciseMemory allocates: its share, scaled down to the headroom.
Allocation ==
    IF avail < Floor THEN 0 ELSE Lesser((MemTotal * AllocPercent) \div 100, avail - Floor)

\* Nothing worth allocating, or cancelled while the pages are touched.
SkipMemory ==
    /\ mem = "size"
    /\ Allocation < MemMin \/ Allocation = 0 \/ cancelled
    /\ mem' = "over" /\ wg' = wg - 1
    /\ UNCHANGED <<planVars, cancelled, runDirs, netVars, main, avail, cpuVars, held, others, passVars>>

TouchMemory ==
    /\ mem = "size"
    /\ Allocation >= MemMin /\ Allocation > 0
    /\ mem' = "hold" /\ held' = Allocation
    /\ UNCHANGED <<planVars, cancelled, runDirs, netVars, main, avail, wg, cpuVars, others, passVars>>

\* The hold is over or cancelled.
ReleaseMemory ==
    /\ mem = "hold"
    /\ mem' = "over" /\ held' = 0 /\ wg' = wg - 1
    /\ UNCHANGED <<planVars, cancelled, runDirs, netVars, main, avail, cpuVars, others, passVars>>

----------------------------------------------------------------------------
(* The write pass.                                                         *)

\* Mutant: the first directory takes every file.
TurnFirst == runDirs[1]

\* The directory of the next file.
Turn == runDirs[(turn % Len(runDirs)) + 1]

\* Another file: all of it or, if the disk fails in the middle, a part.
WriteFile ==
    /\ pass = "next" /\ ~cancelled /\ written < toWrite
    /\ \E n \in 1 .. Lesser(WriteChunk, toWrite - written) :
          /\ written' = written + n
          /\ onDir' = [onDir EXCEPT ![Turn] = @ + n]
    /\ turn' = turn + 1
    /\ UNCHANGED <<planVars, cancelled, runDirs, netVars, main, avail, wg, cpuVars, memVars,
                   pass, toWrite>>

\* Not one byte is written: the pass gives up, on every directory.
WriteRefused ==
    /\ pass = "next" /\ ~cancelled /\ written < toWrite
    /\ pass' = "refused" /\ wg' = wg - 1
    /\ UNCHANGED <<planVars, cancelled, runDirs, netVars, main, avail, cpuVars, memVars,
                   toWrite, written, turn, onDir>>

PassEnds ==
    /\ pass = "next"
    /\ cancelled \/ written >= toWrite
    /\ pass' = "over" /\ wg' = wg - 1
    /\ UNCHANGED <<planVars, cancelled, runDirs, netVars, main, avail, cpuVars, memVars,
                   toWrite, written, turn, onDir>>

----------------------------------------------------------------------------
(* The environment.                                                        *)

\* MaxRunDuration passes, or the daemon stops.
Cancel ==
    /\ ~cancelled /\ main # "returned"
    /\ cancelled' = TRUE
    /\ UNCHANGED <<planVars, runDirs, netVars, main, avail, wg, cpuVars, memVars, passVars>>

\* Other programs take memory or give it back, as long as it matters here.
OtherPrograms ==
    /\ main # "returned" /\ mem # "over"
    /\ others' \in OtherLevels \ {others}
    /\ UNCHANGED <<planVars, cancelled, runDirs, netVars, main, avail, wg, cpuVars, mem, held,
                   passVars>>

----------------------------------------------------------------------------
MainStep ==
    \/ JitterSleep
    \/ SkipCycle
    \/ SampleLoad
    \/ MakeRunDirs
    \/ StartPhases
    \/ Return

CpuStep == WorkerEnds \/ BurnEnds \/ DrawPause \/ BurnPause
MemStep == SkipMemory \/ TouchMemory \/ ReleaseMemory
PassStep == WriteFile \/ WriteRefused \/ PassEnds

Next ==
    \/ MainStep
    \/ NetGoroutine
    \/ CpuStep
    \/ MemStep
    \/ PassStep
    \/ Cancel
    \/ OtherPrograms

Spec == Init /\ [][Next]_vars

\* Goroutines run; timers, request timeouts and the deadlines of the workers
\* end what they wait for.
FairSpec ==
    /\ Spec
    /\ WF_vars(MainStep) /\ WF_vars(NetGoroutine)
    /\ WF_vars(CpuStep) /\ WF_vars(MemStep) /\ WF_vars(PassStep)

----------------------------------------------------------------------------
(* Properties.                                                             *)

\* Run does not return, and the directories are not cleaned up, while a
\* goroutine of the cycle is at work (the WaitGroup, keeper.go:226-275).
AllJoined ==
    main = "returned" => /\ cpu \in {"off", "over"} /\ mem \in {"off", "over"}
                         /\ net \in {"off", "over"} /\ pass \in {"off", "refused", "over"}
                         /\ workers = 0 /\ held = 0 /\ file = NoFile

\* The exercise leaves MinFreePercent of the memory free, unless other programs
\* use more than when the host was sampled, before the directories were
\* prepared (mem.go:19-21, keeper.go:81, 251).
FloorKept ==
    mem = "hold" /\ others <= MemTotal - avail => MemTotal - others - held >= Floor

\* A write pass that is neither cancelled nor refused writes all it was to
\* write, and to every directory if it has enough for one file each
\* (disk.go:203-205).
DisksShareTheLoad ==
    pass = "over" /\ ~cancelled =>
        /\ written = toWrite
        /\ toWrite > WriteChunk * (Len(runDirs) - 1) =>
              \A i \in 1 .. Len(runDirs) : onDir[runDirs[i]] > 0

\* What the downloads have written to the disk.
FileBytes == stats.total - stats.discarded + IF file.dir = NoDir THEN 0 ELSE file.bytes
NetMax == (TotalMB * 12) \div 10
WriteMax == (WriteMB * 12) \div 10
IO == INSTANCE CycleIO WITH
         running <- main = "wait",
         netLeft <- IF main = "wait" /\ runDirs # << >> THEN NetMax - FileBytes ELSE 0,
         diskLeft <- IF main = "wait" /\ pass # "off" THEN WriteMax - written ELSE 0,
         open <- IF file.dir = NoDir THEN 0 ELSE file.bytes

\* The phases implement CycleIO: nothing is written before they start or after
\* they are joined, one download file is open at a time, and neither writer
\* takes more than its share (keeper.go:226-275, net.go:177-276, disk.go:216-231).
SharesKept == IO!Spec

\* Every cycle returns, cancelled or not (keeper.go:274, app.go:150-152).
CycleReturns == <>(main = "returned")

DrawsForChunk(src) ==
    \/ Chunks(src) # {Room(src)}
    \/ \E want \in Chunks(src) : Offsets(src, want) # {0}

NetDraws ==
    \/ net = "pause"
    \/ net = "plan" /\ stage = "start" /\ ~Degenerate /\ Len(order) > 1
    \/ net = "plan" /\ Visiting /\ Room(order[at]) >= MinChunk /\ DrawsForChunk(order[at])

\* No two goroutines of a cycle draw from k.rng at the same time: a Keeper that is
\* used sequentially is safe (keeper.go:31-32, 237; net.go:100, 125-126, 192).
RngExclusive == ~(cpu = "draw" /\ NetDraws)
=============================================================================
