------------------------- MODULE TerminationProofs -------------------------
(***************************************************************************)
(* Why planning, downloads and a whole cycle end: every step of theirs     *)
(* lowers a rank in a well-founded order, whatever is drawn, configured,   *)
(* sent or cancelled.  That a goroutine which is not through gets to take  *)
(* its next step is left to the fairness of the runs.                      *)
(***************************************************************************)
EXTENDS CycleProofs, WellFoundedInduction

\* The lexicographic order on n natural numbers.
Lower(n) == LexProductOrdering(OpToRel(<, Nat), Nat, n)

\* There is no endless descent in it.
LEMMA NoEndlessDescent == ASSUME NEW n \in Nat PROVE IsWellFoundedOn(Lower(n), [1 .. n -> Nat])
  BY NatLessThanWellFounded, WFLexProductOrdering DEF Lower

\* What a step lowers, with everything before it unchanged.
LEMMA LowerAt ==
    ASSUME NEW n \in Nat, NEW f \in [1 .. n -> Nat], NEW g \in [1 .. n -> Nat], NEW j \in 1 .. n,
           f[j] < g[j], \A i \in 1 .. j - 1 : f[i] = g[i]
    PROVE  <<f, g>> \in Lower(n)
<1>1. <<f[j], g[j]>> \in OpToRel(<, Nat)
  BY DEF OpToRel
<1> QED
  BY <1>1 DEF Lower, LexProductOrdering

\* And only that.
LEMMA LowerPlace ==
    ASSUME NEW n \in Nat, NEW f, NEW g, <<f, g>> \in Lower(n)
    PROVE  \E j \in 1 .. n : f[j] < g[j] /\ \A i \in 1 .. j - 1 : f[i] = g[i]
<1>1. PICK j \in 1 .. n : /\ \A i \in 1 .. j - 1 : f[i] = g[i]
                          /\ <<f[j], g[j]>> \in OpToRel(<, Nat)
  BY DEF Lower, LexProductOrdering
<1>2. f[j] < g[j]
  BY <1>1 DEF OpToRel
<1> QED
  BY <1>1, <1>2

----------------------------------------------------------------------------
(* The network goroutine.                                                  *)

\* The planning: with every chunk the budget left, then the passes that can
\* still be productive, then the sources ahead in the pass.
PlanRank == <<2,
              CASE stage = "start" -> 2 [] stage = "pass" -> 1 [] OTHER -> 0,
              Greater(remaining, 0),
              IF progressed THEN 1 ELSE 0,
              Len(order) + 1 - at>>

\* The downloads: the tasks ahead, then the steps of the one at hand.
LoopRank == <<1,
              Len(tasks) - task,
              CASE net = "next" -> 3 [] net = "request" -> 2 [] net = "close" -> 1 [] OTHER -> 0,
              0, 0>>

NetRank ==
    CASE net = "plan"            -> PlanRank
      [] net \in {"off", "over"} -> <<0, 0, 0, 0, 0>>
      [] OTHER                   -> LoopRank

\* A tuple of numbers is a function.
LEMMA FiveNumbers ==
    ASSUME NEW a \in Nat, NEW b \in Nat, NEW c \in Nat, NEW d \in Nat, NEW e \in Nat
    PROVE  <<a, b, c, d, e>> \in [1 .. 5 -> Nat]
  OBVIOUS

\* The rank of the goroutine is five numbers.
LEMMA NetRankType == NetInv => NetRank \in [1 .. 5 -> Nat]
<1> SUFFICES ASSUME NetInv PROVE NetRank \in [1 .. 5 -> Nat]
  OBVIOUS
<1>1. /\ PlanTypeOK /\ NetTypeOK
      /\ tasks \in Seq(Task) /\ Len(tasks) \in Nat /\ Len(order) \in Nat
      /\ remaining \in Int /\ at \in 1 .. Len(order) + 1
  BY DEF NetInv, NetTypeOK, PlanTypeOK
<1>2. PlanRank \in [1 .. 5 -> Nat]
  <2>1. Greater(remaining, 0) \in Nat /\ Len(order) + 1 - at \in Nat
    BY <1>1 DEF Greater
  <2>2. (CASE stage = "start" -> 2 [] stage = "pass" -> 1 [] OTHER -> 0) \in Nat
    OBVIOUS
  <2> QED
    BY <2>1, <2>2, FiveNumbers DEF PlanRank
<1>3. ASSUME net \in {"next", "request", "close", "pause"} PROVE LoopRank \in [1 .. 5 -> Nat]
  <2>1. Len(tasks) - task \in Nat
    BY <1>1, <1>3 DEF NetTypeOK
  <2>2. (CASE net = "next" -> 3 [] net = "request" -> 2 [] net = "close" -> 1 [] OTHER -> 0) \in Nat
    OBVIOUS
  <2> QED
    BY <2>1, <2>2, FiveNumbers DEF LoopRank
<1>4. <<0, 0, 0, 0, 0>> \in [1 .. 5 -> Nat]
  BY FiveNumbers
<1>5. net \in {"off", "plan", "next", "request", "close", "pause", "over"}
  BY <1>1 DEF NetTypeOK
<1> QED
  BY <1>2, <1>3, <1>4, <1>5 DEF NetRank

\* The same of the next state.
LEMMA NetRankTypeNext == (NetInv => NetRank \in [1 .. 5 -> Nat])'
<1>1. NetInv => NetRank \in [1 .. 5 -> Nat]
  BY NetRankType
<1> QED
  BY <1>1, PTL

\* A tuple at its places.
LEMMA FivePlaces ==
    ASSUME NEW a, NEW b, NEW c, NEW d, NEW e, NEW f, f = <<a, b, c, d, e>>
    PROVE  f[1] = a /\ f[2] = b /\ f[3] = c /\ f[4] = d /\ f[5] = e
  OBVIOUS

\* A step of the planning: the first place that changes is lower.
LEMMA PlanStepLowers ==
    ASSUME NetInv, NetInv', PlanStep PROVE <<NetRank', NetRank>> \in Lower(5)
<1>0. /\ PlanTypeOK /\ remaining \in Int /\ Len(order) \in Nat /\ at \in 1 .. Len(order) + 1
      /\ MinChunk \in Nat \ {0} /\ net = "plan" /\ net' = "plan" /\ PlanNext
  <2>1. PlanTypeOK /\ net = "plan" /\ net' = "plan" /\ PlanNext
    BY DEF NetInv, NetTypeOK, PlanStep, netVars
  <2> QED
    BY <2>1, PlanAssumption DEF PlanTypeOK
<1>1. PICK f \in [1 .. 5 -> Nat], g \in [1 .. 5 -> Nat] : f = NetRank' /\ g = NetRank
  BY NetRankType, NetRankTypeNext
<1>2. f = PlanRank' /\ g = PlanRank
  BY <1>0, <1>1 DEF NetRank
<1>3. /\ g[1] = 2 /\ g[3] = Greater(remaining, 0) /\ g[4] = (IF progressed THEN 1 ELSE 0)
      /\ g[5] = Len(order) + 1 - at
      /\ (stage = "start" => g[2] = 2) /\ (stage = "pass" => g[2] = 1)
      /\ (stage = "planned" => g[2] = 0)
  BY <1>2, FivePlaces DEF PlanRank
<1>4. /\ f[1] = 2 /\ f[3] = Greater(remaining', 0) /\ f[4] = (IF progressed' THEN 1 ELSE 0)
      /\ f[5] = Len(order') + 1 - at'
      /\ (stage' = "start" => f[2] = 2) /\ (stage' = "pass" => f[2] = 1)
      /\ (stage' = "planned" => f[2] = 0)
  BY <1>2, FivePlaces DEF PlanRank, Greater
<1>5. \E j \in 1 .. 5 : f[j] < g[j] /\ \A i \in 1 .. j - 1 : f[i] = g[i]
  <2>1. CASE BeginPlan
    <3>1. f[2] < g[2]
      BY <1>3, <1>4, <2>1 DEF BeginPlan
    <3> QED
      BY <1>3, <1>4, <3>1
  <2>2. CASE SkipSource
    <3>1. /\ stage = "pass" /\ at' = at + 1
          /\ UNCHANGED <<stage, order, progressed, remaining>>
      BY <2>2 DEF SkipSource, Visiting
    <3>2. f[2] = g[2] /\ f[3] = g[3] /\ f[4] = g[4]
      BY <1>3, <1>4, <3>1
    <3>3. f[5] < g[5]
      BY <1>0, <1>3, <1>4, <3>1
    <3> QED
      BY <1>3, <1>4, <3>2, <3>3
  <2>3. CASE TakeChunk
    <3>1. PICK want \in Chunks(order[at]) :
              \E off \in Offsets(order[at], want) : PlanChunk(order[at], want, off)
      BY <2>3 DEF TakeChunk
    <3>2. stage = "pass" /\ stage' = stage /\ remaining' = remaining - want /\ remaining > 0
      BY <2>3, <3>1 DEF TakeChunk, Visiting, PlanChunk
    <3>3. order[at] \in Source /\ Room(order[at]) >= MinChunk
      <4>1. order \in Seq(Source)
        BY <1>0 DEF PlanTypeOK
      <4>2. at \in 1 .. Len(order)
        <5>1. at <= Len(order) /\ at \in 1 .. Len(order) + 1 /\ Len(order) \in Nat
          BY <1>0, <2>3 DEF TakeChunk, Visiting
        <5> QED
          BY <5>1
      <4>3. Room(order[at]) >= MinChunk
        BY <2>3 DEF TakeChunk
      <4> QED
        BY <4>1, <4>2, <4>3
    <3>4. want \in Nat \ {0} /\ want <= remaining
      <4>1. want \in Nat /\ want >= MinChunk /\ want <= Room(order[at])
        BY <1>0, <3>1, <3>3, ChunkFits
      <4>2. Room(order[at]) \in Int /\ Room(order[at]) <= remaining
        BY <1>0, <3>3, RoomBounds
      <4>3. MinChunk \in Nat \ {0} /\ remaining \in Int
        BY <1>0
      <4> QED
        BY <4>1, <4>2, <4>3
    <3>5. f[2] = g[2]
      BY <1>3, <1>4, <3>2
    <3>6. f[3] < g[3]
      <4>1. remaining \in Int /\ want \in Nat \ {0} /\ remaining > 0 /\ want <= remaining
        BY <1>0, <3>2, <3>4
      <4>2. Greater(remaining - want, 0) < Greater(remaining, 0)
        BY <4>1 DEF Greater
      <4>3. f[3] = Greater(remaining - want, 0) /\ g[3] = Greater(remaining, 0)
        BY <1>3, <1>4, <3>2
      <4> QED
        BY <4>2, <4>3
    <3> QED
      BY <1>3, <1>4, <3>5, <3>6
  <2>4. CASE EndPass
    <3>1. stage = "pass" /\ remaining' = remaining
      BY <2>4 DEF EndPass, PassOver
    <3>2. CASE remaining > 0 /\ progressed
      <4>1. stage' = "pass" /\ ~progressed'
        BY <2>4, <3>1, <3>2 DEF EndPass
      <4>2. f[2] = g[2] /\ f[3] = g[3] /\ f[4] < g[4]
        BY <1>3, <1>4, <3>1, <3>2, <4>1
      <4> QED
        BY <1>3, <1>4, <4>2
    <3>3. CASE ~(remaining > 0 /\ progressed)
      <4>1. stage' = "planned"
        BY <2>4, <3>3 DEF EndPass
      <4>2. f[2] < g[2]
        BY <1>3, <1>4, <3>1, <4>1
      <4> QED
        BY <1>3, <1>4, <4>2
    <3> QED
      BY <3>2, <3>3
  <2> QED
    BY <1>0, <2>1, <2>2, <2>3, <2>4 DEF PlanNext
<1> QED
  BY <1>1, <1>5, LowerAt

\* A step of the downloads.
LEMMA NetStepLowers ==
    ASSUME NetInv, NetInv', NetStep PROVE <<NetRank', NetRank>> \in Lower(5)
<1>1. CASE PlanStep
  BY <1>1, PlanStepLowers
<1>2. CASE ~PlanStep
  <2>0. /\ NetTypeOK /\ tasks \in Seq(Task) /\ Len(tasks) \in Nat /\ tasks' = tasks
        /\ net' \in {"next", "request", "close", "pause", "over"}
    <3>1. tasks' = tasks
      BY <1>2 DEF NetStep, BeginDownloads, NextTask, RequestFails, Receive, FinishDownload,
         Pause, planVars
    <3>2. net' \in {"next", "request", "close", "pause", "over"}
      BY <1>2 DEF NetStep, BeginDownloads, NextTask, RequestFails, Receive, FinishDownload,
         Pause, AfterTask
    <3>3. NetTypeOK
      BY DEF NetInv
    <3>4. tasks \in Seq(Task)
      BY <3>3 DEF NetTypeOK, PlanTypeOK
    <3>5. Len(tasks) \in Nat
      BY <3>4
    <3> QED
      BY <3>1, <3>2, <3>3, <3>4, <3>5
  <2>1. PICK f \in [1 .. 5 -> Nat], g \in [1 .. 5 -> Nat] : f = NetRank' /\ g = NetRank
    BY NetRankType, NetRankTypeNext
  <2>2. /\ net = "plan" => g[1] = 2
        /\ net \in {"next", "request", "close", "pause"} =>
              /\ g[1] = 1 /\ g[2] = Len(tasks) - task
              /\ (net = "next" => g[3] = 3) /\ (net = "request" => g[3] = 2)
              /\ (net = "close" => g[3] = 1) /\ (net = "pause" => g[3] = 0)
    <3>1. net = "plan" => g = PlanRank
      BY <2>1 DEF NetRank
    <3>2. net \in {"next", "request", "close", "pause"} => g = LoopRank
      BY <2>1 DEF NetRank
    <3> QED
      BY <3>1, <3>2, FivePlaces DEF PlanRank, LoopRank
  <2>3. /\ net' = "over" => f[1] = 0
        /\ net' \in {"next", "request", "close", "pause"} =>
              /\ f[1] = 1 /\ f[2] = Len(tasks) - task'
              /\ (net' = "next" => f[3] = 3) /\ (net' = "request" => f[3] = 2)
              /\ (net' = "close" => f[3] = 1) /\ (net' = "pause" => f[3] = 0)
    <3>1. net' = "over" => f = <<0, 0, 0, 0, 0>>
      BY <2>1 DEF NetRank
    <3>2. net' \in {"next", "request", "close", "pause"} => f = LoopRank'
      BY <2>1 DEF NetRank
    <3> QED
      BY <2>0, <3>1, <3>2, FivePlaces DEF LoopRank
  <2>4. \E j \in 1 .. 5 : f[j] < g[j] /\ \A i \in 1 .. j - 1 : f[i] = g[i]
    <3>1. CASE BeginDownloads
      <4>1. f[1] < g[1]
        BY <2>2, <2>3, <3>1 DEF BeginDownloads
      <4> QED
        BY <4>1
    <3>2. CASE net \in {"next", "request", "close", "pause"} /\ net' = "over"
      <4>1. f[1] < g[1]
        BY <2>2, <2>3, <3>2
      <4> QED
        BY <4>1
    <3>3. CASE /\ <<net, net'>> \in {<<"next", "request">>, <<"request", "close">>,
                                     <<"request", "pause">>, <<"close", "pause">>}
               /\ task' = task
      <4>1. f[1] = g[1] /\ f[2] = g[2] /\ f[3] < g[3]
        BY <2>2, <2>3, <3>3
      <4> QED
        BY <4>1
    <3>4. CASE Pause
      <4>1. task \in Int /\ net = "pause" /\ net' = "next" /\ task' = task + 1
        BY <2>0, <3>4 DEF Pause, NetTypeOK
      <4>2. f[1] = g[1] /\ f[2] < g[2]
        BY <2>0, <2>2, <2>3, <4>1
      <4> QED
        BY <4>2
    <3>5. CASE NextTask \/ RequestFails \/ Receive \/ FinishDownload
      BY <3>2, <3>3, <3>5 DEF NextTask, RequestFails, Receive, FinishDownload, AfterTask
    <3> QED
      BY <1>2, <3>1, <3>4, <3>5 DEF NetStep
  <2> QED
    BY <2>1, <2>4, LowerAt
<1> QED
  BY <1>1, <1>2

\* The same, place by place.
LEMMA NetStepPlace ==
    ASSUME NetInv, NetInv', NetStep
    PROVE  \E j \in 1 .. 5 : NetRank'[j] < NetRank[j] /\ \A i \in 1 .. j - 1 : NetRank'[i] = NetRank[i]
<1>1. PICK f, g : f = NetRank' /\ g = NetRank
  OBVIOUS
<1>2. <<f, g>> \in Lower(5)
  BY <1>1, NetStepLowers
<1>3. PICK j \in 1 .. 5 : f[j] < g[j] /\ \A i \in 1 .. j - 1 : f[i] = g[i]
  BY <1>2, LowerPlace
<1> QED
  BY <1>1, <1>3

\* The network goroutine runs out of steps, whatever the budget, the caps, the
\* sources, the servers' answers and the moment of a cancellation: each of its
\* steps goes down in an order without endless descent, and a cancellation does
\* not set it back (net.go:105-143, 177-199).
THEOREM DownloadsRunOut ==
    /\ IsWellFoundedOn(Lower(5), [1 .. 5 -> Nat])
    /\ NetSpec => [](NetRank \in [1 .. 5 -> Nat])
    /\ NetSpec => [][\/ NetStep /\ <<NetRank', NetRank>> \in Lower(5)
                     \/ CancelNet /\ NetRank' = NetRank]_downVars
<1>1. IsWellFoundedOn(Lower(5), [1 .. 5 -> Nat])
  BY NoEndlessDescent
<1>2. NetInv => NetRank \in [1 .. 5 -> Nat]
  BY NetRankType
<1>3. NetInv /\ NetInv' /\ [NetStep \/ CancelNet]_downVars =>
          [\/ NetStep /\ <<NetRank', NetRank>> \in Lower(5)
           \/ CancelNet /\ NetRank' = NetRank]_downVars
  <2>1. CancelNet => NetRank' = NetRank
    BY DEF CancelNet, NetRank, PlanRank, LoopRank, planVars, netVars, Greater
  <2> QED
    BY <2>1, NetStepLowers
<1>4. NetSpec => []NetInv
  BY NetInvHolds
<1> QED
  BY <1>1, <1>2, <1>3, <1>4, PTL DEF NetSpec

----------------------------------------------------------------------------
(* The whole cycle.                                                        *)

MainRank ==
    CASE main = "jitter" -> 5 [] main = "sample" -> 4 [] main = "dirs" -> 3
      [] main = "phases" -> 2 [] main = "wait" -> 1 [] OTHER -> 0

\* The stages of the burn, then its workers.
CpuRank ==
    CASE cpu = "burn" -> 4 [] cpu = "draw" -> 3 [] cpu = "pause" -> 2
      [] cpu = "again" -> 1 [] OTHER -> 0

MemRank == CASE mem = "size" -> 2 [] mem = "hold" -> 1 [] OTHER -> 0

\* The write pass, then what it has yet to write.
PassRank == IF pass = "next" THEN 1 ELSE 0
PassLeft == Greater(toWrite - written, 0)

CycleRank == <<MainRank, CpuRank, workers, MemRank, PassRank, PassLeft,
               NetRank[1], NetRank[2], NetRank[3], NetRank[4], NetRank[5]>>

\* Tuples of eleven likewise.
LEMMA ElevenNumbers ==
    ASSUME NEW a \in Nat, NEW b \in Nat, NEW c \in Nat, NEW d \in Nat, NEW e \in Nat,
           NEW f \in Nat, NEW g \in Nat, NEW h \in Nat, NEW i \in Nat, NEW j \in Nat, NEW k \in Nat
    PROVE  <<a, b, c, d, e, f, g, h, i, j, k>> \in [1 .. 11 -> Nat]
  OBVIOUS

LEMMA ElevenPlaces ==
    ASSUME NEW a, NEW b, NEW c, NEW d, NEW e, NEW f, NEW g, NEW h, NEW i, NEW j, NEW k,
           NEW t, t = <<a, b, c, d, e, f, g, h, i, j, k>>
    PROVE  /\ t[1] = a /\ t[2] = b /\ t[3] = c /\ t[4] = d /\ t[5] = e /\ t[6] = f
           /\ t[7] = g /\ t[8] = h /\ t[9] = i /\ t[10] = j /\ t[11] = k
  OBVIOUS

\* The rank of a cycle is eleven numbers.
LEMMA CycleRankType == CycleInv => CycleRank \in [1 .. 11 -> Nat]
<1> SUFFICES ASSUME CycleInv PROVE CycleRank \in [1 .. 11 -> Nat]
  OBVIOUS
<1>1. MainRank \in Nat
  BY DEF MainRank
<1>2. CpuRank \in Nat
  BY DEF CpuRank
<1>3. MemRank \in Nat /\ PassRank \in Nat
  BY DEF MemRank, PassRank
<1>4. workers \in Nat /\ PassLeft \in Nat
  BY DEF CycleInv, TypeOK, PassLeft, Greater
<1>5. NetRank \in [1 .. 5 -> Nat]
  BY NetRankType DEF CycleInv
<1>6. /\ NetRank[1] \in Nat /\ NetRank[2] \in Nat /\ NetRank[3] \in Nat
      /\ NetRank[4] \in Nat /\ NetRank[5] \in Nat
  BY <1>5
<1> QED
  BY <1>1, <1>2, <1>3, <1>4, <1>6, ElevenNumbers DEF CycleRank

\* The same of the next state.
LEMMA CycleRankTypeNext == (CycleInv => CycleRank \in [1 .. 11 -> Nat])'
<1>1. CycleInv => CycleRank \in [1 .. 11 -> Nat]
  BY CycleRankType
<1> QED
  BY <1>1, PTL

\* The ranks before and after a step.
LEMMA CycleRanks ==
    ASSUME CycleInv, CycleInv'
    PROVE  \E f, g \in [1 .. 11 -> Nat] :
              /\ f = CycleRank' /\ g = CycleRank
              /\ f[1] = MainRank' /\ f[2] = CpuRank' /\ f[3] = workers' /\ f[4] = MemRank'
              /\ f[5] = PassRank' /\ f[6] = PassLeft'
              /\ g[1] = MainRank /\ g[2] = CpuRank /\ g[3] = workers /\ g[4] = MemRank
              /\ g[5] = PassRank /\ g[6] = PassLeft
              /\ \A j \in 1 .. 5 : f[j + 6] = NetRank'[j] /\ g[j + 6] = NetRank[j]
<1>1. PICK f \in [1 .. 11 -> Nat], g \in [1 .. 11 -> Nat] : f = CycleRank' /\ g = CycleRank
  BY CycleRankType, CycleRankTypeNext
<1>2. /\ g[1] = MainRank /\ g[2] = CpuRank /\ g[3] = workers /\ g[4] = MemRank
      /\ g[5] = PassRank /\ g[6] = PassLeft /\ g[7] = NetRank[1] /\ g[8] = NetRank[2]
      /\ g[9] = NetRank[3] /\ g[10] = NetRank[4] /\ g[11] = NetRank[5]
  BY <1>1, ElevenPlaces DEF CycleRank
<1>3. /\ f[1] = MainRank' /\ f[2] = CpuRank' /\ f[3] = workers' /\ f[4] = MemRank'
      /\ f[5] = PassRank' /\ f[6] = PassLeft' /\ f[7] = NetRank'[1] /\ f[8] = NetRank'[2]
      /\ f[9] = NetRank'[3] /\ f[10] = NetRank'[4] /\ f[11] = NetRank'[5]
  BY <1>1, ElevenPlaces DEF CycleRank
<1>4. \A j \in 1 .. 5 : f[j + 6] = NetRank'[j] /\ g[j + 6] = NetRank[j]
  <2>1. \A j \in 1 .. 5 : j = 1 \/ j = 2 \/ j = 3 \/ j = 4 \/ j = 5
    OBVIOUS
  <2> QED
    BY <1>2, <1>3, <2>1
<1> QED
  BY <1>1, <1>2, <1>3, <1>4

\* What no goroutine but Run's touches, and the like for the others.
LEMMA RanksUnchanged ==
    /\ main' = main => MainRank' = MainRank
    /\ cpu' = cpu => CpuRank' = CpuRank
    /\ mem' = mem => MemRank' = MemRank
    /\ pass' = pass => PassRank' = PassRank
    /\ UNCHANGED <<toWrite, written>> => PassLeft' = PassLeft
    /\ UNCHANGED <<planVars, netVars>> => NetRank' = NetRank
  BY DEF MainRank, CpuRank, MemRank, PassRank, PassLeft, NetRank, PlanRank, LoopRank,
     Greater, planVars, netVars

\* A step of Run comes nearer to its return.
LEMMA MainStepLowers == MainStep => MainRank' < MainRank
  BY DEF MainStep, JitterSleep, SkipCycle, SampleLoad, MakeRunDirs, StartPhases, Return, MainRank

\* A step of the burn ends a worker or comes nearer to the end of the burn.
LEMMA CpuStepLowers ==
    ASSUME TypeOK, CpuStep
    PROVE  /\ main' = main
           /\ \/ CpuRank' < CpuRank
              \/ CpuRank' = CpuRank /\ workers' < workers
<1>1. main' = main
  BY DEF CpuStep, WorkerEnds, BurnEnds, DrawPause, BurnPause
<1>2. CASE WorkerEnds
  <2>1. cpu' = cpu /\ workers' = workers - 1 /\ workers \in Nat
    BY <1>2 DEF WorkerEnds, TypeOK
  <2>2. CpuRank' = CpuRank
    BY <2>1, RanksUnchanged
  <2> QED
    BY <1>1, <2>1, <2>2
<1>3. CASE BurnEnds
  BY <1>1, <1>3 DEF BurnEnds, CpuRank
<1>4. CASE DrawPause
  BY <1>1, <1>4 DEF DrawPause, CpuRank
<1>5. CASE BurnPause
  BY <1>1, <1>5 DEF BurnPause, CpuRank
<1> QED
  BY <1>2, <1>3, <1>4, <1>5 DEF CpuStep

\* So does a step of the memory hold.
LEMMA MemStepLowers ==
    MemStep => UNCHANGED <<main, cpuVars>> /\ MemRank' < MemRank
  BY DEF MemStep, SkipMemory, TouchMemory, ReleaseMemory, MemRank

\* A step of the write pass ends it or writes some of what is left.
LEMMA PassStepLowers ==
    ASSUME TypeOK, PassStep
    PROVE  /\ UNCHANGED <<main, cpuVars, memVars>>
           /\ \/ PassRank' < PassRank
              \/ PassRank' = PassRank /\ PassLeft' < PassLeft
<1>1. UNCHANGED <<main, cpuVars, memVars>>
  BY DEF PassStep, WriteFile, WriteRefused, PassEnds
<1>2. CASE WriteFile
  <2>1. /\ pass' = pass /\ toWrite' = toWrite /\ written < toWrite
        /\ toWrite \in Nat /\ written \in Nat /\ WriteChunk \in Nat
    BY <1>2, CycleAssumption DEF WriteFile, TypeOK, passVars
  <2>2. PICK n \in 1 .. Lesser(WriteChunk, toWrite - written) : written' = written + n
    BY <1>2 DEF WriteFile
  <2>3. n \in Nat /\ 1 <= n /\ n <= toWrite - written
    BY <2>1, <2>2 DEF Lesser
  <2>4. PassLeft' < PassLeft
    BY <2>1, <2>2, <2>3 DEF PassLeft, Greater
  <2> QED
    BY <1>1, <2>1, <2>4, RanksUnchanged
<1>3. CASE WriteRefused \/ PassEnds
  BY <1>1, <1>3 DEF WriteRefused, PassEnds, PassRank
<1> QED
  BY <1>2, <1>3 DEF PassStep

\* A step of any goroutine: the first place that changes is lower.
LEMMA GoroutineLowers ==
    ASSUME CycleInv, CycleInv', MainStep \/ NetGoroutine \/ CpuStep \/ MemStep \/ PassStep
    PROVE  <<CycleRank', CycleRank>> \in Lower(11)
<1>0. TypeOK /\ NetInv /\ NetInv'
  BY DEF CycleInv
<1>1. PICK f \in [1 .. 11 -> Nat], g \in [1 .. 11 -> Nat] :
              /\ f = CycleRank' /\ g = CycleRank
              /\ f[1] = MainRank' /\ f[2] = CpuRank' /\ f[3] = workers' /\ f[4] = MemRank'
              /\ f[5] = PassRank' /\ f[6] = PassLeft'
              /\ g[1] = MainRank /\ g[2] = CpuRank /\ g[3] = workers /\ g[4] = MemRank
              /\ g[5] = PassRank /\ g[6] = PassLeft
              /\ \A j \in 1 .. 5 : f[j + 6] = NetRank'[j] /\ g[j + 6] = NetRank[j]
  BY CycleRanks
<1>2. \E j \in 1 .. 11 : f[j] < g[j] /\ \A i \in 1 .. j - 1 : f[i] = g[i]
  <2>1. CASE MainStep
    <3>1. f[1] < g[1]
      BY <1>1, <2>1, MainStepLowers
    <3> QED
      BY <3>1
  <2>2. CASE CpuStep
    <3>0. /\ main' = main
          /\ \/ CpuRank' < CpuRank
             \/ CpuRank' = CpuRank /\ workers' < workers
      BY <1>0, <2>2, CpuStepLowers
    <3>1. f[1] = g[1] /\ (f[2] < g[2] \/ (f[2] = g[2] /\ f[3] < g[3]))
      BY <1>1, <3>0, RanksUnchanged
    <3> QED
      BY <3>1
  <2>3. CASE MemStep
    <3>1. f[1] = g[1] /\ f[2] = g[2] /\ f[3] = g[3] /\ f[4] < g[4]
      BY <1>1, <2>3, MemStepLowers, RanksUnchanged DEF cpuVars
    <3> QED
      BY <3>1
  <2>4. CASE PassStep
    <3>1. /\ f[1] = g[1] /\ f[2] = g[2] /\ f[3] = g[3] /\ f[4] = g[4]
          /\ (f[5] < g[5] \/ (f[5] = g[5] /\ f[6] < g[6]))
      <4>1. /\ UNCHANGED <<main, cpuVars, memVars>>
            /\ \/ PassRank' < PassRank
               \/ PassRank' = PassRank /\ PassLeft' < PassLeft
        BY <1>0, <2>4, PassStepLowers
      <4> QED
        BY <1>1, <4>1, RanksUnchanged DEF cpuVars, memVars
    <3> QED
      BY <3>1
  <2>5. CASE NetGoroutine
    <3>1. \A i \in 1 .. 6 : f[i] = g[i]
      <4>1. UNCHANGED <<main, cpu, workers, mem, pass, toWrite, written>>
        BY <2>5 DEF NetGoroutine, cpuVars, memVars, passVars
      <4>2. /\ f[1] = g[1] /\ f[2] = g[2] /\ f[3] = g[3]
            /\ f[4] = g[4] /\ f[5] = g[5] /\ f[6] = g[6]
        BY <1>1, <4>1, RanksUnchanged
      <4> QED
        BY <4>2
    <3>2. NetStep
      BY <2>5 DEF NetGoroutine
    <3>3. PICK j \in 1 .. 5 : /\ NetRank'[j] < NetRank[j]
                              /\ \A i \in 1 .. j - 1 : NetRank'[i] = NetRank[i]
      BY <1>0, <3>2, NetStepPlace
    <3>4. f[j + 6] < g[j + 6]
      BY <1>1, <3>3
    <3>5. \A i \in 1 .. (j + 6) - 1 : f[i] = g[i]
      <4>1. ASSUME NEW i \in 1 .. j - 1 PROVE f[i + 6] = g[i + 6]
        <5>1. i \in 1 .. 5 /\ NetRank'[i] = NetRank[i]
          BY <3>3
        <5> QED
          BY <1>1, <5>1
      <4>2. ASSUME NEW i \in 7 .. (j + 6) - 1 PROVE f[i] = g[i]
        <5>1. i - 6 \in 1 .. j - 1 /\ (i - 6) + 6 = i
          OBVIOUS
        <5> QED
          BY <4>1, <5>1
      <4> QED
        BY <3>1, <4>2
    <3>6. j + 6 \in 1 .. 11
      OBVIOUS
    <3> QED
      BY <3>4, <3>5, <3>6
  <2> QED
    BY <2>1, <2>2, <2>3, <2>4, <2>5
<1> QED
  BY <1>1, <1>2, LowerAt

\* A cycle runs out of steps of its own, whatever is configured, drawn, sent,
\* refused or cancelled: each step of Run or of a goroutine goes down in an order
\* without endless descent, and neither a cancellation nor what other programs do
\* with the memory sets it back (keeper.go:66-126, 188-275).
THEOREM CycleRunsOut ==
    /\ IsWellFoundedOn(Lower(11), [1 .. 11 -> Nat])
    /\ Spec => [](CycleRank \in [1 .. 11 -> Nat])
    /\ Spec => [][\/ /\ MainStep \/ NetGoroutine \/ CpuStep \/ MemStep \/ PassStep
                     /\ <<CycleRank', CycleRank>> \in Lower(11)
                  \/ (Cancel \/ OtherPrograms) /\ CycleRank' = CycleRank]_vars
<1>1. IsWellFoundedOn(Lower(11), [1 .. 11 -> Nat])
  BY NoEndlessDescent
<1>2. CycleInv => CycleRank \in [1 .. 11 -> Nat]
  BY CycleRankType
<1>3. CycleInv /\ CycleInv' /\ [Next]_vars =>
          [\/ /\ MainStep \/ NetGoroutine \/ CpuStep \/ MemStep \/ PassStep
              /\ <<CycleRank', CycleRank>> \in Lower(11)
           \/ (Cancel \/ OtherPrograms) /\ CycleRank' = CycleRank]_vars
  <2>1. ASSUME Cancel \/ OtherPrograms PROVE CycleRank' = CycleRank
    <3>1. UNCHANGED <<planVars, netVars, main, cpu, workers, mem, pass, toWrite, written>>
      BY <2>1 DEF Cancel, OtherPrograms, cpuVars, memVars, passVars
    <3> QED
      BY <3>1, RanksUnchanged DEF CycleRank
  <2> QED
    BY <2>1, GoroutineLowers DEF Next
<1>4. Spec => []CycleInv
  BY CycleInvHolds
<1> QED
  BY <1>1, <1>2, <1>3, <1>4, PTL DEF Spec
=============================================================================
