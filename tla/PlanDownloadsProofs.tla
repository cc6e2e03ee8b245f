------------------------ MODULE PlanDownloadsProofs ------------------------
(***************************************************************************)
(* Proofs about PlanDownloads.  PlanInv is inductive: beside the types it  *)
(* says of a pass that has planned nothing that the sources already        *)
(* visited have no room, which is what ends the planning.                  *)
(***************************************************************************)
EXTENDS PlanDownloads, TLAPS

\* What is planned for a name never exceeds the cap, nor what is planned for
\* all of them the budget.
WithinCaps ==
    /\ \A n \in Names : used[n] <= Greater(HostCap, 0)
    /\ remaining >= Lesser(budget, 0) /\ remaining <= budget

Untouched == stage = "start" => at = 1 /\ ~progressed

SweptSoFar ==
    stage = "pass" /\ ~progressed => \A i \in 1 .. at - 1 : Room(order[i]) < MinChunk

PlanInv ==
    /\ PlanTypeOK
    /\ RangesInside
    /\ WithinCaps
    /\ Untouched
    /\ SweptSoFar
    /\ PlanIsMaximal

----------------------------------------------------------------------------
(* The operators the plan is built from.                                   *)

\* A shuffle of a list of sources is a list of sources.
LEMMA ShufflesAreLists ==
    ASSUME NEW list \in Seq(Source), NEW order0 \in Shuffles(list)
    PROVE  order0 \in Seq(Source)
<1>1. PICK p \in Bijection(1 .. Len(list), 1 .. Len(list)) :
        order0 = [i \in 1 .. Len(list) |-> list[p[i]]]
  BY DEF Shuffles
<1>2. p \in [1 .. Len(list) -> 1 .. Len(list)]
  BY <1>1 DEF Bijection, Injection
<1>3. order0 \in [1 .. Len(list) -> Source]
  BY <1>1, <1>2
<1> QED
  BY <1>3

\* An override or the built-in list is a list of sources.
LEMMA ResolvedSources ==
    ASSUME NEW specs \in SpecLists
    PROVE  ResolveSources(specs) \in Seq(Source)
<1>1. specs \in Seq(Names) /\ Builtin \in Seq(Source)
  BY PlanAssumption
<1>2. ParseSources(specs) \in [1 .. Len(specs) -> Source]
  BY <1>1 DEF ParseSources, Source
<1>3. ParseSources(specs) \in Seq(Source)
  BY <1>1, <1>2
<1> QED
  BY <1>1, <1>3 DEF ResolveSources

\* The room of a source is an integer within the budget left, the cap left and
\* the size of the source.
LEMMA RoomBounds ==
    ASSUME PlanTypeOK, NEW src \in Source
    PROVE  /\ Room(src) \in Int
           /\ Room(src) <= remaining
           /\ Room(src) <= HostCap - used[src.name]
           /\ Fixed(src) => Room(src) <= src.approxB
<1>1. used[src.name] \in Nat /\ src.approxB \in Nat /\ HostCap \in Int /\ remaining \in Int
  BY PlanAssumption DEF PlanTypeOK, Source
<1> QED
  BY <1>1 DEF Room, Lesser, Fixed

\* A chunk is at least the minimum and fits the room.
LEMMA ChunkFits ==
    ASSUME PlanTypeOK, NEW src \in Source, Room(src) >= MinChunk, NEW want \in Chunks(src)
    PROVE  want \in Nat /\ want >= MinChunk /\ want <= Room(src)
<1>1. Room(src) \in Int /\ MinChunk \in Nat \ {0}
  BY RoomBounds, PlanAssumption
<1>2. (Room(src) * 2) \div 5 \in Int /\ (Room(src) * 2) \div 5 <= Room(src)
  BY <1>1
<1>3. CASE Fixed(src)
  <2>1. want \in RandInt64(Greater(MinChunk, (Room(src) * 2) \div 5), Room(src))
    BY <1>3 DEF Chunks
  <2>2. Greater(MinChunk, (Room(src) * 2) \div 5) \in MinChunk .. Room(src)
    BY <1>1, <1>2 DEF Greater
  <2> QED
    BY <1>1, <2>1, <2>2 DEF RandInt64, Greater
<1>4. CASE ~Fixed(src)
  BY <1>1, <1>4 DEF Chunks
<1> QED
  BY <1>3, <1>4

\* A range that starts at one of the offsets stays inside the file.
LEMMA OffsetInside ==
    ASSUME PlanTypeOK, NEW src \in Source, NEW want \in Nat, want <= Room(src),
           NEW off \in Offsets(src, want)
    PROVE  off \in Nat /\ (Fixed(src) => off + want <= src.approxB)
<1>1. src.approxB \in Nat /\ Room(src) \in Int
  BY RoomBounds DEF Source
<1>2. CASE Fixed(src)
  <2>1. Room(src) <= src.approxB
    BY <1>2, RoomBounds
  <2>2. off \in RandInt64(0, src.approxB - want)
    BY <1>2 DEF Offsets
  <2> QED
    BY <1>1, <2>1, <2>2 DEF RandInt64, Greater
<1>3. CASE ~Fixed(src)
  BY <1>3 DEF Offsets
<1> QED
  BY <1>2, <1>3

----------------------------------------------------------------------------
(* The invariant.                                                          *)

\* It holds before the planning.
LEMMA PlanInvInit == PlanInit => PlanInv
<1> SUFFICES ASSUME PlanInit PROVE PlanInv
  OBVIOUS
<1>1. order \in Seq(Source)
  BY ShufflesAreLists, ResolvedSources DEF PlanInit
<1>2. budget \in Int /\ remaining = budget /\ tasks = << >>
  BY PlanAssumption DEF PlanInit
<1>3. PlanTypeOK
  <2>1. Len(order) \in Nat /\ tasks \in Seq(Task)
    BY <1>1, <1>2
  <2>2. used \in [Names -> Nat]
    BY DEF PlanInit
  <2>3. at \in 1 .. Len(order) + 1
    BY <2>1 DEF PlanInit
  <2> QED
    BY <1>1, <1>2, <2>1, <2>2, <2>3 DEF PlanInit, PlanTypeOK
<1>4. RangesInside
  BY <1>2 DEF RangesInside
<1>5. WithinCaps
  BY <1>2, PlanAssumption DEF PlanInit, WithinCaps, Greater, Lesser
<1> QED
  BY <1>3, <1>4, <1>5 DEF PlanInit, PlanInv, Untouched, SweptSoFar, PlanIsMaximal

\* Every step of the planning keeps it.
LEMMA PlanInvNext == PlanInv /\ [PlanNext]_planVars => PlanInv'
<1> SUFFICES ASSUME PlanInv, [PlanNext]_planVars PROVE PlanInv'
  OBVIOUS
<1>0. PlanTypeOK /\ MinChunk \in Nat \ {0} /\ HostCap \in Int /\ Budgets \subseteq Int
  BY PlanAssumption DEF PlanInv
<1>1. CASE BeginPlan
  <2>1. PlanTypeOK'
    BY <1>0, <1>1 DEF BeginPlan, PlanTypeOK
  <2>2. RangesInside' /\ WithinCaps' /\ Untouched'
    BY <1>1 DEF BeginPlan, PlanInv, RangesInside, WithinCaps, Untouched
  <2>3. SweptSoFar'
    BY <1>1 DEF BeginPlan, PlanInv, Untouched, SweptSoFar
  <2>4. PlanIsMaximal'
    BY <1>1 DEF BeginPlan, PlanIsMaximal, Degenerate
  <2> QED
    BY <2>1, <2>2, <2>3, <2>4 DEF PlanInv
<1>2. CASE SkipSource
  <2>1. PlanTypeOK'
    BY <1>0, <1>2 DEF SkipSource, Visiting, PlanTypeOK
  <2>2. RangesInside' /\ WithinCaps' /\ Untouched' /\ PlanIsMaximal'
    BY <1>2 DEF SkipSource, Visiting, PlanInv, RangesInside, WithinCaps, Untouched, PlanIsMaximal
  <2>3. SweptSoFar'
    <3>1. at \in Nat /\ at' = at + 1 /\ Room(order[at]) < MinChunk
      BY <1>0, <1>2 DEF SkipSource, PlanTypeOK
    <3>2. stage' = stage /\ progressed' = progressed
          /\ \A i \in Nat : Room(order[i])' = Room(order[i])
      BY <1>2 DEF SkipSource, Room
    <3>3. ASSUME stage = "pass", ~progressed, NEW i \in 1 .. at
          PROVE  Room(order[i]) < MinChunk
      <4>1. CASE i = at
        BY <3>1, <4>1
      <4>2. CASE i \in 1 .. at - 1
        BY <3>3, <4>2 DEF PlanInv, SweptSoFar
      <4> QED
        BY <3>1, <3>3, <4>1, <4>2
    <3>4. \A i \in 1 .. at' - 1 : i \in Nat /\ i \in 1 .. at
      BY <3>1
    <3> QED
      BY <3>2, <3>3, <3>4 DEF SweptSoFar
  <2> QED
    BY <2>1, <2>2, <2>3 DEF PlanInv
<1>3. CASE TakeChunk
  <2>1. /\ Visiting /\ Room(order[at]) >= MinChunk
        /\ \E want \in Chunks(order[at]) :
             \E off \in Offsets(order[at], want) : PlanChunk(order[at], want, off)
    BY <1>3 DEF TakeChunk
  <2> DEFINE src == order[at]
  <2> PICK want \in Chunks(src) :
           \E off \in Offsets(src, want) : PlanChunk(src, want, off)
    BY <2>1
  <2>2. PICK off \in Offsets(src, want) : PlanChunk(src, want, off)
    OBVIOUS
  <2>3. at \in 1 .. Len(order) /\ src \in Source
    BY <1>0, <2>1 DEF Visiting, PlanTypeOK
  <2>4. want \in Nat /\ want >= MinChunk /\ want <= Room(src)
    BY <1>0, <2>1, <2>3, ChunkFits
  <2>5. off \in Nat /\ (Fixed(src) => off + want <= src.approxB)
    BY <1>0, <2>3, <2>4, OffsetInside
  <2>6. want <= remaining /\ want <= HostCap - used[src.name]
    <3>1. /\ Room(src) \in Int /\ Room(src) <= remaining
          /\ Room(src) <= HostCap - used[src.name]
      BY <1>0, <2>3, RoomBounds
    <3>2. used[src.name] \in Nat /\ remaining \in Int
      BY <1>0, <2>3 DEF PlanTypeOK, Source
    <3>3. HostCap \in Int
      BY PlanAssumption
    <3> HIDE DEF src
    <3>4. want <= remaining
      BY <2>4, <3>1, <3>2
    <3>5. want <= HostCap - used[src.name]
      BY <2>4, <3>1, <3>2, <3>3
    <3> QED
      BY <3>4, <3>5
  <2> DEFINE t == [src |-> src, off |-> off, want |-> want]
  <2>7. t \in Task /\ tasks' = Append(tasks, t)
    BY <2>2, <2>3, <2>4, <2>5 DEF PlanChunk, Task
  <2>8. PlanTypeOK'
    <3>1. src.name \in Names /\ used \in [Names -> Nat] /\ used[src.name] + want \in Nat
      <4>1. used \in [Names -> Nat]
        BY <1>0 DEF PlanTypeOK
      <4>2. src.name \in Names
        BY <2>3 DEF Source
      <4>3. used[src.name] \in Nat
        BY <4>1, <4>2
      <4> QED
        BY <2>4, <4>1, <4>2, <4>3
    <3>2. used' \in [Names -> Nat] /\ remaining' \in Int
      BY <1>0, <2>2, <2>4, <3>1 DEF PlanChunk, PlanTypeOK
    <3>3. tasks' \in Seq(Task)
      BY <1>0, <2>7 DEF PlanTypeOK
    <3> QED
      BY <1>0, <2>2, <2>3, <3>2, <3>3 DEF PlanChunk, PlanTypeOK
  <2>9. RangesInside'
    <3>1. tasks \in Seq(Task) /\ Len(tasks') = Len(tasks) + 1
      BY <1>0, <2>7 DEF PlanTypeOK
    <3>2. ASSUME NEW i \in 1 .. Len(tasks')
          PROVE  /\ tasks'[i].want >= MinChunk
                 /\ Fixed(tasks'[i].src) =>
                      tasks'[i].off >= 0
                      /\ tasks'[i].off + tasks'[i].want <= tasks'[i].src.approxB
      <4>1. CASE i \in 1 .. Len(tasks)
        <5>1. tasks'[i] = tasks[i]
          BY <2>7, <3>1, <4>1
        <5> QED
          BY <4>1, <5>1 DEF PlanInv, RangesInside
      <4>2. CASE i = Len(tasks) + 1
        <5>1. tasks'[i] = t
          BY <2>7, <3>1, <4>2
        <5> QED
          BY <2>4, <2>5, <5>1
      <4> QED
        BY <3>1, <4>1, <4>2
    <3> QED
      BY <3>2 DEF RangesInside
  <2>10. WithinCaps'
    <3>1. used \in [Names -> Nat] /\ src.name \in Names /\ remaining \in Int /\ budget \in Int
      BY <1>0, <2>3 DEF PlanTypeOK, Source
    <3>2. /\ used' = [used EXCEPT ![src.name] = @ + want]
          /\ remaining' = remaining - want /\ budget' = budget
      BY <2>2 DEF PlanChunk
    <3>3. ASSUME NEW n \in Names PROVE used'[n] <= Greater(HostCap, 0)
      <4>1. CASE n = src.name
        BY <1>0, <2>4, <2>6, <3>1, <3>2, <4>1 DEF Greater
      <4>2. CASE n # src.name
        BY <3>1, <3>2, <4>2 DEF PlanInv, WithinCaps
      <4> QED
        BY <4>1, <4>2
    <3>4. remaining' >= Lesser(budget, 0) /\ remaining' <= budget
      BY <2>4, <2>6, <3>1, <3>2 DEF PlanInv, WithinCaps, Lesser
    <3> QED
      BY <3>2, <3>3, <3>4 DEF WithinCaps
  <2>11. stage' = "pass" /\ progressed'
    BY <2>1, <2>2 DEF PlanChunk, Visiting
  <2>12. Untouched' /\ SweptSoFar' /\ PlanIsMaximal'
    BY <2>11 DEF Untouched, SweptSoFar, PlanIsMaximal
  <2> QED
    BY <2>8, <2>9, <2>10, <2>12 DEF PlanInv
<1>4. CASE EndPass
  <2>1. PlanTypeOK'
    <3>1. Len(order) \in Nat /\ at \in 1 .. Len(order) + 1
      BY <1>0 DEF PlanTypeOK
    <3>2. at' \in 1 .. Len(order') + 1
      BY <1>4, <3>1 DEF EndPass
    <3>3. stage' \in {"start", "pass", "planned"} /\ progressed' \in BOOLEAN
      BY <1>0, <1>4 DEF EndPass, PlanTypeOK
    <3> QED
      BY <1>0, <1>4, <3>2, <3>3 DEF EndPass, PlanTypeOK
  <2>2. RangesInside' /\ WithinCaps' /\ Untouched'
    BY <1>4 DEF EndPass, PassOver, PlanInv, RangesInside, WithinCaps, Untouched
  <2>3. SweptSoFar'
    BY <1>4 DEF EndPass, PassOver, SweptSoFar
  <2>4. PlanIsMaximal'
    <3>1. SUFFICES ASSUME stage' = "planned", NEW i \in 1 .. Len(order)
                   PROVE  Room(order[i]) < MinChunk
      BY <1>4 DEF EndPass, PlanIsMaximal, Room
    <3>2. order[i] \in Source /\ remaining \in Int /\ at \in 1 .. Len(order) + 1
      BY <1>0, <3>1 DEF PlanTypeOK
    <3>3. remaining <= 0 \/ (~progressed /\ at > Len(order) /\ stage = "pass")
      BY <1>4, <3>1, <3>2 DEF EndPass, PassOver
    <3>4. CASE remaining <= 0
      <4>1. Room(order[i]) \in Int /\ Room(order[i]) <= remaining
        BY <1>0, <3>2, RoomBounds
      <4> QED
        BY <1>0, <3>2, <3>4, <4>1
    <3>5. CASE ~progressed /\ at > Len(order) /\ stage = "pass"
      <4>1. i \in 1 .. at - 1
        BY <3>1, <3>2, <3>5
      <4> QED
        BY <3>5, <4>1 DEF PlanInv, SweptSoFar
    <3> QED
      BY <3>3, <3>4, <3>5
  <2> QED
    BY <2>1, <2>2, <2>3, <2>4 DEF PlanInv
<1>5. CASE UNCHANGED planVars
  BY <1>5 DEF planVars, PlanInv, PlanTypeOK, RangesInside, WithinCaps, Untouched, SweptSoFar,
     PlanIsMaximal, Degenerate, Room
<1> QED
  BY <1>1, <1>2, <1>3, <1>4, <1>5 DEF PlanNext

\* Whatever budget, caps, sizes and shuffle: the plan respects the budget and the
\* cap of every name (net.go:104-115, 136-137).
THEOREM PlanWithinCaps == PlanSpec => []WithinCaps
<1>1. PlanInv => WithinCaps
  BY DEF PlanInv
<1> QED
  BY <1>1, PlanInvInit, PlanInvNext, PTL DEF PlanSpec
----------------------------------------------------------------------------
(* The running account of a plan.  A sum over the tasks would have to be    *)
(* reasoned about by induction; that there are partial sums which end in    *)
(* what the planning has counted is an invariant like any other.            *)

\* S[i] is what the tasks before the i-th want of each name, T[i] what they want
\* together; with the last task both have reached what the planning counts.
Account(S, T) ==
    /\ S \in [1 .. Len(tasks) + 1 -> [Names -> Nat]]
    /\ T \in [1 .. Len(tasks) + 1 -> Nat]
    /\ \A i \in 1 .. Len(tasks) :
          /\ \A n \in Names : S[i][n] <= S[i + 1][n]
          /\ S[i][tasks[i].src.name] + tasks[i].want <= S[i + 1][tasks[i].src.name]
          /\ T[i] + tasks[i].want <= T[i + 1]
    /\ \A i \in 1 .. Len(tasks) + 1 :
          /\ \A n \in Names : S[i][n] <= used[n]
          /\ T[i] <= budget - remaining

Accounted ==
    \E S \in [1 .. Len(tasks) + 1 -> [Names -> Nat]], T \in [1 .. Len(tasks) + 1 -> Nat] :
        Account(S, T)

\* An empty plan has an account.
LEMMA AccountedInit == PlanInit => Accounted
<1> SUFFICES ASSUME PlanInit PROVE Accounted
  OBVIOUS
<1>1. tasks = << >> /\ budget \in Int /\ remaining = budget /\ used = [n \in Names |-> 0]
  BY PlanAssumption DEF PlanInit
<1>2. Len(tasks) = 0 /\ 1 .. Len(tasks) = {} /\ 1 .. Len(tasks) + 1 = {1}
  BY <1>1
<1> DEFINE S == [i \in 1 .. Len(tasks) + 1 |-> [n \in Names |-> 0]]
           T == [i \in 1 .. Len(tasks) + 1 |-> 0]
<1>3. Account(S, T)
  BY <1>1, <1>2 DEF Account
<1>4. /\ S \in [1 .. Len(tasks) + 1 -> [Names -> Nat]]
      /\ T \in [1 .. Len(tasks) + 1 -> Nat]
  OBVIOUS
<1> QED
  BY <1>3, <1>4 DEF Accounted

\* A chunk that is planned is entered into the account.
LEMMA AccountExtended ==
    ASSUME PlanTypeOK, Accounted, remaining <= budget,
           NEW src \in Source, NEW want \in Nat, NEW off \in Nat, PlanChunk(src, want, off)
    PROVE  Accounted'
<1> DEFINE t == [src |-> src, off |-> off, want |-> want]
           len == Len(tasks)
<1>1. /\ tasks \in Seq(Task) /\ len \in Nat /\ used \in [Names -> Nat]
      /\ remaining \in Int /\ budget \in Int /\ src.name \in Names
  BY PlanAssumption DEF PlanTypeOK, Source
<1>2. /\ tasks' = Append(tasks, t) /\ budget' = budget /\ remaining' = remaining - want
      /\ used' = [used EXCEPT ![src.name] = @ + want]
  BY DEF PlanChunk
<1>3. /\ Len(tasks') = len + 1 /\ tasks'[len + 1] = t
      /\ \A i \in 1 .. len : tasks'[i] = tasks[i]
  <2>1. t \in Task
    BY DEF Task
  <2> QED
    BY <1>1, <1>2, <2>1
<1>4. /\ used' \in [Names -> Nat]
      /\ \A n \in Names : used[n] <= used'[n]
      /\ used[src.name] + want <= used'[src.name]
      /\ budget' - remaining' = (budget - remaining) + want
      /\ budget' - remaining' \in Nat
  <2>1. \A n \in Names : used'[n] = IF n = src.name THEN used[n] + want ELSE used[n]
    BY <1>1, <1>2
  <2>2. used' \in [Names -> Nat]
    BY <1>1, <1>2
  <2>3. \A n \in Names : used[n] <= used'[n]
    BY <1>1, <2>1
  <2>4. used[src.name] + want <= used'[src.name]
    BY <1>1, <2>1
  <2>5. budget' - remaining' = (budget - remaining) + want /\ budget' - remaining' \in Nat
    BY <1>1, <1>2
  <2> QED
    BY <2>2, <2>3, <2>4, <2>5
<1>5. PICK S \in [1 .. len + 1 -> [Names -> Nat]], T \in [1 .. len + 1 -> Nat] : Account(S, T)
  BY DEF Accounted
<1>a. PICK S2 : S2 = [i \in 1 .. len + 2 |-> IF i = len + 2 THEN used' ELSE S[i]]
  OBVIOUS
<1>b. PICK T2 : T2 = [i \in 1 .. len + 2 |-> IF i = len + 2 THEN budget' - remaining' ELSE T[i]]
  OBVIOUS
<1>6. Len(tasks') + 1 = len + 2
  BY <1>1, <1>3
<1>7. S2 \in [1 .. len + 2 -> [Names -> Nat]] /\ T2 \in [1 .. len + 2 -> Nat]
  <2>1. \A i \in 1 .. len + 2 : i # len + 2 => i \in 1 .. len + 1
    BY <1>1
  <2>2. S2 \in [1 .. len + 2 -> [Names -> Nat]]
    BY <1>a, <1>4, <1>5, <2>1
  <2>3. T2 \in [1 .. len + 2 -> Nat]
    BY <1>b, <1>4, <1>5, <2>1
  <2> QED
    BY <2>2, <2>3
<1>8. ASSUME NEW i \in 1 .. len + 1
      PROVE  /\ S2[i] = S[i] /\ T2[i] = T[i]
             /\ S[i] \in [Names -> Nat] /\ T[i] \in Nat
             /\ \A n \in Names : S[i][n] <= used[n]
             /\ T[i] <= budget - remaining
  <2>1. i \in 1 .. len + 2 /\ i # len + 2
    BY <1>1
  <2> QED
    BY <1>a, <1>b, <1>5, <2>1 DEF Account
<1>9. S2[len + 2] = used' /\ T2[len + 2] = budget' - remaining'
  BY <1>a, <1>b, <1>1
<1>10. ASSUME NEW i \in 1 .. len + 1
       PROVE  /\ \A n \in Names : S2[i][n] <= S2[i + 1][n]
              /\ S2[i][tasks'[i].src.name] + tasks'[i].want <= S2[i + 1][tasks'[i].src.name]
              /\ T2[i] + tasks'[i].want <= T2[i + 1]
  <2>1. CASE i \in 1 .. len
    <3>1. i + 1 \in 1 .. len + 1 /\ tasks'[i] = tasks[i]
      BY <1>1, <1>3, <2>1
    <3>2. S2[i] = S[i] /\ T2[i] = T[i] /\ S2[i + 1] = S[i + 1] /\ T2[i + 1] = T[i + 1]
      BY <1>8, <3>1
    <3> QED
      BY <1>5, <2>1, <3>1, <3>2 DEF Account
  <2>2. CASE i = len + 1
    <3>1. i + 1 = len + 2 /\ tasks'[i].src.name = src.name /\ tasks'[i].want = want
      BY <1>1, <1>3, <2>2
    <3>2. S2[i + 1] = used' /\ T2[i + 1] = budget' - remaining' /\ S2[i] = S[i] /\ T2[i] = T[i]
      BY <1>8, <1>9, <3>1
    <3>3. \A n \in Names : S[i][n] \in Nat /\ used[n] \in Nat /\ used'[n] \in Nat
      BY <1>1, <1>4, <1>8
    <3>4. ASSUME NEW n \in Names PROVE S[i][n] <= used'[n]
      <4>1. S[i][n] <= used[n] /\ used[n] <= used'[n]
        BY <1>4, <1>8
      <4> QED
        BY <3>3, <4>1
    <3>5. S[i][src.name] + want <= used'[src.name]
      <4>1. S[i][src.name] <= used[src.name] /\ used[src.name] + want <= used'[src.name]
        BY <1>1, <1>4, <1>8
      <4> QED
        BY <1>1, <3>3, <4>1
    <3>6. T[i] + want <= budget' - remaining'
      BY <1>1, <1>4, <1>8
    <3> QED
      BY <3>1, <3>2, <3>4, <3>5, <3>6
  <2> QED
    BY <1>1, <2>1, <2>2
<1>11. ASSUME NEW i \in 1 .. len + 2
       PROVE  /\ \A n \in Names : S2[i][n] <= used'[n]
              /\ T2[i] <= budget' - remaining'
  <2>1. CASE i \in 1 .. len + 1
    <3>1. \A n \in Names : S[i][n] \in Nat /\ used[n] \in Nat /\ used'[n] \in Nat
      BY <1>1, <1>4, <1>8, <2>1
    <3>2. S2[i] = S[i] /\ T2[i] = T[i]
      BY <1>8, <2>1
    <3> QED
      BY <1>1, <1>4, <1>8, <2>1, <3>1, <3>2
  <2>2. CASE i = len + 2
    BY <1>1, <1>4, <1>9, <2>2
  <2> QED
    BY <1>1, <2>1, <2>2
<1>12. Account(S2, T2)'
  BY <1>3, <1>6, <1>7, <1>10, <1>11 DEF Account
<1> QED
  BY <1>6, <1>7, <1>12 DEF Accounted

\* Every step of the planning keeps the account.
LEMMA AccountedNext == PlanInv /\ Accounted /\ [PlanNext]_planVars => Accounted'
<1> SUFFICES ASSUME PlanInv, Accounted, [PlanNext]_planVars PROVE Accounted'
  OBVIOUS
<1>1. PlanTypeOK /\ remaining <= budget
  BY DEF PlanInv, WithinCaps
<1>2. CASE TakeChunk
  <2>1. PICK want \in Chunks(order[at]) :
            \E off \in Offsets(order[at], want) : PlanChunk(order[at], want, off)
    BY <1>2 DEF TakeChunk
  <2>2. PICK off \in Offsets(order[at], want) : PlanChunk(order[at], want, off)
    BY <2>1
  <2>3. order[at] \in Source /\ Room(order[at]) >= MinChunk
    BY <1>1, <1>2 DEF TakeChunk, Visiting, PlanTypeOK
  <2>4. want \in Nat /\ want <= Room(order[at])
    BY <1>1, <2>1, <2>3, ChunkFits
  <2>5. off \in Nat
    BY <1>1, <2>2, <2>3, <2>4, OffsetInside
  <2> QED
    BY <1>1, <2>2, <2>3, <2>4, <2>5, AccountExtended
<1>3. CASE UNCHANGED <<tasks, used, budget, remaining>>
  BY <1>3 DEF Accounted, Account
<1> QED
  BY <1>2, <1>3 DEF PlanNext, BeginPlan, SkipSource, EndPass, planVars
=============================================================================
