-------------------------- MODULE DownloadsProofs --------------------------
(***************************************************************************)
(* Proofs about Downloads.  NetInv is inductive: beside the types and the  *)
(* invariant of the plan it counts the tasks tried against the position in *)
(* the loop, which is what shows that no task of the plan is lost.         *)
(***************************************************************************)
EXTENDS Downloads, PlanDownloadsProofs

Fresh == net \in {"off", "plan"} => task = 1 /\ tried = 0 /\ stats = NoStats

Counted ==
    /\ net \in {"next", "request", "close"} => tried = task - 1
    /\ net = "pause" => tried = task /\ task < Len(tasks)
    /\ net # "over" => stats.skipped = 0

\* A download file is open between Receive and FinishDownload only.
FileClosed == net # "close" => file = NoFile

NetInv ==
    /\ NetTypeOK
    /\ PlanInv
    /\ Fresh
    /\ Counted
    /\ FileClosed
    /\ NoTaskLost

----------------------------------------------------------------------------
\* It holds before the goroutine starts and when it does.
LEMMA NetInvInit ==
    ASSUME NetInit, net \in {"off", "plan"}, runDirs \in Seq(Dirs)
    PROVE  NetInv
<1>1. PlanInv
  BY PlanInvInit DEF NetInit
<1>2. NoStats \in [total : Nat, discarded : Nat, perHost : [Names -> Nat],
                   failures : Nat, skipped : Nat]
  BY DEF NoStats
<1>3. NetTypeOK
  BY <1>1, <1>2 DEF NetInit, NetTypeOK, PlanInv, NoFile
<1> QED
  BY <1>1, <1>3 DEF NetInit, NetInv, Fresh, Counted, FileClosed, NoTaskLost, NoStats

\* What the rest of the cycle does to the variables of the goroutine keeps it.
LEMMA NetInvFrame ==
    ASSUME NetInv, UNCHANGED <<planVars, task, file, stats, tried>>,
           net' = net \/ (net = "off" /\ net' = "plan"),
           cancelled' \in BOOLEAN, cancelled => cancelled', runDirs' \in Seq(Dirs)
    PROVE  NetInv'
<1>1. PlanInv'
  BY PlanInvNext DEF NetInv
<1>2. NetTypeOK'
  <2>1. PlanTypeOK'
    BY <1>1 DEF PlanInv
  <2> QED
    BY <2>1 DEF NetInv, NetTypeOK, planVars
<1>3. Fresh' /\ Counted' /\ FileClosed' /\ NoTaskLost'
  BY DEF NetInv, Fresh, Counted, FileClosed, NoTaskLost, planVars
<1> QED
  BY <1>1, <1>2, <1>3 DEF NetInv

\* Every step of the goroutine keeps it.
LEMMA NetInvNext == NetInv /\ NetStep => NetInv'
<1> SUFFICES ASSUME NetInv, NetStep PROVE NetInv'
  OBVIOUS
<1> USE DEF netVars
<1>0. /\ NetTypeOK /\ PlanTypeOK /\ PlanInv
      /\ tasks \in Seq(Task) /\ Len(tasks) \in Nat
  BY DEF NetInv, NetTypeOK, PlanTypeOK
<1>1. CASE PlanStep
  <2>1. PlanInv'
    BY <1>1, PlanInvNext DEF PlanStep, NetInv
  <2>2. NetTypeOK'
    <3>1. PlanTypeOK'
      BY <2>1 DEF PlanInv
    <3> QED
      BY <1>0, <1>1, <3>1 DEF PlanStep, NetTypeOK
  <2>3. Fresh' /\ Counted' /\ FileClosed' /\ NoTaskLost'
    BY <1>1 DEF PlanStep, NetInv, Fresh, Counted, FileClosed, NoTaskLost
  <2> QED
    BY <2>1, <2>2, <2>3 DEF NetInv
<1>2. CASE UNCHANGED planVars
  <2>0. PlanInv' /\ PlanTypeOK' /\ tasks' = tasks
    BY <1>0, <1>2, PlanInvNext DEF PlanInv, planVars
  <2>1. CASE BeginDownloads
    <3>1. Len(tasks) = 0 <=> tasks = << >>
      BY <1>0
    <3>2. NetTypeOK'
      BY <1>0, <2>0, <2>1, <3>1 DEF BeginDownloads, NetInv, NetTypeOK, Fresh
    <3>3. Fresh' /\ Counted' /\ FileClosed' /\ NoTaskLost'
      BY <2>0, <2>1, <3>1
      DEF BeginDownloads, NetInv, Fresh, Counted, FileClosed, NoTaskLost, NoStats
    <3> QED
      BY <2>0, <3>2, <3>3 DEF NetInv
  <2>2. CASE NextTask
    <3>1. task \in 1 .. Len(tasks) /\ tried = task - 1 /\ stats.skipped = 0 /\ net = "next"
      BY <1>0, <2>2 DEF NextTask, NetTypeOK, NetInv, Counted
    <3>2. stats \in [total : Nat, discarded : Nat, perHost : [Names -> Nat],
                     failures : Nat, skipped : Nat]
      BY <1>0 DEF NetTypeOK
    <3>3. Len(tasks) - task + 1 \in Nat
      BY <1>0, <3>1
    <3>4. stats' \in [total : Nat, discarded : Nat, perHost : [Names -> Nat],
                      failures : Nat, skipped : Nat]
      BY <2>2, <3>2, <3>3 DEF NextTask
    <3>5. NetTypeOK'
      BY <1>0, <2>0, <2>2, <3>4 DEF NextTask, NetTypeOK
    <3>6. cancelled => stats'.skipped = Len(tasks) - task + 1
      BY <2>2, <3>2 DEF NextTask
    <3>7. Fresh' /\ Counted' /\ FileClosed'
      BY <2>0, <2>2, <3>1 DEF NextTask, NetInv, Fresh, Counted, FileClosed
    <3>8. NoTaskLost'
      BY <1>0, <2>0, <2>2, <3>1, <3>6 DEF NextTask, NoTaskLost
    <3> QED
      BY <2>0, <3>5, <3>7, <3>8 DEF NetInv
  <2>3. ASSUME net \in {"request", "close"}, net' = AfterTask,
               UNCHANGED <<cancelled, runDirs, task>>, tried' = tried + 1, file' = NoFile,
               stats'.skipped = stats.skipped,
               stats' \in [total : Nat, discarded : Nat, perHost : [Names -> Nat],
                           failures : Nat, skipped : Nat]
        PROVE  NetInv'
    <3>1. task \in 1 .. Len(tasks) /\ tried = task - 1 /\ stats.skipped = 0
      BY <1>0, <2>3 DEF NetTypeOK, NetInv, Counted
    <3>2. AfterTask \in {"over", "pause"}
      BY DEF AfterTask
    <3>3. AfterTask = "pause" => task < Len(tasks)
      BY <1>0, <3>1 DEF AfterTask
    <3>4. AfterTask = "over" => task = Len(tasks) \/ cancelled
      BY DEF AfterTask
    <3>5. NetTypeOK'
      BY <1>0, <2>0, <2>3, <3>1, <3>2 DEF NetTypeOK, NoFile
    <3>6. Fresh' /\ Counted' /\ FileClosed'
      BY <2>0, <2>3, <3>1, <3>2, <3>3 DEF Fresh, Counted, FileClosed
    <3>7. NoTaskLost'
      BY <1>0, <2>0, <2>3, <3>1, <3>4 DEF NoTaskLost
    <3> QED
      BY <2>0, <3>5, <3>6, <3>7 DEF NetInv
  <2>4. CASE RequestFails
    <3>0. stats \in [total : Nat, discarded : Nat, perHost : [Names -> Nat],
                     failures : Nat, skipped : Nat]
      BY <1>0 DEF NetTypeOK
    <3>1. stats' \in [total : Nat, discarded : Nat, perHost : [Names -> Nat],
                      failures : Nat, skipped : Nat] /\ stats'.skipped = stats.skipped
      BY <2>4, <3>0 DEF RequestFails
    <3>2. file' = NoFile
      BY <2>4 DEF RequestFails, NetInv, FileClosed
    <3> QED
      BY <2>3, <2>4, <3>1, <3>2 DEF RequestFails
  <2>5. CASE Receive
    <3>1. task \in 1 .. Len(tasks) /\ tried = task - 1 /\ stats.skipped = 0
      BY <1>0, <2>5 DEF Receive, NetTypeOK, NetInv, Counted
    <3>2. tasks[task].want \in Nat
      <4>1. tasks[task] \in Task /\ tasks[task].want >= MinChunk
        BY <1>0, <3>1 DEF PlanInv, RangesInside
      <4> QED
        BY <4>1, PlanAssumption DEF Task
    <3>3. Dest \in Dirs \cup {NoDir}
      <4>1. runDirs \in Seq(Dirs)
        BY <1>0 DEF NetTypeOK
      <4>2. CASE runDirs # << >>
        <5>1. Len(runDirs) \in Nat \ {0}
          BY <4>1, <4>2
        <5>2. ((task - 1) % Len(runDirs)) + 1 \in 1 .. Len(runDirs)
          BY <3>1, <5>1
        <5> QED
          BY <4>1, <4>2, <5>2 DEF Dest
      <4> QED
        BY <4>2 DEF Dest
    <3>4. file' \in [dir : Dirs \cup {NoDir}, bytes : Nat]
      BY <2>5, <3>2, <3>3 DEF Receive
    <3>5. NetTypeOK'
      BY <1>0, <2>0, <2>5, <3>1, <3>4 DEF Receive, NetTypeOK
    <3>6. Fresh' /\ Counted' /\ FileClosed' /\ NoTaskLost'
      BY <2>5, <3>1 DEF Receive, Fresh, Counted, FileClosed, NoTaskLost
    <3> QED
      BY <2>0, <3>5, <3>6 DEF NetInv
  <2>6. CASE FinishDownload
    <3>1. /\ stats \in [total : Nat, discarded : Nat, perHost : [Names -> Nat],
                        failures : Nat, skipped : Nat]
          /\ file.bytes \in Nat /\ Discarded(file) \in Nat
      BY <1>0 DEF NetTypeOK, Discarded
    <3>2. tasks[task].src.name \in Names
      <4>1. task \in 1 .. Len(tasks)
        BY <1>0, <2>6 DEF FinishDownload, NetTypeOK
      <4>2. tasks[task] \in Task
        BY <1>0, <4>1
      <4> QED
        BY <4>2 DEF Task, Source
    <3> DEFINE perHost2 == [stats.perHost EXCEPT ![tasks[task].src.name] = @ + file.bytes]
    <3>3. perHost2 \in [Names -> Nat]
      BY <3>1, <3>2
    <3>4. stats' = [total |-> stats.total + file.bytes,
                    discarded |-> stats.discarded + Discarded(file),
                    perHost |-> perHost2, failures |-> stats.failures,
                    skipped |-> stats.skipped]
      BY <2>6, <3>1, <3>2 DEF FinishDownload
    <3>5. stats' \in [total : Nat, discarded : Nat, perHost : [Names -> Nat],
                      failures : Nat, skipped : Nat] /\ stats'.skipped = stats.skipped
      <4> HIDE DEF perHost2
      <4> QED
        BY <3>1, <3>3, <3>4
    <3> QED
      BY <2>3, <2>6, <3>5 DEF FinishDownload
  <2>7. CASE Pause
    <3>1. task \in 1 .. Len(tasks) /\ tried = task /\ task < Len(tasks) /\ stats.skipped = 0
      BY <1>0, <2>7 DEF Pause, NetTypeOK, NetInv, Counted
    <3>2. task' \in 1 .. Len(tasks)
      BY <1>0, <2>7, <3>1 DEF Pause
    <3>3. NetTypeOK'
      BY <1>0, <2>0, <2>7, <3>2 DEF Pause, NetTypeOK
    <3>4. Fresh' /\ Counted' /\ FileClosed' /\ NoTaskLost'
      BY <2>7, <3>1 DEF Pause, NetInv, Fresh, Counted, FileClosed, NoTaskLost
    <3> QED
      BY <2>0, <3>3, <3>4 DEF NetInv
  <2> QED
    BY <1>1, <2>1, <2>2, <2>4, <2>5, <2>6, <2>7 DEF NetStep
<1> QED
  BY <1>1, <1>2
  DEF NetStep, BeginDownloads, NextTask, RequestFails, Receive, FinishDownload, Pause

----------------------------------------------------------------------------
\* The invariant holds of the goroutine by itself.
LEMMA NetInvHolds == NetSpec => []NetInv
<1>1. StartNet => NetInv
  BY NetInvInit, DownloadsAssumption DEF StartNet
<1>2. NetInv /\ [NetStep \/ CancelNet]_downVars => NetInv'
  <2> SUFFICES ASSUME NetInv, [NetStep \/ CancelNet]_downVars PROVE NetInv'
    OBVIOUS
  <2>1. cancelled \in BOOLEAN /\ runDirs \in Seq(Dirs)
    BY DEF NetInv, NetTypeOK
  <2>2. CASE CancelNet
    BY <2>1, <2>2, NetInvFrame DEF CancelNet, netVars
  <2>3. CASE UNCHANGED downVars
    BY <2>1, <2>3, NetInvFrame DEF downVars, netVars
  <2> QED
    BY <2>2, <2>3, NetInvNext
<1> QED
  BY <1>1, <1>2, PTL DEF NetSpec

\* For every source list, budget, cap and behaviour of the servers: the variables
\* have their types, the task at hand is one of the plan (net.go:177-199).
THEOREM NetTypeCorrect == NetSpec => []NetTypeOK
<1>1. NetInv => NetTypeOK
  BY DEF NetInv
<1> QED
  BY <1>1, NetInvHolds, PTL

\* Every planned range lies inside its file and is worth a request.
THEOREM RangesAreInside == NetSpec => []RangesInside
<1>1. NetInv => RangesInside
  BY DEF NetInv, PlanInv
<1> QED
  BY <1>1, NetInvHolds, PTL

\* A plan leaves budget over only if no source has room for another chunk.
THEOREM PlansAreMaximal == NetSpec => []PlanIsMaximal
<1>1. NetInv => PlanIsMaximal
  BY DEF NetInv, PlanInv
<1> QED
  BY <1>1, NetInvHolds, PTL

\* No task of the plan is lost but by a cancellation in the middle of a download.
THEOREM NoTaskIsLost == NetSpec => []NoTaskLost
<1>1. NetInv => NoTaskLost
  BY DEF NetInv
<1> QED
  BY <1>1, NetInvHolds, PTL
----------------------------------------------------------------------------
(* The caps.  What has been downloaded is charged against the account of   *)
(* the plan, up to the task at hand.                                       *)

\* The first i - 1 tasks pay for all that has been counted.
PaidBy(S, T, i) ==
    /\ \A n \in Names : stats.perHost[n] <= S[i][n]
    /\ stats.total <= T[i]

Charged(S, T) ==
    /\ net \in {"next", "request", "close"} => PaidBy(S, T, task)
    /\ net = "pause" => PaidBy(S, T, task + 1)
    /\ net = "close" => file.bytes <= tasks[task].want
    /\ \A n \in Names : stats.perHost[n] <= used[n]
    /\ stats.total <= budget - remaining

WithinPlan ==
    \E S \in [1 .. Len(tasks) + 1 -> [Names -> Nat]], T \in [1 .. Len(tasks) + 1 -> Nat] :
        Account(S, T) /\ Charged(S, T)

\* Nothing has been downloaded when the plan is made.
LEMMA WithinPlanInit ==
    ASSUME PlanInit, net \in {"off", "plan"}, stats = NoStats
    PROVE  WithinPlan
<1>1. PICK S \in [1 .. Len(tasks) + 1 -> [Names -> Nat]], T \in [1 .. Len(tasks) + 1 -> Nat] :
        Account(S, T)
  BY AccountedInit DEF Accounted
<1>2. Charged(S, T)
  BY PlanAssumption DEF PlanInit, Charged, NoStats
<1> QED
  BY <1>1, <1>2 DEF WithinPlan

\* What the rest of the cycle does keeps within the plan.
LEMMA WithinPlanFrame ==
    ASSUME WithinPlan, UNCHANGED <<planVars, task, file, stats>>,
           net' = net \/ (net = "off" /\ net' = "plan")
    PROVE  WithinPlan'
<1>1. PICK S \in [1 .. Len(tasks) + 1 -> [Names -> Nat]], T \in [1 .. Len(tasks) + 1 -> Nat] :
        Account(S, T) /\ Charged(S, T)
  BY DEF WithinPlan
<1>2. Account(S, T)' /\ Charged(S, T)'
  BY <1>1 DEF Account, Charged, PaidBy, planVars
<1> QED
  BY <1>2 DEF WithinPlan, planVars

\* What is added to a sum is paid for by the next one.
LEMMA PaysFor ==
    ASSUME NEW a \in Nat, NEW b \in Nat, NEW c \in Nat, NEW m \in Nat, NEW n \in Nat,
           a <= b, b + n <= c, m <= n
    PROVE  a + m \in Nat /\ a + m <= c
  OBVIOUS

\* Every step of the goroutine keeps within the plan.
LEMMA WithinPlanNext == NetInv /\ WithinPlan /\ NetStep => WithinPlan'
<1> SUFFICES ASSUME NetInv, WithinPlan, NetStep PROVE WithinPlan'
  OBVIOUS
<1> USE DEF netVars
<1>0. /\ NetTypeOK /\ PlanTypeOK /\ PlanInv
      /\ tasks \in Seq(Task) /\ Len(tasks) \in Nat
      /\ budget \in Int /\ remaining \in Int /\ remaining <= budget
      /\ used \in [Names -> Nat]
      /\ stats.total \in Nat /\ stats.perHost \in [Names -> Nat] /\ file.bytes \in Nat
  <2>1. NetTypeOK /\ PlanInv
    BY DEF NetInv
  <2>2. /\ PlanTypeOK /\ stats.total \in Nat /\ stats.perHost \in [Names -> Nat]
        /\ file.bytes \in Nat
    BY <2>1 DEF NetTypeOK
  <2>3. tasks \in Seq(Task) /\ budget \in Int /\ remaining \in Int /\ used \in [Names -> Nat]
    BY <2>2, PlanAssumption DEF PlanTypeOK
  <2>4. remaining <= budget
    BY <2>1 DEF PlanInv, WithinCaps
  <2>5. Len(tasks) \in Nat
    BY <2>3
  <2> QED
    BY <2>1, <2>2, <2>3, <2>4, <2>5
<1>1. CASE PlanStep
  <2>1. stats = NoStats /\ stats' = stats /\ net = "plan" /\ net' = "plan"
    BY <1>1 DEF PlanStep, NetInv, Fresh
  <2>2. Accounted
    BY DEF WithinPlan, Accounted
  <2>3. Accounted' /\ PlanInv'
    BY <1>0, <1>1, <2>2, AccountedNext, PlanInvNext DEF PlanStep
  <2>4. /\ used' \in [Names -> Nat] /\ budget' \in Int /\ remaining' \in Int
        /\ remaining' <= budget'
    BY <2>3, PlanAssumption DEF PlanInv, PlanTypeOK, WithinCaps
  <2>5. /\ \A n \in Names : stats'.perHost[n] <= used'[n]
        /\ stats'.total <= budget' - remaining'
    <3>1. stats'.perHost = [n \in Names |-> 0] /\ stats'.total = 0
      BY <2>1 DEF NoStats
    <3>2. ASSUME NEW n \in Names PROVE stats'.perHost[n] <= used'[n]
      <4>1. stats'.perHost[n] = 0 /\ used'[n] \in Nat
        BY <2>4, <3>1
      <4> QED
        BY <4>1
    <3>3. stats'.total <= budget' - remaining'
      BY <2>4, <3>1
    <3> QED
      BY <3>2, <3>3
  <2>6. PICK S \in [1 .. Len(tasks') + 1 -> [Names -> Nat]],
             T \in [1 .. Len(tasks') + 1 -> Nat] : Account(S, T)'
    BY <2>3 DEF Accounted
  <2>7. Charged(S, T)'
    BY <2>1, <2>5 DEF Charged
  <2> QED
    BY <2>6, <2>7 DEF WithinPlan
<1>2. CASE UNCHANGED planVars
  <2> USE DEF planVars
  <2>1. PICK S \in [1 .. Len(tasks) + 1 -> [Names -> Nat]],
             T \in [1 .. Len(tasks) + 1 -> Nat] : Account(S, T) /\ Charged(S, T)
    BY DEF WithinPlan
  <2>2. Account(S, T)'
    BY <1>2, <2>1 DEF Account
  <2>3. SUFFICES Charged(S, T)'
    BY <1>2, <2>2 DEF WithinPlan
  <2>4. net \in {"next", "request", "close", "pause"} => task \in 1 .. Len(tasks)
    BY <1>0 DEF NetTypeOK
  <2>5. CASE BeginDownloads
    <3>1. stats = NoStats /\ stats' = stats /\ task' = 1 /\ net' \in {"over", "next"}
      BY <2>5 DEF BeginDownloads, NetInv, Fresh
    <3>2. 1 \in 1 .. Len(tasks) + 1
      BY <1>0
    <3>3. S[1] \in [Names -> Nat] /\ T[1] \in Nat
      BY <3>2
    <3> QED
      BY <1>0, <1>2, <2>1, <3>1, <3>3 DEF Charged, PaidBy, NoStats
  <2>6. CASE NextTask
    <3>1. stats'.total = stats.total /\ stats'.perHost = stats.perHost
      BY <1>0, <2>6 DEF NextTask, NetTypeOK
    <3> QED
      BY <1>2, <2>1, <2>6, <3>1 DEF NextTask, Charged, PaidBy
  <2>7. CASE RequestFails
    <3>1. stats'.total = stats.total /\ stats'.perHost = stats.perHost
      BY <1>0, <2>7 DEF RequestFails, NetTypeOK
    <3>2. net' \in {"over", "pause"} /\ task' = task /\ task \in 1 .. Len(tasks)
      BY <2>4, <2>7 DEF RequestFails, AfterTask
    <3>3. PaidBy(S, T, task)
      BY <2>1, <2>7 DEF RequestFails, Charged
    <3>4. /\ \A n \in Names : S[task][n] <= S[task + 1][n]
          /\ T[task] + tasks[task].want <= T[task + 1]
      BY <2>1, <3>2 DEF Account
    <3>5. /\ S[task] \in [Names -> Nat] /\ S[task + 1] \in [Names -> Nat]
          /\ T[task] \in Nat /\ T[task + 1] \in Nat /\ tasks[task].want \in Nat
      <4>1. task \in 1 .. Len(tasks) + 1 /\ task + 1 \in 1 .. Len(tasks) + 1
        BY <1>0, <3>2
      <4>2. tasks[task] \in Task /\ tasks[task].want >= MinChunk
        BY <1>0, <3>2 DEF PlanInv, RangesInside
      <4>3. tasks[task].want \in Nat
        BY <4>2, PlanAssumption DEF Task
      <4> QED
        BY <2>1, <4>1, <4>3
    <3>6. PaidBy(S, T, task + 1)
      <4>1. ASSUME NEW n \in Names PROVE stats.perHost[n] <= S[task + 1][n]
        <5>1. /\ stats.perHost[n] \in Nat /\ S[task][n] \in Nat /\ S[task + 1][n] \in Nat
              /\ stats.perHost[n] <= S[task][n] /\ S[task][n] <= S[task + 1][n]
          BY <1>0, <3>3, <3>4, <3>5 DEF PaidBy
        <5> QED
          BY <5>1
      <4>2. stats.total <= T[task + 1]
        BY <1>0, <3>3, <3>4, <3>5 DEF PaidBy
      <4> QED
        BY <4>1, <4>2 DEF PaidBy
    <3> QED
      BY <1>2, <2>1, <3>1, <3>2, <3>6 DEF Charged, PaidBy
  <2>8. CASE Receive
    <3>1. /\ net = "request" /\ net' = "close"
          /\ stats' = stats /\ task' = task /\ task \in 1 .. Len(tasks)
      BY <2>4, <2>8 DEF Receive
    <3>2. file'.bytes <= tasks[task].want
      <4>1. PICK n \in 0 .. tasks[task].want : file' = [dir |-> Dest, bytes |-> n]
        BY <2>8 DEF Receive
      <4> QED
        BY <4>1
    <3> QED
      BY <1>2, <2>1, <3>1, <3>2 DEF Charged, PaidBy
  <2>9. CASE FinishDownload
    <3> DEFINE name == tasks[task].src.name
               want == tasks[task].want
    <3>1. net = "close" /\ net' \in {"over", "pause"} /\ task' = task /\ task \in 1 .. Len(tasks)
      BY <2>4, <2>9 DEF FinishDownload, AfterTask
    <3>2. tasks[task] \in Task /\ name \in Names /\ want \in Nat
      <4>1. tasks[task] \in Task /\ want >= MinChunk
        BY <1>0, <3>1 DEF PlanInv, RangesInside
      <4> QED
        BY <4>1, PlanAssumption DEF Task, Source
    <3>3. task \in 1 .. Len(tasks) + 1 /\ task + 1 \in 1 .. Len(tasks) + 1
      BY <1>0, <3>1
    <3>4. /\ S[task] \in [Names -> Nat] /\ S[task + 1] \in [Names -> Nat]
          /\ T[task] \in Nat /\ T[task + 1] \in Nat
      BY <2>1, <3>3
    <3>5. PaidBy(S, T, task) /\ file.bytes <= want
      BY <2>1, <3>1 DEF Charged
    <3>6. /\ \A n \in Names : S[task][n] <= S[task + 1][n]
          /\ S[task][name] + want <= S[task + 1][name]
          /\ T[task] + want <= T[task + 1]
      BY <2>1, <3>1 DEF Account
    <3>7. /\ stats'.total = stats.total + file.bytes
          /\ stats'.perHost = [stats.perHost EXCEPT ![name] = @ + file.bytes]
      BY <1>0, <2>9 DEF FinishDownload, NetTypeOK
    <3>8. ASSUME NEW n \in Names
          PROVE  stats'.perHost[n] \in Nat /\ stats'.perHost[n] <= S[task + 1][n]
      <4>1. /\ S[task][n] \in Nat /\ S[task + 1][n] \in Nat /\ stats.perHost[n] \in Nat
            /\ stats.perHost[n] <= S[task][n] /\ S[task][n] <= S[task + 1][n]
        BY <1>0, <3>4, <3>5, <3>6 DEF PaidBy
      <4>2. stats'.perHost[n] = IF n = name THEN stats.perHost[n] + file.bytes
                                            ELSE stats.perHost[n]
        BY <1>0, <3>7
      <4>3. CASE n = name
        <5>1. /\ file.bytes \in Nat /\ file.bytes <= want /\ want \in Nat
              /\ S[task][n] + want <= S[task + 1][n]
              /\ stats'.perHost[n] = stats.perHost[n] + file.bytes
          <6> HIDE DEF name, want
          <6>1. file.bytes \in Nat /\ file.bytes <= want /\ want \in Nat
            BY <1>0, <3>2, <3>5
          <6>2. S[task][n] + want <= S[task + 1][n]
            BY <3>6, <4>3
          <6>3. stats'.perHost[n] = stats.perHost[n] + file.bytes
            BY <4>2, <4>3
          <6> QED
            BY <6>1, <6>2, <6>3
        <5> HIDE DEF name, want
        <5>2. PICK a, b, c, m, k : /\ a = stats.perHost[n] /\ b = S[task][n] /\ c = S[task + 1][n]
                                   /\ m = file.bytes /\ k = want
          OBVIOUS
        <5>3. a \in Nat /\ b \in Nat /\ c \in Nat /\ m \in Nat /\ k \in Nat
          BY <4>1, <5>1, <5>2
        <5>4. a <= b /\ b + k <= c /\ m <= k
          BY <4>1, <5>1, <5>2
        <5>5. a + m \in Nat /\ a + m <= c
          BY <5>3, <5>4, PaysFor
        <5> QED
          BY <5>1, <5>2, <5>5
      <4>4. CASE n # name
        <5> HIDE DEF name, want
        <5> QED
          BY <4>1, <4>2, <4>4
      <4> QED
        BY <4>3, <4>4
    <3>9. stats'.total <= T[task + 1]
      <4>1. /\ stats'.total = stats.total + file.bytes /\ stats.total <= T[task]
            /\ stats.total \in Nat /\ file.bytes \in Nat
        BY <1>0, <3>5, <3>7 DEF PaidBy
      <4> HIDE DEF want
      <4> QED
        BY <3>2, <3>4, <3>5, <3>6, <4>1
    <3>10. PaidBy(S, T, task + 1)'
      BY <3>1, <3>8, <3>9 DEF PaidBy
    <3>11. /\ \A n \in Names : S[task + 1][n] <= used[n]
           /\ T[task + 1] <= budget - remaining
      BY <2>1, <3>3 DEF Account
    <3>12. /\ \A n \in Names : stats'.perHost[n] <= used[n]
           /\ stats'.total <= budget - remaining
      <4>1. ASSUME NEW n \in Names PROVE stats'.perHost[n] <= used[n]
        <5>1. /\ S[task + 1][n] <= used[n] /\ stats'.perHost[n] <= S[task + 1][n]
              /\ S[task + 1][n] \in Nat /\ used[n] \in Nat /\ stats'.perHost[n] \in Nat
          BY <1>0, <3>4, <3>8, <3>11
        <5> QED
          BY <5>1
      <4>2. stats'.total \in Nat
        BY <1>0, <3>7
      <4> QED
        BY <1>0, <3>4, <3>9, <3>11, <4>1, <4>2
    <3> HIDE DEF name, want
    <3> QED
      BY <1>2, <3>1, <3>10, <3>12 DEF Charged, PaidBy
  <2>10. CASE Pause
    <3>1. net = "pause" /\ net' = "next" /\ task' = task + 1 /\ stats' = stats
      BY <2>10 DEF Pause
    <3> QED
      BY <1>2, <2>1, <3>1 DEF Charged, PaidBy
  <2>11. CASE PlanStep
    BY <1>2, <2>1, <2>11 DEF PlanStep, Charged, PaidBy
  <2> QED
    BY <2>5, <2>6, <2>7, <2>8, <2>9, <2>10, <2>11 DEF NetStep
<1> QED
  BY <1>1, <1>2
  DEF NetStep, BeginDownloads, NextTask, RequestFails, Receive, FinishDownload, Pause

\* Who keeps within the plan is polite.
LEMMA PoliteWithinPlan == NetInv /\ WithinPlan => PoliteToHosts
<1> SUFFICES ASSUME NetInv, WithinPlan PROVE PoliteToHosts
  OBVIOUS
<1>0. /\ NetTypeOK /\ PlanInv /\ FileClosed /\ tasks \in Seq(Task) /\ Len(tasks) \in Nat
      /\ budget \in Int /\ remaining \in Int /\ HostCap \in Int
      /\ used \in [Names -> Nat]
      /\ stats.total \in Nat /\ stats.perHost \in [Names -> Nat] /\ file.bytes \in Nat
  BY PlanAssumption DEF NetInv, NetTypeOK, PlanTypeOK, PlanInv
<1>1. PICK S \in [1 .. Len(tasks) + 1 -> [Names -> Nat]],
           T \in [1 .. Len(tasks) + 1 -> Nat] : Account(S, T) /\ Charged(S, T)
  BY DEF WithinPlan
<1>2. ASSUME NEW n \in Names PROVE stats.perHost[n] <= Greater(HostCap, 0)
  <2>1. stats.perHost[n] <= used[n] /\ used[n] <= Greater(HostCap, 0)
    BY <1>0, <1>1 DEF Charged, PlanInv, WithinCaps
  <2>2. stats.perHost[n] \in Nat /\ used[n] \in Nat /\ Greater(HostCap, 0) \in Int
    BY <1>0 DEF Greater
  <2> QED
    BY <2>1, <2>2
<1>3. budget - remaining <= Greater(budget, 0)
  BY <1>0 DEF PlanInv, WithinCaps, Lesser, Greater
<1>4. stats.total + file.bytes <= budget - remaining
  <2>1. CASE net = "close"
    <3>1. task \in 1 .. Len(tasks)
      BY <1>0, <2>1 DEF NetTypeOK
    <3>2. task \in 1 .. Len(tasks) + 1 /\ task + 1 \in 1 .. Len(tasks) + 1
      BY <1>0, <3>1
    <3>3. tasks[task].want \in Nat
      <4>1. tasks[task] \in Task /\ tasks[task].want >= MinChunk
        BY <1>0, <3>1 DEF PlanInv, RangesInside
      <4> QED
        BY <4>1, PlanAssumption DEF Task
    <3>4. T[task] \in Nat /\ T[task + 1] \in Nat
      BY <1>1, <3>2
    <3>5. stats.total <= T[task] /\ file.bytes <= tasks[task].want
      BY <1>1, <2>1 DEF Charged, PaidBy
    <3>6. T[task] + tasks[task].want <= T[task + 1] /\ T[task + 1] <= budget - remaining
      BY <1>1, <3>1, <3>2 DEF Account
    <3>7. stats.total \in Nat /\ file.bytes \in Nat /\ budget - remaining \in Int
      BY <1>0
    <3> QED
      BY <3>3, <3>4, <3>5, <3>6, <3>7
  <2>2. CASE net # "close"
    <3>1. file.bytes = 0 /\ stats.total <= budget - remaining
      BY <1>0, <1>1, <2>2 DEF FileClosed, NoFile, Charged
    <3> QED
      BY <1>0, <3>1
  <2> QED
    BY <2>1, <2>2
<1>5. stats.total + file.bytes <= Greater(budget, 0)
  <2>1. Greater(budget, 0) \in Int
    BY <1>0 DEF Greater
  <2> QED
    BY <1>0, <1>3, <1>4, <2>1
<1> QED
  BY <1>2, <1>5 DEF PoliteToHosts

\* For every source list, budget and cap and whatever the servers send: no name
\* serves more than its cap and the cycle no more than its budget
\* (config.go:104-105, net.go:89-96, 256-257).
THEOREM PoliteAlways == NetSpec => []PoliteToHosts
<1>1. StartNet => WithinPlan
  BY WithinPlanInit DEF StartNet, NetInit
<1>2. NetInv /\ WithinPlan /\ [NetStep \/ CancelNet]_downVars => WithinPlan'
  <2> SUFFICES ASSUME NetInv, WithinPlan, [NetStep \/ CancelNet]_downVars PROVE WithinPlan'
    OBVIOUS
  <2>1. CASE CancelNet \/ UNCHANGED downVars
    BY <2>1, WithinPlanFrame DEF CancelNet, downVars, netVars
  <2> QED
    BY <2>1, WithinPlanNext
<1> QED
  BY <1>1, <1>2, NetInvHolds, PoliteWithinPlan, PTL DEF NetSpec
=============================================================================
