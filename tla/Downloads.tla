----------------------------- MODULE Downloads -----------------------------
(***************************************************************************)
(* The network goroutine of a cycle (net.go): it plans the downloads and   *)
(* makes one after the other, into files that rotate over the run          *)
(* directories or, when there are none, to io.Discard.  The context of the *)
(* cycle may be cancelled at any time.                                     *)
(***************************************************************************)
EXTENDS PlanDownloads

CONSTANTS
    Dirs,       \* run directories
    NoDir,      \* the destination of a download to io.Discard
    DirLists    \* what makeRunDir may leave: sequences of run directories

ASSUME DownloadsAssumption == NoDir \notin Dirs /\ DirLists \subseteq Seq(Dirs)

VARIABLES
    cancelled,  \* ctx.Err() # nil
    runDirs,    \* the run directories of the cycle
    net,        \* "off", "plan", "next", "request", "close", "pause", "over"
    task,       \* the task at hand
    file,       \* what has arrived for it, and where it is kept
    stats,      \* netStats
    tried       \* history: tasks a request was made for

netVars == <<net, task, file, stats, tried>>

NoFile == [dir |-> NoDir, bytes |-> 0]
NoStats == [total |-> 0, discarded |-> 0, perHost |-> [n \in Names |-> 0],
            failures |-> 0, skipped |-> 0]

NetTypeOK ==
    /\ PlanTypeOK
    /\ cancelled \in BOOLEAN
    /\ runDirs \in Seq(Dirs)
    /\ net \in {"off", "plan", "next", "request", "close", "pause", "over"}
    /\ net \in {"next", "request", "close", "pause"} => task \in 1 .. Len(tasks)
    /\ file \in [dir : Dirs \cup {NoDir}, bytes : Nat]
    /\ stats \in [total : Nat, discarded : Nat, perHost : [Names -> Nat],
                  failures : Nat, skipped : Nat]
    /\ tried \in Nat

NetInit ==
    /\ PlanInit
    /\ cancelled = FALSE
    /\ task = 1 /\ file = NoFile /\ stats = NoStats /\ tried = 0

----------------------------------------------------------------------------
PlanStep ==
    /\ net = "plan"
    /\ PlanNext
    /\ UNCHANGED <<cancelled, runDirs, netVars>>

\* runDownloads is given the plan.
BeginDownloads ==
    /\ net = "plan" /\ stage = "planned"
    /\ net' = IF tasks = << >> THEN "over" ELSE "next"
    /\ UNCHANGED <<planVars, cancelled, runDirs, task, file, stats, tried>>

\* Mutant: the task at hand is not counted among the skipped ones.
NextTaskOffByOne ==
    /\ net = "next"
    /\ IF cancelled
       THEN net' = "over" /\ stats' = [stats EXCEPT !.skipped = Len(tasks) - task]
       ELSE net' = "request" /\ UNCHANGED stats
    /\ UNCHANGED <<planVars, cancelled, runDirs, task, file, tried>>

\* The top of the loop: a cancelled cycle skips the rest of the plan.
NextTask ==
    /\ net = "next"
    /\ IF cancelled
       THEN net' = "over" /\ stats' = [stats EXCEPT !.skipped = Len(tasks) - task + 1]
       ELSE net' = "request" /\ UNCHANGED stats
    /\ UNCHANGED <<planVars, cancelled, runDirs, task, file, tried>>

\* Mutant: the loop ends one task too late.
AfterTaskLate == IF task > Len(tasks) \/ cancelled THEN "over" ELSE "pause"

\* Where the loop goes after a download.
AfterTask == IF task = Len(tasks) \/ cancelled THEN "over" ELSE "pause"

\* No answer, a bad status, or no file to put it in.
RequestFails ==
    /\ net = "request"
    /\ net' = AfterTask
    /\ stats' = [stats EXCEPT !.failures = @ + 1]
    /\ tried' = tried + 1
    /\ UNCHANGED <<planVars, cancelled, runDirs, task, file>>

Dest == IF runDirs = << >> THEN NoDir ELSE runDirs[((task - 1) % Len(runDirs)) + 1]

\* Mutant: io.Copy instead of io.CopyN, for a server that ignores Range.
ReceiveAll ==
    /\ net = "request" /\ ~cancelled
    /\ net' = "close"
    /\ \E n \in 0 .. tasks[task].want + MinChunk : file' = [dir |-> Dest, bytes |-> n]
    /\ UNCHANGED <<planVars, cancelled, runDirs, task, stats, tried>>

\* The body is copied, up to the wanted length; the connection may break, the
\* request time out or the cycle be cancelled in the middle.
Receive ==
    /\ net = "request" /\ ~cancelled
    /\ net' = "close"
    /\ \E n \in 0 .. tasks[task].want : file' = [dir |-> Dest, bytes |-> n]
    /\ UNCHANGED <<planVars, cancelled, runDirs, task, stats, tried>>

\* What went to io.Discard.
Discarded(f) == IF f.dir = NoDir THEN f.bytes ELSE 0

\* The file is synced and closed and what has arrived is counted.
FinishDownload ==
    /\ net = "close"
    /\ net' = AfterTask
    /\ stats' = [stats EXCEPT !.total = @ + file.bytes,
                              !.perHost[tasks[task].src.name] = @ + file.bytes,
                              !.discarded = @ + Discarded(file)]
    /\ file' = NoFile
    /\ tried' = tried + 1
    /\ UNCHANGED <<planVars, cancelled, runDirs, task>>

\* The randomized pause, cut short by a cancellation.
Pause ==
    /\ net = "pause"
    /\ net' = "next" /\ task' = task + 1
    /\ UNCHANGED <<planVars, cancelled, runDirs, file, stats, tried>>

NetStep ==
    \/ PlanStep
    \/ BeginDownloads
    \/ NextTask
    \/ RequestFails
    \/ Receive
    \/ FinishDownload
    \/ Pause

\* MaxRunDuration passes, or the daemon stops.
CancelNet ==
    /\ ~cancelled /\ net # "over"
    /\ cancelled' = TRUE
    /\ UNCHANGED <<planVars, runDirs, netVars>>

downVars == <<planVars, cancelled, runDirs, netVars>>

\* The goroutine by itself: it starts with the run directories of the cycle.
StartNet == NetInit /\ net = "plan" /\ runDirs \in DirLists

NetSpec ==
    /\ StartNet
    /\ [][NetStep \/ CancelNet]_downVars

\* The goroutine runs; requests time out and pauses end.
FairNetSpec == NetSpec /\ WF_downVars(NetStep)

----------------------------------------------------------------------------
\* No source serves more than its cap in a cycle and the cycle no more than its
\* budget, whatever the servers send (config.go:104-105, net.go:89-96, 256-257).
PoliteToHosts ==
    /\ \A n \in Names : stats.perHost[n] <= Greater(HostCap, 0)
    /\ stats.total + file.bytes <= Greater(budget, 0)

\* Every task of the plan was tried or is reported as skipped, unless the
\* cancellation came in the middle of a download, which leaves the rest of
\* the plan unreported (net.go:177-189).
NoTaskLost ==
    net = "over" => \/ tried + stats.skipped = Len(tasks)
                    \/ cancelled /\ stats.skipped = 0 /\ tried > 0

\* Planning and downloading come to an end, whatever budget, caps and sources
\* are and whatever the servers send (net.go:105-143, 177-199).
DownloadsEnd == <>(net = "over")
=============================================================================
