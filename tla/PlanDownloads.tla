--------------------------- MODULE PlanDownloads ---------------------------
(***************************************************************************)
(* planDownloads of internal/keeper/net.go: the download budget of a cycle *)
(* is split into tasks by round-robin passes over the shuffled sources.    *)
(* Every random draw is a choice over what it can return.                  *)
(***************************************************************************)
EXTENDS Integers, Sequences, Functions

CONSTANTS
    Names,      \* names of download origins
    Builtin,    \* the built-in list: records of a name and a size, approxB
    SpecLists,  \* net.sources: lists of names, the empty one for the built-ins
    MinChunk,   \* minChunkB
    Budgets,    \* budgetB: what jitterBudget can return
    HostCap     \* maxPerHostB, cfg.Net.MaxPerHostMB

\* An approxB of 0 stands for a source of any size.
Source == [name : Names, approxB : Nat]

ASSUME PlanAssumption ==
    /\ Builtin \in Seq(Source)
    /\ SpecLists \subseteq Seq(Names)
    /\ MinChunk \in Nat \ {0}
    /\ Budgets \subseteq Int /\ HostCap \in Int

VARIABLES
    stage,      \* "start", "pass" or "planned"
    order,      \* the sources, shuffled
    at,         \* position in the current pass
    progressed, \* the current pass has planned something
    budget,     \* budgetB
    remaining,  \* budget not planned yet
    used,       \* hostUsed: planned for each name
    tasks       \* the plan: source, offset and length of each request

planVars == <<stage, order, at, progressed, budget, remaining, used, tasks>>

Task == [src : Source, off : Int, want : Int]

PlanTypeOK ==
    /\ stage \in {"start", "pass", "planned"}
    /\ order \in Seq(Source)
    /\ at \in 1 .. Len(order) + 1
    /\ progressed \in BOOLEAN
    /\ budget \in Budgets /\ remaining \in Int
    /\ used \in [Names -> Nat]
    /\ tasks \in Seq(Task)

\* parseSources: the sources of an override are of any size.
ParseSources(specs) == [i \in 1 .. Len(specs) |-> [name |-> specs[i], approxB |-> 0]]

ResolveSources(specs) == IF specs = << >> THEN Builtin ELSE ParseSources(specs)

Shuffles(list) ==
    {[i \in 1 .. Len(list) |-> list[p[i]]] : p \in Bijection(1 .. Len(list), 1 .. Len(list))}

PlanInit ==
    /\ stage = "start"
    /\ \E specs \in SpecLists : order \in Shuffles(ResolveSources(specs))
    /\ at = 1 /\ progressed = FALSE
    /\ budget \in Budgets /\ remaining = budget
    /\ used = [n \in Names |-> 0]
    /\ tasks = << >>

----------------------------------------------------------------------------
Lesser(m, n) == IF m <= n THEN m ELSE n
Greater(m, n) == IF m <= n THEN n ELSE m

\* randInt64: uniform in lo .. hi, and lo when that is empty.
RandInt64(lo, hi) == lo .. Greater(lo, hi)

Fixed(src) == src.approxB > 0

\* Mutant: the cap is one of the request, not of all that its name has served.
RoomNoHost(src) ==
    LET left == Lesser(remaining, HostCap)
    IN  IF Fixed(src) THEN Lesser(left, src.approxB) ELSE left

\* capB: the most that may still be taken from src in one request.
Room(src) ==
    LET left == Lesser(remaining, HostCap - used[src.name])
    IN  IF Fixed(src) THEN Lesser(left, src.approxB) ELSE left

\* 40 % to 100 % of it, never less than the minimum.
Chunks(src) ==
    IF Fixed(src) THEN RandInt64(Greater(MinChunk, (Room(src) * 2) \div 5), Room(src))
                  ELSE {Room(src)}

\* Mutant: the offset is drawn without regard to the length.
OffsetsAnywhere(src, want) == IF Fixed(src) THEN RandInt64(0, src.approxB) ELSE {0}

Offsets(src, want) == IF Fixed(src) THEN RandInt64(0, src.approxB - want) ELSE {0}

----------------------------------------------------------------------------
\* Nothing to plan: no budget, no cap or no source.
Degenerate == budget <= 0 \/ HostCap <= 0 \/ order = << >>

BeginPlan ==
    /\ stage = "start"
    /\ stage' = IF Degenerate THEN "planned" ELSE "pass"
    /\ UNCHANGED <<order, at, progressed, budget, remaining, used, tasks>>

Visiting == stage = "pass" /\ at <= Len(order) /\ remaining > 0

\* Not even the minimum may be taken from the source.
SkipSource ==
    /\ Visiting
    /\ Room(order[at]) < MinChunk
    /\ at' = at + 1
    /\ UNCHANGED <<stage, order, progressed, budget, remaining, used, tasks>>

PlanChunk(src, want, off) ==
    /\ tasks' = Append(tasks, [src |-> src, off |-> off, want |-> want])
    /\ used' = [used EXCEPT ![src.name] = @ + want]
    /\ remaining' = remaining - want
    /\ progressed' = TRUE
    /\ at' = at + 1
    /\ UNCHANGED <<stage, order, budget>>

TakeChunk ==
    /\ Visiting
    /\ Room(order[at]) >= MinChunk
    /\ \E want \in Chunks(order[at]) :
          \E off \in Offsets(order[at], want) : PlanChunk(order[at], want, off)

PassOver == stage = "pass" /\ (at > Len(order) \/ remaining <= 0)

\* Mutant: a single pass.
EndPassOnce ==
    /\ PassOver
    /\ stage' = "planned"
    /\ UNCHANGED <<order, at, progressed, budget, remaining, used, tasks>>

\* Mutant: passes go on until the budget is spent.
EndPassForever ==
    /\ PassOver
    /\ IF remaining > 0
       THEN at' = 1 /\ progressed' = FALSE /\ UNCHANGED stage
       ELSE stage' = "planned" /\ UNCHANGED <<at, progressed>>
    /\ UNCHANGED <<order, budget, remaining, used, tasks>>

\* Another pass, unless the budget is spent or nothing could be planned.
EndPass ==
    /\ PassOver
    /\ IF remaining > 0 /\ progressed
       THEN at' = 1 /\ progressed' = FALSE /\ UNCHANGED stage
       ELSE stage' = "planned" /\ UNCHANGED <<at, progressed>>
    /\ UNCHANGED <<order, budget, remaining, used, tasks>>

PlanNext == BeginPlan \/ SkipSource \/ TakeChunk \/ EndPass

PlanSpec == PlanInit /\ [][PlanNext]_planVars

----------------------------------------------------------------------------
\* Every request is worth making, and a request for part of a file stays inside
\* the file (net.go:117-130).
RangesInside ==
    \A i \in 1 .. Len(tasks) : LET t == tasks[i] IN
        /\ t.want >= MinChunk
        /\ Fixed(t.src) => t.off >= 0 /\ t.off + t.want <= t.src.approxB

\* A plan leaves budget over only if no source can take another chunk, the caps
\* and sizes considered (net.go:105-143).
PlanIsMaximal ==
    stage = "planned" /\ ~Degenerate => \A i \in 1 .. Len(order) : Room(order[i]) < MinChunk
=============================================================================
