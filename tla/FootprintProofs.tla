-------------------------- MODULE FootprintProofs --------------------------
(***************************************************************************)
(* Proof of the bound on what the keeper stores in retain mode, for any    *)
(* number of processes, roots and directories.  A sum over directories is  *)
(* not reasoned about step by step; instead every byte on a volume has a   *)
(* slot of its own, and there are as many slots as the bound allows.       *)
(***************************************************************************)
EXTENDS RunDirsProofs

\* Retain mode; purges do not fail.
PurgesWork == RetainFiles /\ "read" \notin Faults /\ "remove" \notin Faults

\* The bytes the keeper has on the volume of r.
BytesOn(r) == Bytes(DirsIn(r))

\* What process p may yet write before its next purge.
Reserve(p) ==
    CASE pc[p] \in {"reprepare", "baseline", "mkdir"} -> CycleMax
      [] pc[p] = "phases"                             -> netLeft[p] + diskLeft[p]
      [] OTHER                                        -> 0

\* How many bytes stay below the mark of r.
BelowMark(r) == (PurgePercent * Cap[r] - 1) \div 100

\* The slots of a volume: those below the mark and one cycle of every process.
\* The slots of a process fill up as its reserve is used.
AllSlots(r) == ({None} \X (1 .. BelowMark(r))) \cup (Procs \X (1 .. CycleMax))
Slots(r) == {s \in AllSlots(r) : s[1] # None => s[2] <= CycleMax - Reserve(s[1])}

\* Every byte on the volume has its own slot; once the purge of a process has
\* passed r, its slots are those of directories it has yet to remove.
Placed(r, slot) ==
    /\ \A a, b \in BytesOn(r) : slot[a] = slot[b] => a = b
    /\ \A p \in Procs : pc[p] = "purge" /\ r \notin todo[p] =>
          \A b \in BytesOn(r) : slot[b][1] = p => b[1] \in victims[p]

\* A directory that is gone is empty.
GoneIsEmpty == \A d \in Dirs : home[d] = None => size[d] = 0

Bounded(r) == \E slot \in [BytesOn(r) -> Slots(r)] : Placed(r, slot)

FootInv == GoneIsEmpty /\ \A r \in Roots : Bounded(r)

----------------------------------------------------------------------------
(* Bytes, slots and marks.                                                 *)

\* A byte is a directory and a position in its files.
LEMMA BytesAre ==
    ASSUME NEW r
    PROVE  /\ \A b : b \in BytesOn(r) <=>
                 \E d \in Dirs : home[d] = r /\ \E k \in 1 .. size[d] : b = <<d, k>>
           /\ \A b : b \in BytesOn(r)' <=>
                 \E d \in Dirs : home'[d] = r /\ \E k \in 1 .. size'[d] : b = <<d, k>>
  <1>1. ASSUME NEW h, NEW s, NEW b
        PROVE  b \in UNION {{d} \X (1 .. s[d]) : d \in {x \in Dirs : h[x] = r}} <=>
                 \E d \in Dirs : h[d] = r /\ \E k \in 1 .. s[d] : b = <<d, k>>
    OBVIOUS
  <1>2. ASSUME NEW b
        PROVE  b \in BytesOn(r) <=>
                 \E d \in Dirs : home[d] = r /\ \E k \in 1 .. size[d] : b = <<d, k>>
    BY <1>1 DEF BytesOn, Bytes, DirsIn
  <1>3. ASSUME NEW b
        PROVE  b \in BytesOn(r)' <=>
                 \E d \in Dirs : home'[d] = r /\ \E k \in 1 .. size'[d] : b = <<d, k>>
    BY <1>1 DEF BytesOn, Bytes, DirsIn
  <1> QED
    BY <1>2, <1>3

\* The mark as a number of bytes.
LEMMA MarkBound ==
    ASSUME NEW r \in Roots
    PROVE  /\ BelowMark(r) \in Nat
           /\ 100 * BelowMark(r) < PurgePercent * Cap[r]
           /\ \A n \in Int : 100 * n < PurgePercent * Cap[r] => n <= BelowMark(r)
  <1>1. PurgePercent \in Nat \ {0} /\ Cap[r] \in Nat \ {0}
    BY DiskAssumption
  <1>2. PurgePercent * Cap[r] \in Nat \ {0}
    BY <1>1
  <1> DEFINE m == PurgePercent * Cap[r]
  <1>3. m \in Nat \ {0}
    BY <1>2
  <1>4. BelowMark(r) = (m - 1) \div 100
    BY DEF BelowMark
  <1> HIDE DEF m
  <1>5. (m - 1) \div 100 \in Nat /\ 100 * ((m - 1) \div 100) < m
    BY <1>3
  <1>6. ASSUME NEW n \in Int, 100 * n < m PROVE n <= (m - 1) \div 100
    BY <1>3, <1>6
  <1> QED
    BY <1>4, <1>5, <1>6 DEF m

\* The number of slots of a volume.
LEMMA SlotCount ==
    ASSUME NEW r \in Roots
    PROVE  /\ IsFiniteSet(AllSlots(r)) /\ Cardinality(Procs) \in Nat
           /\ Cardinality(AllSlots(r)) = BelowMark(r) + Cardinality(Procs) * CycleMax
  <1>1. BelowMark(r) \in Nat /\ CycleMax \in Nat
    BY MarkBound, DiskAssumption DEF CycleMax
  <1>2. /\ IsFiniteSet(1 .. BelowMark(r)) /\ Cardinality(1 .. BelowMark(r)) = BelowMark(r)
        /\ IsFiniteSet(1 .. CycleMax) /\ Cardinality(1 .. CycleMax) = CycleMax
    <2>1. ASSUME NEW n \in Nat PROVE IsFiniteSet(1 .. n) /\ Cardinality(1 .. n) = n
      BY FS_Interval
    <2> QED
      BY <1>1, <2>1
  <1>3. IsFiniteSet({None}) /\ Cardinality({None}) = 1
    <2>1. ASSUME NEW x PROVE IsFiniteSet({x}) /\ Cardinality({x}) = 1
      BY FS_Singleton
    <2> QED
      BY <2>1
  <1>4. IsFiniteSet(Procs) /\ Cardinality(Procs) \in Nat
    BY DiskAssumption, FS_CardinalityType
  <1> DEFINE A == {None} \X (1 .. BelowMark(r))
             B == Procs \X (1 .. CycleMax)
  <1>5. IsFiniteSet(A) /\ Cardinality(A) = BelowMark(r)
    <2>1. /\ IsFiniteSet(A)
          /\ Cardinality(A) = Cardinality({None}) * Cardinality(1 .. BelowMark(r))
      BY <1>2, <1>3, FS_Product
    <2> QED
      BY <1>1, <1>2, <1>3, <2>1
  <1>6. IsFiniteSet(B) /\ Cardinality(B) = Cardinality(Procs) * CycleMax
    BY <1>2, <1>4, FS_Product
  <1>7. A \cap B = {}
    BY DiskAssumption
  <1> HIDE DEF A, B
  <1>8. /\ IsFiniteSet(A \cup B)
        /\ Cardinality(A \cup B) = Cardinality(A) + Cardinality(B) - Cardinality(A \cap B)
    BY <1>5, <1>6, FS_Union
  <1>9. Cardinality(A \cap B) = 0
    BY <1>7, FS_EmptySet
  <1>10. Cardinality(Procs) * CycleMax \in Nat
    BY <1>1, <1>4
  <1>11. Cardinality(A \cup B) = BelowMark(r) + Cardinality(Procs) * CycleMax
    BY <1>1, <1>5, <1>6, <1>8, <1>9, <1>10
  <1> QED
    BY <1>4, <1>8, <1>11 DEF AllSlots, A, B

\* The elements of a finite set can be numbered.
LEMMA Numbering ==
    ASSUME NEW S, IsFiniteSet(S)
    PROVE  \E g \in [S -> 1 .. Cardinality(S)] : \A a, b \in S : g[a] = g[b] => a = b
  <1>1. ExistsBijection(1 .. Cardinality(S), S)
    BY FS_CardinalityType
  <1>2. ExistsBijection(S, 1 .. Cardinality(S))
    BY <1>1, Fun_ExistsBijSymmetric
  <1>3. PICK g : g \in Bijection(S, 1 .. Cardinality(S))
    BY <1>2 DEF ExistsBijection
  <1>4. /\ g \in [S -> 1 .. Cardinality(S)]
        /\ \A a, b \in S : g[a] = g[b] => a = b
    BY <1>3, Fun_BijectionProperties
  <1> QED
    BY <1>4

\* Where every byte has a slot, there are no more bytes than slots.
LEMMA Counting ==
    ASSUME NEW S, NEW T, IsFiniteSet(T), NEW slot \in [S -> T],
           \A a, b \in S : slot[a] = slot[b] => a = b
    PROVE  IsFiniteSet(S) /\ Cardinality(S) \in Nat /\ Cardinality(S) <= Cardinality(T)
  <1>1. slot \in Injection(S, T)
    BY Fun_IsInj
  <1> QED
    BY <1>1, FS_Injection, FS_CardinalityType

LEMMA VolumeIsFinite ==
    ASSUME NEW r \in Roots, NEW slot \in [BytesOn(r) -> Slots(r)], Placed(r, slot)
    PROVE  /\ IsFiniteSet(BytesOn(r)) /\ Cardinality(BytesOn(r)) \in Nat
           /\ Cardinality(BytesOn(r)) <= Cardinality(AllSlots(r))
  <1>1. slot \in [BytesOn(r) -> AllSlots(r)]
    BY DEF Slots
  <1> QED
    BY <1>1, SlotCount, Counting DEF Placed

\* What a process may still write is at most what a cycle may write.
LEMMA ReserveBound == TypeOK => \A p \in Procs : Reserve(p) \in 0 .. CycleMax
  BY DiskAssumption DEF TypeOK, Reserve, CycleMax

LEMMA ReserveBoundNext == TypeOK' => \A p \in Procs : Reserve(p)' \in 0 .. CycleMax
  BY DiskAssumption DEF TypeOK, Reserve, CycleMax

----------------------------------------------------------------------------
(* Steps after which the bytes that are left keep their slots.             *)

LEMMA PlacedKept ==
    ASSUME NEW r, NEW slot \in [BytesOn(r) -> Slots(r)], Placed(r, slot),
           BytesOn(r)' \subseteq BytesOn(r),
           \A b \in BytesOn(r)' : slot[b] \in Slots(r)',
           \A p \in Procs : pc'[p] = "purge" /\ r \notin todo'[p] =>
               \A b \in BytesOn(r)' : slot[b][1] = p => b[1] \in victims'[p]
    PROVE  \E s \in [BytesOn(r)' -> Slots(r)'] : Placed(r, s)'
  <1>1. PICK B : B = BytesOn(r)'
    OBVIOUS
  <1>2. PICK s : s = [b \in B |-> slot[b]]
    OBVIOUS
  <1>3. /\ s \in [BytesOn(r)' -> Slots(r)']
        /\ \A b \in BytesOn(r)' : s[b] = slot[b]
    BY <1>1, <1>2
  <1>4. \A a, b \in BytesOn(r) : slot[a] = slot[b] => a = b
    BY DEF Placed
  <1>5. \A a, b \in BytesOn(r)' : s[a] = s[b] => a = b
    BY <1>3, <1>4
  <1>6. \A p \in Procs : pc'[p] = "purge" /\ r \notin todo'[p] =>
            \A b \in BytesOn(r)' : s[b][1] = p => b[1] \in victims'[p]
    BY <1>3
  <1>7. Placed(r, s)'
    BY <1>5, <1>6 DEF Placed
  <1> QED
    BY <1>3, <1>7

\* A process that is through with its purge: nothing left to visit or remove.
Purged(p) == pc[p] = "purge" /\ todo[p] = {} /\ victims[p] = {}

\* A step that adds no byte, takes no byte off a purge's list and lets nobody
\* write more, except a process that has just purged.
Quiet ==
    /\ GoneIsEmpty'
    /\ \A r \in Roots : BytesOn(r)' \subseteq BytesOn(r)
    /\ \A p \in Procs : Reserve(p)' <= Reserve(p) \/ Purged(p)
    /\ \A p \in Procs, r \in Roots : pc'[p] = "purge" /\ r \notin todo'[p] =>
          /\ pc[p] = "purge" /\ r \notin todo[p]
          /\ \A b \in BytesOn(r)' : b[1] \in victims[p] => b[1] \in victims'[p]

\* A slot stays one when its process may not write more than before.
LEMMA SlotStays ==
    ASSUME TypeOK, TypeOK', NEW r \in Roots, NEW s \in Slots(r),
           s[1] \in Procs => Reserve(s[1])' <= Reserve(s[1])
    PROVE  s \in Slots(r)'
  <1>1. s \in AllSlots(r)
    BY DEF Slots
  <1>2. ASSUME s[1] # None PROVE s[2] <= CycleMax - Reserve(s[1])'
    <2>1. s[1] \in Procs /\ s[2] \in Int
      BY <1>1, <1>2 DEF AllSlots
    <2>2. s[2] <= CycleMax - Reserve(s[1])
      BY <1>2 DEF Slots
    <2>3. CycleMax \in Int /\ Reserve(s[1]) \in Int /\ Reserve(s[1])' \in Int
      BY <2>1, ReserveBound, ReserveBoundNext, DiskAssumption DEF CycleMax
    <2> QED
      BY <2>1, <2>2, <2>3
  <1> QED
    BY <1>1, <1>2 DEF Slots, AllSlots, BelowMark, CycleMax

LEMMA QuietKeeps ==
    ASSUME TypeOK, TypeOK', FootInv, Quiet PROVE FootInv'
  <1>1. ASSUME NEW r \in Roots PROVE Bounded(r)'
    <2>1. Bounded(r)
      BY <1>1 DEF FootInv
    <2>2. BytesOn(r)' \subseteq BytesOn(r)
      BY DEF Quiet
    <2>3. PICK slot \in [BytesOn(r) -> Slots(r)] : Placed(r, slot)
      BY <2>1 DEF Bounded
    <2>4. ASSUME NEW b \in BytesOn(r)' PROVE slot[b] \in Slots(r)'
      <3>1. b \in BytesOn(r) /\ slot[b] \in Slots(r)
        BY <2>2, <2>3
      <3>2. ASSUME slot[b][1] \in Procs PROVE ~Purged(slot[b][1])
        BY <2>3, <3>1, <3>2 DEF Placed, Purged
      <3>3. slot[b][1] \in Procs => Reserve(slot[b][1])' <= Reserve(slot[b][1])
        BY <3>2 DEF Quiet
      <3> QED
        BY <3>1, <3>3, SlotStays
    <2>5. ASSUME NEW p \in Procs, pc'[p] = "purge", r \notin todo'[p],
                 NEW b \in BytesOn(r)', slot[b][1] = p
          PROVE  b[1] \in victims'[p]
      <3>1. /\ pc[p] = "purge" /\ r \notin todo[p]
            /\ b[1] \in victims[p] => b[1] \in victims'[p]
        BY <2>5 DEF Quiet
      <3> QED
        BY <2>2, <2>3, <2>5, <3>1 DEF Placed
    <2>6. \E s \in [BytesOn(r)' -> Slots(r)'] : Placed(r, s)'
      BY <2>2, <2>3, <2>4, <2>5, PlacedKept
    <2> QED
      BY <2>6 DEF Bounded
  <1> QED
    BY <1>1 DEF Quiet, FootInv

----------------------------------------------------------------------------
(* Writes: the new bytes take the slots of the writing process that its    *)
(* reserve gives up.                                                       *)

\* Process p writes n bytes into d, at the expense of its reserve.
Writes(p, d, n) ==
    /\ n \in Nat \ {0}
    /\ pc[p] = "phases" /\ home[d] # None /\ Free(home[d]) >= n
    /\ size' = [size EXCEPT ![d] = @ + n]
    /\ UNCHANGED <<home, foreign, pc, todo, victims>>
    /\ Reserve(p)' = Reserve(p) - n
    /\ \A q \in Procs \ {p} : Reserve(q)' = Reserve(q)

\* The bytes of the volume that is written to.
LEMMA WrittenBytes ==
    ASSUME TypeOK, NEW p \in Procs, NEW d \in Dirs, NEW n, Writes(p, d, n),
           NEW r \in Roots, r = home[d]
    PROVE  /\ \A b \in BytesOn(r)' :
                 \/ b \in BytesOn(r)
                 \/ \E k \in size[d] + 1 .. size[d] + n : b = <<d, k>>
           /\ \A k \in size[d] + 1 .. size[d] + n : <<d, k>> \notin BytesOn(r)
           /\ \A t \in Roots \ {r} : BytesOn(t)' = BytesOn(t)
  <1>1. size[d] \in Nat /\ n \in Nat /\ size'[d] = size[d] + n /\ home' = home
    BY DEF Writes, TypeOK
  <1>2. \A e \in Dirs \ {d} : size'[e] = size[e]
    BY DEF Writes, TypeOK
  <1>3. ASSUME NEW b \in BytesOn(r)', b \notin BytesOn(r)
        PROVE  \E k \in size[d] + 1 .. size[d] + n : b = <<d, k>>
    <2>1. PICK e \in Dirs : home'[e] = r /\ \E k \in 1 .. size'[e] : b = <<e, k>>
      BY <1>1, <1>3, BytesAre
    <2>2. PICK k \in 1 .. size'[e] : b = <<e, k>>
      BY <2>1
    <2>3. ~(home[e] = r /\ \E j \in 1 .. size[e] : b = <<e, j>>)
      BY <1>3, BytesAre
    <2>4. k \notin 1 .. size[e]
      BY <1>1, <2>1, <2>2, <2>3
    <2>5. e = d
      BY <1>2, <2>2, <2>4
    <2> QED
      BY <1>1, <2>2, <2>4, <2>5
  <1>4. ASSUME NEW k \in size[d] + 1 .. size[d] + n, <<d, k>> \in BytesOn(r) PROVE FALSE
    <2>1. PICK e \in Dirs : home[e] = r /\ \E j \in 1 .. size[e] : <<d, k>> = <<e, j>>
      BY <1>4, BytesAre
    <2>2. k \in 1 .. size[d]
      BY <2>1
    <2> QED
      BY <1>1, <2>2
  <1>5. ASSUME NEW t \in Roots, t # r PROVE BytesOn(t)' = BytesOn(t)
    <2>1. ASSUME NEW b PROVE b \in BytesOn(t)' <=> b \in BytesOn(t)
      <3>1. \A e \in Dirs : home[e] = t => size'[e] = size[e]
        BY <1>2, <1>5
      <3> QED
        BY <1>1, <3>1, BytesAre
    <2> QED
      BY <2>1
  <1> QED
    BY <1>3, <1>4, <1>5

LEMMA WritesKeep ==
    ASSUME TypeOK, TypeOK', FootInv, NEW p \in Procs, NEW d \in Dirs, NEW n, Writes(p, d, n)
    PROVE  FootInv'
  <1>1. PICK r \in Roots : r = home[d] /\ Bounded(r)
    <2>1. home[d] \in Roots
      BY DEF Writes, TypeOK
    <2> QED
      BY <2>1 DEF FootInv
  <1>2. PICK slot \in [BytesOn(r) -> Slots(r)] : Placed(r, slot)
    BY <1>1 DEF Bounded
  <1>3. PICK top \in 0 .. CycleMax :
            /\ top = CycleMax - Reserve(p)
            /\ top + n <= CycleMax /\ top + n = CycleMax - Reserve(p)'
    <2>1. /\ Reserve(p) \in 0 .. CycleMax /\ Reserve(p)' \in 0 .. CycleMax
          /\ CycleMax \in Nat /\ n \in Nat /\ Reserve(p)' = Reserve(p) - n
      BY ReserveBound, ReserveBoundNext, DiskAssumption DEF Writes, CycleMax
    <2>2. CycleMax - Reserve(p) \in 0 .. CycleMax
      BY <2>1
    <2> QED
      BY <2>1, <2>2
  <1>4. size[d] \in Nat /\ n \in Nat \ {0} /\ CycleMax \in Nat
    BY DiskAssumption DEF TypeOK, Writes, CycleMax
  <1>5. PICK had : had = size[d]
    OBVIOUS
  <1>6. PICK Old : Old = BytesOn(r)
    OBVIOUS
  <1>7. PICK New : New = BytesOn(r)'
    OBVIOUS
  <1>8. PICK s : s = [b \in New |-> IF b \in Old THEN slot[b] ELSE <<p, top + (b[2] - had)>>]
    OBVIOUS
  \* What the new slot function says of an old and of a new byte.
  <1>9. ASSUME NEW b \in New, b \in Old
        PROVE  s[b] = slot[b] /\ s[b] \in Slots(r) /\ s[b] \in Slots(r)'
               /\ (s[b][1] = p => s[b][2] <= top)
    <2>1. s[b] = slot[b] /\ s[b] \in Slots(r)
      BY <1>2, <1>6, <1>8, <1>9
    <2>2. s[b][1] \in Procs => Reserve(s[b][1])' <= Reserve(s[b][1])
      <3>1. \A q \in Procs : Reserve(q) \in 0 .. CycleMax /\ Reserve(q)' \in 0 .. CycleMax
        BY ReserveBound, ReserveBoundNext
      <3>2. \A q \in Procs : Reserve(q)' <= Reserve(q)
        BY <1>4, <3>1 DEF Writes
      <3> QED
        BY <3>2
    <2>3. s[b] \in Slots(r)'
      BY <2>1, <2>2, SlotStays
    <2>4. s[b][1] = p => s[b][2] <= top
      BY <1>3, <2>1, DiskAssumption DEF Slots
    <2> QED
      BY <2>1, <2>3, <2>4
  <1>10. ASSUME NEW b \in New, b \notin Old
         PROVE  \E k \in 1 .. n : b = <<d, had + k>> /\ s[b] = <<p, top + k>>
    <2>1. PICK j \in had + 1 .. had + n : b = <<d, j>>
      BY <1>1, <1>5, <1>6, <1>7, <1>10, WrittenBytes
    <2>2. s[b] = <<p, top + (j - had)>>
      BY <1>8, <1>10, <2>1
    <2>3. (j - had) \in 1 .. n /\ j = had + (j - had)
      BY <1>4, <1>5, <2>1
    <2> QED
      BY <2>1, <2>2, <2>3
  <1>11. ASSUME NEW b \in New PROVE s[b] \in Slots(r)'
    <2>1. ASSUME NEW k \in 1 .. n, s[b] = <<p, top + k>> PROVE s[b] \in Slots(r)'
      <3>1. top + k \in 1 .. CycleMax /\ top + k <= CycleMax - Reserve(p)'
        BY <1>3, <1>4
      <3>2. <<p, top + k>> \in AllSlots(r)'
        BY <3>1 DEF AllSlots, CycleMax
      <3> QED
        BY <2>1, <3>1, <3>2 DEF Slots, CycleMax
    <2> QED
      BY <1>9, <1>10, <2>1
  <1>12. ASSUME NEW a \in New, NEW b \in New, s[a] = s[b] PROVE a = b
    <2>1. CASE a \in Old /\ b \in Old
      BY <1>2, <1>6, <1>9, <1>12, <2>1 DEF Placed
    <2>2. CASE a \notin Old /\ b \notin Old
      <3>1. PICK j \in 1 .. n : a = <<d, had + j>> /\ s[a] = <<p, top + j>>
        BY <1>10, <2>2
      <3>2. PICK k \in 1 .. n : b = <<d, had + k>> /\ s[b] = <<p, top + k>>
        BY <1>10, <2>2
      <3>3. j = k
        BY <1>3, <1>12, <3>1, <3>2
      <3> QED
        BY <3>1, <3>2, <3>3
    <2>3. ASSUME NEW x \in New, NEW y \in New, x \in Old, y \notin Old, s[x] = s[y]
          PROVE  FALSE
      <3>1. PICK k \in 1 .. n : s[y] = <<p, top + k>>
        BY <1>10, <2>3
      <3>2. s[x][1] = p /\ s[x][2] = top + k
        BY <2>3, <3>1
      <3>3. s[x][2] <= top
        BY <1>9, <2>3, <3>2
      <3> QED
        BY <1>3, <3>2, <3>3
    <2> QED
      BY <1>12, <2>1, <2>2, <2>3
  <1>13. ASSUME NEW q \in Procs, pc'[q] = "purge", r \notin todo'[q], NEW b \in New, s[b][1] = q
         PROVE  b[1] \in victims'[q]
    <2>1. pc[q] = "purge" /\ r \notin todo[q] /\ victims' = victims /\ q # p
      BY <1>13 DEF Writes
    <2>2. b \in Old
      BY <1>10, <1>13, <2>1
    <2>3. slot[b][1] = q
      BY <1>9, <1>13, <2>2
    <2> QED
      BY <1>2, <1>6, <2>1, <2>2, <2>3 DEF Placed
  <1>14. Bounded(r)'
    <2>1. s \in [BytesOn(r)' -> Slots(r)']
      BY <1>7, <1>8, <1>11
    <2>2. Placed(r, s)'
      BY <1>7, <1>12, <1>13 DEF Placed
    <2> QED
      BY <2>1, <2>2 DEF Bounded
  <1>15. ASSUME NEW t \in Roots, t # r PROVE Bounded(t)'
    <2>1. Bounded(t) /\ BytesOn(t)' = BytesOn(t)
      BY <1>1, <1>15, WrittenBytes DEF FootInv
    <2>2. PICK f \in [BytesOn(t) -> Slots(t)] : Placed(t, f)
      BY <2>1 DEF Bounded
    <2>3. \A q \in Procs : Reserve(q)' <= Reserve(q)
      <3>1. \A q \in Procs : Reserve(q) \in 0 .. CycleMax /\ Reserve(q)' \in 0 .. CycleMax
        BY ReserveBound, ReserveBoundNext
      <3> QED
        BY <1>4, <3>1 DEF Writes
    <2>4. \A b \in BytesOn(t)' : f[b] \in Slots(t)'
      BY <2>1, <2>2, <2>3, SlotStays
    <2>5. UNCHANGED <<pc, todo, victims>>
      BY DEF Writes
    <2>6. \A q \in Procs : pc'[q] = "purge" /\ t \notin todo'[q] =>
             \A b \in BytesOn(t)' : f[b][1] = q => b[1] \in victims'[q]
      BY <2>1, <2>2, <2>5 DEF Placed
    <2>7. \E g \in [BytesOn(t)' -> Slots(t)'] : Placed(t, g)'
      BY <2>1, <2>2, <2>4, <2>6, PlacedKept
    <2> QED
      BY <2>7 DEF Bounded
  <1>16. GoneIsEmpty'
    <2>1. GoneIsEmpty
      BY DEF FootInv
    <2> QED
      BY <2>1 DEF GoneIsEmpty, Writes, TypeOK
  <1> QED
    BY <1>14, <1>15, <1>16 DEF FootInv

----------------------------------------------------------------------------
(* A purge visits a root: below the mark all its bytes fit below the mark, *)
(* at the mark all its directories are to go.                              *)

\* Below the mark, the bytes can be moved to the slots below the mark.
LEMMA BelowTheMark ==
    ASSUME TypeOK, NEW r \in Roots, ~AtMark(r, Used(r))
    PROVE  \E slot \in [BytesOn(r) -> {None} \X (1 .. BelowMark(r))] :
               \A a, b \in BytesOn(r) : slot[a] = slot[b] => a = b
  <1>1. PICK S : S = BytesOn(r)
    OBVIOUS
  <1>2. IsFiniteSet(S) /\ Cardinality(S) \in Nat /\ Ours(r) = Cardinality(S)
    BY <1>1, BytesCounted, FS_CardinalityType DEF Ours, BytesOn
  <1>3. Cardinality(S) <= BelowMark(r)
    <2>1. ~(100 * (foreign[r] + Cardinality(S)) >= PurgePercent * Cap[r])
      BY <1>2 DEF AtMark, Used
    <2>2. foreign[r] \in Nat /\ PurgePercent * Cap[r] \in Int
      <3>1. PurgePercent \in Int /\ Cap[r] \in Int
        BY DiskAssumption
      <3> QED
        BY <3>1 DEF TypeOK
    <2>3. 100 * Cardinality(S) < PurgePercent * Cap[r]
      BY <1>2, <2>1, <2>2
    <2> QED
      BY <1>2, <2>3, MarkBound
  <1>4. PICK g \in [S -> 1 .. Cardinality(S)] : \A a, b \in S : g[a] = g[b] => a = b
    BY <1>2, Numbering
  <1>5. PICK slot : slot = [b \in S |-> <<None, g[b]>>]
    OBVIOUS
  <1>6. BelowMark(r) \in Nat
    BY MarkBound
  <1>7. slot \in [S -> {None} \X (1 .. BelowMark(r))]
    <2>1. \A b \in S : g[b] \in 1 .. BelowMark(r)
      BY <1>2, <1>3, <1>4, <1>6
    <2> QED
      BY <1>5, <2>1
  <1>8. \A a, b \in S : slot[a] = slot[b] => a = b
    BY <1>4, <1>5
  <1> QED
    BY <1>1, <1>7, <1>8

LEMMA PurgeKeeps ==
    ASSUME TypeOK, FootInv, NEW p \in Procs, NEW r \in Roots, PurgeRoot(p, r)
    PROVE  FootInv'
  <1>1. /\ pc[p] = "purge" /\ victims[p] = {} /\ r \in todo[p]
        /\ todo' = [todo EXCEPT ![p] = @ \ {r}]
        /\ victims' = [victims EXCEPT ![p] = IF AtMark(r, Used(r)) THEN DirsIn(r) ELSE {}]
        /\ UNCHANGED <<home, size, pc, netLeft, diskLeft>>
    BY DEF PurgeRoot, Visit, dirVars, workVars
  <1>2. /\ todo'[p] = todo[p] \ {r}
        /\ victims'[p] = IF AtMark(r, Used(r)) THEN DirsIn(r) ELSE {}
        /\ \A q \in Procs \ {p} : todo'[q] = todo[q] /\ victims'[q] = victims[q]
    BY <1>1 DEF TypeOK
  <1>3. \A t \in Roots : BytesOn(t)' = BytesOn(t) /\ Slots(t)' = Slots(t)
    <2>1. \A t \in Roots : BytesOn(t)' = BytesOn(t)
      BY <1>1 DEF BytesOn, Bytes, DirsIn
    <2>2. ASSUME NEW q PROVE Reserve(q)' = Reserve(q)
      BY <1>1 DEF Reserve, CycleMax
    <2>3. \A t \in Roots : Slots(t)' = Slots(t)
      BY <2>2 DEF Slots, AllSlots, BelowMark, CycleMax
    <2> QED
      BY <2>1, <2>3
  <1>4. ASSUME NEW t \in Roots, t # r \/ AtMark(r, Used(r)),
               NEW slot \in [BytesOn(t) -> Slots(t)], Placed(t, slot)
        PROVE  \E s \in [BytesOn(t)' -> Slots(t)'] : Placed(t, s)'
    <2>1. ASSUME NEW q \in Procs, pc'[q] = "purge", t \notin todo'[q],
                 NEW b \in BytesOn(t)', slot[b][1] = q
          PROVE  b[1] \in victims'[q]
      <3>1. b \in BytesOn(t) /\ pc[q] = "purge"
        BY <1>1, <1>3, <2>1
      <3>2. CASE q # p
        BY <1>2, <1>4, <2>1, <3>1, <3>2 DEF Placed
      <3>3. CASE q = p /\ t # r
        BY <1>1, <1>2, <1>4, <2>1, <3>1, <3>3 DEF Placed
      <3>4. CASE q = p /\ t = r
        <4>1. \E d \in Dirs : home[d] = r /\ \E k \in 1 .. size[d] : b = <<d, k>>
          BY <3>1, <3>4, BytesAre
        <4>2. b[1] \in DirsIn(r)
          BY <4>1 DEF DirsIn
        <4> QED
          BY <1>2, <1>4, <3>4, <4>2
      <3> QED
        BY <3>2, <3>3, <3>4
    <2>2. \A b \in BytesOn(t)' : slot[b] \in Slots(t)'
      BY <1>3, <1>4
    <2> QED
      BY <1>3, <1>4, <2>1, <2>2, PlacedKept
  <1>5. ASSUME ~AtMark(r, Used(r))
        PROVE  \E s \in [BytesOn(r)' -> Slots(r)'] : Placed(r, s)'
    <2>1. PICK s \in [BytesOn(r) -> {None} \X (1 .. BelowMark(r))] :
              \A a, b \in BytesOn(r) : s[a] = s[b] => a = b
      BY <1>5, BelowTheMark
    <2>2. \A b \in BytesOn(r) : s[b][1] = None /\ s[b] \in Slots(r)
      BY <2>1 DEF Slots, AllSlots
    <2>3. s \in [BytesOn(r)' -> Slots(r)']
      BY <1>3, <2>1, <2>2
    <2>4. /\ \A a, b \in BytesOn(r)' : s[a] = s[b] => a = b
          /\ \A b \in BytesOn(r)' : s[b][1] \notin Procs
      BY <1>3, <2>1, <2>2, DiskAssumption
    <2>5. Placed(r, s)'
      BY <2>4 DEF Placed
    <2> QED
      BY <2>3, <2>5
  <1>6. ASSUME NEW t \in Roots PROVE Bounded(t)'
    <2>1. Bounded(t)
      BY DEF FootInv
    <2>2. \E s \in [BytesOn(t)' -> Slots(t)'] : Placed(t, s)'
      BY <1>4, <1>5, <2>1 DEF Bounded
    <2> QED
      BY <2>2 DEF Bounded
  <1>7. GoneIsEmpty'
    BY <1>1 DEF FootInv, GoneIsEmpty
  <1> QED
    BY <1>6, <1>7 DEF FootInv

----------------------------------------------------------------------------
(* The initial states: what earlier runs left fits into the slots.         *)
LEMMA InitFoot == RetainFiles /\ Init => FootInv
  <1> SUFFICES ASSUME RetainFiles, Init PROVE FootInv
    OBVIOUS
  <1>1. TypeOK
    BY InitIInv DEF IInv
  <1>2. GoneIsEmpty
    BY DEF Init, GoneIsEmpty
  <1>3. ASSUME NEW r \in Roots PROVE Bounded(r)
    <2>1. PICK S : S = BytesOn(r)
      OBVIOUS
    <2>2. PICK T : T = AllSlots(r)
      OBVIOUS
    <2>3. IsFiniteSet(S) /\ Cardinality(S) \in Nat /\ Ours(r) = Cardinality(S)
      BY <1>1, <2>1, BytesCounted, FS_CardinalityType DEF Ours, BytesOn
    \* Idle processes leave all slots free.
    <2>4. Slots(r) = T
      <3>1. \A p \in Procs : Reserve(p) = 0
        BY DEF Init, Reserve
      <3>2. \A s \in T : s[1] # None => s[1] \in Procs /\ s[2] \in 1 .. CycleMax
        BY <2>2 DEF AllSlots
      <3>3. \A s \in T : s[1] # None => s[2] <= CycleMax - Reserve(s[1])
        BY <3>1, <3>2, DiskAssumption DEF CycleMax
      <3> QED
        BY <2>2, <3>3 DEF Slots
    <2>5. Cardinality(S) <= Cardinality(T)
      <3>1. PICK n : n = Cardinality(Procs) * CycleMax
        OBVIOUS
      <3>2. /\ Cardinality(Procs) \in Nat /\ CycleMax \in Nat
            /\ PurgePercent * Cap[r] \in Nat
        BY SlotCount, DiskAssumption DEF CycleMax
      <3>3. n \in Nat /\ 100 * Cardinality(Procs) * CycleMax = 100 * n
        BY <3>1, <3>2
      <3>4. 100 * Cardinality(S) < PurgePercent * Cap[r] + 100 * n
        BY <2>3, <3>3 DEF Init, WithinFootprint
      <3>5. 100 * (Cardinality(S) - n) < PurgePercent * Cap[r]
        BY <2>3, <3>2, <3>3, <3>4
      <3>6. Cardinality(S) - n <= BelowMark(r) /\ BelowMark(r) \in Nat
        BY <2>3, <3>3, <3>5, MarkBound
      <3> QED
        BY <2>2, <2>3, <3>1, <3>3, <3>6, SlotCount
    <2>6. PICK g \in [S -> 1 .. Cardinality(S)] : \A a, b \in S : g[a] = g[b] => a = b
      BY <2>3, Numbering
    <2>7. PICK h \in [1 .. Cardinality(T) -> T] :
              \A i, j \in 1 .. Cardinality(T) : h[i] = h[j] => i = j
      <3>1. IsFiniteSet(T)
        BY <2>2, SlotCount
      <3>2. ExistsBijection(1 .. Cardinality(T), T)
        BY <3>1, FS_CardinalityType
      <3>3. PICK f : f \in Bijection(1 .. Cardinality(T), T)
        BY <3>2 DEF ExistsBijection
      <3>4. /\ f \in [1 .. Cardinality(T) -> T]
            /\ \A i, j \in 1 .. Cardinality(T) : f[i] = f[j] => i = j
        BY <3>3 DEF Bijection, Injection, IsInjective
      <3> QED
        BY <3>4
    <2>8. \A b \in S : g[b] \in 1 .. Cardinality(T)
      <3>1. Cardinality(T) \in Nat
        BY <2>2, SlotCount, FS_CardinalityType
      <3> QED
        BY <2>3, <2>5, <2>6, <3>1
    <2>9. PICK s : s = [b \in S |-> h[g[b]]]
      OBVIOUS
    <2>10. s \in [S -> T] /\ \A a, b \in S : s[a] = s[b] => a = b
      BY <2>6, <2>7, <2>8, <2>9
    <2>11. Placed(r, s)
      BY <2>1, <2>10 DEF Placed, Init
    <2> QED
      BY <2>1, <2>4, <2>10, <2>11 DEF Bounded
  <1> QED
    BY <1>2, <1>3 DEF FootInv

----------------------------------------------------------------------------
(* Every step preserves the invariant.                                     *)

\* A step of one process that leaves the files alone.
LEMMA QuietAlone ==
    ASSUME FootInv, UNCHANGED <<home, size>>, NEW p \in Procs,
           \A q \in Procs \ {p} : /\ pc'[q] = pc[q] /\ todo'[q] = todo[q]
                                  /\ victims'[q] = victims[q]
                                  /\ Reserve(q)' = Reserve(q),
           Reserve(p)' <= Reserve(p) \/ Purged(p),
           pc'[p] = "purge" => \/ todo'[p] = Roots
                               \/ /\ pc[p] = "purge"
                                  /\ todo'[p] = todo[p] /\ victims'[p] = victims[p],
           TypeOK, TypeOK'
    PROVE  Quiet
  <1>1. GoneIsEmpty'
    BY DEF FootInv, GoneIsEmpty
  <1>2. \A r \in Roots : BytesOn(r)' \subseteq BytesOn(r)
    BY DEF BytesOn, Bytes, DirsIn
  <1>3. \A q \in Procs : Reserve(q)' <= Reserve(q) \/ Purged(q)
    <2>1. \A q \in Procs : Reserve(q)' \in Int
      BY ReserveBoundNext
    <2> QED
      BY <2>1
  <1>4. \A q \in Procs, r \in Roots : pc'[q] = "purge" /\ r \notin todo'[q] =>
            /\ pc[q] = "purge" /\ r \notin todo[q]
            /\ \A b \in BytesOn(r)' : b[1] \in victims[q] => b[1] \in victims'[q]
    OBVIOUS
  <1> QED
    BY <1>1, <1>2, <1>3, <1>4 DEF Quiet

\* What the step of a process leaves alone: the plans of the others.
LEMMA OthersRest ==
    ASSUME TypeOK, NEW p \in Procs, NEW q \in Procs, q # p,
           \/ ProcStep(p) \/ Crash(p)
           \/ \E r \in Roots : RootStep(p, r)
           \/ \E d \in Dirs : DirStep(p, d)
    PROVE  /\ pc'[q] = pc[q] /\ todo'[q] = todo[q] /\ victims'[q] = victims[q]
           /\ netLeft'[q] = netLeft[q] /\ diskLeft'[q] = diskLeft[q]
  <1>1. CASE ProcStep(p)
    BY <1>1 DEF TypeOK, ProcStep, BeginCycle, EndLoop, StartPhases, DiskStop, NetClose,
       NetCloseKeeps, NetStop, SweepSpares, EndPhases, Return, workVars
  <1>2. CASE Crash(p)
    BY <1>2 DEF TypeOK, Crash
  <1>3. ASSUME NEW r \in Roots, RootStep(p, r)
        PROVE  /\ pc'[q] = pc[q] /\ todo'[q] = todo[q] /\ victims'[q] = victims[q]
               /\ netLeft'[q] = netLeft[q] /\ diskLeft'[q] = diskLeft[q]
    BY <1>3 DEF TypeOK, RootStep, PrepareRoot, PurgeRoot, SweepRoot, BaselineStat,
       BaselineRoot, Gate, MakeRunDir, MakeRunDirFails, Visit, workVars
  <1>4. ASSUME NEW d \in Dirs, DirStep(p, d)
        PROVE  /\ pc'[q] = pc[q] /\ todo'[q] = todo[q] /\ victims'[q] = victims[q]
               /\ netLeft'[q] = netLeft[q] /\ diskLeft'[q] = diskLeft[q]
    BY <1>4 DEF TypeOK, DirStep, RemoveDir, DiskWrite, NetWrite, workVars
  <1> QED
    BY <1>1, <1>2, <1>3, <1>4

\* A process's reserve depends on its stage and its budgets only.
LEMMA SameReserve ==
    ASSUME NEW q, pc'[q] = pc[q], netLeft'[q] = netLeft[q], diskLeft'[q] = diskLeft[q]
    PROVE  Reserve(q)' = Reserve(q)
  BY DEF Reserve, CycleMax

\* The control steps of a process: budgets are drawn after the purge only.
LEMMA ProcStepQuiet ==
    ASSUME PurgesWork, IInv, TypeOK', FootInv, NEW p \in Procs, ProcStep(p) \/ Crash(p)
    PROVE  Quiet
  <1> USE DEF IInv
  <1>1. /\ \A q \in Procs : Reserve(q) \in 0 .. CycleMax /\ Reserve(q)' \in 0 .. CycleMax
        /\ CycleMax \in Nat
    BY ReserveBound, ReserveBoundNext, DiskAssumption DEF CycleMax
  <1>2. \A q \in Procs \ {p} : /\ pc'[q] = pc[q] /\ todo'[q] = todo[q]
                               /\ victims'[q] = victims[q]
                               /\ Reserve(q)' = Reserve(q)
    BY OthersRest, SameReserve
  <1>3. ~EndPhases(p) /\ ~NetCloseKeeps(p) /\ \A d \in Dirs : ~SweepSpares(p, d)
    BY DEF PurgesWork, EndPhases, NetCloseKeeps, SweepSpares, Condemned, StageInv
  <1>4. UNCHANGED <<home, size>>
    BY <1>3 DEF PurgesWork, ProcStep, BeginCycle, EndLoop, StartPhases, DiskStop, NetClose,
       NetStop, Return, Crash, dirVars
  <1>5. CASE BeginCycle(p) \/ Return(p) \/ Crash(p)
    <2>1. pc'[p] \in {"prepare", "idle"}
      BY <1>5 DEF TypeOK, BeginCycle, Return, Crash
    <2>2. Reserve(p)' = 0
      BY <2>1 DEF Reserve
    <2> QED
      BY <1>1, <1>2, <1>4, <2>1, <2>2, QuietAlone
  <1>6. CASE StartPhases(p)
    <2>1. Reserve(p) = CycleMax /\ pc'[p] = "phases"
      BY <1>6 DEF StartPhases, LastLoop, PurgesWork, Reserve, TypeOK
    <2> QED
      BY <1>1, <1>2, <1>4, <2>1, QuietAlone
  <1>7. CASE DiskStop(p) \/ NetClose(p) \/ NetStop(p)
    <2>1. /\ pc[p] = "phases" /\ pc'[p] = "phases"
          /\ netLeft'[p] \in {0, netLeft[p]} /\ diskLeft'[p] \in {0, diskLeft[p]}
      BY <1>7 DEF DiskStop, NetClose, NetStop, TypeOK
    <2>2. netLeft[p] \in Nat /\ diskLeft[p] \in Nat
      BY DiskAssumption DEF TypeOK
    <2>3. /\ Reserve(p) = netLeft[p] + diskLeft[p]
          /\ Reserve(p)' = netLeft'[p] + diskLeft'[p]
      BY <2>1 DEF Reserve
    <2>4. Reserve(p)' <= Reserve(p)
      BY <2>1, <2>2, <2>3
    <2> QED
      BY <1>2, <1>4, <2>1, <2>4, QuietAlone
  <1>8. CASE EndLoop(p)
    <2>1. /\ pc[p] \in Loops /\ todo[p] = {} /\ victims[p] = {}
          /\ pc'[p] = After(pc[p]) /\ todo'[p] = RootsOf(p, After(pc[p]))
      BY <1>8 DEF EndLoop, Done, TypeOK
    <2>2. pc[p] \in {"prepare", "purge", "reprepare", "baseline"}
      BY <2>1 DEF Loops, LastLoop, PurgesWork
    <2>3. CASE pc[p] = "prepare"
      <3>1. pc'[p] = "purge" /\ todo'[p] = Roots
        BY <2>1, <2>3 DEF After, RootsOf, PurgesWork
      <3>2. Reserve(p)' = 0
        BY <3>1 DEF Reserve
      <3> QED
        BY <1>1, <1>2, <1>4, <3>1, <3>2, QuietAlone
    <2>4. CASE pc[p] = "purge"
      <3>1. pc'[p] = "reprepare" /\ Purged(p)
        BY <2>1, <2>4 DEF After, Purged
      <3> QED
        BY <1>2, <1>4, <3>1, QuietAlone
    <2>5. CASE pc[p] \in {"reprepare", "baseline"}
      <3>1. pc'[p] \in {"baseline", "mkdir"} /\ Reserve(p) = CycleMax
        BY <2>1, <2>5 DEF After, Reserve
      <3> QED
        BY <1>1, <1>2, <1>4, <3>1, QuietAlone
    <2> QED
      BY <2>2, <2>3, <2>4, <2>5
  <1> QED
    BY <1>3, <1>5, <1>6, <1>7, <1>8 DEF ProcStep

\* The other loops look at the roots or make an empty directory.
LEMMA RootStepQuiet ==
    ASSUME PurgesWork, IInv, TypeOK', FootInv, NEW p \in Procs, NEW r \in Roots,
           RootStep(p, r), ~PurgeRoot(p, r)
    PROVE  Quiet
  <1> USE DEF IInv
  <1>1. /\ \A q \in Procs \ {p} : /\ pc'[q] = pc[q] /\ todo'[q] = todo[q]
                                  /\ victims'[q] = victims[q]
        /\ \A q \in Procs : Reserve(q)' = Reserve(q) /\ Reserve(q) \in Int
    <2>1. UNCHANGED <<pc, netLeft, diskLeft>>
      BY DEF RootStep, PrepareRoot, PurgeRoot, SweepRoot, BaselineStat, BaselineRoot,
         Gate, MakeRunDir, MakeRunDirFails, Visit, workVars
    <2> QED
      BY <2>1, OthersRest, SameReserve, ReserveBound
  <1>2. ~SweepRoot(p, r)
    BY DEF SweepRoot, Visit, StageInv, PurgesWork
  <1>3. pc'[p] = pc[p] /\ pc[p] # "purge"
    <2>1. ASSUME BaselineRoot(p, r) PROVE pc'[p] = pc[p] /\ pc[p] # "purge"
      BY <2>1 DEF BaselineRoot, Gate, StageInv
    <2> QED
      BY <1>2, <2>1 DEF RootStep, PrepareRoot, BaselineStat, MakeRunDir, MakeRunDirFails, Visit
  <1>4. CASE \/ PrepareRoot(p, r) \/ BaselineStat(p, r) \/ BaselineRoot(p, r)
             \/ MakeRunDirFails(p, r)
    <2>1. UNCHANGED <<home, size>>
      BY <1>4 DEF PrepareRoot, BaselineStat, BaselineRoot, Gate, MakeRunDirFails, dirVars
    <2> QED
      BY <1>1, <1>3, <2>1, QuietAlone
  <1>5. ASSUME NEW d \in Dirs, MakeRunDir(p, r, d) PROVE Quiet
    <2>1. /\ home[d] = None /\ home' = [home EXCEPT ![d] = r] /\ size' = size
          /\ victims' = victims
      BY <1>5 DEF MakeRunDir, Fresh
    <2>2. GoneIsEmpty /\ size[d] = 0
      BY <2>1 DEF FootInv, GoneIsEmpty
    <2>3. GoneIsEmpty'
      BY <2>1, <2>2 DEF GoneIsEmpty, TypeOK
    <2>4. ASSUME NEW t \in Roots, NEW b \in BytesOn(t)' PROVE b \in BytesOn(t)
      <3>1. PICK e \in Dirs : home'[e] = t /\ \E k \in 1 .. size'[e] : b = <<e, k>>
        BY <2>4, BytesAre
      <3>2. e # d
        BY <2>1, <2>2, <3>1
      <3>3. home[e] = t
        BY <2>1, <3>1, <3>2 DEF TypeOK
      <3> QED
        BY <2>1, <3>1, <3>3, BytesAre
    <2>5. \A q \in Procs : Reserve(q)' <= Reserve(q) \/ Purged(q)
      BY <1>1
    <2> QED
      BY <1>1, <1>3, <2>1, <2>3, <2>4, <2>5 DEF Quiet
  <1> QED
    BY <1>2, <1>4, <1>5 DEF RootStep

\* A removal takes all bytes of the directory off the purge's list.
LEMMA RemoveDirQuiet ==
    ASSUME TypeOK, TypeOK', FootInv, NEW p \in Procs, NEW d \in Dirs, RemoveDir(p, d)
    PROVE  Quiet
  <1>1. /\ home' = [home EXCEPT ![d] = None] /\ size' = [size EXCEPT ![d] = 0]
        /\ victims' = [victims EXCEPT ![p] = @ \ {d}]
        /\ UNCHANGED <<pc, todo, netLeft, diskLeft>>
    BY DEF RemoveDir, workVars
  <1>2. size'[d] = 0 /\ \A e \in Dirs \ {d} : home'[e] = home[e] /\ size'[e] = size[e]
    BY <1>1 DEF TypeOK
  <1>3. GoneIsEmpty'
    BY <1>2 DEF FootInv, GoneIsEmpty
  <1>4. ASSUME NEW t \in Roots, NEW b \in BytesOn(t)' PROVE b \in BytesOn(t) /\ b[1] # d
    <2>1. PICK e \in Dirs : home'[e] = t /\ \E k \in 1 .. size'[e] : b = <<e, k>>
      BY <1>4, BytesAre
    <2>2. e # d
      BY <1>2, <2>1
    <2>3. home[e] = t /\ \E k \in 1 .. size[e] : b = <<e, k>>
      BY <1>2, <2>1, <2>2
    <2> QED
      BY <2>1, <2>2, <2>3, BytesAre
  <1>5. \A q \in Procs : Reserve(q)' <= Reserve(q) \/ Purged(q)
    <2>1. \A q \in Procs : Reserve(q)' = Reserve(q) /\ Reserve(q) \in Int
      BY <1>1, SameReserve, ReserveBound
    <2> QED
      BY <2>1
  <1>6. \A q \in Procs : victims[q] \ {d} \subseteq victims'[q]
    BY <1>1 DEF TypeOK
  <1> QED
    BY <1>1, <1>3, <1>4, <1>5, <1>6 DEF Quiet

\* The two writers of a cycle pay from its reserve.
LEMMA DirStepWrites ==
    ASSUME TypeOK, NEW p \in Procs, NEW d \in Dirs, DirStep(p, d), ~RemoveDir(p, d)
    PROVE  \E n \in Nat \ {0} : Writes(p, d, n)
  <1>0. netLeft[p] \in Nat /\ diskLeft[p] \in Nat
    BY DiskAssumption DEF TypeOK
  <1>1. ASSUME NEW n \in Nat \ {0}, pc[p] = "phases", Writable(p, d, n),
               size' = [size EXCEPT ![d] = @ + n],
               UNCHANGED <<home, foreign, pc, todo, victims>>,
               netLeft'[p] + diskLeft'[p] = netLeft[p] + diskLeft[p] - n
        PROVE  Writes(p, d, n)
    <2>1. Reserve(p) = netLeft[p] + diskLeft[p] /\ Reserve(p)' = netLeft'[p] + diskLeft'[p]
      BY <1>1 DEF Reserve
    <2>2. \A q \in Procs \ {p} : Reserve(q)' = Reserve(q)
      BY OthersRest, SameReserve
    <2>3. Reserve(p)' = Reserve(p) - n
      BY <1>0, <1>1, <2>1
    <2> QED
      BY <1>1, <2>2, <2>3 DEF Writes, Writable
  <1>2. CASE DiskWrite(p, d)
    <2>1. /\ pc[p] = "phases" /\ Writable(p, d, 1) /\ size' = [size EXCEPT ![d] = @ + 1]
          /\ UNCHANGED <<home, foreign, pc, todo, victims>>
          /\ netLeft'[p] = netLeft[p] /\ diskLeft'[p] = diskLeft[p] - 1
      BY <1>2 DEF DiskWrite, TypeOK
    <2>2. netLeft'[p] + diskLeft'[p] = netLeft[p] + diskLeft[p] - 1
      BY <1>0, <2>1
    <2>3. 1 \in Nat \ {0}
      OBVIOUS
    <2>4. Writes(p, d, 1)
      BY <1>1, <2>1, <2>2, <2>3
    <2> QED
      BY <2>3, <2>4
  <1>3. ASSUME NEW n \in 1 .. NetMax, NetWrite(p, d, n) PROVE \E m \in Nat \ {0} : Writes(p, d, m)
    <2>1. /\ pc[p] = "phases" /\ Writable(p, d, n) /\ size' = [size EXCEPT ![d] = @ + n]
          /\ UNCHANGED <<home, foreign, pc, todo, victims>>
          /\ netLeft'[p] = netLeft[p] - n /\ diskLeft'[p] = diskLeft[p]
      BY <1>3 DEF NetWrite, TypeOK
    <2>2. n \in Nat \ {0}
      BY DiskAssumption
    <2>3. netLeft'[p] + diskLeft'[p] = netLeft[p] + diskLeft[p] - n
      BY <1>0, <2>1, <2>2
    <2>4. Writes(p, d, n)
      BY <1>1, <2>1, <2>2, <2>3
    <2> QED
      BY <2>2, <2>4
  <1> QED
    BY <1>2, <1>3 DEF DirStep

\* FootInv is inductive beside IInv.
LEMMA NextFoot ==
    ASSUME PurgesWork, IInv, IInv', FootInv, [Next]_vars PROVE FootInv'
  <1>0. TypeOK /\ TypeOK'
    BY DEF IInv
  <1>1. CASE UNCHANGED vars
    <2>1. UNCHANGED <<home, size, pc, todo, victims, netLeft, diskLeft>>
      BY <1>1 DEF vars
    <2>2. PICK p : p \in Procs
      BY DiskAssumption
    <2>3. \A q \in Procs : Reserve(q)' = Reserve(q) /\ Reserve(q) \in Int
      BY <1>0, <2>1, SameReserve, ReserveBound
    <2>4. Quiet
      BY <1>0, <2>1, <2>2, <2>3, QuietAlone
    <2> QED
      BY <1>0, <2>4, QuietKeeps
  <1>2. ASSUME NEW p \in Procs, ProcStep(p) \/ Crash(p) PROVE FootInv'
    BY <1>0, <1>2, ProcStepQuiet, QuietKeeps
  <1>3. ASSUME NEW p \in Procs, NEW r \in Roots, RootStep(p, r) PROVE FootInv'
    BY <1>0, <1>3, PurgeKeeps, RootStepQuiet, QuietKeeps
  <1>4. ASSUME NEW p \in Procs, NEW d \in Dirs, DirStep(p, d) PROVE FootInv'
    <2>1. CASE RemoveDir(p, d)
      BY <1>0, <2>1, RemoveDirQuiet, QuietKeeps
    <2>2. CASE ~RemoveDir(p, d)
      BY <1>0, <1>4, <2>2, DirStepWrites, WritesKeep
    <2> QED
      BY <2>1, <2>2
  <1>5. ASSUME (\E d \in Dirs : GoStale(d)) \/ (\E r \in Roots : ForeignChange(r))
        PROVE  FootInv'
    <2>1. UNCHANGED <<home, size, pc, todo, victims, netLeft, diskLeft>>
      BY <1>5 DEF GoStale, ForeignChange, dirVars, workVars
    <2>2. PICK p : p \in Procs
      BY DiskAssumption
    <2>3. \A q \in Procs : Reserve(q)' = Reserve(q) /\ Reserve(q) \in Int
      BY <1>0, <2>1, SameReserve, ReserveBound
    <2>4. Quiet
      BY <1>0, <2>1, <2>2, <2>3, QuietAlone
    <2> QED
      BY <1>0, <2>4, QuietKeeps
  <1>6. \A p \in Procs, r \in Roots : ~RootFault(p, r)
    BY DEF PurgesWork, RootFault, PrepareFails, ListFails, BaselineFails, WalkFails
  <1>7. \A p \in Procs, d \in Dirs : ~RemoveFails(p, d)
    BY DEF PurgesWork, RemoveFails
  <1> QED
    BY <1>1, <1>2, <1>3, <1>4, <1>5, <1>6, <1>7 DEF Next

\* There are as many slots as the bound allows.
LEMMA FootBound == FootInv => FootprintBound
  <1> SUFFICES ASSUME FootInv, NEW r \in Roots
               PROVE  100 * Ours(r) <
                         PurgePercent * Cap[r] + 100 * Cardinality(Procs) * CycleMax
    BY DEF FootprintBound, WithinFootprint
  <1>1. Bounded(r)
    BY DEF FootInv
  <1>2. PICK n : n = Cardinality(Procs)
    OBVIOUS
  <1>3. PICK c : c = CycleMax
    OBVIOUS
  <1>4. PICK m : m = PurgePercent * Cap[r]
    OBVIOUS
  <1>5. n \in Nat \ {0} /\ c \in Nat /\ m \in Nat
    <2>1. n \in Nat /\ n # 0
      BY <1>2, DiskAssumption, FS_CardinalityType, FS_EmptySet
    <2>2. PurgePercent \in Nat /\ Cap[r] \in Nat /\ CycleMax \in Nat
      BY DiskAssumption DEF CycleMax
    <2> QED
      BY <1>3, <1>4, <2>1, <2>2
  <1>6. n * c \in Nat /\ (100 * n) * c = 100 * (n * c)
    BY <1>5
  <1>7. PICK slot \in [BytesOn(r) -> Slots(r)] : Placed(r, slot)
    BY <1>1 DEF Bounded
  <1>8. PICK k : k = Ours(r)
    OBVIOUS
  <1>9. PICK u : u = BelowMark(r)
    OBVIOUS
  <1>10. u \in Nat /\ 100 * u < m
    BY <1>4, <1>9, MarkBound
  <1>11. k \in Nat /\ k <= u + n * c
    <2>1. k \in Nat /\ k <= Cardinality(AllSlots(r))
      BY <1>7, <1>8, VolumeIsFinite DEF Ours, BytesOn
    <2>2. Cardinality(AllSlots(r)) = u + n * c
      BY <1>2, <1>3, <1>9, SlotCount
    <2> QED
      BY <2>1, <2>2
  <1>12. 100 * k < m + (100 * n) * c
    BY <1>5, <1>6, <1>10, <1>11
  <1> QED
    BY <1>2, <1>3, <1>4, <1>8, <1>12

\* Retain mode: what the keeper stores on a volume stays below the mark plus
\* one cycle's writes for every process, for any number of processes, roots
\* and directories, wherever processes are killed and whatever the other users
\* of the volume do, as long as purges do not fail (keeper.go:94-101).
THEOREM FootprintIsBounded == PurgesWork => (Spec => []FootprintBound)
  <1> SUFFICES ASSUME PurgesWork PROVE Spec => []FootprintBound
    OBVIOUS
  <1>1. Init => FootInv
    BY InitFoot DEF PurgesWork
  <1>2. IInv /\ IInv' /\ FootInv /\ [Next]_vars => FootInv'
    BY NextFoot
  <1>3. FootInv => FootprintBound
    BY FootBound
  <1> QED
    BY <1>1, <1>2, <1>3, InductiveInvariant, PTL DEF Spec
=============================================================================
