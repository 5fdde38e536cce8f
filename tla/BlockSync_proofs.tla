-------------------------- MODULE BlockSync_proofs --------------------------
(***************************************************************************)
(* For any devices, columns, values, clock skews and bounds: type          *)
(* correctness of the composed block, PendingWritesOnDisk, that its server *)
(* implements ServerRow, and that disks and caches converge.               *)
(***************************************************************************)
EXTENDS BlockSyncServer, WellFoundedInduction, FiniteSetTheorems, SequenceTheorems, TLAPS

(***************************************************************************)
(* Whole, the strengthening the types need: a queued insert carries the    *)
(* full row, and an upload attempt is of a prefix of the queue.            *)
(***************************************************************************)
Whole ==
  \A d \in Device :
    /\ \A i \in DOMAIN crud[d] : crud[d][i].kind = "put" => crud[d][i].cols \in Contents
    /\ upload[d].n <= Len(crud[d])

IInv == TypeOK /\ Whole /\ PendingWritesOnDisk
-----------------------------------------------------------------------------
(***************************************************************************)
(* The operators.                                                          *)
(*                                                                         *)
(* LeastOf: a set of natural numbers that is not empty has a least one.    *)
(* The intervals below its members are well founded under inclusion.       *)
(***************************************************************************)
LEMMA LeastOf ==
  ASSUME NEW S \in SUBSET Nat, S # {}
  PROVE  \E x \in S : \A y \in S : x <= y
<1> DEFINE T == {1 .. k : k \in S}
<1>1. IsWellFoundedOn(StrictSubsetOrdering(Nat), FiniteSubsetsOf(Nat))
  BY FS_StrictSubsetOrderingWellFounded
<1>2. T \subseteq FiniteSubsetsOf(Nat)
  <2>1. \A k \in S : IsFiniteSet(1 .. k)
    BY FS_Interval
  <2>2. \A k \in S : 1 .. k \subseteq Nat
    OBVIOUS
  <2>3. \A k \in S : 1 .. k \in FiniteSubsetsOf(Nat)
    BY <2>1, <2>2 DEF FiniteSubsetsOf
  <2> QED
    BY <2>3
<1>3. T # {}
  OBVIOUS
<1>4. \E x \in T : \A y \in T : ~(<<y, x>> \in StrictSubsetOrdering(Nat))
  <2> HIDE DEF T
  <2> QED
    BY <1>1, <1>2, <1>3, WFMin
<1>5. PICK x \in S : \A y \in S : ~(<<1 .. y, 1 .. x>> \in StrictSubsetOrdering(Nat))
  BY <1>4
<1>6. ASSUME NEW y \in S, y < x
      PROVE  FALSE
  <2>1. 1 .. y \subseteq 1 .. x /\ 1 .. x \subseteq Nat /\ 1 .. y \subseteq Nat
    BY <1>6
  <2>2. x \in 1 .. x /\ x \notin 1 .. y
    BY <1>6
  <2>3. 1 .. y # 1 .. x
    BY <2>2
  <2>4. <<1 .. y, 1 .. x>> \in StrictSubsetOrdering(Nat)
    BY <2>1, <2>3 DEF StrictSubsetOrdering
  <2> QED
    BY <2>4, <1>5
<1> QED
  BY <1>6

\* Min and Max of the positions of a queue are the first and the last of them.
LEMMA MinOf ==
  ASSUME NEW n \in Nat, NEW S \in SUBSET (1 .. n), S # {}
  PROVE  Min(S) \in S /\ \A j \in S : Min(S) <= j
<1>1. \E x \in S : \A y \in S : x <= y
  BY LeastOf
<1> QED
  BY <1>1 DEF Min

LEMMA MaxOf ==
  ASSUME NEW n \in Nat, NEW S \in SUBSET (1 .. n), S # {}
  PROVE  Max(S) \in S /\ \A j \in S : j <= Max(S)
<1> DEFINE Flipped == {n - i : i \in S}
<1>1. Flipped \in SUBSET Nat /\ Flipped # {}
  <2>1. \A i \in S : n - i \in Nat
    OBVIOUS
  <2> QED
    BY <2>1
<1>2. PICK x \in Flipped : \A y \in Flipped : x <= y
  <2> HIDE DEF Flipped
  <2> QED
    BY <1>1, LeastOf
<1>3. PICK i \in S : x = n - i
  BY <1>2
<1>4. \A j \in S : i >= j
  <2> SUFFICES ASSUME NEW j \in S PROVE i >= j
    OBVIOUS
  <2>1. n - j \in Flipped
    OBVIOUS
  <2>2. n - i <= n - j
    BY <2>1, <1>2, <1>3
  <2> QED
    BY <2>2
<1> QED
  BY <1>4 DEF Max

LEMMA ClockIsNat ==
  ASSUME NEW d \in Device, now \in Nat
  PROVE  Clock(d) \in Nat
  BY SkewAssumption DEF Clock

\* A stamp the server gives is a stamp.
LEMMA ServerStamps ==
  ASSUME NEW base \in Nat, NEW old \in Nat, NEW proposed \in Nat,
         NEW changed \in BOOLEAN, now \in Nat
  PROVE  /\ InsertStamp(now, proposed) \in Nat
         /\ PatchStamp(now, old, base, proposed, changed) \in Nat
<1>1. DriftStamp(now, old, proposed) \in Nat
  BY CapAssumption DEF DriftStamp, DriftBump, Larger, Smaller
<1>2. FloorStamp(now, old, proposed, changed) \in Nat
  BY DEF FloorStamp, Larger, Smaller
<1>3. InsertStamp(now, proposed) \in Nat
  BY DEF InsertStamp, Smaller
<1> QED
  BY <1>1, <1>2, <1>3 DEF PatchStamp

\* An entry of the queue has the columns it names.
LEMMA OpFields ==
  ASSUME NEW op \in Ops
  PROVE  /\ op.kind \in {"put", "patch"} /\ op.stamp \in Nat /\ op.base \in Nat
         /\ DOMAIN op.cols \subseteq Column
         /\ \A c \in DOMAIN op.cols : op.cols[c] \in Value
<1>1. op.cols \in UNION {[C -> Value] : C \in SUBSET Column}
  BY DEF Ops
<1>2. PICK C \in SUBSET Column : op.cols \in [C -> Value]
  BY <1>1
<1> QED
  BY <1>2 DEF Ops

LEMMA PutIsOp ==
  ASSUME NEW row \in Rows
  PROVE  Put(row) \in Ops /\ Put(row).cols \in Contents
<1>1. row.content \in [Column -> Value] /\ row.stamp \in Nat
  BY DEF Rows, Contents
<1>2. row.content \in UNION {[C -> Value] : C \in SUBSET Column}
  BY <1>1
<1> QED
  BY <1>1, <1>2 DEF Put, Ops, Pristine, Contents

LEMMA PatchIsOp ==
  ASSUME NEW C \in SUBSET Column, NEW cols \in [C -> Value],
         NEW stamp \in Nat, NEW base \in Nat
  PROVE  Patch(cols, stamp, base) \in Ops
<1>1. cols \in UNION {[CC -> Value] : CC \in SUBSET Column}
  OBVIOUS
<1> QED
  BY <1>1 DEF Patch, Ops

\* The merged patch of a prefix of the queue, and the row it makes.
LEMMA MergedPatch ==
  ASSUME NEW queue \in Seq(Ops), NEW n \in Nat, n <= Len(queue),
         PatchesIn(queue, n) # {},
         NEW content \in Contents
  PROVE  LET patch == MergePatches(queue, PatchesIn(queue, n))
         IN /\ patch.stamp \in Nat /\ patch.base \in Nat
            /\ Overlay(patch.cols, content) \in Contents
<1> DEFINE patches == PatchesIn(queue, n)
           writers(c) == {i \in patches : c \in DOMAIN queue[i].cols}
           touched == {c \in Column : writers(c) # {}}
           cols == [c \in touched |-> queue[Max(writers(c))].cols[c]]
           merged == Patch(cols, queue[Max(patches)].stamp, queue[Min(patches)].base)
<1>1. merged = MergePatches(queue, patches)
  BY DEF MergePatches
<1>2. patches \in SUBSET (1 .. n) /\ patches # {}
  BY DEF PatchesIn
<1>3. \A i \in 1 .. n : queue[i] \in Ops
  OBVIOUS
<1>4. Max(patches) \in patches /\ Min(patches) \in patches
  <2> HIDE DEF patches
  <2> QED
    BY <1>2, MaxOf, MinOf
<1>5. queue[Max(patches)] \in Ops /\ queue[Min(patches)] \in Ops
  BY <1>2, <1>3, <1>4
<1>6. queue[Max(patches)].stamp \in Nat /\ queue[Min(patches)].base \in Nat
  BY <1>5, OpFields
<1>7. \A c \in touched : cols[c] \in Value
  <2> SUFFICES ASSUME NEW c \in touched PROVE queue[Max(writers(c))].cols[c] \in Value
    OBVIOUS
  <2>1. writers(c) \in SUBSET (1 .. n) /\ writers(c) # {}
    BY <1>2
  <2>2. Max(writers(c)) \in writers(c)
    <3> HIDE DEF writers
    <3> QED
      BY <2>1, MaxOf
  <2>3. /\ c \in DOMAIN queue[Max(writers(c))].cols
        /\ queue[Max(writers(c))] \in Ops
    BY <2>1, <2>2, <1>3
  <2> QED
    BY <2>3, OpFields
<1>8. merged.cols = cols /\ merged.stamp = queue[Max(patches)].stamp
      /\ merged.base = queue[Min(patches)].base
  BY DEF Patch
<1>9. Overlay(cols, content) \in Contents
  <2>1. DOMAIN cols = touched
    OBVIOUS
  <2> HIDE DEF cols, touched
  <2> QED
    BY <1>7, <2>1 DEF Overlay, Contents
<1> QED
  BY <1>1, <1>6, <1>8, <1>9
-----------------------------------------------------------------------------
(***************************************************************************)
(* Local writes.  CommitKeeps: a commit of a well-typed row with an entry  *)
(* that names its stamp, carries its values in the columns it names, and   *)
(* leaves the other columns as they were on disk, keeps the invariant.     *)
(***************************************************************************)
LEMMA CommitKeeps ==
  ASSUME IInv, NEW d \in Device, NEW row \in Rows, NEW op \in Ops, Commit(d, row, op),
         op.kind = "put" => op.cols \in Contents,
         op.stamp = row.stamp,
         \A c \in DOMAIN op.cols : row.content[c] = op.cols[c],
         disk[d] # None =>
           \A c \in Column \ DOMAIN op.cols : row.content[c] = disk[d].content[c]
  PROVE  /\ disk' \in [Device -> Rows \cup {None}]
         /\ cache' \in [Device -> Rows \cup {None}]
         /\ crud' \in [Device -> Seq(Ops)]
         /\ Whole' /\ PendingWritesOnDisk'
<1>1. /\ disk \in [Device -> Rows \cup {None}]
      /\ cache \in [Device -> Rows \cup {None}]
      /\ crud \in [Device -> Seq(Ops)]
      /\ upload \in [Device -> [n : Nat, sent : {"nothing", "creates", "all"}]]
  BY DEF IInv, TypeOK
<1>2. /\ disk' = [disk EXCEPT ![d] = row] /\ cache' = [cache EXCEPT ![d] = row]
      /\ crud' = [crud EXCEPT ![d] = Append(@, op)]
      /\ upload' = upload
  BY DEF Commit
<1>3. crud[d] \in Seq(Ops)
  BY <1>1
<1>4. /\ Append(crud[d], op) \in Seq(Ops)
      /\ Len(Append(crud[d], op)) = Len(crud[d]) + 1
      /\ DOMAIN Append(crud[d], op) = 1 .. Len(crud[d]) + 1
      /\ \A i \in 1 .. Len(crud[d]) : Append(crud[d], op)[i] = crud[d][i]
      /\ Append(crud[d], op)[Len(crud[d]) + 1] = op
  BY <1>3, AppendProperties
<1>5. /\ Len(crud[d]) \in Nat /\ DOMAIN crud[d] = 1 .. Len(crud[d])
      /\ \A i \in 1 .. Len(crud[d]) : crud[d][i] \in Ops
  BY <1>3
<1>6. crud'[d] = Append(crud[d], op) /\ disk'[d] = row
      /\ \A e \in Device \ {d} : crud'[e] = crud[e] /\ disk'[e] = disk[e]
  BY <1>1, <1>2
<1>7. /\ disk' \in [Device -> Rows \cup {None}]
      /\ cache' \in [Device -> Rows \cup {None}]
      /\ crud' \in [Device -> Seq(Ops)]
  BY <1>1, <1>2, <1>4
<1>8. Whole'
  <2> SUFFICES ASSUME NEW e \in Device
               PROVE  /\ \A i \in DOMAIN crud'[e] :
                           crud'[e][i].kind = "put" => crud'[e][i].cols \in Contents
                      /\ upload[e].n <= Len(crud'[e])
    BY <1>2 DEF Whole
  <2>1. /\ \A i \in DOMAIN crud[e] : crud[e][i].kind = "put" => crud[e][i].cols \in Contents
        /\ upload[e].n <= Len(crud[e]) /\ upload[e].n \in Nat
    BY <1>1 DEF IInv, Whole
  <2>2. CASE e # d
    BY <2>1, <2>2, <1>6
  <2>3. CASE e = d
    BY <2>1, <2>3, <1>4, <1>5, <1>6
  <2> QED
    BY <2>2, <2>3
<1>9. PendingWritesOnDisk'
  <2> SUFFICES ASSUME NEW e \in Device, NEW i \in DOMAIN crud'[e]
               PROVE  /\ disk'[e] # None
                      /\ i = Len(crud'[e]) => disk'[e].stamp = crud'[e][i].stamp
                      /\ \A c \in DOMAIN crud'[e][i].cols :
                           (\A j \in DOMAIN crud'[e] : j > i => c \notin DOMAIN crud'[e][j].cols)
                           => disk'[e].content[c] = crud'[e][i].cols[c]
    BY DEF PendingWritesOnDisk
  <2>1. CASE e # d
    BY <2>1, <1>6 DEF IInv, PendingWritesOnDisk
  <2>2. CASE e = d
    <3>1. row # None
      BY ContentAssumption
    <3>2. CASE i = Len(crud[d]) + 1
      BY <2>2, <3>1, <3>2, <1>4, <1>5, <1>6
    <3>3. CASE i # Len(crud[d]) + 1
      <4>1. i \in 1 .. Len(crud[d]) /\ i # Len(crud'[d]) /\ i \in DOMAIN crud[d]
        BY <2>2, <3>3, <1>4, <1>5, <1>6
      <4>2. disk[d] # None
        BY <4>1 DEF IInv, PendingWritesOnDisk
      <4>3. ASSUME NEW c \in DOMAIN crud'[d][i].cols,
                   \A j \in DOMAIN crud'[d] : j > i => c \notin DOMAIN crud'[d][j].cols
            PROVE  row.content[c] = crud'[d][i].cols[c]
        <5>1. crud'[d][i] = crud[d][i] /\ crud[d][i] \in Ops
          BY <4>1, <1>4, <1>5, <1>6
        <5>2. c \in Column
          BY <5>1, <4>3, OpFields
        <5>3. c \notin DOMAIN op.cols
          <6>1. Len(crud[d]) + 1 \in DOMAIN crud'[d] /\ Len(crud[d]) + 1 > i
            BY <4>1, <1>4, <1>5, <1>6
          <6> QED
            BY <6>1, <4>3, <1>4, <1>6
        <5>4. row.content[c] = disk[d].content[c]
          BY <5>2, <5>3, <4>2
        <5>5. \A j \in DOMAIN crud[d] : j > i => c \notin DOMAIN crud[d][j].cols
          BY <4>3, <1>4, <1>5, <1>6
        <5>6. disk[d].content[c] = crud[d][i].cols[c]
          BY <5>1, <5>5, <4>1, <4>3 DEF IInv, PendingWritesOnDisk
        <5> QED
          BY <5>1, <5>4, <5>6
      <4> QED
        BY <2>2, <3>1, <4>1, <4>3, <1>6
    <3> QED
      BY <3>2, <3>3
  <2> QED
    BY <2>1, <2>2
<1> QED
  BY <1>7, <1>8, <1>9

(***************************************************************************)
(* The queue.  ShrinkKeeps: dropping a prefix of a queue and abandoning    *)
(* its upload keeps the invariant when nothing is written to disk.         *)
(***************************************************************************)
LEMMA ShrinkKeeps ==
  ASSUME IInv, NEW d \in Device, NEW n \in Nat, n <= Len(crud[d]), disk' = disk,
         crud' = [crud EXCEPT ![d] = SubSeq(@, n + 1, Len(@))],
         upload' = [upload EXCEPT ![d] = NoUpload]
  PROVE  /\ crud' \in [Device -> Seq(Ops)]
         /\ upload' \in [Device -> [n : Nat, sent : {"nothing", "creates", "all"}]]
         /\ Whole' /\ PendingWritesOnDisk'
<1>1. /\ disk \in [Device -> Rows \cup {None}]
      /\ crud \in [Device -> Seq(Ops)]
      /\ upload \in [Device -> [n : Nat, sent : {"nothing", "creates", "all"}]]
  BY DEF IInv, TypeOK
<1> DEFINE m == Len(crud[d])
           rest == SubSeq(crud[d], n + 1, m)
<1>2. crud[d] \in Seq(Ops) /\ m \in Nat /\ DOMAIN crud[d] = 1 .. m
  BY <1>1
<1>3. /\ rest \in Seq(Ops) /\ Len(rest) = m - n /\ DOMAIN rest = 1 .. m - n
      /\ \A i \in 1 .. m - n : rest[i] = crud[d][n + i]
  <2>1. \A i \in n + 1 .. m : crud[d][i] \in Ops
    BY <1>2
  <2> QED
    BY <1>2, <2>1
<1>4. /\ crud'[d] = rest /\ upload'[d] = NoUpload
      /\ \A e \in Device \ {d} : crud'[e] = crud[e] /\ upload'[e] = upload[e]
  BY <1>1
<1> HIDE DEF rest
<1>5. /\ crud' \in [Device -> Seq(Ops)]
      /\ upload' \in [Device -> [n : Nat, sent : {"nothing", "creates", "all"}]]
  BY <1>1, <1>3 DEF NoUpload, rest
<1>6. Whole'
  <2> SUFFICES ASSUME NEW e \in Device
               PROVE  /\ \A i \in DOMAIN crud'[e] :
                           crud'[e][i].kind = "put" => crud'[e][i].cols \in Contents
                      /\ upload'[e].n <= Len(crud'[e])
    BY DEF Whole
  <2>1. CASE e # d
    BY <2>1, <1>4 DEF IInv, Whole
  <2>2. CASE e = d
    <3>1. \A i \in 1 .. m - n : n + i \in DOMAIN crud[d]
      BY <1>2
    <3>2. \A i \in DOMAIN rest : rest[i].kind = "put" => rest[i].cols \in Contents
      BY <3>1, <1>3 DEF IInv, Whole
    <3>3. NoUpload.n <= Len(rest)
      BY <1>2, <1>3 DEF NoUpload
    <3> QED
      BY <2>2, <3>2, <3>3, <1>4
  <2> QED
    BY <2>1, <2>2
<1>7. PendingWritesOnDisk'
  <2> SUFFICES ASSUME NEW e \in Device, NEW i \in DOMAIN crud'[e]
               PROVE  /\ disk[e] # None
                      /\ i = Len(crud'[e]) => disk[e].stamp = crud'[e][i].stamp
                      /\ \A c \in DOMAIN crud'[e][i].cols :
                           (\A j \in DOMAIN crud'[e] : j > i => c \notin DOMAIN crud'[e][j].cols)
                           => disk[e].content[c] = crud'[e][i].cols[c]
    BY DEF PendingWritesOnDisk
  <2>1. CASE e # d
    BY <2>1, <1>4 DEF IInv, PendingWritesOnDisk
  <2>2. CASE e = d
    <3>1. i \in 1 .. m - n /\ crud'[d][i] = crud[d][n + i] /\ n + i \in DOMAIN crud[d]
      BY <2>2, <1>2, <1>3, <1>4
    <3>2. i = Len(crud'[d]) => n + i = Len(crud[d])
      BY <1>2, <1>3, <1>4
    <3>3. ASSUME NEW c,
                 \A j \in DOMAIN crud'[d] : j > i => c \notin DOMAIN crud'[d][j].cols
          PROVE  \A j \in DOMAIN crud[d] : j > n + i => c \notin DOMAIN crud[d][j].cols
      <4> SUFFICES ASSUME NEW j \in DOMAIN crud[d], j > n + i
                   PROVE  c \notin DOMAIN crud[d][j].cols
        OBVIOUS
      <4>1. j - n \in 1 .. m - n /\ j - n > i /\ n + (j - n) = j
        BY <1>2, <3>1
      <4>2. j - n \in DOMAIN crud'[d] /\ crud'[d][j - n] = crud[d][j]
        BY <4>1, <1>3, <1>4
      <4> QED
        BY <4>1, <4>2, <3>3
    <3>4. /\ disk[d] # None
          /\ n + i = Len(crud[d]) => disk[d].stamp = crud[d][n + i].stamp
          /\ \A c \in DOMAIN crud[d][n + i].cols :
               (\A j \in DOMAIN crud[d] : j > n + i => c \notin DOMAIN crud[d][j].cols)
               => disk[d].content[c] = crud[d][n + i].cols[c]
      BY <3>1 DEF IInv, PendingWritesOnDisk
    <3> QED
      BY <2>2, <3>1, <3>2, <3>3, <3>4
  <2> QED
    BY <2>1, <2>2
<1> QED
  BY <1>5, <1>6, <1>7

\* Nothing is queued or drained, and disk is written only where nothing waits.
LEMMA QueueStays ==
  ASSUME IInv, crud' = crud,
         \A d \in Device : crud[d] # <<>> => disk'[d] = disk[d],
         \A d \in Device : upload'[d].n <= Len(crud[d])
  PROVE  Whole' /\ PendingWritesOnDisk'
<1>1. Whole'
  BY DEF IInv, Whole
<1>2. PendingWritesOnDisk'
  <2>1. \A d \in Device : crud[d] \in Seq(Ops)
    BY DEF IInv, TypeOK
  <2>2. \A d \in Device : \A i \in DOMAIN crud[d] : crud[d] # <<>>
    BY <2>1
  <2> QED
    BY <2>2 DEF IInv, PendingWritesOnDisk
<1> QED
  BY <1>1, <1>2

LEMMA HappensKeepsBounds ==
  ASSUME left \in Bounds, NEW kind \in {"edits", "faults", "rejects", "rescans"},
         Happens(kind)
  PROVE  left' \in Bounds
<1>1. left' = [left EXCEPT ![kind] = @ - 1, !.events = @ - 1]
  BY DEF Happens
<1>2. left[kind] > 0 /\ left.events > 0
  BY DEF Happens
<1>3. \A k \in {"edits", "faults", "rejects", "rescans", "events"} : left[k] \in Nat
  BY DEF Bounds
<1>4. left[kind] - 1 \in Nat /\ left.events - 1 \in Nat
  BY <1>2, <1>3
<1>5. /\ left.minters \in SUBSET Device /\ left.ticks \in 0 .. MaxNow - 1
      /\ DOMAIN left = {"minters", "ticks", "edits", "faults", "rejects", "rescans", "events"}
      /\ left = [minters |-> left.minters, ticks |-> left.ticks, edits |-> left.edits,
                 faults |-> left.faults, rejects |-> left.rejects,
                 rescans |-> left.rescans, events |-> left.events]
  BY DEF Bounds
<1>6. left' = [minters |-> left.minters, ticks |-> left.ticks, edits |-> left'.edits,
               faults |-> left'.faults, rejects |-> left'.rejects,
               rescans |-> left'.rescans, events |-> left'.events]
  BY <1>1, <1>5
<1>7. \A k \in {"edits", "faults", "rejects", "rescans", "events"} :
        left'[k] = IF k = "events" THEN left.events - 1
                   ELSE IF k = kind THEN left[k] - 1 ELSE left[k]
  BY <1>1, <1>5
<1>8. \A k \in {"edits", "faults", "rejects", "rescans", "events"} : left'[k] \in Nat
  BY <1>3, <1>4, <1>7
<1>9. /\ left'.edits \in Nat /\ left'.faults \in Nat /\ left'.rejects \in Nat
      /\ left'.rescans \in Nat /\ left'.events \in Nat
  BY <1>8
<1> QED
  BY <1>5, <1>6, <1>9 DEF Bounds
-----------------------------------------------------------------------------
(***************************************************************************)
(* The initial states and the actions.                                     *)
(***************************************************************************)
LEMMA InitHolds == Init => IInv
<1> SUFFICES ASSUME Init PROVE IInv
  OBVIOUS
<1>1. \A d \in Device : crud[d] = <<>> /\ upload[d] = NoUpload
  BY DEF Init
<1>2. TypeOK
  BY BoundAssumption DEF Init, TypeOK, Idle, NoUpload
<1>3. Whole /\ PendingWritesOnDisk
  BY <1>1 DEF Whole, PendingWritesOnDisk, NoUpload
<1> QED
  BY <1>2, <1>3 DEF IInv

LEMMA TickKeeps == IInv /\ Tick => IInv'
<1> SUFFICES ASSUME IInv, Tick PROVE IInv'
  OBVIOUS
<1>1. TypeOK'
  <2>1. left \in Bounds /\ left.ticks > 0 /\ left' = [left EXCEPT !.ticks = @ - 1]
    BY DEF IInv, TypeOK, Tick
  <2>2. left.ticks - 1 \in 0 .. MaxNow - 1
    BY <2>1, BoundAssumption DEF Bounds
  <2>3. left' \in Bounds
    BY <2>1, <2>2 DEF Bounds
  <2> QED
    BY <2>3 DEF IInv, TypeOK, Tick, deviceVars, history
<1>2. \A d \in Device : upload[d].n <= Len(crud[d])
  BY DEF IInv, Whole
<1>3. crud' = crud /\ disk' = disk /\ upload' = upload
  BY DEF Tick, deviceVars
<1> QED
  BY <1>1, <1>2, <1>3, QueueStays DEF IInv

LEMMA MintKeeps == ASSUME IInv, NEW d \in Device, Mint(d) PROVE IInv'
<1> DEFINE row == Row(MintStamp(Clock(d), TRUE), Uniform(Template[d]))
<1>1. disk[d] = None /\ Commit(d, row, Put(row)) /\ UNCHANGED left
  BY DEF Mint
<1>2. row \in Rows
  BY ContentAssumption DEF Rows, Row, Contents, Uniform, MintStamp, Pristine
<1> HIDE DEF row
<1>3. Put(row) \in Ops /\ Put(row).cols \in Contents
  BY <1>2, PutIsOp
<1>4. Put(row).stamp = row.stamp /\ Put(row).cols = row.content
  BY DEF Put
<1>5. /\ disk' \in [Device -> Rows \cup {None}]
      /\ cache' \in [Device -> Rows \cup {None}]
      /\ crud' \in [Device -> Seq(Ops)]
      /\ Whole' /\ PendingWritesOnDisk'
  BY <1>1, <1>2, <1>3, <1>4, CommitKeeps
<1> QED
  BY <1>1, <1>5 DEF IInv, TypeOK, Commit, history

LEMMA CreateKeeps == ASSUME IInv, NEW d \in Device, Create(d) PROVE IInv'
<1> DEFINE row == Row(MintStamp(Clock(d), FALSE), Uniform(Blank))
<1>1. disk[d] = None /\ Commit(d, row, Put(row)) /\ UNCHANGED left
  BY DEF Create
<1>2. row \in Rows
  <2>1. Clock(d) \in Nat
    BY ClockIsNat DEF IInv, TypeOK
  <2> QED
    BY <2>1, ContentAssumption DEF Rows, Row, Contents, Uniform, MintStamp
<1> HIDE DEF row
<1>3. Put(row) \in Ops /\ Put(row).cols \in Contents
  BY <1>2, PutIsOp
<1>4. Put(row).stamp = row.stamp /\ Put(row).cols = row.content
  BY DEF Put
<1>5. /\ disk' \in [Device -> Rows \cup {None}]
      /\ cache' \in [Device -> Rows \cup {None}]
      /\ crud' \in [Device -> Seq(Ops)]
      /\ Whole' /\ PendingWritesOnDisk'
  BY <1>1, <1>2, <1>3, <1>4, CommitKeeps
<1> QED
  BY <1>1, <1>5 DEF IInv, TypeOK, Commit, history

LEMMA EditKeeps ==
  ASSUME IInv, NEW d \in Device, NEW c \in Column, NEW v \in Value, Edit(d, c, v)
  PROVE  IInv'
<1> DEFINE stamp == LocalStamp(Clock(d), disk[d].stamp)
           cols == [col \in {c} |-> v]
           row == Row(stamp, [disk[d].content EXCEPT ![c] = v])
           op == Patch(cols, stamp, disk[d].stamp)
<1>1. Happens("edits") /\ disk[d] # None /\ Commit(d, row, op)
  BY DEF Edit
<1>2. disk[d] \in Rows
  BY <1>1 DEF IInv, TypeOK
<1>3. disk[d].content \in Contents /\ disk[d].stamp \in Nat
  BY <1>2 DEF Rows
<1>4. stamp \in Nat
  <2>1. Clock(d) \in Nat
    BY ClockIsNat DEF IInv, TypeOK
  <2> QED
    BY <1>3, <2>1 DEF LocalStamp, Larger
<1>5. row \in Rows
  <2>1. [disk[d].content EXCEPT ![c] = v] \in Contents
    BY <1>3 DEF Contents
  <2> HIDE DEF stamp
  <2> QED
    BY <1>4, <2>1 DEF Rows, Row
<1>6. op \in Ops
  <2>1. {c} \in SUBSET Column /\ cols \in [{c} -> Value]
    OBVIOUS
  <2> HIDE DEF stamp, cols
  <2> QED
    BY <1>3, <1>4, <2>1, PatchIsOp
<1>7. /\ op.kind = "patch" /\ op.stamp = row.stamp /\ op.cols = cols
      /\ DOMAIN op.cols = {c}
      /\ row.content = [disk[d].content EXCEPT ![c] = v]
  BY DEF Patch, Row
<1>8. /\ row.content[c] = v /\ cols[c] = v
      /\ \A col \in Column \ {c} : row.content[col] = disk[d].content[col]
  BY <1>3, <1>7 DEF Contents
<1>9. /\ disk' \in [Device -> Rows \cup {None}]
      /\ cache' \in [Device -> Rows \cup {None}]
      /\ crud' \in [Device -> Seq(Ops)]
      /\ Whole' /\ PendingWritesOnDisk'
  <2> HIDE DEF row, op, cols
  <2> QED
    BY <1>1, <1>5, <1>6, <1>7, <1>8, CommitKeeps
<1>10. left' \in Bounds
  BY <1>1, HappensKeepsBounds DEF IInv, TypeOK
<1> HIDE DEF row, op
<1> QED
  BY <1>1, <1>9, <1>10 DEF IInv, TypeOK, Commit, history

LEMMA SendCreatesKeeps ==
  ASSUME IInv, NEW d \in Device, SendCreates(d) PROVE IInv'
<1> USE DEF IInv
<1>1. PICK n \in DOMAIN crud[d] :
        upload' = [upload EXCEPT ![d] = [n |-> n, sent |-> "creates"]]
  BY DEF SendCreates
<1>2. crud[d] \in Seq(Ops)
  BY DEF TypeOK
<1>3. n \in Nat /\ n <= Len(crud[d]) /\ 1 \in DOMAIN crud[d] /\ crud[d][1] \in Ops
  BY <1>1, <1>2
<1>4. upload' \in [Device -> [n : Nat, sent : {"nothing", "creates", "all"}]]
  BY <1>1, <1>3 DEF TypeOK
<1>5. Whole' /\ PendingWritesOnDisk'
  <2>1. \A e \in Device : upload'[e].n <= Len(crud[e])
    BY <1>1, <1>3 DEF Whole, TypeOK
  <2>2. crud' = crud /\ disk' = disk
    BY DEF SendCreates
  <2> QED
    BY <2>1, <2>2, QueueStays
<1>6. srv' \in Rows \cup {None} /\ behind' \in [Device -> BOOLEAN]
      /\ clamped' \in [Device -> BOOLEAN]
  <2>1. srv \in Rows \cup {None} /\ behind \in [Device -> BOOLEAN]
        /\ clamped \in [Device -> BOOLEAN]
    BY DEF TypeOK
  <2>2. CASE crud[d][1].kind = "put"
    <3>1. /\ srv' = IF srv = None
                    THEN Row(InsertStamp(now, crud[d][1].stamp), crud[d][1].cols)
                    ELSE srv
          /\ NoteClamp(d, crud[d][1].stamp)
          /\ behind' = [e \in Device |-> TRUE]
      BY <2>2 DEF SendCreates
    <3>2. crud[d][1].cols \in Contents
      BY <1>3, <2>2 DEF Whole
    <3>3. InsertStamp(now, crud[d][1].stamp) \in Nat
      <4>1. now \in Nat /\ crud[d][1].stamp \in Nat
        BY <1>3, OpFields DEF TypeOK
      <4> QED
        BY <4>1 DEF InsertStamp, Smaller
    <3>4. srv' \in Rows \cup {None}
      BY <2>1, <3>1, <3>2, <3>3 DEF Rows, Row
    <3>5. clamped' = [clamped EXCEPT ![d] = clamped[d] \/ crud[d][1].stamp > now]
      BY <3>1 DEF NoteClamp
    <3>6. (clamped[d] \/ crud[d][1].stamp > now) \in BOOLEAN
      OBVIOUS
    <3>7. clamped' \in [Device -> BOOLEAN]
      BY <2>1, <3>5, <3>6, Zenon
    <3> QED
      BY <3>1, <3>4, <3>7
  <2>3. CASE crud[d][1].kind # "put"
    BY <2>1, <2>3 DEF SendCreates
  <2> QED
    BY <2>2, <2>3
<1> QED
  BY <1>4, <1>5, <1>6 DEF TypeOK, SendCreates

LEMMA SendPatchesKeeps ==
  ASSUME IInv, NEW d \in Device, SendPatches(d) PROVE IInv'
<1> USE DEF IInv
<1> DEFINE patch == MergePatches(crud[d], BatchPatches(d))
           content == Overlay(patch.cols, srv.content)
<1>1. /\ BatchPatches(d) # {} /\ srv # None
      /\ upload' = [upload EXCEPT ![d].sent = "all"]
      /\ srv' = Row(PatchStamp(now, srv.stamp, patch.base, patch.stamp,
                               content # srv.content), content)
      /\ NoteClamp(d, patch.stamp)
      /\ behind' = [e \in Device |-> TRUE]
  BY DEF SendPatches
<1>2. /\ srv.content \in Contents /\ srv.stamp \in Nat /\ now \in Nat
      /\ crud[d] \in Seq(Ops) /\ clamped \in [Device -> BOOLEAN]
      /\ upload \in [Device -> [n : Nat, sent : {"nothing", "creates", "all"}]]
  BY <1>1 DEF TypeOK, Rows
<1>3. upload[d].n \in Nat /\ upload[d].n <= Len(crud[d])
  BY <1>2 DEF Whole
<1>4. patch.stamp \in Nat /\ patch.base \in Nat /\ content \in Contents
  BY <1>1, <1>2, <1>3, MergedPatch DEF BatchPatches
<1> HIDE DEF patch, content
<1>5. srv' \in Rows
  <2>1. (content # srv.content) \in BOOLEAN
    OBVIOUS
  <2>2. PatchStamp(now, srv.stamp, patch.base, patch.stamp, content # srv.content) \in Nat
    BY <1>2, <1>4, <2>1, ServerStamps
  <2> QED
    BY <1>1, <1>4, <2>2 DEF Rows, Row
<1>6. upload' \in [Device -> [n : Nat, sent : {"nothing", "creates", "all"}]]
      /\ \A e \in Device : upload'[e].n = upload[e].n
  BY <1>1, <1>2
<1>7. Whole' /\ PendingWritesOnDisk'
  <2>1. crud' = crud /\ disk' = disk
    BY DEF SendPatches
  <2> QED
    BY <1>6, <2>1, QueueStays DEF Whole
<1>8. clamped' \in [Device -> BOOLEAN]
  <2>1. clamped' = [clamped EXCEPT ![d] = clamped[d] \/ patch.stamp > now]
    BY <1>1 DEF NoteClamp
  <2>2. (clamped[d] \/ patch.stamp > now) \in BOOLEAN
    OBVIOUS
  <2> QED
    BY <1>2, <2>1, <2>2, Zenon
<1> QED
  BY <1>1, <1>5, <1>6, <1>7, <1>8 DEF TypeOK, SendPatches

LEMMA CompleteKeeps ==
  ASSUME IInv, NEW d \in Device, Complete(d) PROVE IInv'
<1>1. upload[d].n \in Nat /\ upload[d].n <= Len(crud[d])
  BY DEF IInv, TypeOK, Whole
<1>2. /\ crud' \in [Device -> Seq(Ops)]
      /\ upload' \in [Device -> [n : Nat, sent : {"nothing", "creates", "all"}]]
      /\ Whole' /\ PendingWritesOnDisk'
  BY <1>1, ShrinkKeeps DEF Complete
<1> QED
  BY <1>2 DEF IInv, TypeOK, Complete, history

\* Only the upload attempt changes, and not to a longer one.
LEMMA AttemptKeeps ==
  ASSUME IInv, NEW d \in Device, NEW attempt,
         attempt \in [n : Nat, sent : {"nothing", "creates", "all"}],
         attempt.n <= upload[d].n,
         upload' = [upload EXCEPT ![d] = attempt], left' \in Bounds,
         UNCHANGED <<now, srv, behind, staged, fresh, window, drain, disk, cache,
                     crud, history>>
  PROVE  IInv'
<1>1. /\ upload \in [Device -> [n : Nat, sent : {"nothing", "creates", "all"}]]
      /\ upload[d].n \in Nat /\ upload[d].n <= Len(crud[d]) /\ crud[d] \in Seq(Ops)
  BY DEF IInv, TypeOK, Whole
<1>2. upload' \in [Device -> [n : Nat, sent : {"nothing", "creates", "all"}]]
  BY <1>1
<1>3. \A e \in Device : upload'[e].n <= Len(crud[e])
  BY <1>1 DEF IInv, Whole
<1>4. Whole' /\ PendingWritesOnDisk'
  BY <1>3, QueueStays
<1> QED
  BY <1>2, <1>4 DEF IInv, TypeOK, history

LEMMA AttemptFailsKeeps ==
  ASSUME IInv, NEW d \in Device, AttemptFails(d) PROVE IInv'
<1>1. left' \in Bounds
  BY HappensKeepsBounds DEF IInv, TypeOK, AttemptFails
<1>2. upload[d].n \in Nat
  BY DEF IInv, TypeOK
<1>3. /\ NoUpload \in [n : Nat, sent : {"nothing", "creates", "all"}]
      /\ NoUpload.n <= upload[d].n
  BY <1>2 DEF NoUpload
<1> QED
  BY <1>1, <1>3, AttemptKeeps DEF AttemptFails

LEMMA BatchMissesRowKeeps ==
  ASSUME IInv, NEW d \in Device, BatchMissesRow(d) PROVE IInv'
<1> DEFINE attempt == [upload[d] EXCEPT !.n = 1]
<1>1. /\ upload \in [Device -> [n : Nat, sent : {"nothing", "creates", "all"}]]
      /\ upload[d].n > 1 /\ left \in Bounds
  BY DEF IInv, TypeOK, BatchMissesRow
<1>2. attempt \in [n : Nat, sent : {"nothing", "creates", "all"}] /\ attempt.n <= upload[d].n
  BY <1>1
<1>3. upload' = [upload EXCEPT ![d] = attempt]
  BY DEF BatchMissesRow
<1> HIDE DEF attempt
<1> QED
  BY <1>1, <1>2, <1>3, AttemptKeeps DEF BatchMissesRow

LEMMA DropHeadKeeps ==
  ASSUME IInv, NEW d \in Device, Pending(d), DropHead(d), left' \in Bounds PROVE IInv'
<1>1. crud[d] \in Seq(Ops) /\ crud[d] # <<>>
  BY DEF IInv, TypeOK, Pending
<1>2. 1 <= Len(crud[d])
  BY <1>1
<1>3. Tail(crud[d]) = SubSeq(crud[d], 1 + 1, Len(crud[d]))
  BY <1>1, TailIsSubSeq
<1>4. crud' = [crud EXCEPT ![d] = SubSeq(@, 1 + 1, Len(@))]
  BY <1>3 DEF DropHead
<1>5. /\ crud' \in [Device -> Seq(Ops)]
      /\ upload' \in [Device -> [n : Nat, sent : {"nothing", "creates", "all"}]]
      /\ Whole' /\ PendingWritesOnDisk'
  BY <1>2, <1>4, ShrinkKeeps DEF DropHead
<1>6. refused' \in [Device -> BOOLEAN]
  BY DEF IInv, TypeOK, DropHead
<1> QED
  BY <1>5, <1>6 DEF IInv, TypeOK, DropHead

LEMMA RefuseMissingKeeps ==
  ASSUME IInv, NEW d \in Device, RefuseMissing(d) PROVE IInv'
<1>1. left' \in Bounds
  BY DEF IInv, TypeOK, RefuseMissing
<1> QED
  BY <1>1, DropHeadKeeps DEF RefuseMissing

LEMMA RefuseKeeps ==
  ASSUME IInv, NEW d \in Device, Refuse(d) PROVE IInv'
<1>1. left' \in Bounds
  BY HappensKeepsBounds DEF IInv, TypeOK, Refuse
<1> QED
  BY <1>1, DropHeadKeeps DEF Refuse

LEMMA DeliverKeeps ==
  ASSUME IInv, NEW d \in Device, Deliver(d) PROVE IInv'
<1>1. \A e \in Device : upload[e].n <= Len(crud[e])
  BY DEF IInv, Whole
<1>2. crud' = crud /\ disk' = disk /\ upload' = upload
  BY DEF Deliver
<1>3. Whole' /\ PendingWritesOnDisk'
  BY <1>1, <1>2, QueueStays
<1> QED
  BY <1>3 DEF IInv, TypeOK, Deliver, history

LEMMA ReadWindowKeeps ==
  ASSUME IInv, NEW d \in Device, ReadWindow(d) PROVE IInv'
<1>1. \A e \in Device : upload[e].n <= Len(crud[e])
  BY DEF IInv, Whole
<1>2. crud' = crud /\ disk' = disk /\ upload' = upload
  BY DEF ReadWindow
<1>3. Whole' /\ PendingWritesOnDisk'
  BY <1>1, <1>2, QueueStays
<1>4. left' \in Bounds /\ fresh' \in [Device -> BOOLEAN] /\ window' \in [Device -> BOOLEAN]
  <2>1. /\ left \in Bounds
        /\ fresh \in [Device -> BOOLEAN] /\ window \in [Device -> BOOLEAN]
    BY DEF IInv, TypeOK
  <2>2. CASE Happens("rescans") /\ UNCHANGED <<fresh, window>>
    BY <2>1, <2>2, HappensKeepsBounds
  <2>3. CASE /\ fresh' = [fresh EXCEPT ![d] = FALSE]
             /\ window' = [window EXCEPT ![d] = TRUE]
             /\ UNCHANGED left
    BY <2>1, <2>3
  <2> QED
    BY <2>2, <2>3 DEF ReadWindow
<1>5. drain' \in [Device -> [phase : {"idle", "write", "consume"}, row : Rows \cup {None}]]
  <2>1. drain' = [drain EXCEPT ![d] = IF Applies(d, staged[d])
                                      THEN [phase |-> "write", row |-> staged[d]]
                                      ELSE [phase |-> "consume", row |-> None]]
    BY DEF ReadWindow
  <2> QED
    BY <2>1 DEF IInv, TypeOK
<1> QED
  BY <1>3, <1>4, <1>5 DEF IInv, TypeOK, ReadWindow, history

LEMMA WriteWindowKeeps ==
  ASSUME IInv, NEW d \in Device, WriteWindow(d) PROVE IInv'
<1> USE DEF IInv
<1>1. \A e \in Device : upload[e].n <= Len(crud[e])
  BY DEF Whole
<1>2. crud' = crud /\ upload' = upload
  BY DEF WriteWindow
<1>3. drain[d].row \in Rows \cup {None}
      /\ disk \in [Device -> Rows \cup {None}] /\ cache \in [Device -> Rows \cup {None}]
  BY DEF TypeOK
<1>4. /\ disk' \in [Device -> Rows \cup {None}] /\ cache' \in [Device -> Rows \cup {None}]
      /\ \A e \in Device : crud[e] # <<>> => disk'[e] = disk[e]
  <2>1. CASE Applies(d, drain[d].row)
    <3>1. ~Pending(d)
      BY <2>1 DEF Applies, AppliesToDisk
    <3>2. disk' = [disk EXCEPT ![d] = drain[d].row]
          /\ (cache' = [cache EXCEPT ![d] = drain[d].row] \/ cache' = cache)
      BY <2>1 DEF WriteWindow
    <3> QED
      BY <1>3, <3>1, <3>2 DEF Pending
  <2>2. CASE ~Applies(d, drain[d].row)
    BY <1>3, <2>2 DEF WriteWindow
  <2> QED
    BY <2>1, <2>2
<1>5. Whole' /\ PendingWritesOnDisk'
  BY <1>1, <1>2, <1>4, QueueStays
<1>6. drain' \in [Device -> [phase : {"idle", "write", "consume"}, row : Rows \cup {None}]]
  BY DEF TypeOK, WriteWindow
<1> QED
  BY <1>4, <1>5, <1>6 DEF TypeOK, WriteWindow, history

LEMMA ConsumeWindowKeeps ==
  ASSUME IInv, NEW d \in Device, ConsumeWindow(d) PROVE IInv'
<1>1. \A e \in Device : upload[e].n <= Len(crud[e])
  BY DEF IInv, Whole
<1>2. crud' = crud /\ disk' = disk /\ upload' = upload
  BY DEF ConsumeWindow
<1>3. Whole' /\ PendingWritesOnDisk'
  BY <1>1, <1>2, QueueStays
<1> QED
  BY <1>3 DEF IInv, TypeOK, ConsumeWindow, Idle, history

LEMMA ReloadKeeps ==
  ASSUME IInv, NEW d \in Device, Reload(d) PROVE IInv'
<1>1. /\ upload \in [Device -> [n : Nat, sent : {"nothing", "creates", "all"}]]
      /\ crud \in [Device -> Seq(Ops)] /\ Len(crud[d]) \in Nat
      /\ \A e \in Device : upload[e].n <= Len(crud[e])
  BY DEF IInv, TypeOK, Whole
<1>2. /\ crud' = crud /\ disk' = disk
      /\ upload' = [upload EXCEPT ![d] = NoUpload]
  BY DEF Reload
<1>3. Whole' /\ PendingWritesOnDisk'
  <2>1. \A e \in Device : upload'[e].n <= Len(crud[e])
    BY <1>1, <1>2 DEF NoUpload
  <2> QED
    BY <1>2, <2>1, QueueStays
<1>4. upload' \in [Device -> [n : Nat, sent : {"nothing", "creates", "all"}]]
  BY <1>1, <1>2 DEF NoUpload
<1>5. left' \in Bounds
  BY HappensKeepsBounds DEF IInv, TypeOK, Reload
<1>6. fresh' \in [Device -> BOOLEAN] /\ window' \in [Device -> BOOLEAN]
  BY DEF IInv, TypeOK, Reload
<1>7. cache' \in [Device -> Rows \cup {None}]
      /\ drain' \in [Device -> [phase : {"idle", "write", "consume"}, row : Rows \cup {None}]]
  BY DEF IInv, TypeOK, Reload, Idle
<1> QED
  BY <1>3, <1>4, <1>5, <1>6, <1>7 DEF IInv, TypeOK, Reload, history

LEMMA HydrateKeeps ==
  ASSUME IInv, NEW d \in Device, Hydrate(d) PROVE IInv'
<1>1. \A e \in Device : upload[e].n <= Len(crud[e])
  BY DEF IInv, Whole
<1>2. crud' = crud /\ disk' = disk /\ upload' = upload
  BY DEF Hydrate
<1>3. Whole' /\ PendingWritesOnDisk'
  BY <1>1, <1>2, QueueStays
<1> QED
  BY <1>3 DEF IInv, TypeOK, Hydrate, history

LEMMA StutterKeeps == IInv /\ UNCHANGED vars => IInv'
<1> SUFFICES ASSUME IInv, UNCHANGED vars PROVE IInv'
  OBVIOUS
<1>1. \A e \in Device : upload[e].n <= Len(crud[e])
  BY DEF IInv, Whole
<1>2. Whole' /\ PendingWritesOnDisk'
  BY <1>1, QueueStays DEF vars, deviceVars
<1> QED
  BY <1>2 DEF IInv, TypeOK, vars, deviceVars, history

LEMMA Inductive == IInv /\ [Next]_vars => IInv'
<1> SUFFICES ASSUME IInv, [Next]_vars PROVE IInv'
  OBVIOUS
<1>1. CASE Tick
  BY <1>1, TickKeeps
<1>2. CASE \E d \in Device : \E c \in Column, v \in Value : Edit(d, c, v)
  BY <1>2, EditKeeps
<1>3. CASE \E d \in Device : Mint(d) \/ Create(d)
  BY <1>3, MintKeeps, CreateKeeps
<1>4. CASE \E d \in Device : SendCreates(d) \/ SendPatches(d) \/ Complete(d)
  BY <1>4, SendCreatesKeeps, SendPatchesKeeps, CompleteKeeps
<1>5. CASE \E d \in Device :
             AttemptFails(d) \/ BatchMissesRow(d) \/ RefuseMissing(d) \/ Refuse(d)
  BY <1>5, AttemptFailsKeeps, BatchMissesRowKeeps, RefuseMissingKeeps, RefuseKeeps
<1>6. CASE \E d \in Device : Deliver(d) \/ Reload(d) \/ Hydrate(d)
  BY <1>6, DeliverKeeps, ReloadKeeps, HydrateKeeps
<1>7. CASE \E d \in Device : ReadWindow(d) \/ WriteWindow(d) \/ ConsumeWindow(d)
  BY <1>7, ReadWindowKeeps, WriteWindowKeeps, ConsumeWindowKeeps
<1>8. CASE UNCHANGED vars
  BY <1>8, StutterKeeps
<1> QED
  BY <1>1, <1>2, <1>3, <1>4, <1>5, <1>6, <1>7, <1>8 DEF Next

LEMMA IInvHolds == Spec => []IInv
  BY InitHolds, Inductive, PTL DEF Spec
-----------------------------------------------------------------------------
(***************************************************************************)
(* BlockTyped: every row, queue entry, upload attempt and drain of every   *)
(* device is well typed, versions included, whatever the clocks.           *)
(***************************************************************************)
THEOREM BlockTyped == Spec => []TypeOK
<1>1. IInv => TypeOK
  BY DEF IInv
<1> QED
  BY <1>1, IInvHolds, PTL

(***************************************************************************)
(* LocalWritesStand: with any number of devices, and any interleaving of   *)
(* edits, uploads, refusals, deliveries, drains and reloads, the row on    *)
(* disk carries what waits in the upload queue (PendingWritesOnDisk).      *)
(***************************************************************************)
THEOREM LocalWritesStand == Spec => []PendingWritesOnDisk
<1>1. IInv => PendingWritesOnDisk
  BY DEF IInv
<1> QED
  BY <1>1, IInvHolds, PTL
-----------------------------------------------------------------------------
(***************************************************************************)
(* The refinement.  InTime: the clock never passes its bound.              *)
(***************************************************************************)
InTime == now + left.ticks <= MaxNow

LEMMA InTimeAtFirst == Init => InTime
<1> SUFFICES ASSUME Init PROVE InTime
  OBVIOUS
<1>1. now = 1 /\ left.ticks \in 0 .. MaxNow - 1
  BY BoundAssumption DEF Init, Bounds
<1> QED
  BY <1>1, BoundAssumption DEF InTime

\* An event uses up none of the clock's ticks.
LEMMA HappensKeepsTicks ==
  ASSUME left \in Bounds, NEW kind \in {"edits", "faults", "rejects", "rescans"},
         Happens(kind)
  PROVE  left'.ticks = left.ticks
  BY DEF Happens, Bounds

LEMMA InTimeKept == IInv /\ InTime /\ [Next]_vars => InTime'
<1> SUFFICES ASSUME IInv, InTime, [Next]_vars PROVE InTime'
  OBVIOUS
<1>1. left \in Bounds /\ now \in Nat /\ left.ticks \in Nat
  BY BoundAssumption DEF IInv, TypeOK, Bounds
<1>2. CASE Tick
  <2>1. now' = now + 1 /\ left'.ticks = left.ticks - 1
    BY <1>1, <1>2 DEF Tick, Bounds
  <2> QED
    BY <1>1, <2>1 DEF InTime
<1>3. CASE now' = now /\ left' = left
  BY <1>3 DEF InTime
<1>4. CASE now' = now /\ left'.ticks = left.ticks
  BY <1>4 DEF InTime
<1>5. CASE \E d \in Device : \E c \in Column, v \in Value : Edit(d, c, v)
  BY <1>1, <1>4, <1>5, HappensKeepsTicks DEF Edit, Commit
<1>6. CASE \E d \in Device : Mint(d) \/ Create(d)
  BY <1>3, <1>6 DEF Mint, Create, Commit
<1>7. CASE \E d \in Device : SendCreates(d) \/ SendPatches(d) \/ Complete(d)
                             \/ BatchMissesRow(d) \/ RefuseMissing(d)
  BY <1>3, <1>7 DEF SendCreates, SendPatches, Complete, BatchMissesRow, RefuseMissing, DropHead
<1>8. CASE \E d \in Device : AttemptFails(d) \/ Refuse(d) \/ Reload(d)
  BY <1>1, <1>4, <1>8, HappensKeepsTicks DEF AttemptFails, Refuse, Reload, DropHead
<1>9. CASE \E d \in Device : Deliver(d) \/ WriteWindow(d) \/ ConsumeWindow(d) \/ Hydrate(d)
  BY <1>3, <1>9 DEF Deliver, WriteWindow, ConsumeWindow, Hydrate
<1>10. CASE \E d \in Device : ReadWindow(d)
  BY <1>1, <1>4, <1>10, HappensKeepsTicks DEF ReadWindow
<1>11. CASE UNCHANGED vars
  BY <1>3, <1>11 DEF vars
<1> QED
  BY <1>2, <1>5, <1>6, <1>7, <1>8, <1>9, <1>10, <1>11 DEF Next

\* The arithmetic of the instance is that of this module.
LEMMA SameArithmetic ==
  /\ \A p : Server!InsertStamp(now, p) = InsertStamp(now, p)
  /\ \A old, base, p, changed :
       Server!PatchStamp(now, old, base, p, changed) = PatchStamp(now, old, base, p, changed)
<1>1. \A p : Server!InsertStamp(now, p) = InsertStamp(now, p)
  BY DEF Server!InsertStamp, Server!Smaller, InsertStamp, Smaller
<1>2. ASSUME NEW old, NEW p
      PROVE  Server!DriftStamp(now, old, p) = DriftStamp(now, old, p)
  BY DEF Server!DriftStamp, Server!DriftBump, Server!Larger, Server!Smaller,
         DriftStamp, DriftBump, Larger, Smaller
<1>3. ASSUME NEW old, NEW p, NEW changed
      PROVE  Server!FloorStamp(now, old, p, changed) = FloorStamp(now, old, p, changed)
  BY DEF Server!FloorStamp, Server!Larger, Server!Smaller, FloorStamp, Larger, Smaller
<1>4. ASSUME NEW old, NEW base
      PROVE  Server!Drifted(base, old) = Drifted(base, old)
  BY DEF Server!Drifted, Server!Pristine, Drifted, Pristine
<1>5. ASSUME NEW old, NEW base, NEW p, NEW changed
      PROVE  Server!PatchStamp(now, old, base, p, changed) = PatchStamp(now, old, base, p, changed)
  BY <1>2, <1>3, <1>4 DEF Server!PatchStamp, PatchStamp
<1> QED
  BY <1>1, <1>5

LEMMA CreatesImplement ==
  ASSUME Stamp = Nat, IInv, NEW d \in Device, SendCreates(d)
  PROVE  [Server!ServerNext]_(Server!serverVars)
<1>1. crud[d] \in Seq(Ops) /\ 1 \in DOMAIN crud[d]
  <2>1. PICK n \in DOMAIN crud[d] : TRUE
    BY DEF SendCreates
  <2> QED
    BY <2>1 DEF IInv, TypeOK
<1>2. crud[d][1] \in Ops /\ now' = now
  BY <1>1 DEF SendCreates
<1>3. CASE crud[d][1].kind = "put"
  <2>1. srv' = IF srv = None
               THEN Row(InsertStamp(now, crud[d][1].stamp), crud[d][1].cols)
               ELSE srv
    BY <1>3 DEF SendCreates
  <2>2. crud[d][1].cols \in Contents /\ crud[d][1].stamp \in Stamp
    BY <1>1, <1>2, <1>3, OpFields DEF IInv, Whole
  <2>3. Server!ServerCreate(crud[d][1].stamp, crud[d][1].cols)
    BY <1>2, <2>1, SameArithmetic DEF Server!ServerCreate, Row
  <2> QED
    BY <2>2, <2>3 DEF Server!ServerNext
<1>4. CASE crud[d][1].kind # "put"
  BY <1>2, <1>4 DEF SendCreates, Server!serverVars
<1> QED
  BY <1>3, <1>4

LEMMA PatchesImplement ==
  ASSUME Stamp = Nat, IInv, NEW d \in Device, SendPatches(d)
  PROVE  [Server!ServerNext]_(Server!serverVars)
<1> DEFINE patch == MergePatches(crud[d], BatchPatches(d))
           content == Overlay(patch.cols, srv.content)
<1>1. /\ BatchPatches(d) # {} /\ srv # None /\ now' = now
      /\ srv' = Row(PatchStamp(now, srv.stamp, patch.base, patch.stamp,
                               content # srv.content), content)
  BY DEF SendPatches
<1>2. /\ srv.content \in Contents /\ crud[d] \in Seq(Ops)
      /\ upload[d].n \in Nat /\ upload[d].n <= Len(crud[d])
  BY <1>1 DEF IInv, TypeOK, Rows, Whole
<1>3. patch.stamp \in Stamp /\ patch.base \in Stamp /\ content \in Contents
  BY <1>1, <1>2, MergedPatch DEF BatchPatches
<1> HIDE DEF patch, content
<1>4. Server!ServerPatch(patch.base, patch.stamp, content)
  BY <1>1, SameArithmetic DEF Server!ServerPatch, Row
<1> QED
  BY <1>3, <1>4 DEF Server!ServerNext

LEMMA StepsImplement ==
  ASSUME Stamp = Nat, IInv, InTime, [Next]_vars
  PROVE  [Server!ServerNext]_(Server!serverVars)
<1>1. CASE Tick
  <2>1. left.ticks \in Nat /\ left.ticks > 0 /\ now \in Nat /\ now' = now + 1 /\ srv' = srv
    BY <1>1, BoundAssumption DEF IInv, TypeOK, Bounds, Tick
  <2>2. now < MaxNow
    BY <2>1, BoundAssumption DEF InTime
  <2> QED
    BY <2>1, <2>2 DEF Server!ServerNext, Server!ServerTick
<1>2. CASE \E d \in Device : SendCreates(d)
  BY <1>2, CreatesImplement
<1>3. CASE \E d \in Device : SendPatches(d)
  BY <1>3, PatchesImplement
<1>4. CASE now' = now /\ srv' = srv
  BY <1>4 DEF Server!serverVars
<1>5. CASE \E d \in Device : \/ Mint(d) \/ Create(d)
                             \/ \E c \in Column, v \in Value : Edit(d, c, v)
  BY <1>4, <1>5 DEF Mint, Create, Edit, Commit
<1>6. CASE \E d \in Device : Complete(d) \/ AttemptFails(d) \/ BatchMissesRow(d)
                             \/ RefuseMissing(d) \/ Refuse(d)
  BY <1>4, <1>6 DEF Complete, AttemptFails, BatchMissesRow, RefuseMissing, Refuse, DropHead
<1>7. CASE \E d \in Device : Deliver(d) \/ ReadWindow(d) \/ WriteWindow(d)
                             \/ ConsumeWindow(d) \/ Reload(d) \/ Hydrate(d)
  BY <1>4, <1>7 DEF Deliver, ReadWindow, WriteWindow, ConsumeWindow, Reload, Hydrate
<1>8. CASE UNCHANGED vars
  BY <1>4, <1>8 DEF vars
<1> QED
  BY <1>1, <1>2, <1>3, <1>5, <1>6, <1>7, <1>8 DEF Next

(***************************************************************************)
(* ServerIsImplemented: when callers of the abstract server may send any   *)
(* stamp, every step of the system is one of its steps or leaves it alone  *)
(* (ServerImplemented).  So Monotone and VersionNamesContent, proved of    *)
(* ServerRow for arbitrary callers, hold of the server the devices share.  *)
(***************************************************************************)
THEOREM ServerIsImplemented ==
  ASSUME Stamp = Nat
  PROVE  Spec => ServerImplemented
<1>1. Init => Server!ServerInit
  BY DEF Init, Server!ServerInit
<1>2. IInv /\ InTime /\ [Next]_vars => [Server!ServerNext]_(Server!serverVars)
  BY StepsImplement
<1> QED
  BY <1>1, <1>2, InitHolds, Inductive, InTimeAtFirst, InTimeKept, PTL
     DEF Spec, ServerImplemented, Server!ServerSpec
-----------------------------------------------------------------------------
(***************************************************************************)
(* Convergence.  The server is at or past version s, and if it is at it,   *)
(* with this content in these columns.                                     *)
(***************************************************************************)
Matches(server, s, content, columns) ==
  /\ server # None /\ s <= server.stamp
  /\ s = server.stamp /\ s # Pristine =>
       \A c \in columns : content[c] = server.content[c]

\* The row is one the server had, or is as good as one.
FromServer(row) == Matches(srv, row.stamp, row.content, Column)

Good(d) == ~clamped[d] /\ ~refused[d]

\* 1 when an insert is queued, which is then first, and 0 when none is.
Inserts(d) == IF Pending(d) /\ crud[d][1].kind = "put" THEN 1 ELSE 0

\* The queue entries whose effect the server has, once its row is there: those
\* of the batch in progress, or the insert, for one that waits is redundant.
Reached(d) == IF upload[d].sent = "all" THEN upload[d].n ELSE Inserts(d)

\* The version of the device's row after the first m entries of its queue, and
\* the columns that the later ones leave alone.
VersionAt(d, m) == IF m < Len(crud[d]) THEN crud[d][m + 1].base ELSE disk[d].stamp

Unwritten(d, m) ==
  {c \in Column : \A i \in DOMAIN crud[d] : i > m => c \notin DOMAIN crud[d][i].cols}

Reflects(d, m) == Matches(srv, VersionAt(d, m), disk[d].content, Unwritten(d, m))

\* Every entry of a queue but an insert is made against the one before it.
Chained(d) ==
  /\ \A i \in DOMAIN crud[d] :
       /\ crud[d][i].kind = "put" => i = 1
       /\ i > 1 => crud[d][i].base = crud[d][i - 1].stamp
       /\ \A j \in DOMAIN crud[d] :
            crud[d][i].kind = "patch" /\ i <= j => crud[d][i].base < crud[d][j].stamp
  /\ upload[d] # NoUpload => upload[d].n > 0 /\ upload[d].sent # "nothing"
  /\ upload[d].sent = "all" => BatchPatches(d) # {}

\* A row under a random id is the only one until the server has it.
Sole(d) ==
  Inserts(d) = 1 /\ crud[d][1].stamp # Pristine =>
    /\ left.minters = {}
    /\ srv = None => \A e \in Device : e # d => crud[e] = <<>> /\ disk[e] = None

\* The server has, of a device it never clamped or refused, what that device
\* may believe it has.
Acknowledged(d) ==
  Good(d) /\ disk[d] # None =>
    /\ Inserts(d) = 0 \/ upload[d].sent # "nothing" => srv # None
    /\ srv # None => Reflects(d, Reached(d))

\* What was sent comes back.
Announced(d) ==
  /\ upload[d].sent = "all" => behind[d]
  /\ upload[d].sent = "creates" /\ Inserts(d) = 1 => behind[d]

Arrived(d) ==
  /\ behind[d] => srv # None
  /\ ~behind[d] => staged[d] = srv
  /\ fresh[d] \/ window[d] => staged[d] # None
  /\ staged[d] # None => FromServer(staged[d])
  /\ drain[d].phase = "write" => drain[d].row # None /\ FromServer(drain[d].row)

\* What is staged reaches the disk with the window that reads it last.
Drained(d) ==
  /\ drain[d].phase = "idle" => ~window[d]
  /\ drain[d].phase = "write" /\ ~fresh[d] => drain[d].row = staged[d]
  /\ /\ Good(d) /\ ~Pending(d) /\ ~behind[d] /\ ~fresh[d]
     /\ window[d] => drain[d].phase = "consume"
     => disk[d] = staged[d]

Cached(d) ==
  /\ cache[d] # None => disk[d] # None /\ disk[d].stamp <= cache[d].stamp
  /\ Pending(d) => cache[d] \in {None, disk[d]}
  /\ Good(d) /\ ~Pending(d) /\ cache[d] # None => FromServer(cache[d])

DeviceInv(d) ==
  /\ Chained(d) /\ Sole(d) /\ Acknowledged(d) /\ Announced(d)
  /\ Arrived(d) /\ Drained(d) /\ Cached(d)

SyncInv == \A d \in Device : DeviceInv(d)
-----------------------------------------------------------------------------
(***************************************************************************)
(* Facts of one state.                                                     *)
(***************************************************************************)
LEMMA DeviceTyped ==
  ASSUME IInv, NEW d \in Device
  PROVE  /\ now \in Nat /\ (srv # None => srv \in Rows)
         /\ (disk[d] # None => disk[d] \in Rows) /\ (staged[d] # None => staged[d] \in Rows)
         /\ (cache[d] # None => cache[d] \in Rows)
         /\ (drain[d].row # None => drain[d].row \in Rows)
         /\ crud[d] \in Seq(Ops) /\ Len(crud[d]) \in Nat /\ DOMAIN crud[d] = 1 .. Len(crud[d])
         /\ Pending(d) <=> Len(crud[d]) > 0
         /\ \A i \in 1 .. Len(crud[d]) :
              /\ crud[d][i] \in Ops /\ crud[d][i].kind \in {"put", "patch"}
              /\ crud[d][i].stamp \in Nat /\ crud[d][i].base \in Nat
         /\ upload[d].n \in Nat /\ upload[d].n <= Len(crud[d])
         /\ upload[d].sent \in {"nothing", "creates", "all"}
         /\ upload[d].n = 0 /\ upload[d].sent = "nothing" => upload[d] = NoUpload
         /\ Inserts(d) \in {0, 1} /\ Inserts(d) <= Len(crud[d])
<1>1. /\ now \in Nat /\ srv \in Rows \cup {None} /\ disk[d] \in Rows \cup {None}
      /\ staged[d] \in Rows \cup {None} /\ cache[d] \in Rows \cup {None}
      /\ drain[d].row \in Rows \cup {None}
  BY DEF IInv, TypeOK
<1>2. crud[d] \in Seq(Ops)
  BY DEF IInv, TypeOK
<1>3. /\ Len(crud[d]) \in Nat /\ DOMAIN crud[d] = 1 .. Len(crud[d])
      /\ Pending(d) <=> Len(crud[d]) > 0
      /\ \A i \in 1 .. Len(crud[d]) : crud[d][i] \in Ops
  BY <1>2 DEF Pending
<1>4. \A i \in 1 .. Len(crud[d]) :
        /\ crud[d][i].kind \in {"put", "patch"}
        /\ crud[d][i].stamp \in Nat /\ crud[d][i].base \in Nat
  BY <1>3, OpFields
<1>5. upload[d] \in [n : Nat, sent : {"nothing", "creates", "all"}] /\ upload[d].n <= Len(crud[d])
  BY DEF IInv, TypeOK, Whole
<1>6. upload[d].n = 0 /\ upload[d].sent = "nothing" => upload[d] = NoUpload
  BY <1>5 DEF NoUpload
<1>7. Inserts(d) \in {0, 1} /\ Inserts(d) <= Len(crud[d])
  BY <1>3 DEF Inserts
<1> QED
  BY <1>1, <1>2, <1>3, <1>4, <1>5, <1>6, <1>7

LEMMA RowFields ==
  ASSUME NEW row \in Rows
  PROVE  row.stamp \in Nat /\ row.content \in Contents /\ row # None
  BY ContentAssumption DEF Rows

LEMMA RowsAgree ==
  ASSUME NEW one \in Rows, NEW other \in Rows,
         one.stamp = other.stamp, \A c \in Column : one.content[c] = other.content[c]
  PROVE  one = other
<1>1. one.content \in [Column -> Value] /\ other.content \in [Column -> Value]
  BY DEF Rows, Contents
<1>2. one.content = other.content
  BY <1>1
<1> QED
  BY <1>2 DEF Rows

\* The version after an entry of a queue is its stamp.
LEMMA VersionIsStamp ==
  ASSUME IInv, NEW d \in Device, Chained(d), NEW m \in 1 .. Len(crud[d])
  PROVE  disk[d] # None /\ VersionAt(d, m) = crud[d][m].stamp
<1>1. DOMAIN crud[d] = 1 .. Len(crud[d]) /\ Len(crud[d]) \in Nat
  BY DeviceTyped
<1>2. disk[d] # None /\ disk[d].stamp = crud[d][Len(crud[d])].stamp
  BY <1>1 DEF IInv, PendingWritesOnDisk
<1>3. CASE m = Len(crud[d])
  BY <1>1, <1>2, <1>3 DEF VersionAt
<1>4. CASE m < Len(crud[d])
  <2>1. m + 1 \in DOMAIN crud[d] /\ m + 1 > 1 /\ (m + 1) - 1 = m
    BY <1>1, <1>4
  <2>2. crud[d][m + 1].base = crud[d][m].stamp
    BY <2>1 DEF Chained
  <2> QED
    BY <1>2, <1>4, <2>2 DEF VersionAt
<1> QED
  BY <1>1, <1>3, <1>4

\* What a queue's insert and patches are.
LEMMA PatchesFollow ==
  ASSUME IInv, NEW d \in Device, Chained(d), NEW n \in Nat, n <= Len(crud[d])
  PROVE  PatchesIn(crud[d], n) = Inserts(d) + 1 .. n
<1>1. /\ Len(crud[d]) \in Nat /\ DOMAIN crud[d] = 1 .. Len(crud[d])
      /\ (Pending(d) <=> Len(crud[d]) > 0)
      /\ \A i \in 1 .. Len(crud[d]) : crud[d][i].kind \in {"put", "patch"}
  BY DeviceTyped
<1>2. \A i \in 1 .. n : i \in DOMAIN crud[d]
  BY <1>1
<1>3. CASE Inserts(d) = 1
  <2>1. crud[d][1].kind = "put"
    BY <1>3 DEF Inserts
  <2>2. \A i \in 1 .. n : crud[d][i].kind = "patch" <=> i >= 2
    BY <1>1, <1>2, <2>1 DEF Chained
  <2>3. \A i \in 1 .. n : i \in PatchesIn(crud[d], n) <=> i \in 2 .. n
    BY <2>2 DEF PatchesIn
  <2>4. PatchesIn(crud[d], n) \subseteq 1 .. n /\ 2 .. n \subseteq 1 .. n
    BY DEF PatchesIn
  <2>5. PatchesIn(crud[d], n) = 2 .. n
    BY <2>3, <2>4, Zenon
  <2> QED
    BY <1>3, <2>5
<1>4. CASE Inserts(d) = 0
  <2>1. Pending(d) => crud[d][1].kind # "put"
    BY <1>4 DEF Inserts
  <2>2. \A i \in 1 .. n : crud[d][i].kind = "patch"
    BY <1>1, <1>2, <2>1 DEF Chained
  <2>3. PatchesIn(crud[d], n) = 1 .. n
    BY <2>2 DEF PatchesIn
  <2> QED
    BY <1>4, <2>3
<1> QED
  BY <1>3, <1>4, DeviceTyped

\* Each patch makes a newer version.
LEMMA VersionsGrow ==
  ASSUME IInv, NEW d \in Device, Chained(d),
         NEW m \in Nat, NEW n \in Nat, Inserts(d) <= m, m < n, n <= Len(crud[d])
  PROVE  VersionAt(d, m) < VersionAt(d, n)
<1>1. Len(crud[d]) \in Nat /\ DOMAIN crud[d] = 1 .. Len(crud[d]) /\ Inserts(d) \in {0, 1}
  BY DeviceTyped
<1>2. VersionAt(d, n) = crud[d][n].stamp
  BY <1>1, VersionIsStamp
<1>3. VersionAt(d, m) = crud[d][m + 1].base
  BY <1>1 DEF VersionAt
<1>4. m + 1 \in PatchesIn(crud[d], n)
  BY <1>1, PatchesFollow
<1>5. crud[d][m + 1].kind = "patch" /\ m + 1 \in DOMAIN crud[d] /\ n \in DOMAIN crud[d] /\ m + 1 <= n
  BY <1>1, <1>4 DEF PatchesIn
<1> QED
  BY <1>2, <1>3, <1>5 DEF Chained

\* What reflects a prefix of a queue reflects every shorter one.
LEMMA ShorterIsReflected ==
  ASSUME IInv, NEW d \in Device, Chained(d), disk[d] # None,
         NEW m \in Nat, NEW n \in Nat, Inserts(d) <= m, m <= n, n <= Len(crud[d]),
         Reflects(d, n)
  PROVE  Reflects(d, m)
<1>1. CASE m = n
  BY <1>1
<1>2. CASE m < n
  <2>1. srv # None /\ VersionAt(d, n) <= srv.stamp /\ VersionAt(d, m) < VersionAt(d, n)
    BY <1>2, VersionsGrow DEF Reflects, Matches
  <2>2. srv.stamp \in Nat
    BY <2>1, DeviceTyped, RowFields
  <2>3. VersionAt(d, n) \in Nat /\ VersionAt(d, m) \in Nat
    <3>1. \A k \in Nat : k < Len(crud[d]) => k + 1 \in 1 .. Len(crud[d])
      BY DeviceTyped
    <3>2. \A k \in Nat : VersionAt(d, k) \in Nat
      BY <3>1, DeviceTyped, RowFields DEF VersionAt
    <3> QED
      BY <3>2
  <2> QED
    BY <2>1, <2>2, <2>3 DEF Reflects, Matches
<1> QED
  BY <1>1, <1>2

\* An empty queue leaves nothing to reflect but the row itself.
LEMMA RestReflects ==
  ASSUME IInv, NEW d \in Device, ~Pending(d), disk[d] # None
  PROVE  Reflects(d, 0) <=> FromServer(disk[d])
<1>1. DOMAIN crud[d] = {} /\ Len(crud[d]) = 0
  BY DeviceTyped
<1>2. VersionAt(d, 0) = disk[d].stamp /\ Unwritten(d, 0) = Column
  BY <1>1 DEF VersionAt, Unwritten
<1> QED
  BY <1>2 DEF Reflects, FromServer
-----------------------------------------------------------------------------
(***************************************************************************)
(* The server's side of a step.  A row moves on when it is inserted or     *)
(* gets a newer version.                                                   *)
(***************************************************************************)
Onward(old, new) == old = None \/ new = old \/ (new # None /\ old.stamp < new.stamp)

LEMMA MatchesKept ==
  ASSUME NEW old \in Rows \cup {None}, NEW new \in Rows \cup {None}, Onward(old, new),
         NEW s \in Nat, NEW content, NEW columns, Matches(old, s, content, columns)
  PROVE  Matches(new, s, content, columns)
<1>1. old # None /\ s <= old.stamp
  BY DEF Matches
<1>2. CASE new = old
  BY <1>2
<1>3. CASE new # None /\ old.stamp < new.stamp
  <2>1. old.stamp \in Nat /\ new.stamp \in Nat
    BY <1>1, <1>3, RowFields
  <2> QED
    BY <1>1, <1>3, <2>1 DEF Matches
<1> QED
  BY <1>1, <1>2, <1>3 DEF Onward

LEMMA StampRules ==
  ASSUME NEW clock \in Nat, NEW old \in Nat, NEW base \in Nat, NEW proposed \in Nat,
         NEW changed \in BOOLEAN
  PROVE  LET stamp == PatchStamp(clock, old, base, proposed, changed)
         IN /\ stamp \in Nat /\ old <= stamp /\ (changed => old < stamp)
            /\ proposed <= clock /\ Drifted(base, old) => proposed < stamp
            /\ proposed <= clock /\ base < proposed /\ ~Drifted(base, old) => stamp = proposed
<1> DEFINE drift == DriftStamp(clock, old, proposed)
           floor == FloorStamp(clock, old, proposed, changed)
<1>1. drift \in Nat /\ old < drift /\ clock < drift
  BY CapAssumption DEF DriftStamp, DriftBump, Larger, Smaller
<1>2. floor \in Nat /\ old <= floor /\ (changed => old < floor)
  BY DEF FloorStamp, Larger, Smaller
<1>3. proposed <= clock /\ old < proposed => floor = proposed
  BY DEF FloorStamp, Larger, Smaller
<1>4. ~Drifted(base, old) => base = old
  BY DEF Drifted
<1> HIDE DEF drift, floor
<1>5. PatchStamp(clock, old, base, proposed, changed)
      = IF Drifted(base, old) THEN drift ELSE floor
  BY DEF PatchStamp, drift, floor
<1> QED
  BY <1>1, <1>2, <1>3, <1>4, <1>5

\* The merged patch of a prefix of the queue of d has the base of its first
\* patch and the stamp of its last.
LEMMA MergedEnds ==
  ASSUME IInv, NEW d \in Device, Chained(d), NEW n \in Nat, n <= Len(crud[d]),
         PatchesIn(crud[d], n) # {},
         NEW patch, patch = MergePatches(crud[d], PatchesIn(crud[d], n))
  PROVE  /\ Inserts(d) < n
         /\ patch.base = crud[d][Inserts(d) + 1].base
         /\ patch.stamp = crud[d][n].stamp
<1> DEFINE patches == PatchesIn(crud[d], n)
           first == Inserts(d) + 1
<1>1. patches = first .. n /\ first \in Nat \ {0}
  BY PatchesFollow, DeviceTyped
<1>2. patches \in SUBSET (1 .. n) /\ patches # {} /\ first <= n
  BY <1>1
<1>3. patch.stamp = crud[d][Max(patches)].stamp /\ patch.base = crud[d][Min(patches)].base
  BY DEF MergePatches, Patch
<1>4. Max(patches) = n /\ Min(patches) = first
  <2>1. Max(patches) \in patches /\ \A j \in patches : j <= Max(patches)
    <3> HIDE DEF patches
    <3> QED
      BY <1>2, MaxOf
  <2>2. Min(patches) \in patches /\ \A j \in patches : Min(patches) <= j
    <3> HIDE DEF patches
    <3> QED
      BY <1>2, MinOf
  <2>3. first \in patches /\ n \in patches
    BY <1>1, <1>2
  <2> HIDE DEF patches, first
  <2> QED
    BY <1>1, <1>2, <2>1, <2>2, <2>3
<1> HIDE DEF patches
<1> QED
  BY <1>1, <1>2, <1>3, <1>4, DeviceTyped

\* In each column it has the latest value of the prefix, if there is one.
IsLatest(d, n, c, value, otherwise) ==
  \/ /\ value = otherwise
     /\ \A i \in Inserts(d) + 1 .. n : c \notin DOMAIN crud[d][i].cols
  \/ \E i \in Inserts(d) + 1 .. n :
       /\ c \in DOMAIN crud[d][i].cols
       /\ \A j \in Inserts(d) + 1 .. n : j > i => c \notin DOMAIN crud[d][j].cols
       /\ value = crud[d][i].cols[c]

LEMMA MergedColumn ==
  ASSUME IInv, NEW d \in Device, Chained(d), NEW n \in Nat, n <= Len(crud[d]),
         PatchesIn(crud[d], n) # {},
         NEW patch, patch = MergePatches(crud[d], PatchesIn(crud[d], n)),
         NEW content, NEW c \in Column
  PROVE  IsLatest(d, n, c, Overlay(patch.cols, content)[c], content[c])
<1> DEFINE patches == PatchesIn(crud[d], n)
           writers(col) == {i \in patches : col \in DOMAIN crud[d][i].cols}
           touched == {col \in Column : writers(col) # {}}
           cols == [col \in touched |-> crud[d][Max(writers(col))].cols[col]]
           last == Max(writers(c))
<1>1. patches = Inserts(d) + 1 .. n
  BY PatchesFollow
<1>2. patches \in SUBSET (1 .. n)
  BY DEF PatchesIn
<1>3. patch.cols = cols
  BY DEF MergePatches, Patch
<1>4. Overlay(patch.cols, content)[c] = IF c \in DOMAIN cols THEN cols[c] ELSE content[c]
  BY <1>3 DEF Overlay
<1>5. DOMAIN cols = touched
  OBVIOUS
<1>6. CASE writers(c) # {}
  <2>1. writers(c) \in SUBSET (1 .. n)
    BY <1>2
  <2>2. last \in writers(c) /\ \A j \in writers(c) : j <= last
    <3> HIDE DEF writers
    <3> QED
      BY <1>6, <2>1, MaxOf
  <2>3. c \in touched /\ cols[c] = crud[d][last].cols[c]
    BY <1>6
  <2>4. /\ last \in patches /\ c \in DOMAIN crud[d][last].cols
        /\ \A j \in patches : j > last => c \notin DOMAIN crud[d][j].cols
    <3>1. \A j \in patches : j \in Nat
      BY <1>2
    <3> HIDE DEF last, patches
    <3> QED
      BY <2>2, <3>1
  <2> HIDE DEF last, patches, cols, touched
  <2>5. Overlay(patch.cols, content)[c] = crud[d][last].cols[c]
    BY <1>4, <1>5, <2>3
  <2> QED
    BY <1>1, <2>4, <2>5 DEF IsLatest
<1>7. CASE writers(c) = {}
  <2>1. c \notin touched /\ \A i \in patches : c \notin DOMAIN crud[d][i].cols
    BY <1>7
  <2> HIDE DEF patches, cols, touched
  <2> QED
    BY <1>1, <1>4, <1>5, <2>1 DEF IsLatest
<1> QED
  BY <1>6, <1>7

\* What apply_block_patches makes of the row, for a batch of the first n.
LEMMA PatchedRow ==
  ASSUME IInv, IInv', NEW d \in Device, Chained(d), SendPatches(d)
  PROVE  LET n == upload[d].n
             patched == crud[d][n].stamp
             base == crud[d][Inserts(d) + 1].base
         IN /\ srv # None /\ srv' # None /\ Onward(srv, srv')
            /\ Inserts(d) < n /\ n <= Len(crud[d])
            /\ ~clamped'[d] => ~clamped[d] /\ patched <= now
            /\ patched <= now /\ Drifted(base, srv.stamp) => patched < srv'.stamp
            /\ patched <= now /\ ~Drifted(base, srv.stamp) => srv'.stamp = patched
            /\ srv'.content = Overlay(MergePatches(crud[d], PatchesIn(crud[d], n)).cols, srv.content)
<1> DEFINE n == upload[d].n
           patch == MergePatches(crud[d], BatchPatches(d))
           content == Overlay(patch.cols, srv.content)
           patched == crud[d][n].stamp
           base == crud[d][Inserts(d) + 1].base
           stamp == PatchStamp(now, srv.stamp, base, patched, content # srv.content)
<1>1. /\ BatchPatches(d) # {} /\ srv # None
      /\ srv' = Row(PatchStamp(now, srv.stamp, patch.base, patch.stamp,
                               content # srv.content), content)
      /\ NoteClamp(d, patch.stamp)
  BY DEF SendPatches
<1>2. n \in Nat /\ n <= Len(crud[d]) /\ Len(crud[d]) \in Nat /\ DOMAIN crud[d] = 1 .. Len(crud[d])
      /\ Inserts(d) \in Nat
  BY DeviceTyped
<1>3. patch.base = base /\ patch.stamp = patched /\ Inserts(d) < n
  <2>1. BatchPatches(d) = PatchesIn(crud[d], n)
    BY DEF BatchPatches
  <2>2. n \in Nat /\ n <= Len(crud[d]) /\ PatchesIn(crud[d], n) # {}
    BY <1>1, <1>2, <2>1
  <2>3. patch = MergePatches(crud[d], PatchesIn(crud[d], n))
    BY <2>1
  <2> HIDE DEF n, patch
  <2> QED
    BY <2>2, <2>3, MergedEnds
<1>4. Inserts(d) + 1 \in 1 .. Len(crud[d]) /\ n \in 1 .. Len(crud[d])
  BY <1>2, <1>3
<1>5. base \in Nat /\ patched \in Nat /\ now \in Nat
  BY <1>4, DeviceTyped
<1>6. base < patched
  <2>1. Inserts(d) + 1 \in PatchesIn(crud[d], n)
    BY <1>2, <1>3, PatchesFollow
  <2>2. crud[d][Inserts(d) + 1].kind = "patch" /\ Inserts(d) + 1 <= n
    BY <1>2, <1>3, <2>1 DEF PatchesIn
  <2> QED
    BY <1>2, <1>4, <2>2 DEF Chained
<1>7. srv.stamp \in Nat /\ srv \in Rows
  BY <1>1, DeviceTyped, RowFields
<1> HIDE DEF patch, base, patched
<1>8. srv' = Row(stamp, content)
  BY <1>1, <1>3
<1>9. /\ stamp \in Nat /\ srv.stamp <= stamp /\ (content # srv.content => srv.stamp < stamp)
      /\ patched <= now /\ Drifted(base, srv.stamp) => patched < stamp
      /\ patched <= now /\ base < patched /\ ~Drifted(base, srv.stamp) => stamp = patched
  <2>1. (content # srv.content) \in BOOLEAN
    OBVIOUS
  <2> QED
    BY <1>5, <1>7, <2>1, StampRules
<1>10. ~clamped'[d] => ~clamped[d] /\ patched <= now
  <2>1. clamped \in [Device -> BOOLEAN]
    BY DEF IInv, TypeOK
  <2>2. clamped'[d] = (clamped[d] \/ patched > now)
    BY <1>1, <1>3, <2>1, Zenon DEF NoteClamp
  <2>3. ~(patched > now) => patched <= now
    BY <1>5
  <2> QED
    BY <2>2, <2>3, Zenon
<1> HIDE DEF stamp, content
<1>11. srv'.stamp = stamp /\ srv'.content = content
  BY <1>8 DEF Row
<1>12. srv' # None
  <2>1. content \in Contents
    BY <1>1, <1>2, <1>7, MergedPatch, RowFields, DeviceTyped DEF BatchPatches, content, patch
  <2> QED
    BY <1>8, <1>9, <2>1, ContentAssumption DEF Rows, Row
<1>13. Onward(srv, srv')
  <2>1. CASE srv.stamp < stamp
    BY <2>1, <1>11, <1>12 DEF Onward
  <2>2. CASE content = srv.content /\ stamp = srv.stamp
    <3>1. srv = Row(srv.stamp, srv.content)
      BY <1>7 DEF Rows, Row
    <3> QED
      BY <2>2, <3>1, <1>8 DEF Onward
  <2> QED
    BY <1>7, <1>9, <2>1, <2>2
<1> QED
  BY <1>1, <1>2, <1>3, <1>6, <1>9, <1>10, <1>11, <1>12, <1>13 DEF content, patch, patched, base, BatchPatches

\* An insert, or a touch of the row that is there.
LEMMA CreatedRow ==
  ASSUME IInv, IInv', NEW d \in Device, SendCreates(d)
  PROVE  /\ Pending(d) /\ upload[d] = NoUpload
         /\ \E n \in 1 .. Len(crud[d]) :
              upload' = [upload EXCEPT ![d] = [n |-> n, sent |-> "creates"]]
         /\ srv # None => srv' = srv
         /\ Inserts(d) = 0 => srv' = srv /\ behind' = behind /\ clamped' = clamped
         /\ Inserts(d) = 1 =>
              /\ srv' # None /\ behind' = [e \in Device |-> TRUE]
              /\ ~clamped'[d] => ~clamped[d] /\ crud[d][1].stamp <= now
              /\ srv = None => srv' = Row(InsertStamp(now, crud[d][1].stamp), crud[d][1].cols)
<1>1. upload[d] = NoUpload /\ DOMAIN crud[d] = 1 .. Len(crud[d]) /\ Len(crud[d]) \in Nat
  BY DeviceTyped DEF SendCreates
<1>2. PICK n \in 1 .. Len(crud[d]) :
        upload' = [upload EXCEPT ![d] = [n |-> n, sent |-> "creates"]]
  BY <1>1 DEF SendCreates
<1>3. Pending(d)
  BY <1>1, <1>2, DeviceTyped
<1>4. CASE crud[d][1].kind = "put"
  <2>1. Inserts(d) = 1
    BY <1>3, <1>4 DEF Inserts
  <2>6. Inserts(d) # 0
    BY <2>1
  <2>2. /\ srv' = IF srv = None
                  THEN Row(InsertStamp(now, crud[d][1].stamp), crud[d][1].cols)
                  ELSE srv
        /\ NoteClamp(d, crud[d][1].stamp)
        /\ behind' = [e \in Device |-> TRUE]
    BY <1>4 DEF SendCreates
  <2>3. crud[d][1].stamp \in Nat /\ now \in Nat /\ crud[d][1].cols \in Contents
    BY <1>1, <1>2, <1>4, DeviceTyped DEF IInv, Whole
  <2>4. srv' # None
    <3>1. InsertStamp(now, crud[d][1].stamp) \in Nat
      BY <2>3 DEF InsertStamp, Smaller
    <3> QED
      BY <2>2, <2>3, <3>1, ContentAssumption DEF Rows, Row
  <2>5. ~clamped'[d] => ~clamped[d] /\ crud[d][1].stamp <= now
    <3>1. clamped \in [Device -> BOOLEAN]
      BY DEF IInv, TypeOK
    <3>2. clamped'[d] = (clamped[d] \/ crud[d][1].stamp > now)
      BY <2>2, <3>1, Zenon DEF NoteClamp
    <3>3. ~(crud[d][1].stamp > now) => crud[d][1].stamp <= now
      BY <2>3
    <3> QED
      BY <3>2, <3>3, Zenon
  <2> QED
    BY <1>1, <1>2, <1>3, <2>1, <2>2, <2>4, <2>5, <2>6, Zenon
<1>5. CASE crud[d][1].kind # "put"
  <2>1. Inserts(d) = 0
    BY <1>5 DEF Inserts
  <2>2. UNCHANGED <<srv, behind, clamped>>
    BY <1>5 DEF SendCreates
  <2>3. Inserts(d) # 1
    BY <2>1
  <2> QED
    BY <1>1, <1>2, <1>3, <2>2, <2>3, Zenon
<1> QED
  BY <1>4, <1>5
-----------------------------------------------------------------------------
(***************************************************************************)
(* Steps.  Everything but the clock is a step of one device.               *)
(***************************************************************************)
Writes(d) == Mint(d) \/ Create(d) \/ \E c \in Column, v \in Value : Edit(d, c, v)
Drops(d) == RefuseMissing(d) \/ Refuse(d)
Gives(d) == AttemptFails(d) \/ BatchMissesRow(d)
Reads(d) == Deliver(d) \/ ReadWindow(d) \/ WriteWindow(d) \/ ConsumeWindow(d) \/ Hydrate(d)

StepOf(d) ==
  \/ Writes(d) \/ SendCreates(d) \/ SendPatches(d) \/ Complete(d)
  \/ Gives(d) \/ Drops(d) \/ Reads(d) \/ Reload(d)

LEMMA StepsAreSomeones ==
  [Next]_vars => Tick \/ UNCHANGED vars \/ \E d \in Device : StepOf(d)
BY DEF Next, StepOf, Writes, Drops, Gives, Reads

\* Where the server's row, and which devices it is sent to, may change.
LEMMA ServerMoves ==
  ASSUME IInv, IInv', NEW d \in Device, Chained(d), StepOf(d)
  PROVE  /\ Onward(srv, srv')
         /\ srv' # srv => srv' # None /\ behind' = [e \in Device |-> TRUE]
         /\ srv = None /\ srv' # None => SendCreates(d) /\ Inserts(d) = 1
         /\ (behind' = [e \in Device |-> TRUE] /\ srv' # None)
            \/ \A e \in Device : behind'[e] = (IF e = d /\ Deliver(d) THEN FALSE ELSE behind[e])
<1>1. behind \in [Device -> BOOLEAN]
  BY DEF IInv, TypeOK
<1>2. CASE SendCreates(d)
  <2>1. Inserts(d) \in {0, 1}
    BY DeviceTyped
  <2>2. CASE Inserts(d) = 1
    <3>1. srv' # None /\ behind' = [e \in Device |-> TRUE] /\ (srv # None => srv' = srv)
      BY <1>2, <2>2, CreatedRow
    <3> QED
      BY <1>2, <2>2, <3>1 DEF Onward
  <2>3. CASE Inserts(d) = 0
    <3>1. srv' = srv /\ behind' = behind
      BY <1>2, <2>3, CreatedRow
    <3>2. ~Deliver(d) \/ behind'[d] = FALSE
      BY <1>1 DEF Deliver
    <3> QED
      BY <3>1, <3>2 DEF Onward
  <2> QED
    BY <2>1, <2>2, <2>3
<1>3. CASE SendPatches(d)
  <2>1. srv # None /\ srv' # None /\ Onward(srv, srv')
    BY <1>3, PatchedRow
  <2>2. behind' = [e \in Device |-> TRUE]
    BY <1>3 DEF SendPatches
  <2> QED
    BY <2>1, <2>2
<1>4. CASE Deliver(d)
  <2>1. srv' = srv /\ behind' = [behind EXCEPT ![d] = FALSE]
    BY <1>4 DEF Deliver
  <2> QED
    BY <1>1, <1>4, <2>1 DEF Onward
<1>5. CASE srv' = srv /\ behind' = behind
  <2>1. ~Deliver(d) \/ behind'[d] = FALSE
    BY <1>1 DEF Deliver
  <2> QED
    BY <1>5, <2>1 DEF Onward
<1>6. CASE Writes(d)
  BY <1>5, <1>6 DEF Writes, Mint, Create, Edit, Commit
<1>7. CASE Complete(d) \/ Gives(d) \/ Drops(d) \/ Reload(d)
  BY <1>5, <1>7 DEF Complete, Gives, AttemptFails, BatchMissesRow, Drops, RefuseMissing, Refuse,
                    DropHead, Reload
<1>8. CASE ReadWindow(d) \/ WriteWindow(d) \/ ConsumeWindow(d) \/ Hydrate(d)
  BY <1>5, <1>8 DEF ReadWindow, WriteWindow, ConsumeWindow, Hydrate
<1> QED
  BY <1>2, <1>3, <1>4, <1>6, <1>7, <1>8 DEF StepOf, Reads

\* The other devices, but for the server's row, stay as they are.
Same(e) ==
  /\ crud'[e] = crud[e] /\ upload'[e] = upload[e] /\ disk'[e] = disk[e] /\ cache'[e] = cache[e]
  /\ staged'[e] = staged[e] /\ fresh'[e] = fresh[e] /\ window'[e] = window[e]
  /\ drain'[e] = drain[e] /\ clamped'[e] = clamped[e] /\ refused'[e] = refused[e]

LEMMA OthersStay ==
  ASSUME IInv, NEW d \in Device, NEW e \in Device, e # d, StepOf(d)
  PROVE  Same(e)
<1>1. /\ staged \in [Device -> Rows \cup {None}] /\ disk \in [Device -> Rows \cup {None}]
      /\ cache \in [Device -> Rows \cup {None}] /\ crud \in [Device -> Seq(Ops)]
      /\ fresh \in [Device -> BOOLEAN] /\ window \in [Device -> BOOLEAN]
      /\ clamped \in [Device -> BOOLEAN] /\ refused \in [Device -> BOOLEAN]
      /\ drain \in [Device -> [phase : {"idle", "write", "consume"}, row : Rows \cup {None}]]
      /\ upload \in [Device -> [n : Nat, sent : {"nothing", "creates", "all"}]]
  BY DEF IInv, TypeOK
<1>2. CASE Writes(d)
  <2>1. ASSUME NEW row, NEW op, Commit(d, row, op) PROVE Same(e)
    BY <1>1, <2>1 DEF Commit, history, Same
  <2> QED
    BY <1>2, <2>1 DEF Writes, Mint, Create, Edit
<1>3. CASE SendCreates(d)
  BY <1>1, <1>3, Zenon DEF SendCreates, NoteClamp, Same
<1>4. CASE SendPatches(d)
  BY <1>1, <1>4, Zenon DEF SendPatches, NoteClamp, Same
<1>5. CASE Complete(d)
  BY <1>1, <1>5 DEF Complete, history, Same
<1>6. CASE Gives(d)
  BY <1>1, <1>6 DEF Gives, AttemptFails, BatchMissesRow, history, Same
<1>7. CASE Drops(d)
  <2>1. DropHead(d)
    BY <1>7 DEF Drops, RefuseMissing, Refuse
  <2> QED
    BY <1>1, <2>1 DEF DropHead, Same
<1>8. CASE Deliver(d) \/ ConsumeWindow(d) \/ Hydrate(d)
  BY <1>1, <1>8 DEF Deliver, ConsumeWindow, Hydrate, history, Same
<1>9. CASE ReadWindow(d)
  BY <1>1, <1>9 DEF ReadWindow, history, Same
<1>10. CASE WriteWindow(d)
  BY <1>1, <1>10 DEF WriteWindow, history, Same
<1>11. CASE Reload(d)
  BY <1>1, <1>11, Zenon DEF Reload, history, Same
<1> QED
  BY <1>2, <1>3, <1>4, <1>5, <1>6, <1>7, <1>8, <1>9, <1>10, <1>11 DEF StepOf, Reads

\* A device commits nothing twice: the first row of a block is made where
\* there is none.
LEMMA MintersStay ==
  ASSUME IInv, NEW d \in Device, StepOf(d)
  PROVE  left'.minters = left.minters
<1>1. left \in Bounds
  BY DEF IInv, TypeOK
<1>2. ASSUME NEW kind \in {"edits", "faults", "rejects", "rescans"}, Happens(kind)
      PROVE  left'.minters = left.minters
  BY <1>1, <1>2 DEF Happens, Bounds
<1>3. CASE left' = left
  BY <1>3
<1>4. CASE Writes(d)
  BY <1>2, <1>4 DEF Writes, Mint, Create, Edit
<1>5. CASE SendCreates(d) \/ SendPatches(d) \/ Complete(d) \/ BatchMissesRow(d) \/ RefuseMissing(d)
  BY <1>3, <1>5 DEF SendCreates, SendPatches, Complete, BatchMissesRow, RefuseMissing
<1>6. CASE AttemptFails(d) \/ Refuse(d) \/ Reload(d)
  BY <1>2, <1>6 DEF AttemptFails, Refuse, Reload
<1>7. CASE Deliver(d) \/ WriteWindow(d) \/ ConsumeWindow(d) \/ Hydrate(d)
  BY <1>3, <1>7 DEF Deliver, WriteWindow, ConsumeWindow, Hydrate
<1>8. CASE ReadWindow(d)
  BY <1>2, <1>8 DEF ReadWindow
<1> QED
  BY <1>4, <1>5, <1>6, <1>7, <1>8 DEF StepOf, Gives, Drops, Reads
-----------------------------------------------------------------------------
(***************************************************************************)
(* What the step of one device leaves true of another.                     *)
(***************************************************************************)
LEMMA FromServerKept ==
  ASSUME IInv, IInv', Onward(srv, srv'), NEW row \in Rows, FromServer(row)
  PROVE  Matches(srv', row.stamp, row.content, Column)
<1>1. srv \in Rows \cup {None} /\ srv' \in Rows \cup {None}
  BY DEF IInv, TypeOK
<1>2. row.stamp \in Nat
  BY RowFields
<1> QED
  BY <1>1, <1>2, MatchesKept DEF FromServer

LEMMA OtherReceives ==
  ASSUME IInv, IInv', NEW d \in Device, NEW e \in Device, e # d,
         Chained(d), DeviceInv(e), StepOf(d)
  PROVE  Announced(e)' /\ Arrived(e)' /\ Drained(e)' /\ Cached(e)'
<1>1. Same(e)
  BY OthersStay
<1>2. /\ Onward(srv, srv')
      /\ srv' # srv => srv' # None /\ behind'[e] = TRUE
      /\ (behind'[e] = TRUE /\ srv' # None) \/ behind'[e] = behind[e]
  <2>1. /\ Onward(srv, srv')
        /\ srv' # srv => srv' # None /\ behind' = [f \in Device |-> TRUE]
        /\ (behind' = [f \in Device |-> TRUE] /\ srv' # None)
           \/ \A f \in Device : behind'[f] = (IF f = d /\ Deliver(d) THEN FALSE ELSE behind[f])
    BY ServerMoves
  <2> QED
    BY <2>1
<1>3. behind[e] \in BOOLEAN /\ behind'[e] \in BOOLEAN
  BY DEF IInv, TypeOK
<1>4. Announced(e)'
  <2>1. Announced(e)
    BY DEF DeviceInv
  <2> QED
    BY <1>1, <1>2, <2>1 DEF Announced, Same, Inserts, Pending
<1>5. \A row \in Rows : FromServer(row) => Matches(srv', row.stamp, row.content, Column)
  BY <1>2, FromServerKept
<1>6. Arrived(e)'
  <2>1. Arrived(e)
    BY DEF DeviceInv
  <2>2. behind'[e] => srv' # None
    BY <1>2, <2>1 DEF Arrived
  <2>3. ~behind'[e] => staged'[e] = srv'
    BY <1>1, <1>2, <2>1 DEF Arrived, Same
  <2>4. staged[e] # None => Matches(srv', staged[e].stamp, staged[e].content, Column)
    BY <1>5, <2>1, DeviceTyped DEF Arrived
  <2>5. drain[e].phase = "write" =>
          drain[e].row # None /\ Matches(srv', drain[e].row.stamp, drain[e].row.content, Column)
    BY <1>5, <2>1, DeviceTyped DEF Arrived
  <2> QED
    BY <1>1, <2>1, <2>2, <2>3, <2>4, <2>5 DEF Arrived, Same, FromServer
<1>7. Drained(e)'
  <2>1. Drained(e)
    BY DEF DeviceInv
  <2> QED
    BY <1>1, <1>2, <1>3, <2>1 DEF Drained, Same, Good, Pending
<1>8. Cached(e)'
  <2>1. Cached(e)
    BY DEF DeviceInv
  <2>2. Good(e) /\ ~Pending(e) /\ cache[e] # None =>
          Matches(srv', cache[e].stamp, cache[e].content, Column)
    BY <1>5, <2>1, DeviceTyped DEF Cached
  <2> QED
    BY <1>1, <2>1, <2>2 DEF Cached, Same, Good, Pending, FromServer
<1> QED
  BY <1>4, <1>6, <1>7, <1>8

LEMMA VersionTyped ==
  ASSUME IInv, NEW d \in Device, disk[d] # None, NEW m \in Nat
  PROVE  VersionAt(d, m) \in Nat
<1>1. m < Len(crud[d]) => m + 1 \in 1 .. Len(crud[d])
  BY DeviceTyped
<1>2. disk[d].stamp \in Nat
  BY DeviceTyped, RowFields
<1> QED
  BY <1>1, <1>2, DeviceTyped DEF VersionAt

LEMMA ReachedTyped ==
  ASSUME IInv, NEW d \in Device, Chained(d)
  PROVE  Reached(d) \in Nat /\ Inserts(d) <= Reached(d) /\ Reached(d) <= Len(crud[d])
<1>1. CASE upload[d].sent = "all"
  <2>1. BatchPatches(d) # {} /\ upload[d].n \in Nat /\ upload[d].n <= Len(crud[d])
        /\ Inserts(d) \in Nat
    BY <1>1, DeviceTyped DEF Chained
  <2>2. BatchPatches(d) = Inserts(d) + 1 .. upload[d].n
    BY <2>1, PatchesFollow DEF BatchPatches
  <2> QED
    BY <1>1, <2>1, <2>2 DEF Reached
<1>2. CASE upload[d].sent # "all"
  BY <1>2, DeviceTyped DEF Reached
<1> QED
  BY <1>1, <1>2

\* No step of another device makes a queue's belief wrong: the only one that
\* gives the server its first row leaves an insert that says nothing of it.
LEMMA OtherAcknowledged ==
  ASSUME IInv, IInv', NEW d \in Device, NEW e \in Device, e # d,
         Chained(d), DeviceInv(e), StepOf(d)
  PROVE  Acknowledged(e)'
<1>1. Same(e) /\ Onward(srv, srv') /\ (srv = None /\ srv' # None => SendCreates(d))
      /\ (srv' # srv => srv' # None)
  BY OthersStay, ServerMoves
<1>2. /\ Acknowledged(e) /\ Chained(e) /\ Sole(e)
  BY DEF DeviceInv
<1>3. /\ VersionAt(e, Reached(e))' = VersionAt(e, Reached(e))
      /\ Unwritten(e, Reached(e))' = Unwritten(e, Reached(e))
      /\ Inserts(e)' = Inserts(e) /\ Good(e)' = Good(e)
  BY <1>1 DEF Same, VersionAt, Reached, Inserts, Pending, Unwritten, Good
<1> DEFINE s == VersionAt(e, Reached(e))
           columns == Unwritten(e, Reached(e))
<1> SUFFICES ASSUME Good(e), disk[e] # None
             PROVE  /\ Inserts(e) = 0 \/ upload[e].sent # "nothing" => srv' # None
                    /\ srv' # None => Matches(srv', s, disk[e].content, columns)
  <2>1. Acknowledged(e)' <=>
          (Good(e)' /\ disk'[e] # None =>
             /\ Inserts(e)' = 0 \/ upload'[e].sent # "nothing" => srv' # None
             /\ srv' # None => Matches(srv', VersionAt(e, Reached(e))', disk'[e].content,
                                       Unwritten(e, Reached(e))'))
    BY DEF Acknowledged, Reflects
  <2> QED
    BY <1>1, <1>3, <2>1 DEF Same
<1>4. Inserts(e) = 0 \/ upload[e].sent # "nothing" => srv # None
  BY <1>2 DEF Acknowledged
<1>5. srv # None => srv' # None
  BY <1>1
<1>6. CASE srv # None
  <2>1. Matches(srv, s, disk[e].content, columns)
    BY <1>2, <1>6 DEF Acknowledged, Reflects
  <2>2. s \in Nat
    BY <1>2, ReachedTyped, VersionTyped
  <2>3. srv \in Rows \cup {None} /\ srv' \in Rows \cup {None}
    BY DEF IInv, TypeOK
  <2> HIDE DEF s, columns
  <2>4. Matches(srv', s, disk[e].content, columns)
    BY <1>1, <2>1, <2>2, <2>3, MatchesKept
  <2> QED
    BY <1>5, <1>6, <2>4
<1>7. CASE srv = None /\ srv' # None
  <2>1. Inserts(e) = 1 /\ upload[e].sent = "nothing"
    BY <1>4, <1>7, DeviceTyped
  <2>2. Pending(d)
    BY <1>1, <1>7, CreatedRow
  <2>3. crud[e][1].stamp = Pristine
    BY <1>2, <1>7, <2>1, <2>2 DEF Sole, Pending
  <2>4. Reached(e) = 1 /\ 1 \in 1 .. Len(crud[e])
    BY <2>1, DeviceTyped DEF Reached
  <2>5. s = 0
    BY <1>2, <2>3, <2>4, VersionIsStamp DEF Pristine
  <2>6. srv'.stamp \in Nat
    <3>1. srv' \in Rows \cup {None}
      BY DEF IInv, TypeOK
    <3> QED
      BY <1>7, <3>1, RowFields
  <2> QED
    BY <1>7, <2>5, <2>6 DEF Matches, Pristine
<1>8. CASE srv' = None
  BY <1>4, <1>5, <1>8
<1> QED
  BY <1>6, <1>7, <1>8

\* While a row made under a random id is not on the server, no other device
\* has anything to do with the block.
LEMMA OtherIsSole ==
  ASSUME IInv, IInv', SyncInv, NEW d \in Device, NEW e \in Device, e # d, StepOf(d)
  PROVE  Sole(e)'
<1>1. Same(e) /\ left'.minters = left.minters
  BY OthersStay, MintersStay
<1>2. Inserts(e)' = Inserts(e)
  BY <1>1 DEF Same, Inserts, Pending
<1> SUFFICES ASSUME Inserts(e) = 1, crud[e][1].stamp # Pristine
             PROVE  /\ left.minters = {}
                    /\ srv' = None => \A f \in Device : f # e => crud'[f] = <<>> /\ disk'[f] = None
  BY <1>1, <1>2 DEF Sole, Same
<1>3. /\ left.minters = {}
      /\ srv = None => \A f \in Device : f # e => crud[f] = <<>> /\ disk[f] = None
  BY DEF SyncInv, DeviceInv, Sole
<1> SUFFICES ASSUME srv' = None
             PROVE  \A f \in Device : f # e => crud'[f] = <<>> /\ disk'[f] = None
  BY <1>3
<1>4. srv = None
  BY ServerMoves DEF SyncInv, DeviceInv
<1>5. crud[d] = <<>> /\ disk[d] = None
  BY <1>3, <1>4
<1>6. crud[e] # <<>>
  BY DEF Inserts, Pending
<1>7. crud \in [Device -> Seq(Ops)] /\ disk \in [Device -> Rows \cup {None}]
  BY DEF IInv, TypeOK
<1>8. crud'[d] = <<>> /\ disk'[d] = None
  <2>1. ~Writes(d)
    BY <1>3, <1>5, <1>6 DEF Writes, Mint, Create, Edit
  <2>2. ~SendCreates(d) /\ ~SendPatches(d) /\ ~Drops(d)
    BY <1>4, <1>5, CreatedRow DEF Pending, SendPatches, Drops, RefuseMissing, Refuse
  <2>3. ~WriteWindow(d)
    BY <1>4 DEF WriteWindow, SyncInv, DeviceInv, Arrived, FromServer, Matches
  <2>4. CASE Complete(d)
    <3>1. upload[d].n = 0 /\ upload[d].sent = "nothing"
      <4>1. upload[d].n = 0
        BY <1>5, DeviceTyped
      <4>2. Chained(d)
        BY DEF SyncInv, DeviceInv
      <4> QED
        BY <4>1, <4>2 DEF Chained, NoUpload
    <3> QED
      BY <2>4, <3>1 DEF Complete
  <2>5. CASE Gives(d) \/ Reload(d) \/ Deliver(d) \/ ReadWindow(d) \/ ConsumeWindow(d) \/ Hydrate(d)
    BY <1>5, <2>5 DEF Gives, AttemptFails, BatchMissesRow, Reload, Deliver, ReadWindow,
                      ConsumeWindow, Hydrate
  <2> QED
    BY <2>1, <2>2, <2>3, <2>4, <2>5 DEF StepOf, Reads
<1>9. ASSUME NEW f \in Device, f # e, f # d PROVE crud'[f] = <<>> /\ disk'[f] = None
  <2>1. Same(f)
    BY <1>9, OthersStay
  <2> QED
    BY <1>3, <1>4, <1>9, <2>1 DEF Same
<1> QED
  BY <1>8, <1>9

LEMMA OthersKeep ==
  ASSUME IInv, IInv', SyncInv, NEW d \in Device, NEW e \in Device, e # d, StepOf(d)
  PROVE  DeviceInv(e)'
<1>1. DeviceInv(e) /\ DeviceInv(d) /\ Chained(d)
  BY DEF SyncInv, DeviceInv
<1>2. Chained(e)'
  <2>1. Same(e)
    BY OthersStay
  <2> QED
    BY <1>1, <2>1 DEF DeviceInv, Chained, Same, BatchPatches
<1>3. Announced(e)' /\ Arrived(e)' /\ Drained(e)' /\ Cached(e)'
  BY <1>1, OtherReceives
<1>4. Acknowledged(e)' /\ Sole(e)'
  BY <1>1, OtherAcknowledged, OtherIsSole
<1> QED
  BY <1>2, <1>3, <1>4 DEF DeviceInv
-----------------------------------------------------------------------------
(***************************************************************************)
(* What a step leaves true of its own device.  A local write: the insert   *)
(* of a block that is not there.                                           *)
(***************************************************************************)
LEMMA InsertKeeps ==
  ASSUME IInv, IInv', NEW d \in Device, DeviceInv(d),
         NEW row \in Rows, Commit(d, row, Put(row)), disk[d] = None,
         left' = left, row.stamp # Pristine =>
           left.minters = {} /\ srv = None /\ \A e \in Device : crud[e] = <<>> /\ disk[e] = None
  PROVE  DeviceInv(d)'
<1>1. /\ disk' = [disk EXCEPT ![d] = row] /\ cache' = [cache EXCEPT ![d] = row]
      /\ crud' = [crud EXCEPT ![d] = Append(@, Put(row))]
      /\ UNCHANGED <<srv, behind, staged, fresh, window, drain, upload, clamped, refused>>
  BY DEF Commit, history
<1>2. disk \in [Device -> Rows \cup {None}] /\ cache \in [Device -> Rows \cup {None}]
      /\ crud \in [Device -> Seq(Ops)]
  BY DEF IInv, TypeOK
<1>3. crud[d] = <<>> /\ Len(crud[d]) = 0
  <2>1. ASSUME Len(crud[d]) > 0 PROVE FALSE
    <3>1. 1 \in DOMAIN crud[d]
      BY <2>1, DeviceTyped
    <3> QED
      BY <3>1 DEF IInv, PendingWritesOnDisk
  <2> QED
    BY <2>1, DeviceTyped DEF Pending
<1>4. /\ crud'[d] = <<Put(row)>> /\ disk'[d] = row /\ cache'[d] = row /\ row # None
      /\ \A e \in Device : e # d => crud'[e] = crud[e] /\ disk'[e] = disk[e]
  BY <1>1, <1>2, <1>3, RowFields
<1>5. /\ DOMAIN crud'[d] = {1} /\ Len(crud'[d]) = 1 /\ crud'[d][1] = Put(row)
      /\ Put(row).kind = "put" /\ Put(row).stamp = row.stamp
  BY <1>4 DEF Put
<1>6. upload'[d] = NoUpload /\ upload'[d].sent = "nothing"
  <2>1. Chained(d)
    BY DEF DeviceInv
  <2>2. upload[d].n = 0
    BY <1>3, DeviceTyped
  <2> QED
    BY <1>1, <2>1, <2>2 DEF Chained, NoUpload
<1>7. Pending(d)' /\ Inserts(d)' = 1
  BY <1>4, <1>5 DEF Pending, Inserts
<1>8. Chained(d)'
  BY <1>5, <1>6 DEF Chained
<1>9. Sole(d)'
  BY <1>1, <1>4, <1>5 DEF Sole
<1>10. Acknowledged(d)'
  <2> SUFFICES ASSUME srv # None PROVE Reflects(d, Reached(d))'
    BY <1>1, <1>6, <1>7 DEF Acknowledged
  <2>1. row.stamp = 0
    BY DEF Pristine
  <2>2. Reached(d)' = 1
    BY <1>6, <1>7 DEF Reached
  <2>3. VersionAt(d, Reached(d))' = 0
    BY <1>4, <1>5, <2>1, <2>2 DEF VersionAt
  <2>4. srv.stamp \in Nat
    BY DeviceTyped, RowFields
  <2> QED
    BY <1>1, <2>3, <2>4 DEF Reflects, Matches, Pristine
<1>11. Announced(d)'
  BY <1>6 DEF Announced
<1>12. Arrived(d)'
  BY <1>1 DEF DeviceInv, Arrived, FromServer
<1>13. Drained(d)'
  BY <1>1, <1>7 DEF DeviceInv, Drained
<1>14. Cached(d)'
  <2>1. row.stamp \in Nat
    BY RowFields
  <2> QED
    BY <1>4, <1>7, <2>1 DEF Cached
<1> QED
  BY <1>8, <1>9, <1>10, <1>11, <1>12, <1>13, <1>14 DEF DeviceInv

LEMMA MintKeepsOwn ==
  ASSUME IInv, IInv', NEW d \in Device, DeviceInv(d), Mint(d) \/ Create(d)
  PROVE  DeviceInv(d)'
<1>1. CASE Mint(d)
  <2> DEFINE row == Row(MintStamp(Clock(d), TRUE), Uniform(Template[d]))
  <2>1. row \in Rows /\ row.stamp = Pristine
    BY ContentAssumption DEF Rows, Row, Contents, Uniform, MintStamp, Pristine
  <2>2. disk[d] = None /\ Commit(d, row, Put(row)) /\ left' = left
    BY <1>1 DEF Mint
  <2> HIDE DEF row
  <2> QED
    BY <2>1, <2>2, InsertKeeps
<1>2. CASE Create(d)
  <2> DEFINE row == Row(MintStamp(Clock(d), FALSE), Uniform(Blank))
  <2>1. row \in Rows
    <3>1. Clock(d) \in Nat
      BY ClockIsNat DEF IInv, TypeOK
    <3> QED
      BY <3>1, ContentAssumption DEF Rows, Row, Contents, Uniform, MintStamp
  <2>2. /\ Commit(d, row, Put(row)) /\ left' = left /\ left.minters = {} /\ srv = None
        /\ \A e \in Device : crud[e] = <<>> /\ disk[e] = None
    BY <1>2 DEF Create
  <2> HIDE DEF row
  <2> QED
    BY <2>1, <2>2, InsertKeeps
<1> QED
  BY <1>1, <1>2

\* An edit: a patch against the row on disk, with a newer version.
LEMMA EditKeepsOwn ==
  ASSUME IInv, IInv', NEW d \in Device, DeviceInv(d),
         NEW c \in Column, NEW v \in Value, Edit(d, c, v)
  PROVE  DeviceInv(d)'
<1> DEFINE stamp == LocalStamp(Clock(d), disk[d].stamp)
           row == Row(stamp, [disk[d].content EXCEPT ![c] = v])
           op == Patch([col \in {c} |-> v], stamp, disk[d].stamp)
           m == Len(crud[d])
<1>1. /\ disk[d] # None
      /\ disk' = [disk EXCEPT ![d] = row] /\ cache' = [cache EXCEPT ![d] = row]
      /\ crud' = [crud EXCEPT ![d] = Append(@, op)]
      /\ UNCHANGED <<srv, behind, staged, fresh, window, drain, upload, clamped, refused>>
  BY DEF Edit, Commit, history
<1>2. /\ disk[d].stamp \in Nat /\ disk[d].content \in [Column -> Value]
      /\ disk[d].stamp < stamp /\ stamp \in Nat
  <2>1. disk[d].stamp \in Nat /\ disk[d].content \in Contents
    BY <1>1, DeviceTyped, RowFields
  <2>2. Clock(d) \in Nat
    BY ClockIsNat, DeviceTyped
  <2> QED
    BY <2>1, <2>2 DEF LocalStamp, Larger, Contents
<1> HIDE DEF stamp
<1>3. /\ row.stamp = stamp /\ op.stamp = stamp /\ op.base = disk[d].stamp /\ op.kind = "patch"
      /\ DOMAIN op.cols = {c}
      /\ \A col \in Column \ {c} : row.content[col] = disk[d].content[col]
  BY <1>2 DEF Row, Patch
<1> HIDE DEF row, op
<1>4. crud \in [Device -> Seq(Ops)] /\ disk \in [Device -> Rows \cup {None}]
      /\ cache \in [Device -> Rows \cup {None}]
  BY DEF IInv, TypeOK
<1>5. /\ crud'[d] = Append(crud[d], op) /\ disk'[d] = row /\ cache'[d] = row
      /\ \A e \in Device : e # d => crud'[e] = crud[e] /\ disk'[e] = disk[e]
  BY <1>1, <1>4
<1>6. row # None
  <2>1. crud'[d] # <<>>
    BY <1>4, <1>5
  <2>2. Len(crud'[d]) \in DOMAIN crud'[d]
    BY <1>4, <1>5
  <2> QED
    BY <1>5, <2>2 DEF IInv, PendingWritesOnDisk
<1>7. /\ m \in Nat /\ DOMAIN crud[d] = 1 .. m /\ DOMAIN crud'[d] = 1 .. m + 1
      /\ Len(crud'[d]) = m + 1 /\ crud'[d][m + 1] = op
      /\ \A i \in 1 .. m : crud'[d][i] = crud[d][i]
      /\ \A i \in 1 .. m : crud[d][i].base \in Nat /\ crud[d][i].stamp \in Nat
  <2>1. crud[d] \in Seq(Ops)
    BY <1>4
  <2> QED
    BY <1>5, <2>1, AppendProperties, DeviceTyped
<1> HIDE DEF m
<1>8. m > 0 => crud[d][m].stamp = disk[d].stamp
  BY <1>7 DEF IInv, PendingWritesOnDisk, m
<1>9. Chained(d) /\ Sole(d) /\ Acknowledged(d) /\ Announced(d) /\ Arrived(d) /\ Drained(d)
  BY DEF DeviceInv
<1>10. Pending(d)' /\ Inserts(d)' = Inserts(d)
  <2>1. Pending(d)' /\ (Pending(d) <=> m > 0)
    <3>1. crud'[d] # <<>>
      BY <1>4, <1>5
    <3> QED
      BY <3>1, DeviceTyped DEF Pending, m
  <2>2. m > 0 => crud'[d][1] = crud[d][1]
    BY <1>7
  <2>3. ~(m > 0) => crud'[d][1].kind # "put"
    BY <1>3, <1>7
  <2> QED
    BY <2>1, <2>2, <2>3 DEF Inserts
<1>11. upload[d].n \in Nat /\ upload[d].n <= m
  BY DeviceTyped DEF m
<1>12. Chained(d)'
  <2>1. ASSUME NEW i \in 1 .. m + 1
        PROVE  /\ crud'[d][i].kind = "put" => i = 1
               /\ i > 1 => crud'[d][i].base = crud'[d][i - 1].stamp
    <3>1. CASE i \in 1 .. m
      <4>1. i > 1 => i - 1 \in 1 .. m
        BY <1>7, <3>1
      <4>2. /\ crud[d][i].kind = "put" => i = 1
            /\ i > 1 => crud[d][i].base = crud[d][i - 1].stamp
        BY <1>7, <1>9, <3>1 DEF Chained
      <4> QED
        BY <1>7, <3>1, <4>1, <4>2
    <3>2. CASE i = m + 1
      <4>1. i > 1 => m > 0 /\ i - 1 = m /\ m \in 1 .. m
        BY <1>7, <3>2
      <4> QED
        BY <1>3, <1>7, <1>8, <3>2, <4>1
    <3> QED
      BY <1>7, <3>1, <3>2
  <2>2. ASSUME NEW i \in 1 .. m + 1, NEW j \in 1 .. m + 1, crud'[d][i].kind = "patch", i <= j
        PROVE  crud'[d][i].base < crud'[d][j].stamp
    <3>1. CASE j \in 1 .. m
      <4>1. i \in 1 .. m
        BY <1>7, <2>2, <3>1
      <4> QED
        BY <1>7, <1>9, <2>2, <3>1, <4>1 DEF Chained
    <3>2. CASE j = m + 1 /\ i \in 1 .. m
      <4>1. m \in 1 .. m /\ i <= m /\ m > 0
        BY <1>7, <3>2
      <4>2. crud[d][i].base < crud[d][m].stamp
        BY <1>7, <1>9, <2>2, <3>2, <4>1 DEF Chained
      <4>3. crud[d][i].base < stamp
        BY <1>2, <1>7, <1>8, <3>2, <4>1, <4>2
      <4> QED
        BY <1>3, <1>7, <3>2, <4>3
    <3>3. CASE j = m + 1 /\ i = m + 1
      BY <1>2, <1>3, <1>7, <3>3
    <3> QED
      BY <1>7, <3>1, <3>2, <3>3
  <2>3. BatchPatches(d)' = BatchPatches(d)
    <3>1. \A i \in 1 .. upload[d].n : i \in 1 .. m
      BY <1>7, <1>11
    <3>2. \A i \in 1 .. upload[d].n : crud'[d][i] = crud[d][i]
      BY <1>7, <3>1
    <3> QED
      BY <1>1, <3>2 DEF BatchPatches, PatchesIn
  <2> QED
    BY <1>1, <1>7, <1>9, <2>1, <2>2, <2>3 DEF Chained
<1>13. Sole(d)'
  <2>1. left'.minters = left.minters
    <3>1. StepOf(d)
      BY DEF StepOf, Writes
    <3> QED
      BY <3>1, MintersStay
  <2>2. Inserts(d) = 1 => crud'[d][1] = crud[d][1]
    <3>1. Inserts(d) = 1 => 1 \in 1 .. m
      BY <1>7, DeviceTyped DEF m
    <3> QED
      BY <1>7, <3>1
  <2> QED
    BY <1>1, <1>5, <1>9, <1>10, <2>1, <2>2 DEF Sole
<1>14. Acknowledged(d)'
  <2> DEFINE k == Reached(d)
  <2>1. k \in Nat /\ k <= m /\ Reached(d)' = k
    BY <1>1, <1>9, <1>10, ReachedTyped DEF Reached, m
  <2>2. VersionAt(d, k)' = VersionAt(d, k)
    <3>1. k < m => k + 1 \in 1 .. m
      BY <1>7, <2>1
    <3>2. k < m + 1 /\ (k < m \/ k = m)
      BY <1>7, <2>1
    <3>3. Reached(d)' = Reached(d)
      BY <2>1
    <3>4. VersionAt(d, k)' = crud'[d][k + 1].base
      BY <1>7, <2>1, <3>2, <3>3 DEF VersionAt
    <3>5. VersionAt(d, k) = IF k < m THEN crud[d][k + 1].base ELSE disk[d].stamp
      BY DEF VersionAt, m
    <3> HIDE DEF k
    <3> QED
      BY <1>3, <1>7, <3>1, <3>2, <3>4, <3>5
  <2>3. \A col \in Unwritten(d, k)' : col \in Unwritten(d, k) /\ row.content[col] = disk[d].content[col]
    <3>1. m + 1 \in DOMAIN crud'[d] /\ m + 1 > k
      BY <1>7, <2>1
    <3>2. Unwritten(d, k)' =
            {col \in Column : \A i \in DOMAIN crud'[d] : i > k => col \notin DOMAIN crud'[d][i].cols}
      BY <2>1 DEF Unwritten
    <3>3. \A i \in DOMAIN crud[d] : i \in DOMAIN crud'[d] /\ crud'[d][i] = crud[d][i]
      BY <1>7
    <3> HIDE DEF k
    <3> QED
      BY <1>3, <1>7, <3>1, <3>2, <3>3 DEF Unwritten
  <2>4. Good(d)' = Good(d)
    BY <1>1 DEF Good
  <2>5. Good(d) => /\ Inserts(d) = 0 \/ upload[d].sent # "nothing" => srv # None
                   /\ srv # None => Matches(srv, VersionAt(d, k), disk[d].content, Unwritten(d, k))
    BY <1>1, <1>9 DEF Acknowledged, Reflects
  <2>6. Good(d) /\ srv # None => Matches(srv, VersionAt(d, k), row.content, Unwritten(d, k)')
    <3> HIDE DEF k
    <3> QED
      BY <2>3, <2>5 DEF Matches
  <2>7. Good(d) /\ srv # None => Reflects(d, Reached(d))'
    BY <1>1, <1>5, <2>1, <2>2, <2>6 DEF Reflects
  <2> QED
    BY <1>1, <1>10, <2>4, <2>5, <2>7 DEF Acknowledged
<1>15. Announced(d)'
  BY <1>1, <1>9, <1>10 DEF Announced
<1>16. Arrived(d)' /\ Drained(d)'
  BY <1>1, <1>9, <1>10 DEF Arrived, Drained, FromServer
<1>17. Cached(d)'
  BY <1>2, <1>3, <1>5, <1>6, <1>10 DEF Cached
<1> QED
  BY <1>12, <1>13, <1>14, <1>15, <1>16, <1>17 DEF DeviceInv
-----------------------------------------------------------------------------
(***************************************************************************)
(* Uploads.  What a device holds below its queue, when a step writes none  *)
(* of it and something stays queued.                                       *)
(***************************************************************************)
LEMMA SentAlong ==
  ASSUME IInv, IInv', NEW d \in Device, DeviceInv(d), SendCreates(d) \/ SendPatches(d)
  PROVE  /\ Arrived(d)' /\ Drained(d)' /\ Cached(d)' /\ Sole(d)'
         /\ Pending(d) /\ crud' = crud /\ disk' = disk /\ upload'[d] # NoUpload
<1>1. Chained(d) /\ Arrived(d) /\ Drained(d) /\ Cached(d) /\ Sole(d)
  BY DEF DeviceInv
<1>2. StepOf(d)
  BY DEF StepOf
<1>3. /\ Onward(srv, srv')
      /\ srv' # srv => srv' # None /\ behind' = [e \in Device |-> TRUE]
      /\ (behind' = [e \in Device |-> TRUE] /\ srv' # None)
         \/ \A e \in Device : behind'[e] = (IF e = d /\ Deliver(d) THEN FALSE ELSE behind[e])
  BY <1>1, <1>2, ServerMoves
<1>4. /\ crud' = crud /\ disk' = disk
      /\ UNCHANGED <<staged, fresh, window, drain, cache, left>>
  BY DEF SendCreates, SendPatches
<1>5. Pending(d) /\ upload'[d] # NoUpload
  <2>1. upload \in [Device -> [n : Nat, sent : {"nothing", "creates", "all"}]]
    BY DEF IInv, TypeOK
  <2>2. CASE SendCreates(d)
    <3>1. Pending(d)
      BY <2>2, CreatedRow
    <3>2. PICK n \in 1 .. Len(crud[d]) : upload' = [upload EXCEPT ![d] = [n |-> n, sent |-> "creates"]]
      BY <2>2, CreatedRow
    <3>3. upload'[d].sent = "creates"
      BY <2>1, <3>2
    <3> QED
      BY <3>1, <3>3 DEF NoUpload
  <2>3. CASE SendPatches(d)
    <3>1. upload[d].n <= Len(crud[d]) /\ Inserts(d) < upload[d].n
      BY <1>1, <2>3, PatchedRow
    <3>2. Pending(d)
      BY <3>1, DeviceTyped
    <3>3. upload'[d].sent = "all"
      BY <2>1, <2>3 DEF SendPatches
    <3> QED
      BY <3>2, <3>3 DEF NoUpload
  <2> QED
    BY <2>2, <2>3
<1>6. Pending(d)'
  BY <1>4, <1>5 DEF Pending
<1>7. /\ srv' # srv => srv' # None /\ behind'[d] = TRUE
      /\ (behind'[d] = TRUE /\ srv' # None) \/ behind'[d] = behind[d]
  <2>1. ~Deliver(d)
    BY <1>5 DEF Deliver, Pending
  <2> QED
    BY <1>3, <2>1
<1>8. Arrived(d)'
  <2>1. staged[d] # None => Matches(srv', staged[d].stamp, staged[d].content, Column)
    BY <1>1, <1>3, FromServerKept, DeviceTyped DEF Arrived
  <2>2. drain[d].phase = "write" =>
          drain[d].row # None /\ Matches(srv', drain[d].row.stamp, drain[d].row.content, Column)
    BY <1>1, <1>3, FromServerKept, DeviceTyped DEF Arrived
  <2> QED
    BY <1>1, <1>4, <1>7, <2>1, <2>2 DEF Arrived, FromServer
<1>9. Drained(d)' /\ Cached(d)'
  BY <1>1, <1>4, <1>5, <1>6 DEF Drained, Cached
<1>10. Sole(d)'
  <2>1. Inserts(d)' = Inserts(d) /\ left'.minters = left.minters
    BY <1>4 DEF Inserts, Pending
  <2>2. srv' = None => srv = None
    BY <1>3 DEF Onward
  <2> QED
    BY <1>1, <1>4, <2>1, <2>2 DEF Sole
<1> QED
  BY <1>4, <1>5, <1>8, <1>9, <1>10

LEMMA SendCreatesKeepsOwn ==
  ASSUME IInv, IInv', NEW d \in Device, DeviceInv(d), SendCreates(d)
  PROVE  DeviceInv(d)'
<1>1. Chained(d) /\ Acknowledged(d)
  BY DEF DeviceInv
<1>2. /\ Arrived(d)' /\ Drained(d)' /\ Cached(d)' /\ Sole(d)'
      /\ Pending(d) /\ crud' = crud /\ disk' = disk
  BY SentAlong
<1>3. PICK n \in 1 .. Len(crud[d]) : upload' = [upload EXCEPT ![d] = [n |-> n, sent |-> "creates"]]
  BY CreatedRow
<1>4. upload'[d].sent = "creates" /\ upload'[d].n = n /\ n > 0 /\ upload[d] = NoUpload
  <2>1. upload \in [Device -> [n : Nat, sent : {"nothing", "creates", "all"}]]
    BY DEF IInv, TypeOK
  <2> QED
    BY <1>3, <2>1, CreatedRow
<1>5. Chained(d)'
  BY <1>1, <1>2, <1>4 DEF Chained
<1>6. Inserts(d)' = Inserts(d) /\ Reached(d)' = Inserts(d) /\ Reached(d) = Inserts(d)
  BY <1>2, <1>4 DEF Inserts, Pending, Reached, NoUpload
<1>7. refused' = refused
  BY DEF SendCreates
<1>8. CASE Inserts(d) = 0
  <2>1. srv' = srv /\ behind' = behind /\ clamped' = clamped
    BY <1>8, CreatedRow
  <2>2. Announced(d)'
    BY <1>4, <1>6, <1>8 DEF Announced
  <2>3. Acknowledged(d)'
    BY <1>1, <1>2, <1>6, <1>7, <1>8, <2>1
       DEF Acknowledged, Good, Reflects, VersionAt, Unwritten
  <2> QED
    BY <1>2, <1>5, <2>2, <2>3 DEF DeviceInv
<1>9. CASE Inserts(d) = 1
  <2>1. /\ srv' # None /\ behind' = [e \in Device |-> TRUE]
        /\ ~clamped'[d] => ~clamped[d] /\ crud[d][1].stamp <= now
        /\ srv = None => srv' = Row(InsertStamp(now, crud[d][1].stamp), crud[d][1].cols)
        /\ srv # None => srv' = srv
    BY <1>9, CreatedRow
  <2>2. Announced(d)'
    BY <1>4, <2>1 DEF Announced
  <2>3. 1 \in 1 .. Len(crud[d]) /\ 1 \in DOMAIN crud[d]
    BY <1>9, DeviceTyped
  <2>4. disk[d] # None /\ VersionAt(d, 1) = crud[d][1].stamp
    BY <1>1, <2>3, VersionIsStamp
  <2>5. ASSUME Good(d)', srv # None PROVE Reflects(d, Reached(d))'
    <3>1. Good(d)
      BY <1>7, <2>1, <2>5 DEF Good
    <3>2. Reflects(d, Inserts(d))
      BY <1>1, <1>6, <2>4, <2>5, <3>1 DEF Acknowledged
    <3> QED
      BY <1>2, <1>6, <2>1, <2>5, <3>2 DEF Reflects, VersionAt, Unwritten
  <2>6. ASSUME Good(d)', srv = None PROVE Reflects(d, Reached(d))'
    <3>1. crud[d][1].stamp <= now /\ crud[d][1].stamp \in Nat /\ now \in Nat
      BY <2>1, <2>3, <2>6, DeviceTyped DEF Good
    <3>2. srv'.stamp = crud[d][1].stamp /\ srv'.content = crud[d][1].cols
      BY <2>1, <2>6, <3>1 DEF InsertStamp, Smaller, Row
    <3>3. DOMAIN crud[d][1].cols = Column
      <4>1. crud[d][1].kind = "put"
        BY <1>9 DEF Inserts
      <4>2. crud[d][1].cols \in Contents
        BY <2>3, <4>1 DEF IInv, Whole
      <4> QED
        BY <4>2 DEF Contents
    <3>4. \A c \in Unwritten(d, 1) : disk[d].content[c] = crud[d][1].cols[c]
      BY <2>3, <3>3 DEF Unwritten, IInv, PendingWritesOnDisk
    <3>5. Matches(srv', crud[d][1].stamp, disk[d].content, Unwritten(d, 1))
      BY <2>1, <3>1, <3>2, <3>4 DEF Matches
    <3>6. VersionAt(d, Reached(d))' = VersionAt(d, 1) /\ Unwritten(d, Reached(d))' = Unwritten(d, 1)
      BY <1>2, <1>6, <1>9 DEF VersionAt, Unwritten
    <3> QED
      BY <1>2, <2>4, <3>5, <3>6 DEF Reflects
  <2>7. Acknowledged(d)'
    BY <2>1, <2>5, <2>6 DEF Acknowledged
  <2> QED
    BY <1>2, <1>5, <2>2, <2>7 DEF DeviceInv
<1> QED
  BY <1>8, <1>9, DeviceTyped

\* The merged patch: drifted, the server is past it; else the server was at
\* its base, and now has what the device has but for later entries.
LEMMA SendPatchesKeepsOwn ==
  ASSUME IInv, IInv', NEW d \in Device, DeviceInv(d), SendPatches(d)
  PROVE  DeviceInv(d)'
<1> DEFINE n == upload[d].n
           first == Inserts(d) + 1
           base == crud[d][first].base
           patched == crud[d][n].stamp
<1>1. Chained(d) /\ Acknowledged(d)
  BY DEF DeviceInv
<1>2. /\ Arrived(d)' /\ Drained(d)' /\ Cached(d)' /\ Sole(d)'
      /\ Pending(d) /\ crud' = crud /\ disk' = disk
  BY SentAlong
<1>3. /\ upload[d].sent = "creates" /\ BatchPatches(d) # {}
      /\ upload' = [upload EXCEPT ![d].sent = "all"]
      /\ behind' = [e \in Device |-> TRUE] /\ refused' = refused
  BY DEF SendPatches
<1>4. upload'[d].sent = "all" /\ upload'[d].n = n /\ n \in Nat
  <2>1. upload \in [Device -> [n : Nat, sent : {"nothing", "creates", "all"}]]
    BY DEF IInv, TypeOK
  <2> QED
    BY <1>3, <2>1
<1>5. /\ srv # None /\ srv' # None
      /\ Inserts(d) < n /\ n <= Len(crud[d])
      /\ ~clamped'[d] => ~clamped[d] /\ patched <= now
      /\ patched <= now /\ Drifted(base, srv.stamp) => patched < srv'.stamp
      /\ patched <= now /\ ~Drifted(base, srv.stamp) => srv'.stamp = patched
      /\ srv'.content = Overlay(MergePatches(crud[d], PatchesIn(crud[d], n)).cols, srv.content)
  BY <1>1, PatchedRow
<1>6. Inserts(d) \in Nat /\ Len(crud[d]) \in Nat /\ DOMAIN crud[d] = 1 .. Len(crud[d])
      /\ n \in 1 .. Len(crud[d]) /\ first \in 1 .. Len(crud[d])
  BY <1>4, <1>5, DeviceTyped
<1>7. n > 0 /\ BatchPatches(d)' = BatchPatches(d)
  BY <1>2, <1>4, <1>5, <1>6 DEF BatchPatches
<1>8. Chained(d)'
  BY <1>1, <1>2, <1>3, <1>4, <1>7 DEF Chained
<1>9. Announced(d)'
  BY <1>3 DEF Announced
<1>10. disk[d] # None /\ VersionAt(d, n) = patched /\ VersionAt(d, Inserts(d)) = base
  BY <1>1, <1>5, <1>6, VersionIsStamp DEF VersionAt
<1>11. ASSUME Good(d)' PROVE Matches(srv', patched, disk[d].content, Unwritten(d, n))
  <2>1. Good(d) /\ patched <= now
    BY <1>3, <1>5, <1>11 DEF Good
  <2>2. patched \in Nat /\ srv'.stamp \in Nat
    <3>1. srv' \in Rows \cup {None}
      BY DEF IInv, TypeOK
    <3> QED
      BY <1>5, <1>6, <3>1, RowFields, DeviceTyped
  <2>3. CASE Drifted(base, srv.stamp)
    BY <1>5, <2>1, <2>2, <2>3 DEF Matches
  <2>4. CASE ~Drifted(base, srv.stamp)
    <3>1. base = srv.stamp /\ base # Pristine /\ srv'.stamp = patched
      BY <1>5, <2>1, <2>4 DEF Drifted
    <3>2. Reflects(d, Inserts(d))
      <4>1. Reached(d) = Inserts(d)
        BY <1>3 DEF Reached
      <4> QED
        BY <1>1, <1>5, <1>10, <2>1, <4>1 DEF Acknowledged
    <3>3. \A c \in Unwritten(d, Inserts(d)) : disk[d].content[c] = srv.content[c]
      BY <1>10, <3>1, <3>2 DEF Reflects, Matches
    <3>4. ASSUME NEW c \in Unwritten(d, n) PROVE disk[d].content[c] = srv'.content[c]
      <4> DEFINE patch == MergePatches(crud[d], PatchesIn(crud[d], n))
      <4>1. c \in Column /\ \A i \in DOMAIN crud[d] : i > n => c \notin DOMAIN crud[d][i].cols
        BY <3>4 DEF Unwritten
      <4>2. PatchesIn(crud[d], n) # {}
        BY <1>3 DEF BatchPatches
      <4>3. srv'.content[c] = Overlay(patch.cols, srv.content)[c]
        BY <1>5
      <4>4. patch = MergePatches(crud[d], PatchesIn(crud[d], n))
        OBVIOUS
      <4> HIDE DEF patch, n
      <4>5. \/ /\ Overlay(patch.cols, srv.content)[c] = srv.content[c]
               /\ \A i \in Inserts(d) + 1 .. n : c \notin DOMAIN crud[d][i].cols
            \/ \E i \in Inserts(d) + 1 .. n :
                 /\ c \in DOMAIN crud[d][i].cols
                 /\ \A j \in Inserts(d) + 1 .. n : j > i => c \notin DOMAIN crud[d][j].cols
                 /\ Overlay(patch.cols, srv.content)[c] = crud[d][i].cols[c]
        <5>1. n \in Nat /\ n <= Len(crud[d]) /\ c \in Column
          BY <1>4, <1>5, <4>1
        <5>2. IsLatest(d, n, c, Overlay(patch.cols, srv.content)[c], srv.content[c])
          BY <1>1, <4>2, <4>4, <5>1, MergedColumn
        <5> QED
          BY <5>2 DEF IsLatest
      <4>6. CASE /\ Overlay(patch.cols, srv.content)[c] = srv.content[c]
                 /\ \A i \in Inserts(d) + 1 .. n : c \notin DOMAIN crud[d][i].cols
        <5>1. \A i \in DOMAIN crud[d] : i > Inserts(d) => c \notin DOMAIN crud[d][i].cols
          BY <1>4, <1>6, <4>1, <4>6
        <5>2. c \in Unwritten(d, Inserts(d))
          BY <4>1, <5>1 DEF Unwritten
        <5> QED
          BY <3>3, <4>3, <4>6, <5>2
      <4>7. CASE \E i \in Inserts(d) + 1 .. n :
                   /\ c \in DOMAIN crud[d][i].cols
                   /\ \A j \in Inserts(d) + 1 .. n : j > i => c \notin DOMAIN crud[d][j].cols
                   /\ Overlay(patch.cols, srv.content)[c] = crud[d][i].cols[c]
        <5>1. PICK i \in Inserts(d) + 1 .. n :
                /\ c \in DOMAIN crud[d][i].cols
                /\ \A j \in Inserts(d) + 1 .. n : j > i => c \notin DOMAIN crud[d][j].cols
                /\ Overlay(patch.cols, srv.content)[c] = crud[d][i].cols[c]
          BY <4>7
        <5>2. i \in DOMAIN crud[d] /\ \A j \in DOMAIN crud[d] : j > i => c \notin DOMAIN crud[d][j].cols
          <6>1. i \in DOMAIN crud[d] /\ i > Inserts(d)
            BY <1>4, <1>5, <1>6
          <6>2. ASSUME NEW j \in DOMAIN crud[d], j > i PROVE c \notin DOMAIN crud[d][j].cols
            <7>1. j > n \/ j \in Inserts(d) + 1 .. n
              BY <1>4, <1>6, <6>1, <6>2
            <7> QED
              BY <4>1, <5>1, <6>2, <7>1
          <6> QED
            BY <6>1, <6>2
        <5>3. disk[d].content[c] = crud[d][i].cols[c]
          BY <5>1, <5>2 DEF IInv, PendingWritesOnDisk
        <5> QED
          BY <4>3, <5>1, <5>3
      <4> QED
        BY <4>5, <4>6, <4>7
    <3> QED
      BY <1>5, <2>2, <3>1, <3>4 DEF Matches
  <2> QED
    BY <2>3, <2>4
<1>12. Acknowledged(d)'
  <2>1. Reached(d)' = n
    BY <1>4 DEF Reached
  <2>2. VersionAt(d, Reached(d))' = patched /\ Unwritten(d, Reached(d))' = Unwritten(d, n)
    BY <1>2, <1>10, <2>1 DEF VersionAt, Unwritten
  <2> HIDE DEF n, patched
  <2>3. Good(d)' => Reflects(d, Reached(d))'
    BY <1>2, <1>11, <2>2 DEF Reflects
  <2> QED
    BY <1>5, <2>3 DEF Acknowledged
<1> QED
  BY <1>2, <1>8, <1>9, <1>12 DEF DeviceInv

\* A queue without its first entries begins with a patch.
LEMMA QueueShifts ==
  ASSUME IInv, IInv', NEW d \in Device, Chained(d),
         NEW n \in Nat \ {0}, n <= Len(crud[d]), disk' = disk,
         crud' = [crud EXCEPT ![d] = SubSeq(@, n + 1, Len(@))],
         upload' = [upload EXCEPT ![d] = NoUpload]
  PROVE  /\ Chained(d)' /\ Inserts(d)' = 0 /\ upload'[d] = NoUpload
         /\ VersionAt(d, 0)' = VersionAt(d, n) /\ Unwritten(d, 0)' = Unwritten(d, n)
         /\ ~Pending(d)' => n = Len(crud[d])
<1> DEFINE m == Len(crud[d])
<1>1. /\ upload'[d] = NoUpload /\ crud'[d] = SubSeq(crud[d], n + 1, m)
      /\ crud[d] \in Seq(Ops) /\ m \in Nat /\ DOMAIN crud[d] = 1 .. m
      /\ upload'[d].sent = "nothing"
  <2>1. /\ upload \in [Device -> [n : Nat, sent : {"nothing", "creates", "all"}]]
        /\ crud \in [Device -> Seq(Ops)]
    BY DEF IInv, TypeOK
  <2> QED
    BY <2>1 DEF NoUpload
<1>2. /\ Len(crud'[d]) = m - n /\ DOMAIN crud'[d] = 1 .. m - n
      /\ \A i \in 1 .. m - n : crud'[d][i] = crud[d][n + i]
  <2>1. \A i \in n + 1 .. m : crud[d][i] \in Ops
    BY <1>1
  <2> QED
    BY <1>1, <2>1
<1> HIDE DEF m
<1>3. \A i \in 1 .. m - n : n + i \in 1 .. m /\ n + i > 1
  BY <1>1
<1>4. \A i \in 1 .. m - n : crud'[d][i].kind # "put"
  <2> SUFFICES ASSUME NEW i \in 1 .. m - n PROVE crud'[d][i].kind # "put"
    OBVIOUS
  <2>1. n + i \in DOMAIN crud[d] /\ n + i > 1 /\ crud'[d][i] = crud[d][n + i]
    BY <1>1, <1>2, <1>3
  <2>2. crud[d][n + i].kind = "put" => n + i = 1
    BY <2>1 DEF Chained
  <2> QED
    BY <1>1, <2>1, <2>2
<1>5. Chained(d)'
  <2>1. ASSUME NEW i \in 1 .. m - n, i > 1 PROVE crud'[d][i].base = crud'[d][i - 1].stamp
    <3>1. i - 1 \in 1 .. m - n /\ n + (i - 1) = (n + i) - 1
      BY <1>1, <2>1
    <3>2. crud[d][n + i].base = crud[d][(n + i) - 1].stamp
      BY <1>1, <1>3 DEF Chained
    <3> QED
      BY <1>2, <3>1, <3>2
  <2>2. ASSUME NEW i \in 1 .. m - n, NEW j \in 1 .. m - n, crud'[d][i].kind = "patch", i <= j
        PROVE  crud'[d][i].base < crud'[d][j].stamp
    <3>1. /\ n + i <= n + j /\ n + i \in DOMAIN crud[d] /\ n + j \in DOMAIN crud[d]
          /\ crud'[d][i] = crud[d][n + i] /\ crud'[d][j] = crud[d][n + j]
      BY <1>1, <1>2, <1>3, <2>2
    <3>2. crud[d][n + i].kind = "patch"
      BY <2>2, <3>1
    <3>3. crud[d][n + i].base < crud[d][n + j].stamp
      BY <3>1, <3>2 DEF Chained
    <3> QED
      BY <3>1, <3>3
  <2> QED
    BY <1>1, <1>2, <1>4, <2>1, <2>2 DEF Chained
<1>6. Pending(d)' <=> Len(crud'[d]) > 0
  <2>1. crud'[d] \in Seq(Ops)
    BY DEF IInv, TypeOK
  <2>2. \A queue \in Seq(Ops) : queue # <<>> <=> Len(queue) > 0
    OBVIOUS
  <2>3. crud'[d] # <<>> <=> Len(crud'[d]) > 0
    BY <2>1, <2>2
  <2> QED
    BY <2>3 DEF Pending
<1>10. ~Pending(d)' => n = Len(crud[d])
  <2>1. n <= m
    BY DEF m
  <2>2. ~Pending(d)' => n = m
    BY <1>1, <1>2, <1>6, <2>1
  <2> QED
    BY <2>2 DEF m
<1>7. Inserts(d)' = 0
  <2>1. Pending(d)' => 1 \in 1 .. m - n
    BY <1>1, <1>2, <1>6
  <2> QED
    BY <1>4, <2>1 DEF Inserts
<1>8. VersionAt(d, 0)' = VersionAt(d, n)
  <2>1. CASE n < m
    <3>1. 1 \in 1 .. m - n /\ 0 < m - n
      BY <1>1, <2>1
    <3>2. VersionAt(d, 0)' = crud'[d][0 + 1].base
      BY <1>2, <3>1 DEF VersionAt
    <3>3. VersionAt(d, n) = crud[d][n + 1].base
      BY <2>1 DEF VersionAt, m
    <3> QED
      BY <1>2, <3>1, <3>2, <3>3
  <2>2. CASE n = m
    <3>1. VersionAt(d, 0)' = disk'[d].stamp
      BY <1>1, <1>2, <2>2 DEF VersionAt
    <3>2. VersionAt(d, n) = disk[d].stamp
      BY <1>1, <2>2 DEF VersionAt, m
    <3> QED
      BY <3>1, <3>2
  <2> QED
    BY <1>1, <2>1, <2>2 DEF m
<1>9. Unwritten(d, 0)' = Unwritten(d, n)
  <2> SUFFICES ASSUME NEW c \in Column
               PROVE  (\A i \in DOMAIN crud'[d] : i > 0 => c \notin DOMAIN crud'[d][i].cols)
                      <=> (\A i \in DOMAIN crud[d] : i > n => c \notin DOMAIN crud[d][i].cols)
    BY DEF Unwritten
  <2>1. ASSUME \A i \in DOMAIN crud'[d] : i > 0 => c \notin DOMAIN crud'[d][i].cols,
               NEW i \in DOMAIN crud[d], i > n
        PROVE  c \notin DOMAIN crud[d][i].cols
    <3>1. i - n \in 1 .. m - n /\ i - n > 0 /\ n + (i - n) = i
      BY <1>1, <2>1
    <3> QED
      BY <1>2, <2>1, <3>1
  <2>2. ASSUME \A i \in DOMAIN crud[d] : i > n => c \notin DOMAIN crud[d][i].cols,
               NEW i \in DOMAIN crud'[d]
        PROVE  c \notin DOMAIN crud'[d][i].cols
    <3>1. n + i \in DOMAIN crud[d] /\ n + i > n
      BY <1>1, <1>2, <1>3, <2>2
    <3> QED
      BY <1>2, <2>2, <3>1
  <2> QED
    BY <2>1, <2>2
<1> QED
  BY <1>1, <1>5, <1>7, <1>8, <1>9, <1>10

LEMMA CompleteKeepsOwn ==
  ASSUME IInv, IInv', NEW d \in Device, DeviceInv(d), Complete(d)
  PROVE  DeviceInv(d)'
<1> DEFINE n == upload[d].n
<1>1. Chained(d) /\ Acknowledged(d) /\ Announced(d) /\ Arrived(d) /\ Drained(d) /\ Cached(d)
  BY DEF DeviceInv
<1>2. /\ crud' = [crud EXCEPT ![d] = SubSeq(@, n + 1, Len(@))]
      /\ upload' = [upload EXCEPT ![d] = NoUpload]
      /\ UNCHANGED <<srv, behind, staged, fresh, window, drain, disk, cache, clamped, refused>>
  BY DEF Complete, history
<1>3. upload[d].sent # "nothing" /\ upload[d] # NoUpload
  BY DEF Complete, NoUpload
<1>4. n \in Nat \ {0} /\ n <= Len(crud[d]) /\ Pending(d)
  BY <1>1, <1>3, DeviceTyped DEF Chained
\* what is drained is what the server has, and it comes back
<1>5. n = Reached(d) /\ behind[d]
  <2>1. CASE upload[d].sent = "all"
    BY <1>1, <2>1 DEF Reached, Announced
  <2>2. CASE upload[d].sent = "creates" /\ BatchPatches(d) = {}
    <3>1. BatchPatches(d) = Inserts(d) + 1 .. n
      BY <1>1, <1>4, PatchesFollow DEF BatchPatches
    <3>2. n = 1 /\ Inserts(d) = 1
      BY <1>4, <2>2, <3>1, DeviceTyped
    <3> QED
      BY <1>1, <2>2, <3>2 DEF Reached, Announced
  <2> QED
    BY <2>1, <2>2 DEF Complete
<1>6. /\ Chained(d)' /\ Inserts(d)' = 0 /\ upload'[d] = NoUpload
      /\ VersionAt(d, 0)' = VersionAt(d, n) /\ Unwritten(d, 0)' = Unwritten(d, n)
      /\ ~Pending(d)' => n = Len(crud[d])
  <2> HIDE DEF n
  <2> QED
    BY <1>1, <1>2, <1>4, QueueShifts
<1> HIDE DEF n
<1>7. disk[d] # None
  BY <1>1, <1>4, VersionIsStamp
<1>8. Good(d) => srv # None /\ Matches(srv, VersionAt(d, n), disk[d].content, Unwritten(d, n))
  BY <1>1, <1>3, <1>5, <1>7 DEF Acknowledged, Reflects
<1>9. Acknowledged(d)'
  <2>1. Reached(d)' = 0
    BY <1>6 DEF Reached, NoUpload
  <2>2. Good(d)' = Good(d)
    BY <1>2 DEF Good
  <2>3. Good(d) => Reflects(d, Reached(d))'
    BY <1>2, <1>6, <1>8, <2>1 DEF Reflects
  <2> QED
    BY <1>2, <1>8, <2>2, <2>3 DEF Acknowledged
<1>10. Sole(d)' /\ Announced(d)'
  BY <1>6 DEF Sole, Announced, NoUpload
<1>11. Arrived(d)' /\ Drained(d)'
  BY <1>1, <1>2, <1>5 DEF Arrived, Drained, FromServer
<1>12. Cached(d)'
  <2>1. cache[d] \in {None, disk[d]}
    BY <1>1, <1>4 DEF Cached
  <2>2. ASSUME Good(d), ~Pending(d)' PROVE Matches(srv, disk[d].stamp, disk[d].content, Column)
    <3>1. n = Len(crud[d]) /\ DOMAIN crud[d] = 1 .. n
      BY <1>6, <2>2, DeviceTyped
    <3>2. VersionAt(d, n) = disk[d].stamp
      BY <1>4, <3>1 DEF VersionAt
    <3>3. Unwritten(d, n) = Column
      BY <1>4, <3>1 DEF Unwritten
    <3> QED
      BY <1>8, <2>2, <3>2, <3>3
  <2> QED
    BY <1>1, <1>2, <2>1, <2>2 DEF Cached, FromServer, Good
<1> QED
  BY <1>6, <1>9, <1>10, <1>11, <1>12 DEF DeviceInv

\* Nothing is claimed of a device whose write was refused.
LEMMA DropsKeepsOwn ==
  ASSUME IInv, IInv', NEW d \in Device, DeviceInv(d), Drops(d)
  PROVE  DeviceInv(d)'
<1>1. Chained(d) /\ Arrived(d) /\ Drained(d) /\ Cached(d)
  BY DEF DeviceInv
<1>2. Pending(d) /\ DropHead(d)
  BY DEF Drops, RefuseMissing, Refuse
<1>3. 1 <= Len(crud[d]) /\ crud[d] \in Seq(Ops)
  BY <1>2, DeviceTyped
<1>4. /\ crud' = [crud EXCEPT ![d] = SubSeq(@, 1 + 1, Len(@))]
      /\ upload' = [upload EXCEPT ![d] = NoUpload]
      /\ UNCHANGED <<srv, behind, staged, fresh, window, drain, disk, cache, clamped>>
  <2>1. Tail(crud[d]) = SubSeq(crud[d], 1 + 1, Len(crud[d]))
    BY <1>2, <1>3, TailIsSubSeq DEF Pending
  <2> QED
    BY <1>2, <2>1 DEF DropHead
<1>5. ~Good(d)'
  <2>1. refused' = [refused EXCEPT ![d] = TRUE] /\ refused \in [Device -> BOOLEAN]
    BY <1>2 DEF DropHead, IInv, TypeOK
  <2> QED
    BY <2>1 DEF Good
<1>6. Chained(d)' /\ Inserts(d)' = 0 /\ upload'[d] = NoUpload
  <2> DEFINE n == 1
  <2>1. n \in Nat \ {0} /\ n <= Len(crud[d])
    BY <1>3
  <2>2. crud' = [crud EXCEPT ![d] = SubSeq(@, n + 1, Len(@))] /\ disk' = disk
    BY <1>4
  <2> HIDE DEF n
  <2> QED
    BY <1>1, <1>4, <2>1, <2>2, QueueShifts
<1>7. Sole(d)' /\ Announced(d)' /\ Acknowledged(d)'
  BY <1>5, <1>6 DEF Sole, Announced, Acknowledged, NoUpload
<1>8. Arrived(d)' /\ Drained(d)' /\ Cached(d)'
  BY <1>1, <1>2, <1>4, <1>5 DEF Arrived, Drained, Cached, FromServer
<1> QED
  BY <1>6, <1>7, <1>8 DEF DeviceInv

\* An abandoned attempt leaves the server where a shorter one is redundant.
LEMMA AttemptEnds ==
  ASSUME IInv, IInv', NEW d \in Device, DeviceInv(d),
         UNCHANGED <<srv, disk, crud, clamped, refused>>, left'.minters = left.minters,
         upload' = [upload EXCEPT ![d] = NoUpload]
  PROVE  Chained(d)' /\ Sole(d)' /\ Acknowledged(d)' /\ Announced(d)'
<1>1. Chained(d) /\ Sole(d) /\ Acknowledged(d)
  BY DEF DeviceInv
<1>2. upload'[d] = NoUpload /\ upload'[d].sent = "nothing"
  <2>1. upload \in [Device -> [n : Nat, sent : {"nothing", "creates", "all"}]]
    BY DEF IInv, TypeOK
  <2> QED
    BY <2>1 DEF NoUpload
<1>3. Chained(d)' /\ Announced(d)'
  BY <1>1, <1>2 DEF Chained, Announced
<1>4. Inserts(d)' = Inserts(d)
  BY DEF Inserts, Pending
<1>5. Sole(d)'
  BY <1>1, <1>4 DEF Sole
<1>6. Acknowledged(d)'
  <2>1. Reached(d)' = Inserts(d)
    BY <1>2, <1>4 DEF Reached
  <2>2. ASSUME Good(d), disk[d] # None, srv # None PROVE Reflects(d, Inserts(d))
    <3>1. Reflects(d, Reached(d))
      BY <1>1, <2>2 DEF Acknowledged
    <3>2. /\ Reached(d) \in Nat /\ Inserts(d) <= Reached(d) /\ Reached(d) <= Len(crud[d])
          /\ Inserts(d) \in Nat /\ Inserts(d) <= Inserts(d)
      BY <1>1, ReachedTyped, DeviceTyped
    <3> QED
      BY <1>1, <2>2, <3>1, <3>2, ShorterIsReflected
  <2>3. VersionAt(d, Reached(d))' = VersionAt(d, Inserts(d))
        /\ Unwritten(d, Reached(d))' = Unwritten(d, Inserts(d))
    BY <2>1 DEF VersionAt, Unwritten
  <2> QED
    BY <1>1, <1>2, <1>4, <2>2, <2>3 DEF Acknowledged, Good, Reflects
<1> QED
  BY <1>3, <1>5, <1>6

LEMMA GivesKeepsOwn ==
  ASSUME IInv, IInv', NEW d \in Device, DeviceInv(d), Gives(d)
  PROVE  DeviceInv(d)'
<1>1. /\ Chained(d) /\ Sole(d) /\ Acknowledged(d) /\ Announced(d)
      /\ Arrived(d) /\ Drained(d) /\ Cached(d)
  BY DEF DeviceInv
<1>2. UNCHANGED <<srv, behind, staged, fresh, window, drain, disk, cache, crud, clamped, refused>>
  BY DEF Gives, AttemptFails, BatchMissesRow, history
<1>3. Arrived(d)' /\ Drained(d)' /\ Cached(d)'
  BY <1>1, <1>2 DEF Arrived, Drained, Cached, FromServer, Good, Pending
<1>4. left'.minters = left.minters
  <2>1. StepOf(d)
    BY DEF StepOf
  <2> QED
    BY <2>1, MintersStay
<1>5. CASE AttemptFails(d)
  <2>1. upload' = [upload EXCEPT ![d] = NoUpload]
    BY <1>5 DEF AttemptFails
  <2>2. Chained(d)' /\ Sole(d)' /\ Acknowledged(d)' /\ Announced(d)'
    BY <1>2, <1>4, <2>1, AttemptEnds
  <2> QED
    BY <1>3, <2>2 DEF DeviceInv
<1>6. CASE BatchMissesRow(d)
  <2>1. srv = None /\ upload[d].n > 1 /\ upload' = [upload EXCEPT ![d].n = 1]
    BY <1>6 DEF BatchMissesRow
  <2>2. upload'[d].n = 1 /\ upload'[d].sent = upload[d].sent
    <3>1. upload \in [Device -> [n : Nat, sent : {"nothing", "creates", "all"}]]
      BY DEF IInv, TypeOK
    <3> QED
      BY <2>1, <3>1
  <2>3. upload[d].sent # "all"
    BY <1>1, <2>1 DEF Announced, Arrived
  <2>4. upload[d].sent # "nothing"
    <3>1. upload[d] # NoUpload
      BY <2>1 DEF NoUpload
    <3> QED
      BY <1>1, <3>1 DEF Chained
  <2>5. Chained(d)'
    BY <1>1, <1>2, <2>2, <2>3, <2>4 DEF Chained
  <2>6. Inserts(d)' = Inserts(d)
    BY <1>2 DEF Inserts, Pending
  <2>7. Sole(d)' /\ Announced(d)' /\ Acknowledged(d)'
    BY <1>1, <1>2, <1>4, <2>1, <2>2, <2>6 DEF Sole, Announced, Acknowledged, Good
  <2> QED
    BY <1>3, <2>5, <2>7 DEF DeviceInv
<1> QED
  BY <1>5, <1>6 DEF Gives
-----------------------------------------------------------------------------
(***************************************************************************)
(* Deliveries, drains and the cache of the device that steps.              *)
(***************************************************************************)
LEMMA QueueSideStays ==
  ASSUME NEW d \in Device, DeviceInv(d), left'.minters = left.minters,
         UNCHANGED <<srv, crud, upload, disk, clamped, refused>>
  PROVE  Chained(d)' /\ Sole(d)' /\ Acknowledged(d)'
<1>1. Chained(d) /\ Sole(d) /\ Acknowledged(d)
  BY DEF DeviceInv
<1>2. Chained(d)'
  BY <1>1 DEF Chained, BatchPatches
<1>3. Inserts(d)' = Inserts(d) /\ Reached(d)' = Reached(d) /\ Good(d)' = Good(d)
  BY DEF Inserts, Reached, Pending, Good
<1>4. Sole(d)'
  BY <1>1, <1>3 DEF Sole
<1>5. VersionAt(d, Reached(d))' = VersionAt(d, Reached(d))
      /\ Unwritten(d, Reached(d))' = Unwritten(d, Reached(d))
  BY <1>3 DEF VersionAt, Unwritten
<1>6. Acknowledged(d)'
  BY <1>1, <1>3, <1>5 DEF Acknowledged, Reflects
<1> QED
  BY <1>2, <1>4, <1>6

LEMMA DeliverKeepsOwn ==
  ASSUME IInv, IInv', NEW d \in Device, DeviceInv(d), Deliver(d)
  PROVE  DeviceInv(d)'
<1>1. Chained(d) /\ Arrived(d) /\ Drained(d) /\ Cached(d)
  BY DEF DeviceInv
<1>2. /\ behind[d] /\ crud[d] = <<>>
      /\ staged' = [staged EXCEPT ![d] = srv] /\ fresh' = [fresh EXCEPT ![d] = TRUE]
      /\ behind' = [behind EXCEPT ![d] = FALSE]
      /\ UNCHANGED <<srv, window, drain, disk, cache, crud, upload, left, clamped, refused>>
  BY DEF Deliver, history
<1>3. staged'[d] = srv /\ fresh'[d] = TRUE /\ behind'[d] = FALSE
  <2>1. staged \in [Device -> Rows \cup {None}] /\ fresh \in [Device -> BOOLEAN]
        /\ behind \in [Device -> BOOLEAN]
    BY DEF IInv, TypeOK
  <2> QED
    BY <1>2, <2>1
<1>4. Chained(d)' /\ Sole(d)' /\ Acknowledged(d)'
  BY <1>2, QueueSideStays
<1>5. Announced(d)'
  <2>1. upload[d] = NoUpload
    <3>1. ~(upload[d].n > 0)
      BY <1>2, DeviceTyped
    <3> QED
      BY <1>1, <3>1 DEF Chained
  <2> QED
    BY <1>2, <2>1 DEF Announced, NoUpload
<1>6. Arrived(d)'
  <2>1. srv # None /\ srv.stamp \in Nat
    BY <1>1, <1>2, DeviceTyped, RowFields DEF Arrived
  <2>2. FromServer(srv)
    BY <2>1 DEF FromServer, Matches
  <2> QED
    BY <1>1, <1>2, <1>3, <2>1, <2>2 DEF Arrived, FromServer
<1>7. Drained(d)' /\ Cached(d)'
  BY <1>1, <1>2, <1>3 DEF Drained, Cached, FromServer, Good, Pending
<1> QED
  BY <1>4, <1>5, <1>6, <1>7 DEF DeviceInv

\* A row that does not apply is no news, unless writes wait.
LEMMA SkippedIsKnown ==
  ASSUME IInv, NEW d \in Device, DeviceInv(d), NEW row \in Rows,
         Good(d), ~Pending(d), srv = row, ~Applies(d, row)
  PROVE  disk[d] = row
<1>1. disk[d] # None /\ disk[d].stamp = row.stamp /\ row.stamp # Pristine
  BY DEF Applies, AppliesToDisk, Pristine
<1>2. srv # None /\ Inserts(d) = 0
  BY RowFields DEF Inserts
<1>3. Reached(d) = 0
  <2>1. upload[d].n = 0
    BY DeviceTyped
  <2>2. Chained(d)
    BY DEF DeviceInv
  <2> QED
    BY <1>2, <2>1, <2>2 DEF Reached
<1>4. FromServer(disk[d])
  <2>1. Acknowledged(d)
    BY DEF DeviceInv
  <2>2. Reflects(d, 0)
    BY <1>1, <1>2, <1>3, <2>1 DEF Acknowledged
  <2> QED
    BY <1>1, <2>2, RestReflects
<1>5. \A c \in Column : disk[d].content[c] = row.content[c]
  BY <1>1, <1>4 DEF FromServer, Matches
<1> QED
  BY <1>1, <1>5, RowsAgree, DeviceTyped

LEMMA ReadKeepsOwn ==
  ASSUME IInv, IInv', NEW d \in Device, DeviceInv(d), ReadWindow(d)
  PROVE  DeviceInv(d)'
<1>1. Announced(d) /\ Arrived(d) /\ Drained(d) /\ Cached(d)
  BY DEF DeviceInv
<1>2. /\ drain[d] = Idle
      /\ drain' = [drain EXCEPT ![d] = IF Applies(d, staged[d])
                                       THEN [phase |-> "write", row |-> staged[d]]
                                       ELSE [phase |-> "consume", row |-> None]]
      /\ UNCHANGED <<srv, behind, staged, disk, cache, crud, upload, clamped, refused>>
  BY DEF ReadWindow, history
<1>3. /\ Applies(d, staged[d]) => drain'[d].phase = "write" /\ drain'[d].row = staged[d]
      /\ ~Applies(d, staged[d]) => drain'[d].phase = "consume"
      /\ drain'[d].phase # "idle" /\ drain[d].phase = "idle"
  <2>1. drain \in [Device -> [phase : {"idle", "write", "consume"}, row : Rows \cup {None}]]
    BY DEF IInv, TypeOK
  <2> QED
    BY <1>2, <2>1 DEF Idle
<1>4. ~window[d]
  BY <1>1, <1>3 DEF Drained
<1>5. \/ staged[d] # None /\ fresh' = fresh /\ window' = window
      \/ fresh[d] /\ ~fresh'[d] /\ window'[d]
  <2>1. fresh \in [Device -> BOOLEAN] /\ window \in [Device -> BOOLEAN]
    BY DEF IInv, TypeOK
  <2> QED
    BY <2>1 DEF ReadWindow
<1>6. staged[d] # None
  BY <1>1, <1>5 DEF Arrived
<1>7. left'.minters = left.minters
  <2>1. StepOf(d)
    BY DEF StepOf, Reads
  <2> QED
    BY <2>1, MintersStay
<1>8. Chained(d)' /\ Sole(d)' /\ Acknowledged(d)'
  BY <1>2, <1>7, QueueSideStays
<1>9. Announced(d)' /\ Cached(d)'
  BY <1>1, <1>2 DEF Announced, Cached, Inserts, Pending, Good, FromServer
<1>10. Arrived(d)'
  BY <1>1, <1>2, <1>3, <1>6 DEF Arrived, FromServer
<1>11. Drained(d)'
  <2>1. ASSUME Good(d), ~Pending(d), ~behind[d], ~fresh'[d],
               window'[d] => drain'[d].phase = "consume"
        PROVE  disk[d] = staged[d]
    <3>1. staged[d] = srv /\ staged[d] \in Rows
      BY <1>1, <1>6, <2>1, DeviceTyped DEF Arrived
    <3>2. CASE fresh' = fresh /\ window' = window
      BY <1>1, <1>4, <2>1, <3>2 DEF Drained
    <3>3. CASE window'[d]
      <4>1. ~Applies(d, staged[d])
        BY <1>3, <2>1, <3>3
      <4> QED
        BY <2>1, <3>1, <4>1, SkippedIsKnown
    <3> QED
      BY <1>5, <3>2, <3>3
  <2>2. Good(d)' = Good(d) /\ Pending(d)' = Pending(d)
    BY <1>2 DEF Good, Pending
  <2> QED
    BY <1>2, <1>3, <2>1, <2>2 DEF Drained
<1> QED
  BY <1>8, <1>9, <1>10, <1>11 DEF DeviceInv

LEMMA WriteKeepsOwn ==
  ASSUME IInv, IInv', NEW d \in Device, DeviceInv(d), WriteWindow(d)
  PROVE  DeviceInv(d)'
<1> DEFINE row == drain[d].row
<1>1. Chained(d) /\ Announced(d) /\ Arrived(d) /\ Drained(d) /\ Cached(d)
  BY DEF DeviceInv
<1>2. /\ drain[d].phase = "write"
      /\ drain' = [drain EXCEPT ![d] = [phase |-> "consume", row |-> None]]
      /\ UNCHANGED <<srv, behind, staged, fresh, window, crud, upload, left, clamped, refused>>
  BY DEF WriteWindow, history
<1>3. row \in Rows /\ row # None /\ FromServer(row)
  BY <1>1, <1>2, DeviceTyped DEF Arrived
<1>4. drain'[d].phase = "consume"
  <2>1. drain \in [Device -> [phase : {"idle", "write", "consume"}, row : Rows \cup {None}]]
    BY DEF IInv, TypeOK
  <2> QED
    BY <1>2, <2>1
<1>5. disk \in [Device -> Rows \cup {None}] /\ cache \in [Device -> Rows \cup {None}]
  BY DEF IInv, TypeOK
<1> HIDE DEF row
<1>6. \/ /\ Applies(d, row) /\ disk'[d] = row
         /\ cache'[d] = (IF CacheAccepts(d, row) THEN row ELSE cache[d])
      \/ ~Applies(d, row) /\ disk' = disk /\ cache' = cache
  BY <1>5 DEF WriteWindow, row
<1>7. Announced(d)' /\ Arrived(d)' /\ Sole(d)'
  <2>1. Sole(d)
    BY DEF DeviceInv
  <2>2. \A e \in Device : e # d => disk'[e] = disk[e]
    BY <1>5 DEF WriteWindow
  <2> QED
    BY <1>1, <1>2, <1>4, <2>1, <2>2 DEF Announced, Arrived, FromServer, Sole, Inserts, Pending
<1>8. Chained(d)'
  BY <1>1, <1>2 DEF Chained, BatchPatches
<1>9. Acknowledged(d)'
  <2>1. CASE disk' = disk
    BY <1>2, <2>1, QueueSideStays
  <2>2. CASE Applies(d, row) /\ disk'[d] = row
    <3>1. ~Pending(d)
      BY <2>2 DEF Applies, AppliesToDisk
    <3>2. ~Pending(d)' /\ Inserts(d)' = 0 /\ DOMAIN crud'[d] = {} /\ Len(crud'[d]) = 0
      BY <1>2, <3>1, DeviceTyped DEF Pending, Inserts
    <3>3. upload'[d] = NoUpload
      <4>1. ~(upload[d].n > 0)
        BY <3>1, DeviceTyped
      <4> QED
        BY <1>1, <1>2, <4>1 DEF Chained
    <3>4. Reached(d)' = 0
      BY <3>2, <3>3 DEF Reached, NoUpload
    <3>5. VersionAt(d, Reached(d))' = row.stamp /\ Unwritten(d, Reached(d))' = Column
      BY <2>2, <3>2, <3>4 DEF VersionAt, Unwritten
    <3>6. Matches(srv, row.stamp, row.content, Column) /\ srv # None
      BY <1>3 DEF FromServer, Matches
    <3>7. Reflects(d, Reached(d))'
      BY <1>2, <2>2, <3>5, <3>6 DEF Reflects
    <3> QED
      BY <1>2, <3>6, <3>7 DEF Acknowledged
  <2> QED
    BY <1>6, <2>1, <2>2
<1>10. Drained(d)'
  <2>1. ASSUME Good(d), ~Pending(d), ~behind[d], ~fresh[d] PROVE disk'[d] = staged[d]
    <3>1. row = staged[d] /\ staged[d] = srv
      BY <1>1, <1>2, <2>1 DEF Drained, Arrived, row
    <3>2. CASE ~Applies(d, row) /\ disk' = disk
      BY <1>3, <2>1, <3>1, <3>2, SkippedIsKnown
    <3> QED
      BY <1>6, <3>1, <3>2
  <2>2. Good(d)' = Good(d) /\ Pending(d)' = Pending(d)
    BY <1>2 DEF Good, Pending
  <2> QED
    BY <1>2, <1>4, <2>1, <2>2 DEF Drained
<1>11. Cached(d)'
  <2>1. Good(d)' = Good(d) /\ Pending(d)' = Pending(d)
    BY <1>2 DEF Good, Pending
  <2>2. CASE ~Applies(d, row) /\ disk' = disk /\ cache' = cache
    BY <1>1, <1>2, <2>1, <2>2 DEF Cached, FromServer
  <2>3. CASE Applies(d, row) /\ disk'[d] = row /\ CacheAccepts(d, row) /\ cache'[d] = row
    <3>1. row.stamp \in Nat
      BY <1>3, RowFields
    <3> QED
      BY <1>2, <1>3, <2>3, <3>1 DEF Cached, FromServer
  <2>4. CASE Applies(d, row) /\ disk'[d] = row /\ ~CacheAccepts(d, row) /\ cache'[d] = cache[d]
    <3>1. ~Pending(d)
      BY <2>4 DEF Applies, AppliesToDisk
    <3>2. cache[d] # None /\ row.stamp <= cache[d].stamp
      <4>1. cache[d] # None /\ ~(row.stamp > cache[d].stamp)
        BY <2>4 DEF CacheAccepts, AppliesToCache
      <4>2. row.stamp \in Nat /\ cache[d].stamp \in Nat
        BY <1>3, <4>1, RowFields, DeviceTyped
      <4> QED
        BY <4>1, <4>2
    <3> QED
      BY <1>1, <1>2, <1>3, <2>1, <2>4, <3>1, <3>2 DEF Cached, FromServer
  <2> QED
    BY <1>6, <2>2, <2>3, <2>4
<1> QED
  BY <1>7, <1>8, <1>9, <1>10, <1>11 DEF DeviceInv

LEMMA ConsumeKeepsOwn ==
  ASSUME IInv, IInv', NEW d \in Device, DeviceInv(d), ConsumeWindow(d)
  PROVE  DeviceInv(d)'
<1>1. Announced(d) /\ Arrived(d) /\ Drained(d) /\ Cached(d)
  BY DEF DeviceInv
<1>2. /\ drain[d].phase = "consume" /\ drain' = [drain EXCEPT ![d] = Idle]
      /\ window' = [window EXCEPT ![d] = FALSE]
      /\ UNCHANGED <<srv, behind, staged, fresh, disk, cache, crud, upload, left, clamped, refused>>
  BY DEF ConsumeWindow, history
<1>3. drain'[d].phase = "idle" /\ ~window'[d]
  <2>1. drain \in [Device -> [phase : {"idle", "write", "consume"}, row : Rows \cup {None}]]
        /\ window \in [Device -> BOOLEAN]
    BY DEF IInv, TypeOK
  <2> QED
    BY <1>2, <2>1 DEF Idle
<1>4. Chained(d)' /\ Sole(d)' /\ Acknowledged(d)'
  BY <1>2, QueueSideStays
<1>5. Announced(d)' /\ Arrived(d)' /\ Drained(d)' /\ Cached(d)'
  BY <1>1, <1>2, <1>3
     DEF Announced, Arrived, Drained, Cached, Inserts, Pending, Good, FromServer
<1> QED
  BY <1>4, <1>5 DEF DeviceInv

LEMMA HydrateKeepsOwn ==
  ASSUME IInv, IInv', NEW d \in Device, DeviceInv(d), Hydrate(d)
  PROVE  DeviceInv(d)'
<1>1. Chained(d) /\ Acknowledged(d) /\ Announced(d) /\ Arrived(d) /\ Drained(d)
  BY DEF DeviceInv
<1>2. /\ disk[d] # None /\ cache' = [cache EXCEPT ![d] = disk[d]]
      /\ UNCHANGED <<srv, behind, staged, fresh, window, drain, disk, crud, upload, left, clamped, refused>>
  BY DEF Hydrate, history
<1>3. cache'[d] = disk[d] /\ disk[d].stamp \in Nat
  <2>1. cache \in [Device -> Rows \cup {None}]
    BY DEF IInv, TypeOK
  <2> QED
    BY <1>2, <2>1, DeviceTyped, RowFields
<1>4. Chained(d)' /\ Sole(d)' /\ Acknowledged(d)'
  BY <1>2, QueueSideStays
<1>5. Announced(d)' /\ Arrived(d)' /\ Drained(d)'
  BY <1>1, <1>2 DEF Announced, Arrived, Drained, Inserts, Pending, Good, FromServer
<1>6. Cached(d)'
  <2>1. ASSUME Good(d), ~Pending(d) PROVE FromServer(disk[d])
    <3>1. Inserts(d) = 0 /\ upload[d].n = 0
      BY <2>1, DeviceTyped DEF Inserts
    <3>2. Reached(d) = 0
      BY <3>1 DEF Reached
    <3>3. Reflects(d, 0)
      BY <1>1, <1>2, <2>1, <3>1, <3>2 DEF Acknowledged
    <3> QED
      BY <1>2, <2>1, <3>3, RestReflects
  <2> QED
    BY <1>2, <1>3, <2>1 DEF Cached, FromServer, Good, Pending
<1> QED
  BY <1>4, <1>5, <1>6 DEF DeviceInv

LEMMA ReloadKeepsOwn ==
  ASSUME IInv, IInv', NEW d \in Device, DeviceInv(d), Reload(d)
  PROVE  DeviceInv(d)'
<1>1. Announced(d) /\ Arrived(d) /\ Drained(d) /\ Cached(d)
  BY DEF DeviceInv
<1>2. /\ cache' = [cache EXCEPT ![d] = None] /\ drain' = [drain EXCEPT ![d] = Idle]
      /\ fresh' = [fresh EXCEPT ![d] = @ \/ window[d]] /\ window' = [window EXCEPT ![d] = FALSE]
      /\ upload' = [upload EXCEPT ![d] = NoUpload]
      /\ UNCHANGED <<srv, behind, staged, disk, crud, clamped, refused>>
  BY DEF Reload, history
<1>3. cache'[d] = None /\ drain'[d] = Idle /\ ~window'[d] /\ (fresh'[d] <=> fresh[d] \/ window[d])
  <2>1. /\ drain \in [Device -> [phase : {"idle", "write", "consume"}, row : Rows \cup {None}]]
        /\ window \in [Device -> BOOLEAN] /\ fresh \in [Device -> BOOLEAN]
        /\ cache \in [Device -> Rows \cup {None}]
    BY DEF IInv, TypeOK
  <2>2. cache'[d] = None /\ drain'[d] = Idle /\ ~window'[d]
    BY <1>2, <2>1
  <2>3. fresh'[d] = (fresh[d] \/ window[d])
    BY <1>2, <2>1, Zenon
  <2> QED
    BY <2>2, <2>3
<1>4. left'.minters = left.minters
  <2>1. StepOf(d)
    BY DEF StepOf
  <2> QED
    BY <2>1, MintersStay
<1>5. Chained(d)' /\ Sole(d)' /\ Acknowledged(d)' /\ Announced(d)'
  BY <1>2, <1>4, AttemptEnds
<1>6. Arrived(d)' /\ Drained(d)' /\ Cached(d)'
  BY <1>1, <1>2, <1>3 DEF Arrived, Drained, Cached, Good, Pending, FromServer, Idle
<1> QED
  BY <1>5, <1>6 DEF DeviceInv
-----------------------------------------------------------------------------
(***************************************************************************)
(* The invariant of the synchronisation.                                   *)
(***************************************************************************)
LEMMA SyncAtFirst == Init => SyncInv
<1> SUFFICES ASSUME Init, NEW d \in Device PROVE DeviceInv(d)
  BY DEF SyncInv
<1>1. /\ srv = None /\ crud[d] = <<>> /\ upload[d] = NoUpload /\ disk[d] = None /\ cache[d] = None
      /\ staged[d] = None /\ ~behind[d] /\ ~fresh[d] /\ ~window[d] /\ drain[d] = Idle
  BY DEF Init
<1>2. ~Pending(d) /\ Inserts(d) = 0 /\ DOMAIN crud[d] = {}
  BY <1>1 DEF Pending, Inserts
<1>3. Chained(d) /\ Sole(d) /\ Acknowledged(d) /\ Announced(d)
  BY <1>1, <1>2 DEF Chained, Sole, Acknowledged, Announced, NoUpload
<1>4. Arrived(d) /\ Drained(d) /\ Cached(d)
  BY <1>1, <1>2 DEF Arrived, Drained, Cached, Idle
<1> QED
  BY <1>3, <1>4 DEF DeviceInv

LEMMA OwnKeeps ==
  ASSUME IInv, IInv', NEW d \in Device, DeviceInv(d), StepOf(d)
  PROVE  DeviceInv(d)'
<1>1. CASE Writes(d)
  BY <1>1, MintKeepsOwn, EditKeepsOwn DEF Writes
<1>2. CASE SendCreates(d) \/ SendPatches(d) \/ Complete(d)
  BY <1>2, SendCreatesKeepsOwn, SendPatchesKeepsOwn, CompleteKeepsOwn
<1>3. CASE Gives(d) \/ Drops(d) \/ Reload(d)
  BY <1>3, GivesKeepsOwn, DropsKeepsOwn, ReloadKeepsOwn
<1>4. CASE Reads(d)
  BY <1>4, DeliverKeepsOwn, ReadKeepsOwn, WriteKeepsOwn, ConsumeKeepsOwn, HydrateKeepsOwn DEF Reads
<1> QED
  BY <1>1, <1>2, <1>3, <1>4 DEF StepOf

\* Nothing that a device holds refers to the clock.
LEMMA ClockLeavesSync ==
  ASSUME SyncInv, UNCHANGED <<srv, behind, deviceVars, history>>, left'.minters = left.minters
  PROVE  SyncInv'
<1> SUFFICES ASSUME NEW d \in Device PROVE DeviceInv(d)'
  BY DEF SyncInv
<1>1. DeviceInv(d) /\ Announced(d) /\ Arrived(d) /\ Drained(d) /\ Cached(d)
  BY DEF SyncInv, DeviceInv
<1>2. Chained(d)' /\ Sole(d)' /\ Acknowledged(d)'
  BY <1>1, QueueSideStays DEF deviceVars, history
<1>3. Announced(d)' /\ Arrived(d)' /\ Drained(d)' /\ Cached(d)'
  BY <1>1 DEF Announced, Arrived, Drained, Cached, Inserts, Pending, Good, FromServer,
              deviceVars, history
<1> QED
  BY <1>2, <1>3 DEF DeviceInv

LEMMA SyncKept == IInv /\ IInv' /\ SyncInv /\ [Next]_vars => SyncInv'
<1> SUFFICES ASSUME IInv, IInv', SyncInv, [Next]_vars PROVE SyncInv'
  OBVIOUS
<1>1. CASE Tick
  <2>1. left \in Bounds /\ left' = [left EXCEPT !.ticks = @ - 1]
    BY <1>1 DEF IInv, TypeOK, Tick
  <2>2. left'.minters = left.minters
    BY <2>1 DEF Bounds
  <2> QED
    BY <1>1, <2>2, ClockLeavesSync DEF Tick
<1>2. CASE UNCHANGED vars
  BY <1>2, ClockLeavesSync DEF vars
<1>3. ASSUME NEW d \in Device, StepOf(d) PROVE SyncInv'
  <2>1. DeviceInv(d)'
    BY <1>3, OwnKeeps DEF SyncInv
  <2>2. ASSUME NEW e \in Device, e # d PROVE DeviceInv(e)'
    BY <1>3, <2>2, OthersKeep
  <2> QED
    BY <2>1, <2>2 DEF SyncInv
<1> QED
  BY <1>1, <1>2, <1>3, StepsAreSomeones

LEMMA SyncHolds == Spec => [](IInv /\ SyncInv)
<1>1. IInv /\ [Next]_vars => IInv'
  BY Inductive
<1> QED
  BY <1>1, InitHolds, SyncAtFirst, SyncKept, PTL DEF Spec

(***************************************************************************)
(* DisksConverge: whatever the devices, columns, clocks and interleavings, *)
(* a device at rest that was never clamped or refused has the server's row *)
(* on disk (DiskConverges).                                                *)
(***************************************************************************)
THEOREM DisksConverge == Spec => []DiskConverges
<1>1. IInv /\ SyncInv => DiskConverges
  <2> SUFFICES ASSUME SyncInv, NEW d \in Device, Settled(d), ~clamped[d], ~refused[d]
               PROVE  disk[d] = srv
    BY DEF DiskConverges
  <2>1. Good(d) /\ ~Pending(d) /\ ~behind[d] /\ ~fresh[d] /\ ~window[d]
    BY DEF Settled, Good, Pending
  <2>2. Arrived(d) /\ Drained(d)
    BY DEF SyncInv, DeviceInv
  <2> QED
    BY <2>1, <2>2 DEF Arrived, Drained
<1> QED
  BY <1>1, SyncHolds, PTL

(***************************************************************************)
(* StampsAgree: on such a device, with nothing pending and the newest row  *)
(* staged, equal stamps of disk and staging name equal content, so that    *)
(* decideStagingRow skips no news (EqualStampsAgree).                      *)
(***************************************************************************)
THEOREM StampsAgree == Spec => []EqualStampsAgree
<1>1. IInv /\ SyncInv => EqualStampsAgree
  <2> SUFFICES ASSUME IInv, SyncInv, NEW d \in Device,
                      staged[d] # None, disk[d] # None, ~Pending(d), ~behind[d],
                      ~clamped[d], ~refused[d],
                      staged[d].stamp = disk[d].stamp, staged[d].stamp # Pristine
               PROVE  staged[d].content = disk[d].content
    BY DEF EqualStampsAgree
  <2>1. DeviceInv(d) /\ staged[d] = srv /\ staged[d] \in Rows /\ Good(d)
    BY DeviceTyped DEF SyncInv, DeviceInv, Arrived, Good
  <2>2. ~Applies(d, staged[d])
    BY DEF Applies, AppliesToDisk
  <2> QED
    BY <2>1, <2>2, SkippedIsKnown
<1> QED
  BY <1>1, SyncHolds, PTL

(***************************************************************************)
(* CachesConverge: what such a device shows, if it has read the block, is  *)
(* the server's content; two pristine rows are the exception               *)
(* (CacheConverges).                                                       *)
(***************************************************************************)
THEOREM CachesConverge == Spec => []CacheConverges
<1>1. IInv /\ SyncInv => CacheConverges
  <2> SUFFICES ASSUME IInv, SyncInv, NEW d \in Device,
                      Settled(d), ~clamped[d], ~refused[d], cache[d] # None
               PROVE  \/ cache[d].content = srv.content
                      \/ cache[d].stamp = Pristine /\ srv.stamp = Pristine
    BY DEF CacheConverges
  <2>1. Good(d) /\ ~Pending(d) /\ ~behind[d] /\ ~fresh[d] /\ ~window[d]
    BY DEF Settled, Good, Pending
  <2>2. Arrived(d) /\ Drained(d) /\ Cached(d)
    BY DEF SyncInv, DeviceInv
  <2>3. disk[d] = srv
    BY <2>1, <2>2 DEF Arrived, Drained
  <2>4. disk[d] # None /\ disk[d].stamp <= cache[d].stamp /\ FromServer(cache[d])
    BY <2>1, <2>2 DEF Cached
  <2>5. cache[d].stamp = srv.stamp
    <3>1. cache[d].stamp \in Nat /\ srv.stamp \in Nat
      BY <2>3, <2>4, DeviceTyped, RowFields
    <3> QED
      BY <2>3, <2>4, <3>1 DEF FromServer, Matches
  <2>6. CASE cache[d].stamp # Pristine
    <3>1. \A c \in Column : cache[d].content[c] = srv.content[c]
      BY <2>4, <2>5, <2>6 DEF FromServer, Matches
    <3>2. cache[d] = srv
      BY <2>3, <2>4, <2>5, <3>1, RowsAgree, DeviceTyped
    <3> QED
      BY <3>2
  <2> QED
    BY <2>5, <2>6
<1> QED
  BY <1>1, SyncHolds, PTL
=============================================================================
