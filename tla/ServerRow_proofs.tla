-------------------------- MODULE ServerRow_proofs --------------------------
(***************************************************************************)
(* The server half of invariant I1, for any clock, any skew cap and any    *)
(* sequence of calls, and what the row-version arithmetic it rests on      *)
(* guarantees for every clock and stamp.                                   *)
(***************************************************************************)
EXTENDS ServerRowHistory, TLAPS

USE CapAssumption, StampsAssumption, ClockAssumption, NoRowAssumption
(***************************************************************************)
(* A device never stamps an edit at or below the row it edits (I3).        *)
(***************************************************************************)
THEOREM LocalStampAdvances ==
  ASSUME NEW wall \in Nat, NEW before \in Nat
  PROVE  LocalStamp(wall, before) > before /\ LocalStamp(wall, before) \in Nat
  BY DEF LocalStamp, Larger

(***************************************************************************)
(* The server's version of a row never regresses, and strictly advances    *)
(* whenever the patch drifted or changed a content column.                 *)
(***************************************************************************)
THEOREM PatchStampAdvances ==
  ASSUME NEW now \in Nat, NEW old \in Nat, NEW base \in Nat,
         NEW proposed \in Nat, NEW changed \in BOOLEAN
  PROVE  LET new == PatchStamp(now, old, base, proposed, changed)
         IN /\ new \in Nat
            /\ new >= old
            /\ (changed \/ Drifted(base, old)) => new > old
<1>1. DriftStamp(now, old, proposed) \in Nat /\ DriftStamp(now, old, proposed) > old
  BY DEF DriftStamp, DriftBump, Larger, Smaller
<1>2. /\ FloorStamp(now, old, proposed, changed) \in Nat
      /\ FloorStamp(now, old, proposed, changed) >= old
      /\ changed => FloorStamp(now, old, proposed, changed) > old
  BY DEF FloorStamp, Larger, Smaller
<1>3. CASE Drifted(base, old)
  BY <1>1, <1>3 DEF PatchStamp
<1>4. CASE ~Drifted(base, old)
  BY <1>2, <1>4 DEF PatchStamp
<1>5. QED
  BY <1>3, <1>4

(***************************************************************************)
(* The stamp of a drifted patch is never the one its author proposed, so   *)
(* the echo that carries the merge is never mistaken on the author's disk  *)
(* for the author's own write.                                             *)
(***************************************************************************)
THEOREM DriftNeverEchoesTheProposal ==
  ASSUME NEW now \in Nat, NEW old \in Nat, NEW base \in Nat,
         NEW proposed \in Nat, NEW changed \in BOOLEAN,
         Drifted(base, old)
  PROVE  LET new == PatchStamp(now, old, base, proposed, changed)
         IN new # proposed /\ AppliesToDisk(new, TRUE, proposed, FALSE)
<1>1. DriftStamp(now, old, proposed) # proposed
  BY DEF DriftStamp, DriftBump, Larger, Smaller
<1>2. QED
  BY <1>1 DEF PatchStamp, AppliesToDisk

(***************************************************************************)
(* Within the trusted skew the echo of a drifted patch also out-stamps the *)
(* author's cached row, so the merge reaches the screen without a reload.  *)
(***************************************************************************)
THEOREM DriftEchoReachesTheCache ==
  ASSUME NEW now \in Nat, NEW old \in Nat, NEW base \in Nat,
         NEW proposed \in Nat, NEW changed \in BOOLEAN,
         Drifted(base, old), proposed <= now + Cap
  PROVE  AppliesToCache(PatchStamp(now, old, base, proposed, changed), TRUE, proposed)
<1>1. DriftStamp(now, old, proposed) > proposed
  BY DEF DriftStamp, DriftBump, Larger, Smaller
<1>2. QED
  BY <1>1 DEF PatchStamp, AppliesToCache

(***************************************************************************)
(* An undrifted patch from a device that is not ahead of the server keeps  *)
(* exactly the stamp the author wrote locally: its echo is recognised.     *)
(***************************************************************************)
THEOREM CleanEchoKeepsTheProposal ==
  ASSUME NEW now \in Nat, NEW old \in Nat, NEW base \in Nat,
         NEW proposed \in Nat, NEW changed \in BOOLEAN,
         ~Drifted(base, old), old < proposed, proposed <= now
  PROVE  PatchStamp(now, old, base, proposed, changed) = proposed
  BY DEF PatchStamp, FloorStamp, Larger, Smaller

(***************************************************************************)
(* The bound the migration states for a drift bump:                        *)
(* max(now + cap + 2, old + 2).                                            *)
(***************************************************************************)
THEOREM DriftStampBounded ==
  ASSUME NEW now \in Nat, NEW old \in Nat, NEW proposed \in Nat
  PROVE  DriftStamp(now, old, proposed) <= Larger(now + Cap + 2, old + 2)
  BY DEF DriftStamp, DriftBump, Larger, Smaller

(***************************************************************************)
(* An insert never lands above the proposal or above the server's clock.   *)
(***************************************************************************)
THEOREM InsertStampClamped ==
  ASSUME NEW now \in Nat, NEW proposed \in Nat
  PROVE  /\ InsertStamp(now, proposed) \in Nat
         /\ InsertStamp(now, proposed) <= proposed
         /\ InsertStamp(now, proposed) <= now
  BY DEF InsertStamp, Smaller
-----------------------------------------------------------------------------

(***************************************************************************)
(* Type correctness.                                                       *)
(***************************************************************************)
THEOREM ServerTypeCorrect == HistorySpec => []HistoryTypeOK
<1>1. HistoryInit => HistoryTypeOK
  BY DEF HistoryInit, ServerInit, HistoryTypeOK, ServerTypeOK, Rows
<1>2. HistoryTypeOK /\ [HistoryNext]_historyVars => HistoryTypeOK'
  <2> SUFFICES ASSUME HistoryTypeOK, [HistoryNext]_historyVars
               PROVE  HistoryTypeOK'
    OBVIOUS
  <2>1. ASSUME HistoryNext PROVE ServerTypeOK'
    <3>1. CASE ServerTick
      BY <3>1 DEF HistoryTypeOK, ServerTypeOK, ServerTick
    <3>2. ASSUME NEW p \in Stamps, NEW c \in Content, ServerCreate(p, c)
          PROVE  ServerTypeOK'
      <4>1. InsertStamp(clock, p) \in Nat
        BY InsertStampClamped DEF HistoryTypeOK, ServerTypeOK
      <4>2. QED
        BY <3>2, <4>1 DEF HistoryTypeOK, ServerTypeOK, ServerCreate, Rows
    <3>3. ASSUME NEW b \in Stamps, NEW p \in Stamps, NEW c \in Content,
                 ServerPatch(b, p, c)
          PROVE  ServerTypeOK'
      <4>1. row \in Rows
        BY <3>3 DEF HistoryTypeOK, ServerTypeOK, ServerPatch
      <4>2. PatchStamp(clock, row.stamp, b, p, c # row.content) \in Nat
        <5> DEFINE changed == c # row.content
        <5>1. /\ clock \in Nat /\ row.stamp \in Nat /\ b \in Nat /\ p \in Nat
              /\ changed \in BOOLEAN
          BY <4>1 DEF HistoryTypeOK, ServerTypeOK, Rows
        <5> HIDE DEF changed
        <5>2. PatchStamp(clock, row.stamp, b, p, changed) \in Nat
          BY <5>1, PatchStampAdvances
        <5>3. QED
          BY <5>2 DEF changed
      <4>3. QED
        BY <3>3, <4>2 DEF HistoryTypeOK, ServerTypeOK, ServerPatch, Rows
    <3>4. QED
      BY <2>1, <3>1, <3>2, <3>3 DEF HistoryNext, ServerNext
  <2>2. ASSUME HistoryNext PROVE (published \subseteq Rows)'
    BY <2>1, <2>2 DEF HistoryNext, Publish, HistoryTypeOK, ServerTypeOK
  <2>3. CASE UNCHANGED historyVars
    BY <2>3 DEF historyVars, HistoryTypeOK, ServerTypeOK
  <2>4. QED
    BY <2>1, <2>2, <2>3 DEF HistoryTypeOK
<1>3. QED
  BY <1>1, <1>2, PTL DEF HistorySpec

(***************************************************************************)
(* Every step is monotone in the version (StepIsMonotone).                 *)
(***************************************************************************)
LEMMA StepMonotone ==
  ASSUME HistoryTypeOK, [HistoryNext]_historyVars
  PROVE  StepIsMonotone
<1>1. SUFFICES ASSUME row # NoRow PROVE StepIsMonotone
  BY DEF StepIsMonotone
<1>2. row \in Rows /\ clock \in Nat
  BY <1>1 DEF HistoryTypeOK, ServerTypeOK
<1>3. CASE row' = row
  BY <1>1, <1>2, <1>3 DEF StepIsMonotone, Rows
<1>4. ASSUME NEW b \in Stamps, NEW p \in Stamps, NEW c \in Content,
             ServerPatch(b, p, c)
      PROVE  StepIsMonotone
  <2> DEFINE changed == c # row.content
             new == PatchStamp(clock, row.stamp, b, p, changed)
  <2>1. /\ row.stamp \in Nat /\ b \in Nat /\ p \in Nat
        /\ changed \in BOOLEAN
    BY <1>2 DEF Rows
  <2>2. row' = [stamp |-> new, content |-> c]
    BY <1>4 DEF ServerPatch
  <2> HIDE DEF changed
  <2>3. new \in Nat /\ new >= row.stamp /\ (changed => new > row.stamp)
    BY <1>2, <2>1, PatchStampAdvances
  <2> HIDE DEF new
  <2>4. row' # NoRow /\ row'.stamp = new /\ row'.content = c
    BY <2>2, <2>3
  <2>5. QED
    BY <2>3, <2>4 DEF StepIsMonotone, changed
<1>5. row' = row \/ \E b \in Stamps, p \in Stamps, c \in Content : ServerPatch(b, p, c)
  BY <1>1 DEF HistoryNext, ServerNext, ServerTick, ServerCreate, historyVars
<1>6. QED
  BY <1>3, <1>4, <1>5

(***************************************************************************)
(* The version never regresses and strictly advances with the content.     *)
(***************************************************************************)
THEOREM VersionsAreMonotone == HistorySpec => Monotone
<1>1. HistoryTypeOK /\ [HistoryNext]_historyVars => [StepIsMonotone]_serverVars
  BY StepMonotone
<1>2. QED
  BY <1>1, ServerTypeCorrect, PTL DEF HistorySpec, Monotone

(***************************************************************************)
(* The server never shows two contents under one version: the fact that    *)
(* lets a device skip a delivery whose stamp equals its own.  The proof    *)
(* strengthens it with RowIsNewest: a new content is always published      *)
(* under a stamp above every stamp published before.                       *)
(***************************************************************************)
THEOREM VersionNamesContentHolds == HistorySpec => []VersionNamesContent
<1> DEFINE Inv == RowIsNewest /\ VersionNamesContent
<1>1. HistoryInit => Inv
  BY DEF HistoryInit, ServerInit, RowIsNewest, VersionNamesContent
<1>2. HistoryTypeOK /\ HistoryTypeOK' /\ Inv /\ [HistoryNext]_historyVars => Inv'
  <2> SUFFICES ASSUME HistoryTypeOK, HistoryTypeOK', Inv, [HistoryNext]_historyVars
               PROVE  Inv'
    OBVIOUS
  <2>1. StepIsMonotone
    BY StepMonotone
  <2>2. CASE UNCHANGED historyVars
    BY <2>2 DEF historyVars, RowIsNewest, VersionNamesContent
  <2>3. CASE HistoryNext /\ row' = NoRow
    <3>1. row = NoRow /\ published' = {}
      BY <2>1, <2>3 DEF StepIsMonotone, RowIsNewest, HistoryNext, Publish
    <3>2. QED
      BY <2>3, <3>1 DEF RowIsNewest, VersionNamesContent
  <2>4. CASE HistoryNext /\ row' # NoRow
    <3>1. published' = published \cup {row'}
      BY <2>4 DEF HistoryNext, Publish
    <3>2. row' \in Rows /\ published \subseteq Rows
      BY <2>4 DEF HistoryTypeOK, ServerTypeOK
    <3>3. ASSUME NEW r \in published
          PROVE  r.stamp <= row'.stamp /\ (r.stamp = row'.stamp => r.content = row'.content)
      <4>1. row # NoRow /\ row \in published /\ r.stamp <= row.stamp
        BY <3>3 DEF RowIsNewest
      <4>2. row.stamp <= row'.stamp /\ (row'.content # row.content => row'.stamp > row.stamp)
        BY <2>1, <4>1, <3>2 DEF StepIsMonotone, Rows
      <4>3. r.stamp = row.stamp => r.content = row.content
        BY <4>1, <3>3 DEF VersionNamesContent
      <4>4. r.stamp \in Nat /\ row.stamp \in Nat /\ row'.stamp \in Nat
        BY <3>2, <3>3, <4>1 DEF Rows
      <4>5. QED
        BY <4>1, <4>2, <4>3, <4>4
    <3>4. RowIsNewest'
      <4>1. row'.stamp <= row'.stamp
        BY <3>2 DEF Rows
      <4>2. QED
        BY <2>4, <3>1, <3>3, <4>1 DEF RowIsNewest
    <3>5. VersionNamesContent'
      BY <3>1, <3>3 DEF VersionNamesContent
    <3>6. QED
      BY <3>4, <3>5
  <2>5. QED
    BY <2>2, <2>3, <2>4
<1>3. QED
  BY <1>1, <1>2, ServerTypeCorrect, PTL DEF HistorySpec
=============================================================================
