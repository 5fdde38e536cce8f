----------------------------- MODULE RowVersion -----------------------------
(***************************************************************************)
(* The row-version arithmetic of the sync seam, as pure operators.         *)
(*                                                                         *)
(* `updated_at` of a block is a row version, not a display time.  Three    *)
(* parties compute one: the device that writes the row (txEngine.ts,       *)
(* metadataPatch and buildNewBlockRow), the server trigger that every      *)
(* upload passes through (blocks_clamp_updated_at), and the gates that     *)
(* compare two of them (decideStagingRow on disk, applyIfNewer in memory). *)
(* Stamps are milliseconds; 0 is the pristine sentinel of a row minted     *)
(* under a deterministic id (`systemMint`).                                *)
(***************************************************************************)
EXTENDS Naturals

CONSTANT Cap  \* max_trusted_skew_ms: how far past server-now a drift bump goes

ASSUME CapAssumption == Cap \in Nat

Pristine == 0

Larger(a, b) == IF a >= b THEN a ELSE b
Smaller(a, b) == IF a <= b THEN a ELSE b

(***************************************************************************)
(* The writing device.                                                     *)
(***************************************************************************)
\* Stamp of an edit of a row now at `before`: strictly newer than the row
\* even when the device's clock trails it (invariant I3 of the code).
LocalStamp(clock, before) == Larger(clock, before + 1)

\* Stamp of a new row: the pristine sentinel for a deterministic-id mint.
MintStamp(clock, systemMint) == IF systemMint THEN Pristine ELSE clock

(***************************************************************************)
(* The server.  `proposed` is the stamp the client sent.                   *)
(***************************************************************************)
\* Mutant: stamps an inserted row one millisecond before the clamp.
InsertStampEarly(now, proposed) == Smaller(proposed, now) - 1

\* INSERT: only the future-clamp applies.
InsertStamp(now, proposed) == Smaller(proposed, now)

\* Mutant: the trigger before drift was told apart.
DriftedNever(base, old) == FALSE

\* A patch drifted when its base is the sentinel (or absent, sent as the
\* sentinel) or is not the version the row is at.
Drifted(base, old) == base = Pristine \/ base # old

\* Mutant: forgets the version the row is at.
DriftBumpFromProposal(now, old, proposed) ==
  Larger(now, Smaller(proposed, now + Cap)) + 1

DriftBump(now, old, proposed) ==
  Larger(Larger(now, old), Smaller(proposed, now + Cap)) + 1

DriftStamp(now, old, proposed) ==
  LET bumped == DriftBump(now, old, proposed)
  IN IF bumped = proposed THEN bumped + 1 ELSE bumped

\* Mutant: content may change under an unchanged version.
FloorStampUnbumped(now, old, proposed, changed) == Larger(Smaller(proposed, now), old)

FloorStamp(now, old, proposed, changed) ==
  LET floored == Larger(Smaller(proposed, now), old)
  IN IF changed THEN Larger(floored, old + 1) ELSE floored

\* UPDATE by apply_block_patches of a row at `old`.
PatchStamp(now, old, base, proposed, changed) ==
  IF Drifted(base, old)
  THEN DriftStamp(now, old, proposed)
  ELSE FloorStamp(now, old, proposed, changed)

(***************************************************************************)
(* The gates of the receiving device.                                      *)
(***************************************************************************)
\* Mutant: does not look at the upload queue.
AppliesOverPending(staged, known, local, pending) ==
  ~(known /\ local = staged /\ local # Pristine)

\* Mutant: takes two pristine rows for the same row.
AppliesUnlessEqual(staged, known, local, pending) ==
  ~pending /\ ~(known /\ local = staged)

\* decideStagingRow for a materializable workspace: may the staged row be
\* written over the local one?  `known` says that a local row exists.
AppliesToDisk(staged, known, local, pending) ==
  /\ ~pending
  /\ ~(known /\ local = staged /\ local # Pristine)

\* Mutant: only fills an empty slot.
AppliesToEmptyCache(incoming, cached, stamp) == ~cached

\* BlockCache.applyIfNewer: may the row replace the cached snapshot?
AppliesToCache(incoming, cached, stamp) == ~cached \/ incoming > stamp
=============================================================================
