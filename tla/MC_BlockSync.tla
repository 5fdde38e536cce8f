---------------------------- MODULE MC_BlockSync ----------------------------
(***************************************************************************)
(* Two devices, two columns, two values.                                   *)
(***************************************************************************)
EXTENDS BlockSyncServer, TLC

CONSTANTS d1, d2, c1, c2, a, b

NoSkew == [d \in Device |-> 0]
OneSlow == (d1 :> 0 @@ d2 :> -1)
OneFast == (d1 :> 2 @@ d2 :> 0)
SameTemplate == [d \in Device |-> a]
TwoTemplates == (d1 :> a @@ d2 :> b)

Scenario(minters, ticks, edits, faults, rejects, rescans, events) ==
  [minters |-> minters, ticks |-> ticks, edits |-> edits, faults |-> faults,
   rejects |-> rejects, rescans |-> rescans, events |-> events]

Edits == {Scenario({}, 2, 3, 0, 0, 0, 3), Scenario({}, 2, 2, 1, 0, 0, 3)}
TwoEdits == {Scenario({}, 2, 2, 0, 0, 0, 2)}
Refusal == {Scenario({}, 2, 2, 0, 1, 0, 3)}
Anything == {Scenario({}, 1, 2, 0, 1, 0, 3), Scenario({}, 1, 2, 1, 1, 1, 2),
             Scenario({d1, d2}, 1, 1, 1, 1, 1, 2)}

Symmetric == Permutations({c1, c2}) \cup Permutations({d1, d2})
ColumnSymmetric == Permutations({c1, c2})
=============================================================================
