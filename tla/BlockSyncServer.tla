-------------------------- MODULE BlockSyncServer --------------------------
(***************************************************************************)
(* The server of BlockSync, seen alone, behaves as ServerRow: its row is   *)
(* changed only by creates and patches with some proposal and some base,   *)
(* however the devices batch, retry and lose answers.  So whatever is      *)
(* proved of ServerRow for arbitrary callers holds of the whole system.    *)
(***************************************************************************)
EXTENDS BlockSync

CONSTANT Stamp  \* the stamps and bases the devices may come to send

ASSUME StampAssumption == Stamp \subseteq Nat

Server == INSTANCE ServerRow
  WITH Content <- Contents, NoRow <- None, Stamps <- Stamp,
       MaxClock <- MaxNow, clock <- now, row <- srv

(***************************************************************************)
(* ServerImplemented: every step of the system is a step of ServerRow or   *)
(* leaves the server alone.                                                *)
(***************************************************************************)
ServerImplemented == Server!ServerSpec
=============================================================================
