----------------------------- MODULE ServerRow -----------------------------
(***************************************************************************)
(* One row of the server's `blocks` table under arbitrary callers of       *)
(* apply_block_creates and apply_block_patches.  Nothing is assumed of a   *)
(* caller: it proposes any stamp, claims any base, sends any content.      *)
(* This is what a device may rely on; BlockSync implements it.             *)
(***************************************************************************)
EXTENDS RowVersion

CONSTANTS Content,   \* values of the content columns, taken together
          NoRow,     \* the row does not exist
          Stamps,    \* stamps and bases callers may send
          MaxClock   \* bound on the server's clock

ASSUME StampsAssumption == Stamps \subseteq Nat
ASSUME ClockAssumption == MaxClock \in Nat
ASSUME NoRowAssumption == NoRow \notin [stamp : Nat, content : Content]

VARIABLES clock,  \* the server's clock, in milliseconds
          row     \* the row, or NoRow

serverVars == <<clock, row>>

Rows == [stamp : Nat, content : Content]

ServerTypeOK ==
  /\ clock \in Nat
  /\ row \in Rows \cup {NoRow}

ServerInit ==
  /\ clock = 1
  /\ row = NoRow

ServerTick ==
  /\ clock < MaxClock
  /\ clock' = clock + 1
  /\ UNCHANGED row

\* One element of apply_block_creates: an insert, or a touch that changes
\* nothing of an existing row.
ServerCreate(proposed, content) ==
  /\ row' = IF row = NoRow
            THEN [stamp |-> InsertStamp(clock, proposed), content |-> content]
            ELSE row
  /\ UNCHANGED clock

\* One element of apply_block_patches.  A missing row raises P0002 and the
\* call leaves no trace.
ServerPatch(base, proposed, content) ==
  /\ row # NoRow
  /\ row' = [stamp |-> PatchStamp(clock, row.stamp, base, proposed,
                                  content # row.content),
             content |-> content]
  /\ UNCHANGED clock

ServerNext ==
  \/ ServerTick
  \/ \E p \in Stamps, c \in Content : ServerCreate(p, c)
  \/ \E b \in Stamps, p \in Stamps, c \in Content : ServerPatch(b, p, c)

ServerSpec == ServerInit /\ [][ServerNext]_serverVars

(***************************************************************************)
(* Monotone: whatever the callers send, a version never regresses, a row   *)
(* never vanishes, and content that changed carries a strictly newer       *)
(* version (blocks_clamp_updated_at, floor and content bump).              *)
(***************************************************************************)
StepIsMonotone ==
  row # NoRow =>
    /\ row' # NoRow
    /\ row'.stamp >= row.stamp
    /\ row'.content # row.content => row'.stamp > row.stamp

Monotone == [][StepIsMonotone]_serverVars
=============================================================================
