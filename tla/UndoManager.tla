---------------------------- MODULE UndoManager ----------------------------
(***************************************************************************)
(* Undo and redo of one scope of a workspace.  An entry holds, for each    *)
(* block a transaction wrote, the row before and the row after; undo       *)
(* drives all of them back, one statement at a time, past the triggers     *)
(* that keep a live block from landing under a deleted one and two live    *)
(* blocks from sharing an alias.  An entry leaves its stack when the key   *)
(* is pressed and waits for the write lock; edits, sync and other presses  *)
(* happen meanwhile.                                                       *)
(***************************************************************************)
EXTENDS Naturals, Sequences, SequencesExt, FiniteSets

CONSTANTS
  Page,        \* blocks
  Alias,
  NoRow, NoParent, NoAlias, NoGroup,
  Paper,       \* the rows there are at first
  Edits,       \* what a transaction may write: [S -> rows], S \subseteq Page
  Drifts,      \* what sync may write, likewise
  Groups,      \* undo groups, and NoGroup
  MaxDepth,
  Allowed      \* bounds: [edits, drifts, line]: writes there may be, and
               \* presses in line at a time

Rows == [live : BOOLEAN, parent : Page \cup {NoParent}, alias : Alias \cup {NoAlias}]
          \cup {NoRow}

\* A transaction writes rows, and never takes one away.
ASSUME UndoAssumption ==
  /\ IsFiniteSet(Page) /\ Paper \in [Page -> Rows]
  /\ \A rows \in Edits : /\ DOMAIN rows \in (SUBSET Page) \ {{}}
                        /\ rows \in [DOMAIN rows -> Rows \ {NoRow}]
  /\ \A rows \in Drifts : DOMAIN rows \subseteq Page /\ rows \in [DOMAIN rows -> Rows]
  /\ NoParent \notin Page
  /\ NoRow \notin [live : BOOLEAN, parent : Page \cup {NoParent}, alias : Alias \cup {NoAlias}]
  /\ MaxDepth \in Nat \ {0}
  /\ Allowed \subseteq [edits : Nat, drifts : Nat, line : Nat]

VARIABLES
  page,      \* [Page -> NoRow or [live, parent, alias]]
  undo, redo,    \* the stacks: Seq(entry), the top last
  waiting,   \* Seq([entry, back]): replays in line for the write lock
  drifted,   \* ghost: blocks written other than by an edit or a replay
  raced,     \* ghost: something came between a press and its replay
  left       \* what is left of the bounds

undoVars == <<page, undo, redo, waiting, drifted, raced, left>>

UndoInit ==
  /\ page = Paper
  /\ undo = <<>> /\ redo = <<>> /\ waiting = <<>>
  /\ drifted = {} /\ raced = FALSE
  /\ left \in Allowed

Over(new, old) == [b \in Page |-> IF b \in DOMAIN new THEN new[b] ELSE old[b]]

Push(stack, entry) ==
  LET s == Append(stack, entry) IN IF Len(s) > MaxDepth THEN Tail(s) ELSE s
-----------------------------------------------------------------------------
(***************************************************************************)
(* The triggers on blocks.                                                 *)
(***************************************************************************)
Missing(rows, b) == rows[b] = NoRow
Live(rows, b) == ~Missing(rows, b) /\ rows[b].live

\* The blocks that keep row from being written at b, of the columns set.
InTheWay(rows, b, row, columns) ==
  IF row = NoRow \/ ~row.live THEN {}
  ELSE {c \in Page \ {b} :
          \/ "parent" \in columns /\ c = row.parent /\ ~Missing(rows, c) /\ ~rows[c].live
          \/ /\ "alias" \in columns /\ row.alias # NoAlias
             /\ Live(rows, c) /\ rows[c].alias = row.alias}

All == {"parent", "alias"}

Orphan(rows, row) == row # NoRow /\ row.parent # NoParent /\ Missing(rows, row.parent)

\* The columns an edit of b sets.
Columns(old, row) ==
  IF old = NoRow \/ old.live # row.live THEN All
  ELSE {col \in All : old[col] # row[col]}

\* A transaction that writes these rows, in an order of its own, commits.
Accepted(rows) ==
  LET page2 == Over(rows, page)
  IN \A b \in DOMAIN rows :
       /\ InTheWay(page2, b, rows[b], Columns(page[b], rows[b])) = {}
       /\ ~Orphan(page2, rows[b])
-----------------------------------------------------------------------------
(***************************************************************************)
(* Recording.                                                              *)
(***************************************************************************)
\* mergeSnapshotsInto: the earliest before, the latest after.
Merge(old, new) ==
  [b \in DOMAIN old \cup DOMAIN new |->
     [before |-> IF b \in DOMAIN old THEN old[b].before ELSE new[b].before,
      after  |-> IF b \in DOMAIN new THEN new[b].after ELSE old[b].after]]

\* record: a new action ends the redo branch and joins the group on top.
Record(new) ==
  /\ redo' = <<>>
  /\ undo' = IF undo # <<>> /\ new.group # NoGroup /\ Last(undo).group = new.group
             THEN Append(Front(undo), [Last(undo) EXCEPT !.snaps = Merge(@, new.snaps),
                                                         !.to = new.to])
             ELSE Push(undo, new)

\* A transaction of the user commits and is recorded.
Edit(rows, group) ==
  LET page2 == Over(rows, page)
  IN /\ left.edits > 0 /\ left' = [left EXCEPT !.edits = @ - 1]
     /\ page2 # page /\ Accepted(rows)
     /\ page' = page2
     /\ Record([snaps |-> [b \in DOMAIN rows |-> [before |-> page[b], after |-> rows[b]]],
                group |-> group, from |-> page, to |-> page2])
     /\ raced' = (raced \/ waiting # <<>>)
     /\ UNCHANGED <<waiting, drifted>>

\* Sync, or a transaction that is not recorded: past the triggers.
Drift(rows) ==
  /\ left.drifts > 0 /\ left' = [left EXCEPT !.drifts = @ - 1]
  /\ page' = Over(rows, page)
  /\ drifted' = drifted \cup DOMAIN rows
  /\ UNCHANGED <<undo, redo, waiting, raced>>

\* The first batch of a backfill writes and clears the stacks: no entry is
\* left from before it.
Backfill(rows) ==
  /\ left.drifts > 0 /\ left' = [left EXCEPT !.drifts = @ - 1]
  /\ Accepted(rows)
  /\ page' = Over(rows, page)
  /\ undo' = <<>> /\ redo' = <<>>
  /\ raced' = (raced \/ waiting # <<>>)
  /\ UNCHANGED <<waiting, drifted>>
-----------------------------------------------------------------------------
(***************************************************************************)
(* Undo and redo.                                                          *)
(***************************************************************************)
PressUndo ==
  /\ undo # <<>> /\ Len(waiting) < left.line
  /\ undo' = Front(undo)
  /\ waiting' = Append(waiting, [entry |-> Last(undo), back |-> TRUE])
  /\ raced' = (raced \/ \E i \in DOMAIN waiting : ~waiting[i].back)
  /\ UNCHANGED <<page, redo, drifted, left>>

PressRedo ==
  /\ redo # <<>> /\ Len(waiting) < left.line
  /\ redo' = Front(redo)
  /\ waiting' = Append(waiting, [entry |-> Last(redo), back |-> FALSE])
  /\ raced' = (raced \/ \E i \in DOMAIN waiting : waiting[i].back)
  /\ UNCHANGED <<page, undo, drifted, left>>

\* The rows a replay drives its blocks to.
Target(replay) ==
  LET snaps == replay.entry.snaps
  IN [b \in DOMAIN snaps |-> IF replay.back THEN snaps[b].before ELSE snaps[b].after]

\* replayApplicationOrder: live rows first, parents before children; rows of
\* equal depth as the map holds them.
Orders(target) ==
  LET live == {b \in DOMAIN target : target[b] # NoRow /\ target[b].live}
      depth[b \in live] == IF target[b].parent \in live THEN 1 + depth[target[b].parent] ELSE 0
      rank(b) == IF b \in live THEN depth[b] ELSE Cardinality(Page)
  IN {s \in SetToSeqs(DOMAIN target) :
        \A i, j \in DOMAIN s : i < j => rank(s[i]) <= rank(s[j])}

\* applyRaw of one row: a row that was not there is deleted softly.
Put(rows, b, row) ==
  IF row # NoRow THEN [rows EXCEPT ![b] = row]
  ELSE IF Missing(rows, b) THEN rows ELSE [rows EXCEPT ![b].live = FALSE]

\* One row of a pass: what a trigger of the two rejects is deferred, what has
\* no parent at all throws.
Try(target, state, b) ==
  IF Orphan(state.rows, target[b]) THEN [state EXCEPT !.thrown = TRUE]
  ELSE IF InTheWay(state.rows, b, target[b], All) # {}
       THEN [state EXCEPT !.todo = Append(@, b)]
       ELSE [state EXCEPT !.rows = Put(@, b, target[b])]

\* One pass over the rows still to do.
Pass(target, start) ==
  LET after[i \in 0 .. Len(start.todo)] ==
        IF i = 0 THEN [start EXCEPT !.todo = <<>>]
        ELSE Try(target, after[i - 1], start.todo[i])
  IN after[Len(start.todo)]

\* Mutant: what is rejected once is given up.
Once(target, order) == Pass(target, [rows |-> page, todo |-> order, thrown |-> FALSE])

\* _replay: pass after pass, as long as something gets done.
Worklist(target, order) ==
  LET after[n \in 0 .. Len(order)] ==
        IF n = 0 THEN [rows |-> page, todo |-> order, thrown |-> FALSE]
        ELSE Pass(target, after[n - 1])
  IN after[Len(order)]

\* The replay at the head of the line has the lock.  It is one transaction:
\* done, and its entry goes to the other stack, or undone, and it goes back.
Replay ==
  /\ waiting # <<>>
  /\ waiting' = Tail(waiting)
  /\ LET replay == Head(waiting)
         target == Target(replay)
     IN \E order \in Orders(target) :
          LET end == Worklist(target, order)
              done == ~end.thrown /\ end.todo = <<>>
          IN /\ page' = IF done THEN end.rows ELSE page
             /\ undo' = IF replay.back # done THEN Push(undo, replay.entry) ELSE undo
             /\ redo' = IF replay.back = done THEN Push(redo, replay.entry) ELSE redo
             /\ raced' = (raced \/ (~done /\ waiting' # <<>>))
  /\ UNCHANGED <<drifted, left>>

\* A replay throws before it gets the lock: the workspace is read-only, or
\* was switched while it waited.
ReplayThrows ==
  \E i \in DOMAIN waiting :
    /\ waiting' = RemoveAt(waiting, i)
    /\ LET replay == waiting[i]
       IN /\ undo' = IF replay.back THEN Push(undo, replay.entry) ELSE undo
          /\ redo' = IF replay.back THEN redo ELSE Push(redo, replay.entry)
    /\ raced' = (raced \/ i < Len(waiting))
    /\ UNCHANGED <<page, drifted, left>>

UndoNext ==
  \/ \E rows \in Edits, group \in Groups : Edit(rows, group)
  \/ \E rows \in Drifts : Drift(rows)
  \/ \E rows \in Edits : Backfill(rows)
  \/ PressUndo \/ PressRedo \/ Replay \/ ReplayThrows

UndoSpec == UndoInit /\ [][UndoNext]_undoVars
-----------------------------------------------------------------------------
EntryOK(e) ==
  /\ DOMAIN e.snaps \in (SUBSET Page) \ {{}}
  /\ \A b \in DOMAIN e.snaps : e.snaps[b] \in [before : Rows, after : Rows \ {NoRow}]
  /\ e.group \in Groups
  /\ e.from \in [Page -> Rows] /\ e.to \in [Page -> Rows]

UndoTypeOK ==
  /\ page \in [Page -> Rows]
  /\ Len(undo) <= MaxDepth /\ Len(redo) <= MaxDepth
  /\ \A e \in Range(undo) \cup Range(redo) : EntryOK(e)
  /\ \A i \in DOMAIN waiting : EntryOK(waiting[i].entry) /\ waiting[i].back \in BOOLEAN
  /\ drifted \subseteq Page

\* A row that is not there is as good as a deleted one.
Alike(r, s) ==
  \/ r = s
  \/ r = NoRow /\ ~s.live
  \/ s = NoRow /\ ~r.live

\* Blocks of a replay of which each waits for another one to be rewritten:
\* two aliases that change places, a parent whose alias its child still has.
InCircle(target) ==
  \E S \in (SUBSET DOMAIN target) \ {{}} :
    \A b \in S : InTheWay(page, b, target[b], All) \cap S # {}

(***************************************************************************)
(* UndoIsExact: with nothing in between, an undo takes every block that    *)
(* sync has left alone to the row it had before the entry's transactions,  *)
(* a redo to the one it had after them, those the entry does not write     *)
(* included; and it fails only over a block sync has written, or over a    *)
(* circle.                                                                 *)
(***************************************************************************)
UndoIsExact ==
  [][Replay /\ ~raced =>
       LET replay == Head(waiting)
           meant == IF replay.back THEN replay.entry.from ELSE replay.entry.to
       IN \/ \A b \in Page \ drifted : Alike(page'[b], meant[b])
          \/ page' = page /\ (drifted # {} \/ InCircle(Target(replay)))]_undoVars
=============================================================================
