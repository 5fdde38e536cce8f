--------------------------- MODULE MC_Tab ------------------------------------
(***************************************************************************)
(* The handle store and the undo manager of a tab, side by side: in each   *)
(* initial state one of them has something to do.                          *)
(*                                                                         *)
(* Three blocks: edits create kid under twin, merge twin into keeper       *)
(* (which takes over its alias and its child), delete twin with its child, *)
(* swap the aliases of keeper and twin, or take that of keeper away.       *)
(***************************************************************************)
EXTENDS MC_HandleStore, UndoManager

CONSTANTS keeper, twin, kid, ax, ay, grp

Alive(parent, alias) == [live |-> TRUE, parent |-> parent, alias |-> alias]
Gone(parent, alias) == [live |-> FALSE, parent |-> parent, alias |-> alias]

Desk == (keeper :> Alive(NoParent, ax) @@ twin :> Alive(NoParent, ay) @@ kid :> NoRow)
Acts ==
  {(kid :> Alive(twin, NoAlias)),
   (keeper :> Alive(NoParent, ay) @@ twin :> Gone(NoParent, ay) @@ kid :> Alive(keeper, NoAlias)),
   (twin :> Gone(NoParent, ay) @@ kid :> Gone(twin, NoAlias)),
   (keeper :> Alive(NoParent, ay) @@ twin :> Alive(NoParent, ax)),
   (keeper :> Alive(NoParent, NoAlias))}
Syncs == {(twin :> Gone(NoParent, ay)), (twin :> NoRow), (kid :> Alive(keeper, ax))}

NoSession == [edits |-> 0, drifts |-> 0, line |-> 0]
Sessions == {NoSession, [edits |-> 2, drifts |-> 1, line |-> 2], [edits |-> 3, drifts |-> 0, line |-> 1]}

tabVars == <<vars, undoVars>>

TabInit == Init /\ UndoInit /\ (left = NoSession \/ data = (k1 :> 0 @@ k2 :> 0))

TabNext ==
  \/ left = NoSession /\ Next /\ UNCHANGED undoVars
  \/ UndoNext /\ UNCHANGED vars

TabSpec == TabInit /\ [][TabNext]_tabVars

\* The state of the store and of the undo manager is well typed.
TabTypeOK == TypeOK /\ UndoTypeOK
=============================================================================
