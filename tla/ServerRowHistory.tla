-------------------------- MODULE ServerRowHistory --------------------------
(***************************************************************************)
(* ServerRow with the set of all rows it ever showed, which is what the    *)
(* devices between them may still hold in a queue, a cache or on disk.     *)
(***************************************************************************)
EXTENDS ServerRow

CONSTANT MaxVersion  \* bound on the versions the row reaches

VARIABLE published   \* every row the server ever showed

historyVars == <<clock, row, published>>

HistoryInit == ServerInit /\ published = {}

Publish == published' = published \cup ({row'} \ {NoRow})

HistoryNext ==
  /\ row # NoRow => row.stamp < MaxVersion
  /\ ServerNext
  /\ Publish

HistorySpec == HistoryInit /\ [][HistoryNext]_historyVars

HistoryTypeOK == ServerTypeOK /\ published \subseteq Rows

(***************************************************************************)
(* VersionNamesContent (invariant I1 of the sync gate, server half): two   *)
(* rows the server ever showed under the same version had the same         *)
(* content.  decideStagingRow skips a delivery on the strength of this.    *)
(***************************************************************************)
VersionNamesContent ==
  \A r, s \in published : r.stamp = s.stamp => r.content = s.content

\* The strengthening that makes it inductive: the current row is the newest.
RowIsNewest ==
  /\ row = NoRow => published = {}
  /\ row # NoRow => row \in published
  /\ \A r \in published : r.stamp <= row.stamp
=============================================================================
