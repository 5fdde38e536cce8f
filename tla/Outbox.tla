------------------------------- MODULE Outbox -------------------------------
(***************************************************************************)
(* What the upload of local edits promises: the queue is settled from its  *)
(* head, and a transaction leaves it only once the server has all of it or *)
(* it is kept in the quarantine table.                                     *)
(***************************************************************************)
EXTENDS Naturals

CONSTANT Last  \* number of transactions

VARIABLES queued,      \* transactions 1 .. queued were committed locally
          settled,     \* transactions 1 .. settled have left the queue
          delivered,   \* the server has all of the transaction
          quarantined  \* the transaction is kept in ps_crud_rejected

outboxVars == <<queued, settled, delivered, quarantined>>

OutboxInit ==
  /\ queued = 0 /\ settled = 0
  /\ delivered = {} /\ quarantined = {}

\* A transaction with nothing left to send is delivered from the start.
Commit ==
  /\ queued < Last
  /\ queued' = queued + 1
  /\ delivered' \in {delivered, delivered \cup {queued + 1}}
  /\ UNCHANGED <<settled, quarantined>>

\* Any part of what is queued may arrive, in any order, before it is settled.
Deliver ==
  /\ delivered \subseteq delivered'
  /\ delivered' \subseteq delivered \cup (settled + 1 .. queued)
  /\ UNCHANGED <<queued, settled, quarantined>>

\* Only the head of the queue is ever given up on.
Quarantine ==
  /\ settled < queued
  /\ quarantined' = quarantined \cup {settled + 1}
  /\ UNCHANGED <<queued, settled, delivered>>

Settle ==
  /\ settled' \in settled + 1 .. queued
  /\ settled + 1 .. settled' \subseteq delivered \cup quarantined
  /\ UNCHANGED <<queued, delivered, quarantined>>

OutboxNext == Commit \/ Deliver \/ Quarantine \/ Settle

OutboxSpec == OutboxInit /\ [][OutboxNext]_outboxVars
=============================================================================
