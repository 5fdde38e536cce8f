---------------------------- MODULE StagingQueue ----------------------------
(***************************************************************************)
(* The change queue between blocks_synced, the staging table PowerSync     *)
(* writes, and blocks, the table the program reads: the triggers that fill *)
(* the queue, and the observer that drains it in windows (observer.ts,     *)
(* materialize.ts), with its workspace rescans and the one-time reconcile  *)
(* job of repo.ts.                                                         *)
(*                                                                         *)
(* One workspace.  A row is known by its version, the queue position of    *)
(* its delivery.  Local edits are left to BlockSync: here the gate of      *)
(* decideStagingRow is "differs from what is on disk".  Each tab of the    *)
(* browser has an observer of its own over the one database.               *)
(***************************************************************************)
EXTENDS Naturals, FiniteSets

CONSTANTS
  Id,          \* blocks of the workspace
  Tab,         \* open tabs
  Chunk,       \* changes per window (DEFAULT_DRAIN_CHUNK)
  None,        \* no row
  MaxChanges,  \* bound on deliveries and removals
  MaxFaults    \* bound on failures of any kind

ASSUME ChunkAssumption == Chunk \in Nat \ {0}
ASSUME StagingBoundAssumption == MaxChanges \in Nat /\ MaxFaults \in Nat
ASSUME NoneAssumption == None \notin Nat

VARIABLES
  staged,   \* [Id -> version or None]: blocks_synced
  blocks,   \* [Id -> version or None]: blocks
  queue,    \* set of [seq, id, op]: blocks_synced_changes
  lastSeq,  \* the last sequence number given (AUTOINCREMENT)
  open,     \* the workspace is materializable: its mode is pinned, its key held
  wanted,   \* [Tab -> BOOLEAN]: a flush waits on the observer's chain
  rescan,   \* [Tab -> {"no", "queued", "running"}]: a drainWorkspace
  job,      \* [Tab -> BOOLEAN]: runReconcileRescan awaits its drainWorkspace
  marker,   \* the reconcile job is recorded as done
  pass,     \* [Tab -> Pass]: the window the tab is working on
  missed,   \* history: ids whose change was consumed without being applied
  scanned,  \* history: some rescan went through to its end
  faults

tables == <<staged, blocks, queue, lastSeq, open, marker>>
chain == <<wanted, rescan, job, pass>>
vars == <<tables, chain, missed, scanned, faults>>

Versions == (1 .. MaxChanges) \cup {None}
Changes == [seq : 1 .. MaxChanges, id : Id, op : {"upsert", "delete"}]

\* entries: the queue entries of the window; ids: the blocks to read;
\* rows: what phase 1 read and decided to apply; skip: what it deferred or
\* could not decrypt; todo: what a rescan has still to do.
NoPass == [phase |-> "idle", entries |-> {}, ids |-> {}, rows |-> [i \in {} |-> 0],
           skip |-> {}, todo |-> {}]

\* The n changes queued first.
Oldest(n, Q) == {e \in Q : Cardinality({f \in Q : f.seq < e.seq}) < n}

\* The blocks whose last change among Q is op.
LastlyChangedBy(op, Q) ==
  {i \in Id : \E e \in Q : /\ e.id = i /\ e.op = op
                           /\ \A f \in Q : f.id = i => f.seq <= e.seq}

Init ==
  /\ staged = [i \in Id |-> None]
  /\ blocks = [i \in Id |-> None]
  /\ queue = {} /\ lastSeq = 0
  /\ open \in BOOLEAN
  /\ wanted = [t \in Tab |-> TRUE]
  /\ rescan = [t \in Tab |-> "no"]
  /\ job = [t \in Tab |-> FALSE]
  /\ marker = FALSE
  /\ pass = [t \in Tab |-> NoPass]
  /\ missed = {} /\ scanned = FALSE
  /\ faults = 0
-----------------------------------------------------------------------------
(***************************************************************************)
(* PowerSync applies changes; every observer's onChange asks for a flush.  *)
(***************************************************************************)
Notify == wanted' = [t \in Tab |-> TRUE]

\* Mutant: without AUTOINCREMENT an emptied queue numbers from 1 again.
EnqueueReusing(Q, i, op) ==
  /\ lastSeq < MaxChanges
  /\ lastSeq' = lastSeq + 1
  /\ queue' = Q \cup {[seq |-> Cardinality(Q) + 1, id |-> i, op |-> op]}
  /\ Notify
  /\ UNCHANGED <<blocks, open, rescan, job, marker, pass, missed, scanned, faults>>

Enqueue(Q, i, op) ==
  /\ lastSeq < MaxChanges
  /\ lastSeq' = lastSeq + 1
  /\ queue' = Q \cup {[seq |-> lastSeq + 1, id |-> i, op |-> op]}
  /\ Notify
  /\ UNCHANGED <<blocks, open, rescan, job, marker, pass, missed, scanned, faults>>

\* blocks_synced_changes_insert drops a pending delete of the same block,
\* the one its own REPLACE has just queued included.
Arrive(i) ==
  /\ Enqueue({e \in queue : e.id = i => e.op # "delete"}, i, "upsert")
  /\ staged' = [staged EXCEPT ![i] = lastSeq + 1]

\* blocks_synced_changes_delete.
Leave(i) ==
  /\ staged[i] # None
  /\ Enqueue(queue, i, "delete")
  /\ staged' = [staged EXCEPT ![i] = None]
-----------------------------------------------------------------------------
(***************************************************************************)
(* The observer of tab t.  Its chain runs one unit at a time: a flush      *)
(* (drainQueueOnce) or a rescan (materializeWorkspace).                    *)
(***************************************************************************)
\* Read the next window of the queue, or stop at an empty one.
ReadQueue(t) ==
  /\ \/ pass[t].phase = "idle" /\ wanted[t] /\ wanted' = [wanted EXCEPT ![t] = FALSE]
     \/ pass[t].phase = "queue" /\ UNCHANGED wanted
  /\ LET window == Oldest(Chunk, queue)
     IN pass' = [pass EXCEPT ![t] =
          IF queue = {} THEN NoPass
          ELSE [NoPass EXCEPT !.phase = "rows", !.entries = window,
                              !.ids = LastlyChangedBy("upsert", window)]]
  /\ UNCHANGED <<tables, rescan, job, missed, scanned, faults>>

\* Mutant: takes a block that has left staging for a row.
ReadRowsOfAll(t) ==
  /\ pass[t].phase = "rows"
  /\ pass' = [pass EXCEPT ![t].phase = "write",
                ![t].rows = [i \in pass[t].ids |-> staged[i]]]
  /\ UNCHANGED <<tables, wanted, rescan, job, missed, scanned, faults>>

\* Phase 1 of materializeStagingRows: rows that are there and differ are to
\* be applied, unless the workspace defers or the row does not decrypt.
ReadRows(t) ==
  /\ pass[t].phase = "rows"
  /\ LET there == {i \in pass[t].ids : staged[i] # None}
         differ == {i \in there : staged[i] # blocks[i]}
         Found(skip) ==
           pass' = [pass EXCEPT ![t].phase = "write", ![t].skip = skip,
                      ![t].rows = [i \in differ \ skip |-> staged[i]]]
     IN \/ ~open /\ Found(there) /\ UNCHANGED faults
        \/ open /\ Found({}) /\ UNCHANGED faults
        \/ /\ open /\ faults < MaxFaults
           /\ \E corrupt \in SUBSET differ : corrupt # {} /\ Found(corrupt)
           /\ faults' = faults + 1
  /\ UNCHANGED <<tables, wanted, rescan, job, missed, scanned>>

\* What a window leaves behind once it is done with its blocks.
Account(done, skip) == missed' = (missed \ done) \cup skip

\* Mutant: removes what phase 1 was told to remove.
WriteRowsUnchecked(t) ==
  /\ pass[t].phase = "write" /\ rescan[t] # "running"
  /\ blocks' = [i \in Id |->
       IF i \in LastlyChangedBy("delete", pass[t].entries) THEN None
       ELSE IF i \in DOMAIN pass[t].rows THEN pass[t].rows[i] ELSE blocks[i]]
  /\ pass' = [pass EXCEPT ![t].phase = "consume"]
  /\ UNCHANGED <<staged, queue, lastSeq, open, marker, wanted, rescan, job,
                 missed, scanned, faults>>

\* Phase 2, one write transaction: the gate again, then the rows, then the
\* removals of blocks that are really gone from staging.
WriteRows(t) ==
  /\ pass[t].phase = "write"
  /\ LET rows == pass[t].rows
         gone == {i \in LastlyChangedBy("delete", pass[t].entries) : staged[i] = None}
     IN blocks' = [i \in Id |-> IF i \in gone THEN None
                                ELSE IF i \in DOMAIN rows THEN rows[i]
                                ELSE blocks[i]]
  /\ IF rescan[t] = "running"
     THEN /\ pass' = [pass EXCEPT ![t] = [NoPass EXCEPT !.phase = "scan", !.todo = pass[t].todo]]
          /\ Account(pass[t].ids, pass[t].skip)
     ELSE /\ pass' = [pass EXCEPT ![t].phase = "consume"]
          /\ UNCHANGED missed
  /\ UNCHANGED <<staged, queue, lastSeq, open, marker, wanted, rescan, job, scanned, faults>>

\* Mutant: deletes every change of the window's blocks.
ConsumeBlocks(t) ==
  /\ pass[t].phase = "consume"
  /\ LET entries == pass[t].entries
     IN /\ queue' = {e \in queue : \A f \in entries : e.id # f.id}
        /\ Account({e.id : e \in entries}, pass[t].skip)
  /\ pass' = [pass EXCEPT ![t] = NoPass]
  /\ Notify
  /\ UNCHANGED <<staged, blocks, lastSeq, open, marker, rescan, job, scanned, faults>>

\* DELETE ... WHERE seq <= maxSeq; a full window asks for another.
Consume(t) ==
  /\ pass[t].phase = "consume"
  /\ LET entries == pass[t].entries
     IN /\ queue' = {e \in queue : \A f \in entries : e.seq > f.seq}
        /\ Account({e.id : e \in entries}, pass[t].skip)
        /\ pass' = [pass EXCEPT ![t] =
             IF Cardinality(entries) < Chunk THEN NoPass
             ELSE [NoPass EXCEPT !.phase = "queue"]]
  /\ Notify
  /\ UNCHANGED <<staged, blocks, lastSeq, open, marker, rescan, job, scanned, faults>>

\* materializeWorkspace reads the ids once and takes them in windows.
StartRescan(t) ==
  /\ pass[t].phase = "idle" /\ rescan[t] = "queued"
  /\ rescan' = [rescan EXCEPT ![t] = "running"]
  /\ pass' = [pass EXCEPT ![t] = [NoPass EXCEPT !.phase = "scan",
                                    !.todo = {i \in Id : staged[i] # None}]]
  /\ UNCHANGED <<tables, wanted, job, missed, scanned, faults>>

NextChunk(t) ==
  /\ pass[t].phase = "scan" /\ pass[t].todo # {}
  /\ \E S \in SUBSET pass[t].todo :
       /\ S # {} /\ Cardinality(S) <= Chunk
       /\ Cardinality(S) = Chunk \/ S = pass[t].todo
       /\ pass' = [pass EXCEPT ![t].phase = "rows", ![t].ids = S, ![t].todo = @ \ S]
  /\ UNCHANGED <<tables, wanted, rescan, job, missed, scanned, faults>>

EndRescan(t) ==
  /\ pass[t].phase = "scan" /\ pass[t].todo = {}
  /\ pass' = [pass EXCEPT ![t] = NoPass]
  /\ rescan' = [rescan EXCEPT ![t] = "no"]
  /\ scanned' = TRUE
  /\ UNCHANGED <<tables, wanted, job, missed, faults>>

\* A unit throws: the chain reports it and goes on with the next unit.
UnitFails(t) ==
  /\ pass[t].phase # "idle"
  /\ faults < MaxFaults
  /\ faults' = faults + 1
  /\ pass' = [pass EXCEPT ![t] = NoPass]
  /\ rescan' = [rescan EXCEPT ![t] = IF @ = "running" THEN "no" ELSE @]
  /\ UNCHANGED <<tables, wanted, job, missed, scanned>>

\* Mutant: waits for a delivery before it drains what was queued.
ReloadWithoutFlush(t) ==
  /\ IF pass[t].phase = "idle"
     THEN UNCHANGED faults
     ELSE faults < MaxFaults /\ faults' = faults + 1
  /\ pass' = [pass EXCEPT ![t] = NoPass]
  /\ wanted' = [wanted EXCEPT ![t] = FALSE]
  /\ rescan' = [rescan EXCEPT ![t] = "no"]
  /\ job' = [job EXCEPT ![t] = FALSE]
  /\ UNCHANGED <<tables, missed, scanned>>

\* The page is loaded again: memory is lost, the first flush is asked for.
Reload(t) ==
  /\ IF pass[t].phase = "idle"
     THEN UNCHANGED faults
     ELSE faults < MaxFaults /\ faults' = faults + 1
  /\ pass' = [pass EXCEPT ![t] = NoPass]
  /\ wanted' = [wanted EXCEPT ![t] = TRUE]
  /\ rescan' = [rescan EXCEPT ![t] = "no"]
  /\ job' = [job EXCEPT ![t] = FALSE]
  /\ UNCHANGED <<tables, missed, scanned>>
-----------------------------------------------------------------------------
\* The workspace's gate is passed: its staged rows are to be read again.
Unlock(t) ==
  /\ ~open
  /\ open' = TRUE
  /\ rescan' = [rescan EXCEPT ![t] = "queued"]
  /\ UNCHANGED <<staged, blocks, queue, lastSeq, marker, wanted, job, pass,
                 missed, scanned, faults>>

\* Mutant: does not wait for the gate.
StartJobUngated(t) ==
  /\ ~marker /\ ~job[t] /\ rescan[t] = "no"
  /\ job' = [job EXCEPT ![t] = TRUE]
  /\ rescan' = [rescan EXCEPT ![t] = "queued"]
  /\ UNCHANGED <<tables, wanted, pass, missed, scanned, faults>>

\* runReconcileRescan: once per workspace and client, behind the gate.
StartJob(t) ==
  /\ open /\ ~marker /\ ~job[t] /\ rescan[t] = "no"
  /\ job' = [job EXCEPT ![t] = TRUE]
  /\ rescan' = [rescan EXCEPT ![t] = "queued"]
  /\ UNCHANGED <<tables, wanted, pass, missed, scanned, faults>>

\* ... its drainWorkspace settled; it does so even when the unit threw.
RecordMarker(t) ==
  /\ job[t] /\ rescan[t] = "no"
  /\ marker' = TRUE
  /\ job' = [job EXCEPT ![t] = FALSE]
  /\ UNCHANGED <<staged, blocks, queue, lastSeq, open, wanted, rescan, pass,
                 missed, scanned, faults>>
-----------------------------------------------------------------------------
Observe(t) ==
  \/ ReadQueue(t) \/ ReadRows(t) \/ WriteRows(t) \/ Consume(t)
  \/ StartRescan(t) \/ NextChunk(t) \/ EndRescan(t)

Next ==
  \/ \E i \in Id : Arrive(i) \/ Leave(i)
  \/ \E t \in Tab :
       \/ ReadQueue(t) \/ ReadRows(t) \/ WriteRows(t) \/ Consume(t)
       \/ StartRescan(t) \/ NextChunk(t) \/ EndRescan(t)
       \/ UnitFails(t) \/ Reload(t)
       \/ Unlock(t) \/ StartJob(t) \/ RecordMarker(t)

Spec == Init /\ [][Next]_vars

\* The chain runs on and, being first in first out, reaches a flush that
\* waits behind rescans; the page is opened again some day.
FairSpec ==
  Spec /\ \A t \in Tab :
    WF_vars(Observe(t)) /\ SF_vars(ReadQueue(t)) /\ WF_vars(Reload(t))
-----------------------------------------------------------------------------
Passes ==
  [phase : {"idle", "queue", "rows", "write", "consume", "scan"},
   entries : SUBSET Changes, ids : SUBSET Id,
   rows : UNION {[S -> 1 .. MaxChanges] : S \in SUBSET Id},
   skip : SUBSET Id, todo : SUBSET Id]

TypeOK ==
  /\ staged \in [Id -> Versions] /\ blocks \in [Id -> Versions]
  /\ queue \subseteq Changes
  /\ lastSeq \in 0 .. MaxChanges
  /\ open \in BOOLEAN /\ marker \in BOOLEAN /\ scanned \in BOOLEAN
  /\ wanted \in [Tab -> BOOLEAN] /\ job \in [Tab -> BOOLEAN]
  /\ rescan \in [Tab -> {"no", "queued", "running"}]
  /\ pass \in [Tab -> Passes]
  /\ missed \subseteq Id
  /\ faults \in Nat

(***************************************************************************)
(* NoSignalLost: a block whose row on disk is not the staged one is still  *)
(* in the queue, at every moment of a drain and with deliveries, failures  *)
(* and reloads in the middle of it; only a deferred or undecryptable row   *)
(* waits for a rescan instead.  It is why the queue is an append-only log  *)
(* with sequence numbers that are never reused and is consumed last.       *)
(***************************************************************************)
NoSignalLost ==
  \A i \in Id : blocks[i] = staged[i] \/ i \in missed \/ \E e \in queue : e.id = i

(***************************************************************************)
(* StagedRowsStay: a drain never hard-deletes a block that is staged: a    *)
(* delete read into a window may be overtaken by a new delivery.           *)
(***************************************************************************)
StagedRowsStay ==
  [][\A i \in Id : blocks[i] # None /\ blocks'[i] = None => staged[i] = None]_blocks

(***************************************************************************)
(* NothingStranded: rows that were deferred while the workspace was locked *)
(* are not forgotten after it is opened: a rescan is on its way, or the    *)
(* one-time job has not been recorded yet and will start one.  Claimed     *)
(* of one tab, without failures: it takes three for a stale window to      *)
(* write an old row after that.                                            *)
(***************************************************************************)
NothingStranded ==
  faults = 0 /\ open /\ marker => \A i \in missed :
    \/ blocks[i] = staged[i]
    \/ \E e \in queue : e.id = i
    \/ \E t \in Tab : rescan[t] # "no"

(***************************************************************************)
(* QueueEmpties: every queued change is consumed in the end, failed drains *)
(* included, if only by the flush of the next page load.                   *)
(***************************************************************************)
QueueEmpties == <>[](queue = {})

(***************************************************************************)
(* LastChangeWins: observer.ts says of a block whose deliveries fall into  *)
(* several windows that the window with its last change sets its final     *)
(* state; so at rest, with nothing deferred, disk and staging agree.  True *)
(* of one tab; the model refutes it for two (see README).                  *)
(***************************************************************************)
LastChangeWins ==
  queue = {} /\ missed = {} /\ (\A t \in Tab : pass[t].phase = "idle")
    => blocks = staged

(***************************************************************************)
(* MarkerAfterCleanPass: repo.ts says that the marker is recorded only     *)
(* after a clean pass.  The model refutes it (see README).                 *)
(***************************************************************************)
MarkerAfterCleanPass == marker => scanned
=============================================================================
