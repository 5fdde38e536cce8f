----------------------------- MODULE BlockSync -----------------------------
(***************************************************************************)
(* One block on several devices and on the server: local edits, the upload *)
(* queue ps_crud, the server's row, the staging table blocks_synced with   *)
(* its change queue, the observer's two-phase drain, and the cache.        *)
(*                                                                         *)
(* A device writes the block to disk and queues the write for upload in    *)
(* one transaction.  Uploads are batched and compacted; creates and        *)
(* patches are separate calls, either of which may fail or lose its        *)
(* answer.  PowerSync delivers the server's row to a device with an empty  *)
(* upload queue; the observer decides outside a transaction whether to     *)
(* apply it, and decides again inside one.                                 *)
(***************************************************************************)
EXTENDS RowVersion, Integers, Sequences, FiniteSets, FiniteSetsExt

CONSTANTS
  Device,
  Column,      \* content columns of the block
  Value,       \* values of a column
  Blank,       \* value of every column of a row created under a random id
  Skew,        \* [Device -> Int]: a device's clock minus the server's
  Template,    \* [Device -> Value]: the content a mint starts from
  None,        \* no row, nothing
  MaxNow,      \* bound on the server's clock
  Scenarios    \* bounds: what there may be of each event, and in all

ASSUME SkewAssumption == Skew \in [Device -> Int]
\* minters: the devices that mint the row under a deterministic id; none does
\* when it is made under a random one.  faults: failed upload attempts and
\* reloads.  rejects: uploads the server refuses for good.  ticks: of the clock.
Bounds == [minters : SUBSET Device, ticks : 0 .. MaxNow - 1, edits : Nat, faults : Nat,
           rejects : Nat, rescans : Nat, events : Nat]

ASSUME BoundAssumption == MaxNow \in Nat \ {0} /\ Scenarios \subseteq Bounds

VARIABLES
  now,       \* the server's clock, in milliseconds
  srv,       \* the server's row, or None
  behind,    \* [Device -> BOOLEAN]: a server write not yet delivered
  staged,    \* [Device -> row or None]: blocks_synced
  fresh,     \* [Device -> BOOLEAN]: queued change outside the drain's window
  window,    \* [Device -> BOOLEAN]: queued change inside the drain's window
  drain,     \* [Device -> [phase, row]]: the observer's current window
  disk,      \* [Device -> row or None]: blocks
  cache,     \* [Device -> row or None]: BlockCache
  crud,      \* [Device -> Seq(op)]: ps_crud, one transaction per op
  upload,    \* [Device -> [n, sent]]: the upload attempt in progress
  left,      \* what is left of the scenario's bounds
  clamped,   \* [Device -> BOOLEAN]: history, it proposed a stamp of the future
  refused    \* [Device -> BOOLEAN]: history, one of its writes was refused

deviceVars == <<staged, fresh, window, drain, disk, cache, crud, upload>>
history == <<clamped, refused>>
vars == <<now, srv, behind, deviceVars, left, history>>

Contents == [Column -> Value]
Rows == [stamp : Nat, content : Contents]

ASSUME ContentAssumption ==
  /\ Blank \in Value /\ Template \in [Device -> Value]
  /\ None \notin Rows

Row(stamp, content) == [stamp |-> stamp, content |-> content]
Uniform(v) == [c \in Column |-> v]

Idle == [phase |-> "idle", row |-> None]
NoUpload == [n |-> 0, sent |-> "nothing"]

Clock(d) == IF now + Skew[d] > 1 THEN now + Skew[d] ELSE 1

Pending(d) == crud[d] # <<>>

\* An event of this kind fits the bounds.
Happens(kind) ==
  /\ left[kind] > 0 /\ left.events > 0
  /\ left' = [left EXCEPT ![kind] = @ - 1, !.events = @ - 1]

\* An upload entry: the full row for an insert, the changed columns for an
\* update with the version the update was made against.
Put(row) == [kind |-> "put", cols |-> row.content, stamp |-> row.stamp, base |-> Pristine]
Patch(cols, stamp, base) ==
  [kind |-> "patch", cols |-> cols, stamp |-> stamp, base |-> base]

\* Mutant: a patch replaces the row.
OverlayNothing(cols, content) == cols

Overlay(cols, content) ==
  [c \in Column |-> IF c \in DOMAIN cols THEN cols[c] ELSE content[c]]

\* The patches among the first n queued transactions, by position.
PatchesIn(queue, n) == {i \in 1 .. n : queue[i].kind = "patch"}

\* Mutant: keeps the base of the last patch.
MergePatchesLastBase(queue, patches) ==
  LET writers(c) == {i \in patches : c \in DOMAIN queue[i].cols}
      touched == {c \in Column : writers(c) # {}}
  IN Patch([c \in touched |-> queue[Max(writers(c))].cols[c]],
           queue[Max(patches)].stamp, queue[Max(patches)].base)

(***************************************************************************)
(* compactBlockCrudEntries over the patches of a batch: the latest value   *)
(* of each column, the latest stamp, the base of the first.                *)
(***************************************************************************)
MergePatches(queue, patches) ==
  LET writers(c) == {i \in patches : c \in DOMAIN queue[i].cols}
      touched == {c \in Column : writers(c) # {}}
  IN Patch([c \in touched |-> queue[Max(writers(c))].cols[c]],
           queue[Max(patches)].stamp, queue[Min(patches)].base)

BatchPatches(d) == PatchesIn(crud[d], upload[d].n)
-----------------------------------------------------------------------------
Init ==
  /\ now = 1
  /\ srv = None
  /\ behind = [d \in Device |-> FALSE]
  /\ staged = [d \in Device |-> None]
  /\ fresh = [d \in Device |-> FALSE]
  /\ window = [d \in Device |-> FALSE]
  /\ drain = [d \in Device |-> Idle]
  /\ disk = [d \in Device |-> None]
  /\ cache = [d \in Device |-> None]
  /\ crud = [d \in Device |-> <<>>]
  /\ upload = [d \in Device |-> NoUpload]
  /\ left \in Scenarios
  /\ clamped = [d \in Device |-> FALSE]
  /\ refused = [d \in Device |-> FALSE]

Tick ==
  /\ left.ticks > 0
  /\ now' = now + 1
  /\ left' = [left EXCEPT !.ticks = @ - 1]
  /\ UNCHANGED <<srv, behind, deviceVars, history>>
-----------------------------------------------------------------------------
(***************************************************************************)
(* Local writes: one transaction writes the row and its upload entry, then *)
(* the commit walk sets the cache unconditionally.                         *)
(***************************************************************************)
Commit(d, row, op) ==
  /\ disk' = [disk EXCEPT ![d] = row]
  /\ cache' = [cache EXCEPT ![d] = row]
  /\ crud' = [crud EXCEPT ![d] = Append(@, op)]
  /\ UNCHANGED <<now, srv, behind, staged, fresh, window, drain, upload, history>>

\* createOrGet of a deterministic id: an insert when the row is not there.
Mint(d) ==
  /\ d \in left.minters
  /\ disk[d] = None
  /\ LET row == Row(MintStamp(Clock(d), TRUE), Uniform(Template[d]))
     IN Commit(d, row, Put(row))
  /\ UNCHANGED left

\* create under a random id: no other device can have made the same row.
Create(d) ==
  /\ left.minters = {}
  /\ \A e \in Device : disk[e] = None /\ crud[e] = <<>>
  /\ srv = None
  /\ LET row == Row(MintStamp(Clock(d), FALSE), Uniform(Blank))
     IN Commit(d, row, Put(row))
  /\ UNCHANGED left

\* update of one column; writing the value it has is no write at all.
Edit(d, c, v) ==
  /\ Happens("edits")
  /\ disk[d] # None
  /\ disk[d].content[c] # v
  /\ LET stamp == LocalStamp(Clock(d), disk[d].stamp)
     IN Commit(d, Row(stamp, [disk[d].content EXCEPT ![c] = v]),
               Patch([col \in {c} |-> v], stamp, disk[d].stamp))
-----------------------------------------------------------------------------
(***************************************************************************)
(* Uploads.  A batch is a prefix of the queue (what was queued when the    *)
(* pass began, or one transaction in the fallback).  Its creates are one   *)
(* call, its merged patch the next.                                        *)
(***************************************************************************)
NoteClamp(d, proposed) ==
  clamped' = [clamped EXCEPT ![d] = @ \/ proposed > now]

\* Mutant: a full-row upsert, also of the row that is there.
SendUpserts(d) ==
  /\ upload[d] = NoUpload
  /\ \E n \in DOMAIN crud[d] :
       upload' = [upload EXCEPT ![d] = [n |-> n, sent |-> "creates"]]
  /\ LET put == crud[d][1]
     IN IF put.kind = "put"
        THEN /\ srv' = Row(InsertStamp(now, put.stamp), put.cols)
             /\ NoteClamp(d, put.stamp)
             /\ behind' = [e \in Device |-> TRUE]
        ELSE UNCHANGED <<srv, behind, clamped>>
  /\ UNCHANGED <<now, staged, fresh, window, drain, disk, cache, crud, left, refused>>

\* apply_block_creates: an insert, or a touch of the row that is there.
\* Either way a change is logged and every device is sent the row.
SendCreates(d) ==
  /\ upload[d] = NoUpload
  /\ \E n \in DOMAIN crud[d] :
       upload' = [upload EXCEPT ![d] = [n |-> n, sent |-> "creates"]]
  /\ LET put == crud[d][1]
     IN IF put.kind = "put"
        THEN /\ srv' = IF srv = None
                       THEN Row(InsertStamp(now, put.stamp), put.cols)
                       ELSE srv
             /\ NoteClamp(d, put.stamp)
             /\ behind' = [e \in Device |-> TRUE]
        ELSE UNCHANGED <<srv, behind, clamped>>
  /\ UNCHANGED <<now, staged, fresh, window, drain, disk, cache, crud, left, refused>>

\* apply_block_patches of the merged patch.  Without a row it raises P0002.
SendPatches(d) ==
  /\ upload[d].sent = "creates"
  /\ BatchPatches(d) # {}
  /\ srv # None
  /\ upload' = [upload EXCEPT ![d].sent = "all"]
  /\ LET patch == MergePatches(crud[d], BatchPatches(d))
         content == Overlay(patch.cols, srv.content)
     IN /\ srv' = Row(PatchStamp(now, srv.stamp, patch.base, patch.stamp,
                                 content # srv.content),
                      content)
        /\ NoteClamp(d, patch.stamp)
  /\ behind' = [e \in Device |-> TRUE]
  /\ UNCHANGED <<now, staged, fresh, window, drain, disk, cache, crud, left, refused>>

\* complete() of the batch's last transaction drains its whole prefix.
Complete(d) ==
  /\ \/ upload[d].sent = "all"
     \/ upload[d].sent = "creates" /\ BatchPatches(d) = {}
  /\ crud' = [crud EXCEPT ![d] = SubSeq(@, upload[d].n + 1, Len(@))]
  /\ upload' = [upload EXCEPT ![d] = NoUpload]
  /\ UNCHANGED <<now, srv, behind, staged, fresh, window, drain, disk, cache,
                 left, history>>

\* A call failed, or was applied and lost its answer: nothing is drained and
\* what was sent may have landed.
AttemptFails(d) ==
  /\ Happens("faults")
  /\ upload[d] # NoUpload
  /\ upload' = [upload EXCEPT ![d] = NoUpload]
  /\ UNCHANGED <<now, srv, behind, staged, fresh, window, drain, disk, cache,
                 crud, history>>

\* P0002 for a batch of patches: its transactions are tried one by one.
BatchMissesRow(d) ==
  /\ upload[d].n > 1
  /\ srv = None
  /\ upload' = [upload EXCEPT ![d].n = 1]
  /\ UNCHANGED <<now, srv, behind, staged, fresh, window, drain, disk, cache,
                 crud, left, history>>

\* The head transaction is refused for good: it is recorded in
\* ps_crud_rejected and drained.
DropHead(d) ==
  /\ crud' = [crud EXCEPT ![d] = Tail(@)]
  /\ upload' = [upload EXCEPT ![d] = NoUpload]
  /\ refused' = [refused EXCEPT ![d] = TRUE]
  /\ UNCHANGED <<now, srv, behind, staged, fresh, window, drain, disk, cache,
                 clamped>>

\* Mutant: a patch without a row is taken for a transient failure.
RetryMissing(d) ==
  /\ Pending(d) /\ crud[d][1].kind = "patch"
  /\ srv = None
  /\ upload[d] = [n |-> 1, sent |-> "creates"]
  /\ upload' = [upload EXCEPT ![d] = NoUpload]
  /\ UNCHANGED <<now, srv, behind, staged, fresh, window, drain, disk, cache,
                 crud, left, history>>

\* A patch of a row the server does not have is always refused (P0002).
RefuseMissing(d) ==
  /\ Pending(d) /\ crud[d][1].kind = "patch"
  /\ srv = None
  /\ upload[d] \in {NoUpload, [n |-> 1, sent |-> "creates"]}
  /\ DropHead(d)
  /\ UNCHANGED left

\* Anything else may be: a policy, a constraint, a spent retry budget.
Refuse(d) ==
  /\ Happens("rejects")
  /\ Pending(d)
  /\ \/ upload[d] = NoUpload
     \/ upload[d] = [n |-> 1, sent |-> "creates"] /\ crud[d][1].kind = "patch"
  /\ DropHead(d)
-----------------------------------------------------------------------------
(***************************************************************************)
(* PowerSync applies a checkpoint: it holds the server's row of a moment   *)
(* at which this device's writes were all in.  The triggers on             *)
(* blocks_synced queue the change.                                         *)
(***************************************************************************)
Deliver(d) ==
  /\ behind[d]
  /\ crud[d] = <<>>
  /\ behind' = [behind EXCEPT ![d] = FALSE]
  /\ staged' = [staged EXCEPT ![d] = srv]
  /\ fresh' = [fresh EXCEPT ![d] = TRUE]
  /\ UNCHANGED <<now, srv, window, drain, disk, cache, crud, upload, left, history>>

Applies(d, row) ==
  AppliesToDisk(row.stamp, disk[d] # None,
                IF disk[d] = None THEN Pristine ELSE disk[d].stamp, Pending(d))

CacheAccepts(d, row) ==
  AppliesToCache(row.stamp, cache[d] # None,
                 IF cache[d] = None THEN Pristine ELSE cache[d].stamp)

\* Phase 1 of materializeStagingRows: read and decide outside a transaction.
\* A row that does not apply is skipped; its queue entry is still consumed.
ReadWindow(d) ==
  /\ drain[d] = Idle
  /\ \E rescan \in BOOLEAN :
       /\ IF rescan
          THEN /\ Happens("rescans")
               /\ staged[d] # None
               /\ UNCHANGED <<fresh, window>>
          ELSE /\ fresh[d]
               /\ fresh' = [fresh EXCEPT ![d] = FALSE]
               /\ window' = [window EXCEPT ![d] = TRUE]
               /\ UNCHANGED left
       /\ drain' = [drain EXCEPT ![d] =
                      IF Applies(d, staged[d])
                      THEN [phase |-> "write", row |-> staged[d]]
                      ELSE [phase |-> "consume", row |-> None]]
  /\ UNCHANGED <<now, srv, behind, staged, disk, cache, crud, upload, history>>

\* Mutant: trusts what phase 1 decided.
WriteWindowUnchecked(d) ==
  /\ drain[d].phase = "write"
  /\ drain' = [drain EXCEPT ![d] = [phase |-> "consume", row |-> None]]
  /\ disk' = [disk EXCEPT ![d] = drain[d].row]
  /\ UNCHANGED <<now, srv, behind, staged, fresh, window, cache, crud, upload, left, history>>

\* Phase 2: decide again inside the transaction, write what phase 1 read,
\* then offer it to the cache.
WriteWindow(d) ==
  /\ drain[d].phase = "write"
  /\ drain' = [drain EXCEPT ![d] = [phase |-> "consume", row |-> None]]
  /\ LET row == drain[d].row
     IN IF Applies(d, row)
        THEN /\ disk' = [disk EXCEPT ![d] = row]
             /\ cache' = IF CacheAccepts(d, row) THEN [cache EXCEPT ![d] = row] ELSE cache
        ELSE UNCHANGED <<disk, cache>>
  /\ UNCHANGED <<now, srv, behind, staged, fresh, window, crud, upload, left, history>>

\* The queue entries of the window are deleted last.
ConsumeWindow(d) ==
  /\ drain[d].phase = "consume"
  /\ drain' = [drain EXCEPT ![d] = Idle]
  /\ window' = [window EXCEPT ![d] = FALSE]
  /\ UNCHANGED <<now, srv, behind, staged, fresh, disk, cache, crud, upload,
                 left, history>>

\* A reload loses memory: the cache, the drain and the upload attempt.  The
\* queue entries of an unconsumed window are still in the table.
Reload(d) ==
  /\ Happens("faults")
  /\ cache' = [cache EXCEPT ![d] = None]
  /\ drain' = [drain EXCEPT ![d] = Idle]
  /\ fresh' = [fresh EXCEPT ![d] = @ \/ window[d]]
  /\ window' = [window EXCEPT ![d] = FALSE]
  /\ upload' = [upload EXCEPT ![d] = NoUpload]
  /\ UNCHANGED <<now, srv, behind, staged, disk, crud, history>>

\* A query reads the row from disk and offers it to the cache.
Hydrate(d) ==
  /\ disk[d] # None
  /\ CacheAccepts(d, disk[d])
  /\ cache' = [cache EXCEPT ![d] = disk[d]]
  /\ UNCHANGED <<now, srv, behind, staged, fresh, window, drain, disk, crud,
                 upload, left, history>>
-----------------------------------------------------------------------------
Upload(d) ==
  SendCreates(d) \/ SendPatches(d) \/ Complete(d) \/ BatchMissesRow(d) \/ RefuseMissing(d)
Drain(d) == ReadWindow(d) \/ WriteWindow(d) \/ ConsumeWindow(d)

Next ==
  \/ Tick
  \/ \E d \in Device :
       \/ Mint(d) \/ Create(d)
       \/ \E c \in Column, v \in Value : Edit(d, c, v)
       \/ SendCreates(d) \/ SendPatches(d) \/ Complete(d)
       \/ AttemptFails(d) \/ BatchMissesRow(d) \/ RefuseMissing(d) \/ Refuse(d)
       \/ Deliver(d)
       \/ ReadWindow(d) \/ WriteWindow(d) \/ ConsumeWindow(d)
       \/ Reload(d) \/ Hydrate(d)

Spec == Init /\ [][Next]_vars

\* PowerSync calls uploadData again until the queue is empty and delivers
\* every checkpoint; the observer drains on every queued change.
Fairness ==
  \A d \in Device :
    WF_vars(Upload(d)) /\ WF_vars(Deliver(d)) /\ WF_vars(Drain(d))

FairSpec == Spec /\ Fairness
-----------------------------------------------------------------------------
Ops == [kind : {"put", "patch"}, cols : UNION {[C -> Value] : C \in SUBSET Column},
        stamp : Nat, base : Nat]

TypeOK ==
  /\ now \in Nat
  /\ srv \in Rows \cup {None}
  /\ behind \in [Device -> BOOLEAN]
  /\ staged \in [Device -> Rows \cup {None}]
  /\ fresh \in [Device -> BOOLEAN] /\ window \in [Device -> BOOLEAN]
  /\ drain \in [Device -> [phase : {"idle", "write", "consume"}, row : Rows \cup {None}]]
  /\ disk \in [Device -> Rows \cup {None}]
  /\ cache \in [Device -> Rows \cup {None}]
  /\ crud \in [Device -> Seq(Ops)]
  /\ upload \in [Device -> [n : Nat, sent : {"nothing", "creates", "all"}]]
  /\ left \in Bounds
  /\ clamped \in [Device -> BOOLEAN] /\ refused \in [Device -> BOOLEAN]

\* Nothing of device d is on its way up, down or through the drain.
Settled(d) ==
  /\ crud[d] = <<>> /\ upload[d] = NoUpload
  /\ ~behind[d] /\ ~fresh[d] /\ ~window[d]
  /\ drain[d] = Idle

(***************************************************************************)
(* PendingWritesOnDisk: until a local write has left the upload queue,     *)
(* nothing that arrives from the server is written over it: the row on     *)
(* disk has the newest pending stamp and, in each column, the newest       *)
(* pending value.  A delivery read before the write and applied after it   *)
(* is the case the second decision of materializeStagingRows is for.       *)
(***************************************************************************)
PendingWritesOnDisk ==
  \A d \in Device : \A i \in DOMAIN crud[d] :
    /\ disk[d] # None
    /\ i = Len(crud[d]) => disk[d].stamp = crud[d][i].stamp
    /\ \A c \in DOMAIN crud[d][i].cols :
         (\A j \in DOMAIN crud[d] : j > i => c \notin DOMAIN crud[d][j].cols)
         => disk[d].content[c] = crud[d][i].cols[c]

(***************************************************************************)
(* DiskConverges: a device with nothing in flight has the server's row on  *)
(* disk, version included, whatever the interleaving of edits, batches,    *)
(* lost answers, reloads and drains: the promise of decideStagingRow.  It  *)
(* is claimed of devices whose stamps the server never had to clamp and    *)
(* whose writes it never refused.                                          *)
(***************************************************************************)
DiskConverges ==
  \A d \in Device :
    Settled(d) /\ ~clamped[d] /\ ~refused[d] => disk[d] = srv

(***************************************************************************)
(* EqualStampsAgree (invariant I1, where the gate relies on it): once the  *)
(* newest server row is staged and no local write is pending, a nonzero    *)
(* stamp equal to the one on disk means equal content, so that the skip of *)
(* decideStagingRow loses nothing that no later delivery brings.           *)
(***************************************************************************)
EqualStampsAgree ==
  \A d \in Device :
    /\ staged[d] # None /\ disk[d] # None
    /\ ~Pending(d) /\ ~behind[d] /\ ~clamped[d] /\ ~refused[d]
    /\ staged[d].stamp = disk[d].stamp /\ staged[d].stamp # Pristine
    => staged[d].content = disk[d].content

(***************************************************************************)
(* CacheConverges: a settled device that never stamped ahead of the server *)
(* shows the server's content, and does not only store it.  Two pristine   *)
(* rows are the exception: applyIfNewer cannot order 0 and 0.              *)
(***************************************************************************)
CacheConverges ==
  \A d \in Device :
    Settled(d) /\ ~clamped[d] /\ ~refused[d] /\ cache[d] # None =>
      \/ cache[d].content = srv.content
      \/ cache[d].stamp = Pristine /\ srv.stamp = Pristine

(***************************************************************************)
(* AllConverge: once edits stop, every device gets to rest, and those of   *)
(* DiskConverges rest on the server's row.                                 *)
(***************************************************************************)
AllConverge ==
  <>[](\A d \in Device : Settled(d) /\ (clamped[d] \/ refused[d] \/ disk[d] = srv))

(***************************************************************************)
(* The next three are claims of comments in the code, which the model      *)
(* refutes (see README).                                                   *)
(*                                                                         *)
(* DrainNeverReverts: outside a rescan a drain never puts an older row     *)
(* over an edit the server has acknowledged (reconcile.ts, the rescan      *)
(* window of decideStagingRow).                                            *)
(***************************************************************************)
DrainNeverReverts ==
  [][\A d \in Device :
       disk'[d] # disk[d] /\ disk[d] # None /\ ~clamped[d] /\ ~refused[d]
         => disk'[d].stamp >= disk[d].stamp]_disk

(***************************************************************************)
(* RefusedEditRollsBack: a refused edit rolls back on the next reload,     *)
(* when the cache is read again from a disk the server has healed          *)
(* (reconcile.ts).                                                         *)
(***************************************************************************)
RefusedEditRollsBack ==
  \A d \in Device :
    Settled(d) /\ refused[d] /\ ~clamped[d] /\ srv # None => disk[d] = srv

(***************************************************************************)
(* CacheConvergesWithinSkew: only the cache of a client past the trusted   *)
(* skew rejects rows that the disk has taken (invalidate.ts); the device   *)
(* of the run is within it.                                                *)
(***************************************************************************)
CacheConvergesWithinSkew ==
  \A d \in Device :
    Settled(d) /\ ~refused[d] /\ disk[d] = srv /\ cache[d] # None =>
      \/ cache[d].content = srv.content
      \/ cache[d].stamp = Pristine /\ srv.stamp = Pristine
=============================================================================
