# Verification of Knowledge Medium

Knowledge Medium is a local-first outliner. A block is a row of a SQLite
table; every device edits its own copy at once and exchanges rows with a
Supabase Postgres through PowerSync. A daemon on the user's machine lets
agents answer blocks that mention them. This directory holds TLA+ models of
the code that keeps the copies together, of what a tab builds on its copy
(query handles, undo), and of the agent daemon and its bridge; TLC
configurations that check them on small instances; and TLAPS proofs of main
invariants for every value of the constants. Paths below are relative to the
repository's `src/` directory (files named alone are under
`data/internals/syncObserver/`, `packages/` and `supabase/` are beside `src/`);
the lines of every modelled definition are in `PROJECT.json` under `map`.

## 1. Inventory

### The path of an edit

    repo.tx -> commit pipeline -> blocks (SQLite) --trigger--> ps_crud
                |       |                                        |
                |       v                               upload orchestrator
                |   undo stacks                                  |
                v                                 apply_block_creates/_patches
    BlockCache, query handles                                    |
                ^                                                |
          sync observer <- blocks_synced(_changes) <- PowerSync <- server row

1. A transaction (`data/internals/txEngine.ts`, `data/internals/commitPipeline.ts`) writes
   `blocks`. A trigger (`data/internals/clientSchema.ts`) queues the full row of an insert or
   the changed columns of an update, with the version the update was made
   against, in `ps_crud`, in the same SQLite transaction. After the commit the
   cache and the query handles are walked and the undo manager records the
   rows before and after.
2. The upload orchestrator (`services/powersync.ts`) takes a prefix of
   `ps_crud`, compacts it, sends creates and then patches, and completes the
   prefix. On a failure it takes the transactions one at a time, retries,
   counts ambiguous answers against a budget, and quarantines what is refused.
3. The server's two functions and its clamp trigger (`supabase/migrations`)
   set the row's version `updated_at`.
4. PowerSync writes delivered rows into the staging table `blocks_synced`;
   triggers log each change in `blocks_synced_changes`.
5. The sync observer (`observer.ts`, `materialize.ts`) drains
   that log in windows: it reads and decides outside a transaction (decryption
   is asynchronous), decides again inside one, writes `blocks`, offers the rows
   to the cache and deletes the window's log entries last.

### The path of an ask

    agent:* properties of a block <-> agent daemon <-> bridge <-> a tab's poll loop

1. The user asks an agent in a block. The block's `agent:*` properties are the
   only record of the task; user, daemon and channel sessions all write them.
2. The daemon (`packages/agent-dispatch/src/engine.ts`) ticks: it reads the
   Stops, takes a view of all tasks, and launches those that are open, within
   its concurrency and its hourly budget. Each launched task claims its block,
   joins the session of its thread, runs an agent, writes progress and reply.
3. The daemon reaches the blocks through the bridge
   (`packages/agent-cli/src/server.ts`): commands are queued for the client id
   of an open tab, handed to its parked long-poll, run in the tab, and their
   results posted back.

### Components

| component | state it keeps | operations | what is hard | what makes it correct |
|---|---|---|---|---|
| Row versions | none (pure) | stamp, clamp, floor, drift bump, two gates | boundaries of equal, zero and clamped stamps | a version names one content; an author never takes a merged row for its own echo |
| Server row | `blocks.updated_at` and content | create, patch | arbitrary callers, clocks that disagree | versions are monotone and change with the content |
| Upload orchestrator | `ps_crud`, `ps_crud_rejected`, retry counts in memory, the pass | commit, batch pass, per-transaction pass, quarantine | lost answers, partial application, restarts, missing keys, an endless refusal | nothing leaves the queue undelivered and unrecorded; the queue drains |
| Staging queue and observer | `blocks_synced`, its change log, the chain of units, the marker | arrive, leave, window, rescan, job, unlock | deliveries inside a drain, failures between write and consume, several tabs | no change is forgotten or applied out of order |
| End-to-end sync of a block | all of the above for one block | local edits, uploads, deliveries, drains, reloads | interleavings of several devices | pending edits are never overwritten; disks and caches converge |
| Transaction engine, commit pipeline | snapshots, `tx_context`, events | read, write, tree moves, processors, rollback, cache walk | processors that write again, listeners that throw | all or nothing; cache equals disk after the walk |
| BlockCache, HandleStore | snapshots, handles, missing markers, generations | load, invalidate, notify, subscribe, dispose | a load's answer older than a commit, dependencies known only after reading, barriers | a handle at rest holds what a query would read; nothing is pushed out of date |
| Undo manager | two stacks per scope | record, merge, undo, redo | intermediate states the triggers reject, sync between an edit and its undo | a replay takes the blocks back exactly or changes nothing |
| Tree mutators, cycle scan, order keys | `parent_id`, `order_key` | move, indent, outdent, merge, delete a subtree | concurrent moves that close a cycle; equal keys | the tree stays a tree or is repaired |
| Maintenance jobs, backfill claim | markers, claim rows | claim, run, complete, release | two devices at once, stale reads | a marker means the work was done |
| Keys, mode pins, access gate | key store, pins | resolve, pin, unlock | a key that vanishes, a mode that changes | a pin never downgrades; nothing leaves unencrypted |
| Service worker | caches, ledger | install, activate, reap | old tabs and new workers | an open tab keeps its build |
| Agent daemon | task properties, launch log, runs in memory | tick, claim, run, reply, park | snapshots gone stale, crash between a run and its record, Stops that come late, follow-ups in a running thread | an ask is answered within its attempts and the budget; an answer stays |
| Agent bridge | clients, queues, parked polls, command records, in memory | register, poll, enqueue, result, expiry | a poll that expires or breaks as a command is handed to it, a page that goes away | a command is started once or lost for good, and its command line is told which; nobody hangs on a client that is gone |
| Attachments, SRS, UI, plugins, codecs, scripts | see `PROJECT.json` | | | |

`PROJECT.json` lists every component with its status, and under `hazards` what
is hard to test in this code, each at its line and with the properties that
would catch it.

## 2. Modules

| module | models | extends |
|---|---|---|
| `RowVersion` | the version arithmetic of device, server trigger and gates, as operators | |
| `ServerRow` | one server row under arbitrary callers of the two functions: the abstract server | `RowVersion` |
| `ServerRowHistory` | the same with every row it ever showed | `ServerRow` |
| `BlockSync` | one block on several devices and the server, end to end | `RowVersion` |
| `BlockSyncServer` | the refinement of `ServerRow` by `BlockSync` | `BlockSync` |
| `Outbox` | what uploading promises, abstractly | |
| `UploadQueue` | the upload orchestrator; refines `Outbox` | |
| `StagingQueue` | change log, observer, rescans, the reconcile job | |
| `HandleStore` | query handles: loads, invalidation, barriers, subscribers | |
| `UndoManager` | undo and redo of one scope, past the triggers on blocks | |
| `AgentDispatch` | the agent daemon over the tasks' properties | |
| `RemoteCall` | what the bridge promises command lines, abstractly | |
| `AgentBridge` | the bridge between command lines and a tab; refines `RemoteCall` | |
| `*_proofs` | theorems about the module they are named after; `ServerRow_proofs` also about `RowVersion`, `Upload_proofs` about `UploadQueue` and `MC_Upload`, `Tab_proofs` about `HandleStore` and `MC_Tab`, `Agents_proofs` about `AgentBridge` and `MC_Agents` | |
| `MC_*` | instances for TLC; `MC_Upload`, `MC_Tab` and `MC_Agents` hold two modules side by side | |

### RowVersion, ServerRow

Stamps are milliseconds, 0 the sentinel of a row minted under a deterministic
id (`systemMint`). `LocalStamp` is `metadataPatch`'s monotone stamp,
`InsertStamp` the insert branch of `blocks_clamp_updated_at`, `PatchStamp` its
update branch: a patch whose base is the sentinel or is not the version of the
row has *drifted* and gets a bump no proposal can equal (`DriftStamp`), any
other gets the floor and, when content changed, a strictly newer version
(`FloorStamp`). `AppliesToDisk` is `decideStagingRow`, `AppliesToCache`
`BlockCache.applyIfNewer`. `Cap` is `max_trusted_skew_ms`.

In `ServerRow` a caller may propose any stamp, claim any base and send any
content, so what holds there holds whatever clients do.

### BlockSync

Per device: `disk` (the row in `blocks`), `cache`, `crud` (queued operations,
one per transaction), `upload` (the attempt in progress), `staged`
(`blocks_synced`), `fresh` and `window` (the log entries outside and inside
the current window), `drain` (what phase 1 read), `behind` (the server wrote
something not yet delivered). Globally `now`, the server's clock, and `srv`.

| action | code |
|---|---|
| `Mint`, `Create`, `Edit` | `createOrGet`, `create`, `update` of a transaction, its trigger and the cache walk |
| `SendCreates`, `SendPatches`, `Complete` | the calls of an upload pass over a compacted batch, and its checkpoint |
| `AttemptFails`, `BatchMissesRow`, `RefuseMissing`, `Refuse` | failed or unanswered calls, the fallback, P0002 and other permanent errors |
| `Deliver` | PowerSync applying a checkpoint |
| `ReadWindow`, `WriteWindow`, `ConsumeWindow` | the three steps of a drain; `ReadWindow` also reads for a rescan |
| `Reload`, `Hydrate` | loss of memory; a query that fills the cache |

Choices worth knowing:

- PowerSync applies a checkpoint only to a client whose upload queue was empty
  and whose writes the checkpoint includes. Delivering the current server row
  to a device with an empty queue therefore loses no behaviour: a row of an
  older checkpoint would have been delivered earlier, and delivery is one step
  from staging, which may lag by any amount.
- A touch by `apply_block_creates` of a row that exists changes nothing, but
  is logged by the server, so it sets `behind` too.
- `clamped` remembers that a device proposed a stamp beyond the server's
  clock. That happens to devices with a fast clock and also when edits of one
  millisecond ratchet a stamp upwards. Convergence is claimed of the others.
- Encryption, columns other than content, soft deletion (a column like any
  other) and several blocks are left out.

### UploadQueue and Outbox

`complete()` is a prefix checkpoint, so the queue is two numbers, `head` and
`tail`. The pass (`mode`, `next`, `upto`) and the retry counts live in memory.
`landed` records which parts (creates, patches) of which transaction the
server has applied. `BatchRefused`, `SingleAmbiguous` and `SinglePermanent`
are unbounded: a server may refuse for ever. `BatchFails`, `SingleTransient`
and `QuarantineFails` are transient and bounded by `MaxBlips`. A batch's
chunks may land in part before it fails (`PartlyLands`). `Outbox` says only:
transactions are settled in order from the head, each delivered or
quarantined before it is settled, and only the head is ever quarantined.

### StagingQueue

One workspace of several blocks, known by the version of their last delivery.
`Enqueue` with `Arrive` and `Leave` are the triggers of `clientSchema.ts`;
`ReadQueue`, `ReadRows`, `WriteRows`, `Consume` are a window of
`drainQueueOnce`; `StartRescan`, `NextChunk`, `EndRescan` are
`materializeWorkspace`; `UnitFails` is a unit of the chain that throws,
`Reload` a page load, `Unlock` the passing of the access gate, `StartJob` and
`RecordMarker` the reconcile job of `repo.ts`. Each tab has its own chain over
the shared tables. Local edits are left to `BlockSync`: here the gate is
"differs from what is on disk". Throttling of the first flush and of flush
requests only delays them and is left out.

### HandleStore

`data` is what is committed, `unwalked` the commits whose walk
(`HandleStore.invalidate`) has not happened. A loader declares its root key
before it reads and the keys that depend on what it finds (`Linked`)
afterwards, as the kernel queries do with rows behind edges. Per handle: its
fields `status`, `value`, `deps`, `notified` (`notifiedValue`), `stale`,
`settleSeq`; the load in flight (`phase`, `snap`, `prior`, `barrier`, `dirty`,
`changed`); and `reload`, a microtask that is due.

| action | code |
|---|---|
| `Commit`, `Walk` | a transaction's commit; the later walk with `invalidate`, which opens a barrier when it reloads one of several matched handles |
| `ReadRows`, `Settle`, `Fail` | the query of the loader; the fulfilled and the rejected handler of `runLoader` |
| `Publish`, `LeaveBarrier` | `notify`, `flushQueuedNotify`, `NotifyBatch.finish` |
| `Reload` | the microtask queued after a dirty run |
| `Subscribe`, `Unsubscribe`, `Rerender` | `useHandle`: mount with `peek` and `subscribe`, unmount, a render for another reason |
| `Load`, `LoadFresh`, `CheckFresh` | `load()`; `loadFresh()` up to and after its await |
| `Dispose` | `dispose` by the collector, and the fresh handle a later lookup mints |

Microtasks run before tasks: the steps that a task starts wait while
`MicrotaskDue`.

### UndoManager

`page` is the table of a few blocks with what the triggers look at: live or
deleted, the parent, one alias. An entry of a stack keeps the rows before and
after for each block of its transactions; the ghosts `from` and `to` keep the
whole page, so that "exactly" can be said.

| action | code |
|---|---|
| `Edit` | a user's transaction, its triggers (`Accepted`) and `record`, with the group merge of `mergeSnapshotsInto` |
| `Drift` | sync or an unrecorded writer: past the triggers, not recorded |
| `Backfill` | the first batch of a backfill, which clears the stacks in its transaction |
| `PressUndo`, `PressRedo` | the synchronous part of `undo` and `redo`: the entry is popped and waits for the write lock |
| `Replay` | `_replay` under the lock: order, passes, deferred rows, and where the entry goes |
| `ReplayThrows` | a replay that throws before it writes: read-only, workspace switched |

`Orders` is `replayApplicationOrder`; rows of equal depth come in the order of
the entry's map, of which nothing is assumed. `Pass` tries the rows
still to do one after the other (`Try`), and `Worklist` repeats it; a pass that
gets nothing done leaves everything as it is, so going on is the same as
stopping there.

### AgentDispatch

`task` holds each block's `agent:*` properties, `job` the daemon's run of it
(`pc` is the await it is at), `tick` the tick in progress with the `view` it
took, `log` the launches it remembers within the hour, `ambient` what was
handed to a channel session.

| action | code |
|---|---|
| `Ask`, `Stop` | `askAgent`, `cancelAgent` |
| `SessionCloses`, `SessionDrops` | what a channel session does with an event |
| `SweepRead`, `SweepAbort` | `sweepCancellations` before and after its await |
| `List`, `PassOver`, `LaunchPark`, `Launch`, `Defer` | the scan over one snapshot; `Decide` is `decidePending` |
| `StartClearing`, `ClearInert` | the removal of a flag that has nothing to stop, the one await of the scan |
| `ReadTask`, `JoinThread`, `Claim`, `VerifyClaim`, `DeliverToChannel`, `SpawnAgent` | `processMention` up to the agent, one action per await |
| `SessionKnown`, `TextArrives`, `WriteQueued`, `AgentEnds` | the agent's events and the chain of progress writes |
| `WriteReply`, `CloseTask` | the terminal reply and properties |
| `*Fails`, `Note`, `Flip` | a call that fails, carried out or not; the catch block |
| `Park` | `parkExhausted` |
| `Die`, `GrowOld`, `HourPasses` | crash and restart, which may lose launch records not yet written; `STALE_RUNNING_MS`; the hour of the budget |

Between its awaits the scan runs to completion, so nothing else happens while
`tick.phase` is `"scan"`. One daemon serves a client: the pidfile and query
watchers are left out.

### RemoteCall, AgentBridge

`RemoteCall` is the bridge as a command line may picture it. A command is `out`
(refused, or not taken yet), `open`, and then either `started` once or `lost`;
a started one is `replied` or `over` when nothing is kept of it any more. What
a command line is told is true at that moment: `answered` if replied, `failed`
if lost, `no value` if the reply did not arrive whole, `unknown` if lost or
over. It may be told `timed out` at any moment, and only then may its command
still be started (`ToldIsFinal`).

`AgentBridge` is how that comes about. One client id, one page, some command lines. `waiters` are the parked polls
with whether their socket is still alive; `queue` is `pendingByClient`;
`record` and `result` are the command records; `running` is what is at work in
the tab; `caller` is where each command line stands.

| action | code |
|---|---|
| `Submit`, `Enqueue` | `POST /runtime/commands` up to and after the reading of its body |
| `Register`, `PollNext`, `Unpark` | the tab's loop: registration, `waitForNextCommand`, the wait for a slot |
| `PollExpires`, `PollBreaks`, `ClosePage` | the park's timer or a close that was noticed; a broken connection; the page gone |
| `PostResult`, `ResultRead`, `ResultLost`, `PostFails` | `setCommandResult`, its body, and what becomes of it |
| `Hears`, `GivesUp` | `waitForCommand` and its timeout |
| `FallSilent`, `Drop`, `Reap` | `clientTtlMs`, `dropClient` by the next request's cleanup, the expiry of records |

`CallOf` reads the state of a call off the record, the result and the starts;
a record left to a broken poll or a dropped client is a `lost` call although
nobody has noticed.

What `AgentDispatch` takes for a call that fails, carried out or not, is a
command whose result was lost here. It takes such a call to have been carried
out by the time it fails, or not at all. `ToldIsFinal` justifies that of every
end but a timeout: a command that times out behind a busy tab and lands later
than that is not modelled in `AgentDispatch`.

## 3. Runs

| run | module | checks | bounds |
|---|---|---|---|
| `sync_edits` | `MC_BlockSync` | `TypeOK`, `PendingWritesOnDisk`, `DiskConverges`, `CacheConverges`, `EqualStampsAgree` | 2 devices, 2 columns, 3 ms; three edits, or two edits and a lost answer or reload |
| `sync_live` | `MC_BlockSync` | `ServerImplemented`, `AllConverge` | 2 devices, one clock slow, 2 ms; two events among two edits (one when both devices mint, from different templates), a fault, a refusal and a rescan, or two edits and a refusal |
| `upload` | `MC_Upload` | `TypeOK`, `NothingLost`, `OnlyHeadIsCounted`, `SealedWaits`, `ImplementsOutbox`, `QueueDrains`; `HistoryTypeOK`, `VersionNamesContent`, `Monotone` | 4 transactions, batches of 2, budget 2, 2 transient failures, 1 restart; server row: 3 contents, stamps 0 to 5, clock to 3, versions to 6 |
| `staging` | `MC_StagingQueue` | `TypeOK`, `NoSignalLost`, `LastChangeWins`, `NothingStranded`, `StagedRowsStay`, `QueueEmpties` | 2 blocks, 4 changes, windows of 2, one failure, 1 tab |
| `tab` | `MC_Tab` | `TabTypeOK`, `NoLostInvalidation`, `NoHungBarrier`, `OnlyAnUndoneChangeIsMissed`, `PushesAreCurrent`, `LoadFreshIsTrue`, `UndoIsExact` | 2 handles over 2 keys, a subscriber each, 2 commits or throwing loads; 3 blocks, 2 aliases, 5 transactions to choose from, 2 edits, one sync write and 2 presses in line, or 3 edits and one press |
| `agents` | `MC_Agents` | `AgentsTypeOK`, `SpendIsBounded`, `AttemptsAreBounded`, `NoSharedSession`, `StopHitsItsAsk`, `AnswerStays`, `FinishedIsFinal`, `AskSettles`; `NoneWaitsBesideAPoll`, `ImplementsRemoteCall`, `PendingEnds` | 3 blocks (one nested, one on a channel), 2 attempts, 2 launches an hour, 2 at a time, six mixes of asks, crashes, Stops and failing calls; 2 commands, 3 mishaps |
| `sync_reverts`, `sync_refused`, `sync_ahead_cache`, `staging_tabs`, `staging_marker`, `handles_seen` | | the findings of section 6 | as small as shows them |

`MC_Upload`, `MC_Tab` and `MC_Agents` hold two modules that share no variable.
In each initial state only one of them can move, so the run explores the sum
of the two state spaces, never their product, and each half behaves as it
would alone.

What the properties say, beyond their names:

- `PendingWritesOnDisk`: an unsent edit is what the disk shows.
  `DiskConverges`, `CacheConverges`: at rest every device shows the server's
  row, stamps that were clamped aside. `EqualStampsAgree`: one stamp, one
  content, across devices. `ServerImplemented`: the server of `BlockSync` is a
  `ServerRow`.
- `NoLostInvalidation`: a handle at rest, with the walks done, holds what a
  query would read now, wherever in a load the commit fell and whichever of
  its dependencies the load declared only afterwards. `PushesAreCurrent`: a
  push shows what the handle holds at that moment. `OnlyAnUndoneChangeIsMissed`
  bounds what suppressed notifications may hide; `SubscribersSeeTheValue`, the
  stronger claim of a comment, fails. `NoHungBarrier`: whoever waits behind a
  barrier waits for a load that is under way.
- `UndoIsExact` compares a replay with the *whole page* before (or after) the
  entry's transactions, not with the entry's own rows: a group that was merged
  wrongly, an order the triggers reject or a row given up for good shows. It is
  claimed of replays with nothing in between: `raced` is set when an edit or a
  backfill commits while a replay waits for the lock, when undo and redo wait
  in line together, and when a replay fails ahead of another. (What those come
  to is in section 5.) A failure is admitted over a block that sync has
  written, or over a circle of rows each of which waits for another.
- `SpendIsBounded` allows one agent beyond the budget for each launch record
  that a crash caught on its way to the state file. `StopHitsItsAsk`: a flag
  stops a run only if it was set for the ask the run answers. `AskSettles`: time
  and again nothing asked is open, through crashes and lost writes.
- `ImplementsRemoteCall`, with broken polls, expiring parks and records, and
  results that are lost or cut off: the tab starts a command at most once, a
  result is the result of a command that was started, and no command line is
  told that its command failed, came to an end or is unknown while it may still
  be started.

Why the bounds are enough for the cases in question:

- *Versions.* The formulas compare at most four numbers (clock, old version,
  base, proposal) with a cap of one, so three clock values and stamps to 5
  contain every order of them. `Cap = 1` makes "beyond the trusted skew"
  reachable.
- *Edits.* Two devices with one edit each give every drift; three edits give a
  burst on one device merged across an edit of the other, which is what the
  base of a compacted patch is for. Two columns tell a merge from a
  replacement. One fault is enough for a create that landed without answer
  and for a reload in the middle of a drain or an upload.
- *Uploads.* The four transactions are one that creates, one that patches an
  encrypted block, one that does both, and one that compacts to nothing, so
  batches mix them in every way of a prefix. A budget of 2 distinguishes the
  first failure from the last.
- *Staging.* Four changes with windows of two fill a window, coalesce two
  changes of a block in one window and split them over two.
- *Handles.* The one handle reads a row behind an edge, the other the same row
  directly, so a change of the row reloads both behind one barrier and a change
  of the edge changes what the first depends on. Two commits put one before and
  one after a read, or a commit and a failure.
- *Undo.* The transactions are those that make order matter: create under a
  parent, merge (an alias moves as its owner is deleted), delete a parent with
  its child, swap two aliases, clear one. Stacks hold 2, so a third edit pushes
  one out.
- *Agents.* A nested block shares a session with its parent, a channel block
  is closed by somebody else. The mixes let a task crash twice (the limit of
  its attempts), be asked again after a Stop, fail at any two of its calls, and
  two tasks of one thread or two unrelated ones run together. A budget of 2 and
  a concurrency of 2 are reached.
- *Bridge.* Two commands fill both slots of the tab; three mishaps break a
  poll, lose a result and silence the client.

Symmetry: devices and columns in `sync_edits`, where nothing names one of
them; none in the runs with liveness properties. Deadlock is not checked: every
model stops when its bounds are used up and everything has come to rest, which
is the intended end.

### Fairness

- `BlockSync!FairSpec`: weak fairness of uploading, delivering and draining on
  each device. PowerSync calls `uploadData` again while the queue is not empty
  and delivers checkpoints; the observer drains on every change. Nothing is
  assumed of users, faults or reloads.
- `UploadQueue!UploadFairness`: weak fairness of the pass as a whole, not of
  its succeeding: a refusal is progress, so `QueueDrains` says that endless
  refusals and timeouts do not block the queue. Transient failures are retried
  for ever by the code and are bounded, else nothing could drain. A missing
  key is supplied some day; without it sealed edits wait for ever, by design.
- `StagingQueue!FairSpec`: the chain of a tab runs on. Strong fairness of
  `ReadQueue` stands for the chain's order, first in first out: a flush that
  waits behind rescans gets its turn. `QueueEmpties` needs the page to be
  opened again some day (weak fairness of `Reload`), because a failed drain is
  not retried by the chain itself.
- `AgentDispatch!DispatchFairness`: the daemon ticks on its timer, what a job
  awaits comes or times out (weak fairness of each block's job as a whole,
  whichever way it goes), claims age and hours pass. Nothing is assumed of
  users, channel sessions or crashes.
- `AgentBridge!BridgeFairness`: an open page goes on registering and polling;
  a closed one falls silent, and the requests of others, whose cleanup drops
  it, keep coming.

`HandleStore` and `UndoManager` have no liveness property; a load that is
under way is the database's to finish.

Every property of a passing run has a mutant in `PROJECT.json`: a plausible
bug in one mapped definition under which TLC finds the property violated.

## 4. Proofs

Checked by TLAPS with no unproved leaf. The constants are arbitrary up to the
named assumptions of the modules (bounds are naturals, batch size, window and
budget are positive, `None` is no number).

- **ServerRow_proofs.** Of the arithmetic of `RowVersion`:
  `DriftNeverEchoesTheProposal`, the stamp of a drifted patch differs from the
  proposal for every cap and clock, so an author never skips a merged row as
  its own echo; `DriftEchoReachesTheCache`, within the trusted skew it is above
  the author's stamp, so the cache takes the row too; `DriftStampBounded`, it
  stays within the cap or the old version plus two. Of the row:
  `ServerTypeCorrect`, `VersionsAreMonotone`,
  `VersionNamesContentHolds`. `VersionNamesContent` is not inductive: it needs
  `RowIsNewest`, that every published row is at or below the current version
  and the current row is published. A step with unchanged content and
  unchanged version publishes the same row; any other raises the version
  above all published ones.
- **Upload_proofs.** `TypeCorrect`, `NothingLostHolds`,
  `OnlyHeadIsCountedHolds`, `SealedWaitsHolds`, and `OutboxImplemented`, that
  every step of the orchestrator is a step of `Outbox` or leaves it alone.
  The strengthening is `PassInOrder` (a pass that has reached a call has
  landed the calls before it, for exactly the transactions it will complete,
  and one that drops has recorded) and `SealedOutOfCall` (a call under way
  without a key holds no sealed transaction). `UploadKeepsItsPromises` joins
  these with the theorems on the server row.
- **StagingQueue_proofs.** `TypeCorrect`, `StagedRowsStayHolds` for any number
  of tabs; `NoSignalLostHolds` and `OneTabConverges` under the assumption of
  one tab, which `staging_tabs` shows to be necessary. The inductive invariant
  relates the window in progress to the log: what the window holds of the log
  is its oldest part (less a delete that a delivery has dropped), sequence
  numbers are unique, a block in the log has its newest change there, and each
  block of the window is accounted for: what was read for it is still the
  staged row, or nothing is to be done, or a later change is queued, or it is
  skipped and goes to `missed`.
  `NothingStrandedHolds`, also for one tab, adds `StrandedInv`: no marker and
  no job while the gate is shut (`Gated`); until the marker is written a
  rescan that runs still has each deferred row to do, and a window that has
  deferred rows is followed by a rescan (`Rescued`). An instance of three tabs,
  tried by hand, refutes the property: a stale window of one writes an old row
  after the rescan of another.
- **BlockSync_proofs.** `BlockTyped`, `LocalWritesStand` (`PendingWritesOnDisk`)
  and `ServerIsImplemented` (`ServerImplemented`), for any number of devices,
  columns and values and any clock skews. Types need `Whole`: a queued insert
  carries the full row, and an upload attempt is of a prefix of the queue, so
  that the merged patch is made of entries that are there (`MinOf`, `MaxOf`:
  positions of a queue have a first and a last). `PendingWritesOnDisk` is
  inductive with them: a commit puts on disk what it queues and leaves the
  other columns (`CommitKeeps`), a completed or refused prefix only shortens
  the queue (`ShrinkKeeps`), and a drain writes only where nothing waits,
  because phase 2 decides again (`QueueStays`). The refinement is proved with
  `Stamp = Nat`, callers that may send any stamp, so that `VersionsAreMonotone`
  and `VersionNamesContentHolds` apply to the server the devices share.

  `DisksConverge`, `CachesConverge` and `StampsAgree` prove convergence: a
  device at rest that was never clamped or refused has the server's row on
  disk and shows it, and an equal stamp never makes it skip news. None of the
  three is inductive; `SyncInv` is, with `BlockTyped`'s invariant. Its parts,
  per device:

  - `Chained`: each queued edit names the version of the one before it as its
    base, so a batch merged to its first base and last stamp stands for all of
    its edits. `VersionAt(d, m)` is the version of the row after the first `m`.
  - `Acknowledged`, the heart: once the server has the row, it is past the
    version the device has reached there, or at it with the device's content in
    every column that what still waits leaves alone. An undrifted patch is
    stored under its author's stamp with the author's columns over the row it
    was made on; a drifted one gets a stamp above the author's; a touch by a
    redundant insert changes nothing. A clamped stamp breaks this part, which
    is why such devices are excepted (`sync_ahead_cache`), and so does a
    refusal (`sync_refused`).
  - `Sole`: an insert under a random id is of a row nobody else has before the
    server has it.
  - `Announced`, `Arrived`: what was sent comes back; what is staged or read
    is a row the server had, and the current one unless one is on its way.
  - `Drained`: the last window that reads a staged row puts it on disk, because
    a row it declines is the one already there (`SkippedIsKnown`).
  - `Cached`: the cache is never below the disk, is the disk while edits wait,
    and otherwise holds a row the server had.

  A step of one device changes what another one's parts speak of only by
  moving the server's row on (`Onward`), which `MatchesKept` carries through;
  the proof is one lemma per action for the device itself and one, `OthersKeep`,
  for all others. TLC checked `SyncInv` on the scope of `sync_edits` and on
  that of `sync_live` before it was proved.
- **Tab_proofs.** `HandlesTyped`, `InvalidationsNotLost`,
  `FreshLoadsAreTrue`, `BarriersOpen`, `PushesCurrent` and
  `DeliveriesNotLost`, for any handles, rows, dependencies and subscribers.
  `NoLostInvalidation` is not inductive: `Sound` adds that a handle holds what
  its loader reads in some state of the rows, that at rest it depends on
  exactly those rows, and that each of them is the committed one unless a
  commit of it is still to be walked; what a load has read may also be known
  to have changed (`dirty`, `changed`). Since what is read determines what is
  read next, a value none of whose rows has changed is the current one.
  `Answered`: a loadFresh that looks again finds a run in flight or a ready
  handle. `Barriers`: a handle with a place in a barrier waits there and
  nowhere else. `Orderly`: what is queued behind a barrier is of an earlier
  settle or what the handle still holds. `TabTyped` and `TabKeepsItsPromises`
  join these with the theorems on undo.
- **UndoManager_proofs.** `UndoTyped`, `ReplaysAreAllOrNothing` and
  `ReplaysAreExact`, for any blocks, transactions, sync, groups and depth.
  The first page is arbitrary in the first two. `ReplaysAreExact`, which
  states `UndoIsExact`, has two hypotheses: the first page has passed the
  triggers (`Tidy(Paper)`; rows that came by sync need not have), and
  `DeletesTakeChildren`, that a transaction that deletes a block leaves no live
  one under it. No trigger enforces the second, but `deleteSubtreeInTx`
  (`data/subtreeDelete.ts`) exists for it, `merge` moves the children away
  first, and a lint rule (`eslint.config.js:58`) asks any other delete why. It
  is needed: after a bare delete, an edit of a block left under the deleted one
  commits, because the trigger that looks at the parent fires only on what
  changes it, but its undo writes every column and is refused.

  Neither is inductive; `UndoInv` is. It puts the two stacks and the line of
  replays together into one `Past` and one `Future` (`Joined`: the entries in
  line are on top of the stack they came from, the next one last), which a
  press leaves as they are, a replay moves one entry between, and an edit
  extends or ends.

  - `OneWay`: without a race, what waits in line goes one way.
  - `Here`, of each block sync has left alone: each entry leads from its `from`
    to its `to` (`Leads`), consecutive ones meet (`PastChain`, `FutureChain`),
    and the block's row fits where they meet. `Fits` is not equality, because
    a replay deletes softly what was not there. So an entry that leaves a block
    alone may find it deleted where its page had none, and what a block will
    be when an entry of the future is redone has to be said for the whole
    future (`Ready`).
  - `Clean`, while sync stays away: the triggers accept the page and the pages
    of every entry, and the rows of an entry have their parents.

  What the passes leave (`WorklistDoes`) is an induction along an interval,
  done by hand from the least element of a set of naturals (`LeastOf`,
  `CountUp`, `Stepwise`): what is not yet done is as it was, everything else
  is as meant, and at the end whatever is left is blocked. A blocker that is
  home already would be in the way on the page the entry remembers, which the
  triggers accepted; so blocks that are left wait for each other
  (`JamIsCircle`). This is also the proof of the comment at
  `data/repo.ts:1931`, with circles as the one exception. TLC checked `UndoInv`
  and `DeletesTakeChildren` on the scope of `tab` before they were used.
- **AgentDispatch_proofs.** `DispatchTypes`, `SpendBounded`,
  `AttemptsBounded`, `SessionsUnshared`, and the action properties `StopsHit`,
  `AnswersStay`, `FinishedStays`, for any finite set of blocks, any nesting of
  them and any limits. `DispatchInv` adds to the types what ties the daemon's
  memory to the tasks on disk:

  - `InOrder`: every agent started is one of the attempts the task itself
    records, which a crash does not lose, and what a run has read of its task
    is still so when it claims it. A run that has claimed keeps the task
    "running" until it closes it, so nobody can ask again in between.
  - `Keyed`, `HeldOnce`: a run holds the key of its session from before it
    writes it down, and no key is held twice.
  - `Budgeted`: the agents of the hour and the launches on their way to one
    are no more than the records in the log and those a crash has lost.
    Refunds give back the record of a launch that is over (`UnderwayIs` counts
    them, one block at a time).
  - `Stopped`, `Swept`: a flag is of the current ask; as long as a run flagged
    by the sweep in progress is at work, the Stop is of the ask it answers.
  - `Delivered`: after the terminal reply there is no progress left to write.

  Channel tasks, which their session closes, are excepted from what depends on
  the daemon being the only one to close a task, as in the properties.
- **Agents_proofs.** `BridgeTyped`, `QueueAndPollsAgree` and
  `CommandsStartOnce` (`HandedOutOnce`: a command starts once, and never after
  its caller was told the client is gone). `AtMostOnce` strengthens it: what
  was started once is never pending or failed again, and what its caller has
  yet to send, or has been told is not taken, was never started.

  `BridgeIsRemoteCall` proves the refinement, for any commands, any number at
  work and any mishaps. It needs `Reported` besides: a command at work or with
  a result has been started, and a result is kept only beside a completed
  record. `CallIs` says which records stand for which state of a call,
  `OneCallMoves` that a step that touches one command leaves the calls of the
  others alone, and `CallMoves` what such a step has to be. All but one are of
  this kind; `Drop` loses whatever its client had queued, which is why `Lose`
  takes a set. `WhatIsToldIsFinal` (`ToldIsFinal`) adds `Told`, that the call
  of a command line that has heard anything but a timeout is not open, and out
  only if it was refused.

  `AgentsTyped` and `AgentsKeepTheirPromises` join these with the theorems on
  the daemon.

`UploadKeepsItsPromises`, `TabKeepsItsPromises` and `AgentsKeepTheirPromises`
are about `UploadSpec`, `TabSpec` and `AgentsSpec`, the specifications that
TLC checks: each half starts in a state of its own component and takes only
its steps. The run of TLC is then literally an instance of the theorem.

Only model-checked:

- All liveness (`AllConverge`, `QueueDrains`, `QueueEmpties`, `AskSettles`,
  `PendingEnds`), which is out of the proof system's reach.
- The properties that runs refute, and why the exceptions in those above are
  needed.

## 5. What is not modelled

Listed per component in `PROJECT.json`. The graph backfill claim states in its
header that it arbitrates nothing, so there is no promise of it to check; the
service worker's ledger, attachments, tree moves and the cycles they close, and
the key store with its mode pins are open (section 7). Cryptography, SQL text,
rendering and scheduling arithmetic are left aside for good.

In the modelled parts:

- *Sync.* Hard deletes in the upload queue (no client emits them),
  `fetchCredentials`, row-level security and foreign keys except as refusals,
  arrival processors, the cycle scan after a drain, the caches of several
  tabs, a block that leaves the sync stream while an edit of it is queued,
  several workspaces in one observer.
- *Handles.* Missing markers, the rules that turn row changes into
  dependencies, the delay of the collector.
- *Undo.* Several scopes and workspaces, content and order keys, the
  processors that run after a replay's commit, listeners.
- *Agents.* Query watchers and debouncing, the pidfile (one daemon is
  assumed), the wording of replies. *Bridge.* The events channel, several
  clients and pages.

Behaviour the models leave outside their properties, met while writing them:

- An edit that commits while a popped undo waits for the write lock is
  reverted with the rows it shares with the entry, and the entry lands on the
  redo stack after the edit's `record` has cleared it (`data/repo.ts:1585`).
  Undo and redo pressed in one breath replay in line, the second on rows the
  first has moved.
- Two aliases that a transaction swapped, or a parent that took its child's,
  are a circle for the replay: no row can go first, and the entry fails each
  time, although `data/repo.ts:1931` says every blocked row unblocks. Undo
  reports it and changes nothing.
- Batches of a backfill after the first do not clear the stacks
  (`data/repo.ts:3118`).
- A task parked for its attempts keeps its `agent:cancel`
  (`engine.ts:243`), unlike every other end of a task; the next ask clears it.
- A bridge command whose result's body cannot be read is *completed* without a
  value (`server.ts:674`); one whose client is dropped while its own body is
  read is queued for nobody until its caller's timeout (`server.ts:850`).

## 6. Where code and comments disagree

1. **`staging_marker`** (`data/repo.ts:3920`). The reconcile marker is
   meant to be set only after a clean pass. `drainSyncWorkspace` resolves even
   when its unit threw, because the observer's chain catches the error, so the
   marker is set after a failed rescan as well and the job never runs again.
2. **`staging_tabs`** (`observer.ts:201`). Windows run in order in each tab;
   two tabs drain the one log independently. Tab A reads a row, tab B reads,
   writes and consumes a newer one, A writes the older. Nothing is queued any
   more, so disk differs from staging until the next delivery or rescan.
3. **`sync_reverts`** (`reconcile.ts:131`). The comment says only a rescan can
   put an older row over an acknowledged edit. A drain whose first phase read
   before the edit and whose second phase runs after the acknowledgement does
   it too; the echo then repairs it, so `DiskConverges` holds.
4. **`sync_refused`** (`reconcile.ts:134`). A refused edit is said to roll back
   on reload, from a disk the server has healed. A refusal changes nothing on
   the server, hence nothing is delivered and the disk keeps the edit.
5. **`sync_ahead_cache`** (`invalidate.ts:31`). The cache of a device whose
   clock is ahead is said to reject rows only beyond the trusted skew. An
   undrifted edit is clamped to server-now on the server but not in the
   cache, so a smaller skew is enough.
6. **`handles_seen`** (`data/internals/handleStore.ts:820`). The diff that
   suppresses a notification is said to be made against the value subscribers
   actually saw. A load that settles suspect keeps its value for `peek` and
   tells nobody; a component that renders then for a reason of its own shows
   it. If the clean rerun finds the value pushed last, nothing is pushed, and
   the component keeps what the handle no longer holds, until something else
   renders it.

## 7. Plan

Order of work, the most important behaviour first. Done: version arithmetic
and server, end-to-end sync, upload orchestrator, staging queue, query handles,
undo, agent daemon and bridge, with the proofs of section 4. Next:

1. `Tree`: moves, merges and subtree deletion on two devices, the cycle scan
   (checked against a reference), over `BlockSync`'s delivery.
2. Extensions of `BlockSync`: departures from the stream with an edit queued,
   several tabs with a cache each.
3. `AccessGate`: mode pins and key resolution; the service worker's ledger
   against open tabs; the lanes of attachments.
4. `TxEngine`: the pipeline with processors that write again and listeners
   that throw.

Proofs to follow: whatever the new modules promise.
