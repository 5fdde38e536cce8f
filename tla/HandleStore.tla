---------------------------- MODULE HandleStore ----------------------------
(***************************************************************************)
(* The store of query handles: each handle loads rows, declares which rows *)
(* it depends on, is invalidated by the walk that follows a commit, and    *)
(* pushes new values to its subscribers.  A commit changes the rows at     *)
(* once and its walk comes later; a load reads the rows at one moment and  *)
(* settles at another.  One walk that reloads several handles opens a      *)
(* barrier behind which their notifications wait for the slowest.          *)
(*                                                                         *)
(* Disposing a handle and minting a fresh one at its key (resolveLive) is  *)
(* the reset of the handle's state.                                        *)
(***************************************************************************)
EXTENDS Naturals, Sequences, FiniteSets

CONSTANTS
  Handle,
  Key,           \* rows and edges that loaders read
  Val,
  Root,          \* [Handle -> Key]: what a loader declares before it reads
  Linked,        \* [Handle -> SUBSET Key]: what it declares after reading
  Opens,         \* the value of the root with which linked rows are read
  Subscriber,
  On,            \* [Subscriber -> Handle]
  Primed,        \* handles on which projectors call loadFresh
  Start,         \* the rows there may be at first
  Unset,         \* no value yet
  MaxTrouble     \* bound on commits and loads that throw together

ASSUME HandleAssumption ==
  /\ Root \in [Handle -> Key]
  /\ Linked \in [Handle -> SUBSET Key]
  /\ On \in [Subscriber -> Handle]
  /\ Primed \subseteq Handle
  /\ Start \subseteq [Key -> Val]
ASSUME HandleBounds == MaxTrouble \in Nat

VARIABLES
  data,        \* [Key -> Val]: committed rows
  unwalked,    \* [Key -> Nat]: commits whose walk has not happened
  status,      \* [Handle -> idle, loading, ready, error]
  value,       \* [Handle -> what was read, or Unset]
  deps,        \* [Handle -> SUBSET Key]
  phase,       \* [Handle -> none, reading, read]: the load in flight
  snap,        \* [Handle -> what the load in flight has read]
  prior,       \* [Handle -> SUBSET Key]: deps to go back to if it throws
  barrier,     \* [Handle -> Nat]: the barrier its load belongs to, 0 for none
  dirty,       \* [Handle -> BOOLEAN]: pendingReinvalidate
  changed,     \* [Handle -> SUBSET Key]: changesDuringLoad
  stale,       \* [Handle -> BOOLEAN]
  reload,      \* [Handle -> BOOLEAN]: a reload waits in the microtask queue
  settleSeq,   \* [Handle -> Nat]
  notified,    \* [Handle -> notifiedValue, or Unset]
  batches,     \* Seq([waiting, queue]): the barriers, by number
  listeners,   \* [Handle -> SUBSET Subscriber]
  shown,       \* [Subscriber -> what it last rendered]
  fresh,       \* [Handle -> none, loading, check]: a loadFresh in progress
  trouble      \* counter for the bound: commits and failures

rows == <<data, unwalked>>
run == <<phase, snap, prior, barrier, changed, dirty>>
view == <<notified, shown, listeners>>
vars == <<rows, status, value, deps, run, stale, reload, settleSeq,
          batches, view, fresh, trouble>>

Reads(h, d) == {Root[h]} \cup IF d[Root[h]] = Opens THEN Linked[h] ELSE {}
Read(h, d) == [k \in Reads(h, d) |-> d[k]]

InFlight(h) == phase[h] # "none"

\* A microtask is due; tasks (answers of the database, timers) wait for it.
MicrotaskDue == \E h \in Handle : reload[h] \/ fresh[h] = "check"

Init ==
  /\ data \in Start
  /\ unwalked = [k \in Key |-> 0]
  /\ status = [h \in Handle |-> "idle"]
  /\ value = [h \in Handle |-> Unset]
  /\ deps = [h \in Handle |-> {}]
  /\ phase = [h \in Handle |-> "none"]
  /\ snap = [h \in Handle |-> Unset]
  /\ prior = [h \in Handle |-> {}]
  /\ barrier = [h \in Handle |-> 0]
  /\ dirty = [h \in Handle |-> FALSE]
  /\ changed = [h \in Handle |-> {}]
  /\ stale = [h \in Handle |-> FALSE]
  /\ reload = [h \in Handle |-> FALSE]
  /\ settleSeq = [h \in Handle |-> 0]
  /\ notified = [h \in Handle |-> Unset]
  /\ batches = <<>>
  /\ listeners = [h \in Handle |-> {}]
  /\ shown = [s \in Subscriber |-> Unset]
  /\ fresh = [h \in Handle |-> "none"]
  /\ trouble = 0
-----------------------------------------------------------------------------
(***************************************************************************)
(* runLoader for a set of handles at once: the dependency known upfront is *)
(* published at once, on top of those of the last run.                     *)
(***************************************************************************)
StartRuns(S, b) ==
  /\ phase' = [h \in Handle |-> IF h \in S THEN "reading" ELSE phase[h]]
  /\ prior' = [h \in Handle |-> IF h \in S THEN deps[h] ELSE prior[h]]
  /\ deps' = [h \in Handle |-> IF h \in S THEN deps[h] \cup {Root[h]} ELSE deps[h]]
  /\ barrier' = [h \in Handle |-> IF h \in S THEN b ELSE barrier[h]]
  /\ status' = [h \in Handle |-> IF h \in S /\ value[h] = Unset THEN "loading" ELSE status[h]]
  /\ UNCHANGED <<value, snap, settleSeq>>

\* A run of one handle outside any barrier.
StartRun(h) ==
  /\ StartRuns({h}, 0)
  /\ dirty' = [dirty EXCEPT ![h] = FALSE]
  /\ changed' = [changed EXCEPT ![h] = {}]
  /\ stale' = [stale EXCEPT ![h] = FALSE]

NoRun == UNCHANGED <<status, value, deps, run, stale, settleSeq>>

Commit(k, v) ==
  /\ ~MicrotaskDue
  /\ trouble < MaxTrouble
  /\ data[k] # v
  /\ trouble' = trouble + 1
  /\ data' = [data EXCEPT ![k] = v]
  /\ unwalked' = [unwalked EXCEPT ![k] = @ + 1]
  /\ UNCHANGED <<status, value, deps, run, stale, reload, settleSeq, batches,
                 view, fresh>>

\* Mutant: a change is offered only to the dependencies known so far.
Observe(h, k) == changed[h]

\* observeDuringLoad: a load in flight records every change.
ObserveDuringLoad(h, k) == IF InFlight(h) THEN changed[h] \cup {k} ELSE changed[h]

\* HandleStore.invalidate: the walk after a commit.
Walk(k) ==
  LET matched == {h \in Handle : k \in deps[h]}
      runs == {h \in matched : ~InFlight(h) /\ listeners[h] # {}}
      deferred == {h \in matched : ~InFlight(h) /\ listeners[h] = {}}
      batched == Cardinality(matched) > 1 /\ runs # {}
  IN /\ ~MicrotaskDue
     /\ unwalked[k] > 0
     /\ unwalked' = [unwalked EXCEPT ![k] = @ - 1]
     /\ StartRuns(runs, IF batched THEN Len(batches) + 1 ELSE 0)
     /\ batches' = IF batched THEN Append(batches, [waiting |-> runs, queue |-> {}])
                   ELSE batches
     /\ changed' = [h \in Handle |-> IF h \in runs THEN {} ELSE ObserveDuringLoad(h, k)]
     /\ dirty' = [h \in Handle |-> h \notin runs /\ (dirty[h] \/ (h \in matched /\ InFlight(h)))]
     /\ stale' = [h \in Handle |-> h \notin runs /\ (stale[h] \/ h \in deferred)]
     /\ UNCHANGED <<data, reload, view, fresh, trouble>>

\* The loader's query runs, in the worker of the database.
ReadRows(h) ==
  /\ phase[h] = "reading"
  /\ phase' = [phase EXCEPT ![h] = "read"]
  /\ snap' = [snap EXCEPT ![h] = Read(h, data)]
  /\ UNCHANGED <<rows, status, value, deps, prior, barrier, dirty, changed, stale,
                 reload, settleSeq, batches, view, fresh, trouble>>
-----------------------------------------------------------------------------
(***************************************************************************)
(* Notifications.  A slot carries the stamp of the settle that queued it.  *)
(* A run that ends gives back its place in its barrier, with a slot or     *)
(* without; the last one flushes.  Outside a barrier a slot is published   *)
(* at once.                                                                *)
(***************************************************************************)
\* Mutant: the slot takes the value its subscribers already have.
SlotOfOld(h, seq, v) == [handle |-> h, seq |-> seq, value |-> notified[h]]

Slot(h, seq, v) == [handle |-> h, seq |-> seq, value |-> v]

Flushed(h, slots) ==
  IF barrier[h] = 0 THEN slots
  ELSE IF batches[barrier[h]].waiting = {h} THEN batches[barrier[h]].queue \cup slots
  ELSE {}

LeaveBarrier(h, slots) ==
  batches' =
    IF barrier[h] = 0 THEN batches
    ELSE [batches EXCEPT ![barrier[h]] =
            [waiting |-> @.waiting \ {h},
             queue |-> IF @.waiting = {h} THEN {} ELSE @.queue \cup slots]]

\* Mutant: a queued slot is published whatever has settled since.
PublishAll(slots) ==
  LET told == {h \in Handle : listeners[h] # {} /\ \E s \in slots : s.handle = h}
      news(h) == (CHOOSE s \in slots : s.handle = h).value
  IN /\ notified' = [h \in Handle |-> IF h \in told THEN news(h) ELSE notified[h]]
     /\ shown' = [s \in Subscriber |->
                    IF \E h \in told : s \in listeners[h] THEN news(On[s]) ELSE shown[s]]
     /\ UNCHANGED listeners

\* flushQueuedNotify and notify: a slot superseded by a later settle of its
\* handle is dropped, and nothing is recorded when nobody listens.
Publish(slots) ==
  LET current == {s \in slots : s.seq = settleSeq'[s.handle]}
      told == {h \in Handle : listeners[h] # {} /\ \E s \in current : s.handle = h}
      news(h) == (CHOOSE s \in current : s.handle = h).value
  IN /\ notified' = [h \in Handle |-> IF h \in told THEN news(h) ELSE notified[h]]
     /\ shown' = [s \in Subscriber |->
                    IF \E h \in told : s \in listeners[h] THEN news(On[s]) ELSE shown[s]]
     /\ UNCHANGED listeners

\* What a run that turned out dirty leaves to be done.
Rerun(h, again) ==
  /\ stale' = [stale EXCEPT ![h] = @ \/ (again /\ listeners[h] = {})]
  /\ reload' = [reload EXCEPT ![h] = @ \/ (again /\ listeners[h] # {})]

EndRun(h) ==
  /\ phase' = [phase EXCEPT ![h] = "none"]
  /\ snap' = [snap EXCEPT ![h] = Unset]
  /\ prior' = [prior EXCEPT ![h] = {}]
  /\ barrier' = [barrier EXCEPT ![h] = 0]
  /\ dirty' = [dirty EXCEPT ![h] = FALSE]
  /\ changed' = [changed EXCEPT ![h] = {}]

\* Dirty: invalidated in flight, or by a change that only the dependencies
\* declared after it reveal.
Suspect(h) == dirty[h] \/ changed[h] \cap DOMAIN snap[h] # {}

\* Mutant: a suspect value counts as seen by the subscribers.
SettleConsuming(h) ==
  LET slots == IF ~Suspect(h) /\ notified[h] # snap[h]
               THEN {Slot(h, settleSeq[h] + 1, snap[h])} ELSE {}
  IN /\ ~MicrotaskDue
     /\ phase[h] = "read"
     /\ settleSeq' = [settleSeq EXCEPT ![h] = @ + 1]
     /\ value' = [value EXCEPT ![h] = snap[h]]
     /\ status' = [status EXCEPT ![h] = "ready"]
     /\ deps' = [deps EXCEPT ![h] = DOMAIN snap[h]]
     /\ EndRun(h) /\ Rerun(h, Suspect(h))
     /\ LeaveBarrier(h, slots)
     /\ IF Suspect(h)
        THEN notified' = [notified EXCEPT ![h] = snap[h]] /\ UNCHANGED <<shown, listeners>>
        ELSE Publish(Flushed(h, slots))
     /\ fresh' = [fresh EXCEPT ![h] = IF @ = "loading" THEN "check" ELSE @]
     /\ UNCHANGED <<rows, trouble>>

\* The load succeeds.  A suspect value is kept for peek and load but never
\* pushed; any other is pushed if it differs from the one pushed last.
Settle(h) ==
  LET slots == IF ~Suspect(h) /\ notified[h] # snap[h]
               THEN {Slot(h, settleSeq[h] + 1, snap[h])} ELSE {}
  IN /\ ~MicrotaskDue
     /\ phase[h] = "read"
     /\ settleSeq' = [settleSeq EXCEPT ![h] = @ + 1]
     /\ value' = [value EXCEPT ![h] = snap[h]]
     /\ status' = [status EXCEPT ![h] = "ready"]
     /\ deps' = [deps EXCEPT ![h] = DOMAIN snap[h]]
     /\ EndRun(h) /\ Rerun(h, Suspect(h))
     /\ LeaveBarrier(h, slots)
     /\ Publish(Flushed(h, slots))
     /\ fresh' = [fresh EXCEPT ![h] = IF @ = "loading" THEN "check" ELSE @]
     /\ UNCHANGED <<rows, trouble>>

\* Mutant: a load that throws keeps its place in the barrier.
FailHolding(h) ==
  /\ ~MicrotaskDue
  /\ trouble < MaxTrouble
  /\ InFlight(h)
  /\ trouble' = trouble + 1
  /\ status' = [status EXCEPT ![h] = "error"]
  /\ deps' = [deps EXCEPT ![h] = prior[h]]
  /\ EndRun(h) /\ Rerun(h, dirty[h])
  /\ fresh' = [fresh EXCEPT ![h] = "none"]
  /\ UNCHANGED <<rows, value, settleSeq, batches, view>>

\* The load throws: the old dependencies are restored, and it is repeated
\* only if it was invalidated in flight.
Fail(h) ==
  /\ ~MicrotaskDue
  /\ trouble < MaxTrouble
  /\ InFlight(h)
  /\ trouble' = trouble + 1
  /\ status' = [status EXCEPT ![h] = "error"]
  /\ deps' = [deps EXCEPT ![h] = prior[h]]
  /\ EndRun(h) /\ Rerun(h, dirty[h])
  /\ LeaveBarrier(h, {})
  /\ UNCHANGED <<value, settleSeq>>
  /\ Publish(Flushed(h, {}))
  /\ fresh' = [fresh EXCEPT ![h] = "none"]
  /\ UNCHANGED rows

\* The microtask a dirty run has queued.
Reload(h) ==
  /\ reload[h]
  /\ reload' = [reload EXCEPT ![h] = FALSE]
  /\ IF InFlight(h) THEN NoRun ELSE StartRun(h)
  /\ UNCHANGED <<rows, batches, view, fresh, trouble>>
-----------------------------------------------------------------------------
\* useHandle mounts: it renders peek() and subscribes, which loads a handle
\* that is idle or stale.
Subscribe(s) ==
  LET h == On[s]
  IN /\ s \notin listeners[h]
     /\ listeners' = [listeners EXCEPT ![h] = @ \cup {s}]
     /\ shown' = [shown EXCEPT ![s] = value[h]]
     /\ IF (status[h] = "idle" \/ stale[h]) /\ ~InFlight(h) THEN StartRun(h) ELSE NoRun
     /\ UNCHANGED <<rows, reload, batches, notified, fresh, trouble>>

Unsubscribe(s) ==
  /\ s \in listeners[On[s]]
  /\ listeners' = [listeners EXCEPT ![On[s]] = @ \ {s}]
  /\ shown' = [shown EXCEPT ![s] = Unset]
  /\ NoRun
  /\ UNCHANGED <<rows, reload, batches, notified, fresh, trouble>>

\* The component renders for a reason of its own and peeks again.
Rerender(s) ==
  /\ s \in listeners[On[s]]
  /\ shown' = [shown EXCEPT ![s] = value[On[s]]]
  /\ NoRun
  /\ UNCHANGED <<rows, reload, batches, notified, listeners, fresh, trouble>>

\* What load() does beyond handing back a promise.
Loads(h) ==
  IF InFlight(h) \/ (status[h] = "ready" /\ ~stale[h]) THEN NoRun ELSE StartRun(h)

Load(h) ==
  /\ Loads(h)
  /\ UNCHANGED <<rows, reload, batches, view, fresh, trouble>>

\* loadFresh: load, let a reload that is due start, and look again.
LoadFresh(h) ==
  /\ h \in Primed
  /\ fresh[h] = "none"
  /\ Loads(h)
  /\ fresh' = [fresh EXCEPT ![h] =
                 IF ~InFlight(h) /\ status[h] = "ready" /\ ~stale[h] THEN "check" ELSE "loading"]
  /\ UNCHANGED <<rows, reload, batches, view, trouble>>

\* Mutant: loadFresh is satisfied with any load that settles.
CheckOnce(h) ==
  /\ fresh[h] = "check" /\ ~reload[h]
  /\ NoRun
  /\ fresh' = [fresh EXCEPT ![h] = "none"]
  /\ UNCHANGED <<rows, reload, batches, view, trouble>>

CheckFresh(h) ==
  /\ fresh[h] = "check" /\ ~reload[h]
  /\ IF InFlight(h) \/ stale[h]
     THEN Loads(h) /\ fresh' = [fresh EXCEPT ![h] = "loading"]
     ELSE NoRun /\ fresh' = [fresh EXCEPT ![h] = "none"]
  /\ UNCHANGED <<rows, reload, batches, view, trouble>>

\* dispose after the GC delay: nobody subscribes, loads or awaits.  Queued
\* slots of the handle are dead.
Dispose(h) ==
  /\ ~MicrotaskDue
  /\ status[h] # "idle"
  /\ ~InFlight(h) /\ listeners[h] = {} /\ fresh[h] = "none"
  /\ status' = [status EXCEPT ![h] = "idle"]
  /\ value' = [value EXCEPT ![h] = Unset]
  /\ deps' = [deps EXCEPT ![h] = {}]
  /\ stale' = [stale EXCEPT ![h] = FALSE]
  /\ settleSeq' = [settleSeq EXCEPT ![h] = 0]
  /\ notified' = [notified EXCEPT ![h] = Unset]
  /\ batches' = [b \in DOMAIN batches |->
                   [batches[b] EXCEPT !.queue = {s \in @ : s.handle # h}]]
  /\ UNCHANGED <<rows, run, reload, shown, listeners, fresh, trouble>>
-----------------------------------------------------------------------------
Next ==
  \/ \E k \in Key : Walk(k) \/ \E v \in Val : Commit(k, v)
  \/ \E h \in Handle :
       \/ ReadRows(h) \/ Settle(h) \/ Fail(h) \/ Reload(h)
       \/ Load(h) \/ LoadFresh(h) \/ CheckFresh(h) \/ Dispose(h)
  \/ \E s \in Subscriber : Subscribe(s) \/ Unsubscribe(s) \/ Rerender(s)

Spec == Init /\ [][Next]_vars
-----------------------------------------------------------------------------
Snapshots == UNION {[K -> Val] : K \in SUBSET Key}
Slots == [handle : Handle, seq : Nat, value : Snapshots]

TypeOK ==
  /\ data \in [Key -> Val]
  /\ unwalked \in [Key -> Nat]
  /\ status \in [Handle -> {"idle", "loading", "ready", "error"}]
  /\ value \in [Handle -> Snapshots \cup {Unset}]
  /\ deps \in [Handle -> SUBSET Key]
  /\ phase \in [Handle -> {"none", "reading", "read"}]
  /\ snap \in [Handle -> Snapshots \cup {Unset}]
  /\ prior \in [Handle -> SUBSET Key]
  /\ barrier \in [Handle -> 0 .. Len(batches)]
  /\ dirty \in [Handle -> BOOLEAN]
  /\ changed \in [Handle -> SUBSET Key]
  /\ stale \in [Handle -> BOOLEAN]
  /\ reload \in [Handle -> BOOLEAN]
  /\ settleSeq \in [Handle -> Nat]
  /\ notified \in [Handle -> Snapshots \cup {Unset}]
  /\ batches \in Seq([waiting : SUBSET Handle, queue : SUBSET Slots])
  /\ listeners \in [Handle -> SUBSET Subscriber]
  /\ shown \in [Subscriber -> Snapshots \cup {Unset}]
  /\ fresh \in [Handle -> {"none", "loading", "check"}]
  /\ trouble \in Nat

\* Nothing more will happen to the handle's value on its own.
AtRest(h) ==
  /\ status[h] = "ready" /\ ~InFlight(h) /\ ~stale[h] /\ ~reload[h]

\* No commit that touches what the handle read is still to be walked.
Walked(h) == \A k \in deps[h] : unwalked[k] = 0

(***************************************************************************)
(* NoLostInvalidation: a handle at rest, with the walks of its rows done,  *)
(* holds what a query would read now.  A commit may fall between any two   *)
(* steps of a load, and the row it changes may be one the load declares    *)
(* only afterwards.                                                        *)
(***************************************************************************)
NoLostInvalidation ==
  \A h \in Handle : AtRest(h) /\ Walked(h) => value[h] = Read(h, data)

(***************************************************************************)
(* PushesAreCurrent: what is pushed is what the handle holds at that       *)
(* moment, never an older value after a newer one and never one known to   *)
(* be suspect.                                                             *)
(***************************************************************************)
PushesAreCurrent ==
  [][\A h \in Handle :
       notified'[h] \notin {notified[h], Unset} =>
         notified'[h] = value'[h] /\ ~reload'[h]]_vars

\* A notification of the handle is still behind a barrier.
Queued(h) == \E b \in DOMAIN batches : \E s \in batches[b].queue :
               s.handle = h /\ s.seq = settleSeq[h]

(***************************************************************************)
(* OnlyAnUndoneChangeIsMissed: a subscriber of a handle at rest shows its  *)
(* value, unless the value is again the one pushed last: dropping          *)
(* superseded and suspect notifications loses no delivery.                 *)
(***************************************************************************)
OnlyAnUndoneChangeIsMissed ==
  \A s \in Subscriber :
    LET h == On[s]
    IN s \in listeners[h] /\ AtRest(h) /\ ~Queued(h) =>
         shown[s] = value[h] \/ notified[h] = value[h]

(***************************************************************************)
(* LoadFreshIsTrue: what loadFresh returns is what a query would read,     *)
(* unless a commit has not been walked yet: projectors release writes on   *)
(* that answer.                                                            *)
(***************************************************************************)
LoadFreshIsTrue ==
  [][\A h \in Handle :
       fresh[h] = "check" /\ fresh'[h] = "none" /\ Walked(h) =>
         value[h] = Read(h, data)]_vars

(***************************************************************************)
(* NoHungBarrier: a notification behind a barrier waits for a load that is *)
(* in flight and will give back its place, whatever becomes of the load: a *)
(* member that throws, is invalidated again or is disposed must not keep   *)
(* the others from publishing.                                             *)
(***************************************************************************)
NoHungBarrier ==
  \A b \in DOMAIN batches :
    /\ batches[b].queue # {} => batches[b].waiting # {}
    /\ \A h \in batches[b].waiting : InFlight(h) /\ barrier[h] = b

(***************************************************************************)
(* SubscribersSeeTheValue: the diff that suppresses a notification is made *)
(* against the value subscribers actually saw.  A comment in the code says *)
(* so; the model refutes it (see README).                                  *)
(***************************************************************************)
SubscribersSeeTheValue ==
  \A s \in Subscriber :
    s \in listeners[On[s]] /\ AtRest(On[s]) /\ ~Queued(On[s]) => shown[s] = value[On[s]]
=============================================================================
