----------------------------- MODULE Tab_proofs -----------------------------
(***************************************************************************)
(* For any handles, rows, dependencies and subscribers: no invalidation is *)
(* lost, no barrier hangs, and what loadFresh returns and what is pushed   *)
(* is current.  With UndoManager_proofs: what holds of the handle store    *)
(* and of the undo manager holds of the tab.                               *)
(***************************************************************************)
EXTENDS MC_Tab, UndoManager_proofs

Batches == [waiting : SUBSET Handle, queue : SUBSET Slots]

\* v is what the loader of h reads in some state of the rows.
Coherent(h, v) == \E d \in [Key -> Val] : v = Read(h, d)

LEMMA ReadIsSnapshot ==
  ASSUME NEW h \in Handle, NEW d \in [Key -> Val]
  PROVE  /\ Read(h, d) \in Snapshots
         /\ DOMAIN Read(h, d) = Reads(h, d)
         /\ Root[h] \in Reads(h, d)
         /\ Reads(h, d) \subseteq Key
         /\ \A k \in Reads(h, d) : Read(h, d)[k] = d[k]
<1>1. Reads(h, d) \subseteq Key /\ Root[h] \in Reads(h, d)
  BY HandleAssumption DEF Reads
<1>2. Read(h, d) \in [Reads(h, d) -> Val]
  BY <1>1 DEF Read
<1> QED
  BY <1>1, <1>2 DEF Read, Snapshots

\* What a handle or a load holds is true if none of it has changed.
LEMMA CoherentIsTrue ==
  ASSUME NEW h \in Handle, NEW v, Coherent(h, v), data \in [Key -> Val],
         \A k \in DOMAIN v : v[k] = data[k]
  PROVE  v = Read(h, data)
<1>1. PICK d \in [Key -> Val] : v = Read(h, d)
  BY DEF Coherent
<1>2. \A k \in Reads(h, d) : d[k] = data[k]
  BY <1>1, ReadIsSnapshot
<1>3. Reads(h, data) = Reads(h, d)
  BY <1>2, ReadIsSnapshot DEF Reads
<1> QED
  BY <1>1, <1>2, <1>3 DEF Read
-----------------------------------------------------------------------------
(***************************************************************************)
(* Types.                                                                  *)
(***************************************************************************)
\* Subscribers are found at the handle they are on; a load that has read
\* holds what there was to read.
InOrder ==
  /\ \A h \in Handle : listeners[h] \subseteq {s \in Subscriber : On[s] = h}
  /\ \A h \in Handle : phase[h] = "read" => Coherent(h, snap[h])

\* The steps that start a run outside a barrier, or none at all.
Quiet ==
  /\ UNCHANGED <<rows, batches>>
  /\ NoRun \/ \E h \in Handle : ~InFlight(h) /\ StartRun(h)
  /\ \A h \in Handle : reload'[h] = reload[h] \/ phase'[h] # "none"

LEMMA CoherentType ==
  ASSUME NEW h \in Handle, NEW v, Coherent(h, v)
  PROVE  v \in Snapshots /\ DOMAIN v \subseteq Key
BY ReadIsSnapshot DEF Coherent

LEMMA QuietType ==
  ASSUME TypeOK, InOrder, Quiet,
         reload' \in [Handle -> BOOLEAN],
         notified' = notified,
         listeners' \in [Handle -> SUBSET Subscriber],
         \A h \in Handle : listeners'[h] \subseteq {s \in Subscriber : On[s] = h},
         shown' \in [Subscriber -> Snapshots \cup {Unset}],
         fresh' \in [Handle -> {"none", "loading", "check"}],
         trouble' = trouble
  PROVE  TypeOK' /\ InOrder'
<1>1. data' = data /\ unwalked' = unwalked /\ batches' = batches
  BY DEF Quiet, rows
<1>2. CASE NoRun
  <2>1. UNCHANGED <<status, value, deps, phase, snap, prior, barrier, changed, dirty, stale,
                    settleSeq>>
    BY <1>2 DEF NoRun, run
  <2> QED
    BY <1>1, <2>1 DEF TypeOK, InOrder
<1>3. CASE \E h \in Handle : ~InFlight(h) /\ StartRun(h)
  <2>1. PICK h \in Handle : ~InFlight(h) /\ StartRun(h)
    BY <1>3
  <2>2. /\ phase' \in [Handle -> {"none", "reading", "read"}]
        /\ prior' \in [Handle -> SUBSET Key]
        /\ deps' \in [Handle -> SUBSET Key]
        /\ status' \in [Handle -> {"idle", "loading", "ready", "error"}]
        /\ value' = value /\ snap' = snap /\ settleSeq' = settleSeq
    <3>1. deps' \in [Handle -> SUBSET Key]
      <4>1. \A i \in Handle : deps[i] \cup {Root[i]} \in SUBSET Key
        BY HandleAssumption DEF TypeOK
      <4> QED
        BY <2>1, <4>1 DEF StartRun, StartRuns, TypeOK
    <3> QED
      BY <2>1, <3>1 DEF StartRun, StartRuns, TypeOK
  <2>3. /\ dirty' \in [Handle -> BOOLEAN]
        /\ changed' \in [Handle -> SUBSET Key]
        /\ stale' \in [Handle -> BOOLEAN]
    BY <2>1 DEF StartRun, TypeOK
  <2>4. barrier' \in [Handle -> 0 .. Len(batches')]
    <3>1. 0 \in 0 .. Len(batches)
      BY LenProperties DEF TypeOK
    <3>2. barrier' = [i \in Handle |-> IF i \in {h} THEN 0 ELSE barrier[i]]
      BY <2>1 DEF StartRun, StartRuns
    <3> QED
      BY <1>1, <3>1, <3>2 DEF TypeOK
  <2>5. TypeOK'
    BY <1>1, <2>2, <2>3, <2>4 DEF TypeOK
  <2>6. \A i \in Handle : phase'[i] = "read" => phase[i] = "read"
    BY <2>1 DEF StartRun, StartRuns
  <2> QED
    BY <2>2, <2>5, <2>6 DEF InOrder
<1> QED
  BY <1>2, <1>3 DEF Quiet

\* Whom a flush tells, and what.
Current(slots) == {s \in slots : s.seq = settleSeq'[s.handle]}
Told(slots) == {h \in Handle : listeners[h] # {} /\ \E s \in Current(slots) : s.handle = h}
News(h, slots) == (CHOOSE s \in Current(slots) : s.handle = h).value

LEMMA PublishDef ==
  ASSUME NEW slots, Publish(slots)
  PROVE  /\ notified' = [h \in Handle |-> IF h \in Told(slots) THEN News(h, slots) ELSE notified[h]]
         /\ shown' = [s \in Subscriber |->
              IF \E h \in Told(slots) : s \in listeners[h] THEN News(On[s], slots) ELSE shown[s]]
         /\ listeners' = listeners
BY DEF Publish, Current, Told, News

\* The news is one of the slots.
LEMMA NewsIsASlot ==
  ASSUME NEW slots, NEW h \in Told(slots)
  PROVE  \E s \in Current(slots) : s.handle = h /\ News(h, slots) = s.value
BY DEF Told, News

LEMMA PublishType ==
  ASSUME TypeOK, InOrder, NEW slots \in SUBSET Slots, Publish(slots)
  PROVE  /\ notified' \in [Handle -> Snapshots \cup {Unset}]
         /\ shown' \in [Subscriber -> Snapshots \cup {Unset}]
         /\ listeners' = listeners
<1>1. \A h \in Told(slots) : News(h, slots) \in Snapshots
  BY NewsIsASlot DEF Current, Slots
<1>2. \A s \in Subscriber : \A h \in Told(slots) : s \in listeners[h] => On[s] = h
  BY DEF InOrder, Told
<1>3. \A s \in Subscriber :
        (\E h \in Told(slots) : s \in listeners[h]) => News(On[s], slots) \in Snapshots
  BY <1>1, <1>2
<1>4. /\ notified' = [h \in Handle |->
                        IF h \in Told(slots) THEN News(h, slots) ELSE notified[h]]
      /\ shown' = [s \in Subscriber |->
                     IF \E h \in Told(slots) : s \in listeners[h] THEN News(On[s], slots)
                     ELSE shown[s]]
      /\ listeners' = listeners
  BY PublishDef
<1>5. /\ notified \in [Handle -> Snapshots \cup {Unset}]
      /\ shown \in [Subscriber -> Snapshots \cup {Unset}]
  BY DEF TypeOK
<1>6. notified' \in [Handle -> Snapshots \cup {Unset}]
  BY <1>1, <1>4, <1>5
<1>7. shown' \in [Subscriber -> Snapshots \cup {Unset}]
  BY <1>3, <1>4, <1>5
<1> QED
  BY <1>4, <1>6, <1>7

\* The barriers after the run of h has left its own, with a slot or without.
LEMMA LeaveType ==
  ASSUME TypeOK, NEW h \in Handle, NEW slots \in SUBSET Slots,
         LeaveBarrier(h, slots)
  PROVE  /\ batches' \in Seq(Batches) /\ Len(batches') = Len(batches)
         /\ Flushed(h, slots) \in SUBSET Slots
<1>1. batches \in Seq(Batches)
  BY DEF TypeOK, Batches
<1>2. CASE barrier[h] = 0
  BY <1>1, <1>2 DEF LeaveBarrier, Flushed
<1>3. CASE barrier[h] # 0
  <2>1. barrier[h] \in 1 .. Len(batches)
    BY <1>1, <1>3, LenProperties DEF TypeOK
  <2> DEFINE old == batches[barrier[h]]
             new == [waiting |-> old.waiting \ {h},
                     queue |-> IF old.waiting = {h} THEN {} ELSE old.queue \cup slots]
  <2>2. old \in Batches
    BY <1>1, <2>1, ElementOfSeq
  <2>3. new \in Batches
    BY <2>2 DEF Batches
  <2>4. batches' = [batches EXCEPT ![barrier[h]] = new]
    BY <1>3 DEF LeaveBarrier
  <2>5. Flushed(h, slots) \in SUBSET Slots
    BY <1>3, <2>2 DEF Flushed, Batches
  <2> HIDE DEF new
  <2> QED
    BY <1>1, <2>1, <2>3, <2>4, <2>5, ExceptSeq
<1> QED
  BY <1>2, <1>3

\* A load that ends, as far as the types go.
LEMMA EndType ==
  ASSUME TypeOK, NEW h \in Handle, EndRun(h), NEW again \in BOOLEAN, Rerun(h, again)
  PROVE  /\ phase' \in [Handle -> {"none", "reading", "read"}]
         /\ snap' \in [Handle -> Snapshots \cup {Unset}]
         /\ prior' \in [Handle -> SUBSET Key]
         /\ dirty' \in [Handle -> BOOLEAN]
         /\ changed' \in [Handle -> SUBSET Key]
         /\ stale' \in [Handle -> BOOLEAN]
         /\ reload' \in [Handle -> BOOLEAN]
         /\ barrier' \in [Handle -> 0 .. Len(batches)]
         /\ phase' = [phase EXCEPT ![h] = "none"] /\ snap' = [snap EXCEPT ![h] = Unset]
<1>1. /\ phase' \in [Handle -> {"none", "reading", "read"}]
      /\ snap' \in [Handle -> Snapshots \cup {Unset}]
      /\ prior' \in [Handle -> SUBSET Key]
      /\ dirty' \in [Handle -> BOOLEAN]
      /\ changed' \in [Handle -> SUBSET Key]
      /\ phase' = [phase EXCEPT ![h] = "none"] /\ snap' = [snap EXCEPT ![h] = Unset]
  BY DEF EndRun, TypeOK
<1>2. barrier' \in [Handle -> 0 .. Len(batches)]
  <2>1. 0 \in 0 .. Len(batches)
    BY LenProperties DEF TypeOK
  <2> QED
    BY <2>1 DEF EndRun, TypeOK
<1>3. stale' \in [Handle -> BOOLEAN] /\ reload' \in [Handle -> BOOLEAN]
  BY Zenon DEF Rerun, TypeOK
<1> QED
  BY <1>1, <1>2, <1>3

LEMMA SettleType ==
  ASSUME TypeOK, InOrder, NEW h \in Handle, Settle(h)
  PROVE  TypeOK' /\ InOrder'
<1> DEFINE slots == IF ~Suspect(h) /\ notified[h] # snap[h]
                    THEN {Slot(h, settleSeq[h] + 1, snap[h])} ELSE {}
<1>1. phase[h] = "read" /\ snap[h] \in Snapshots /\ DOMAIN snap[h] \subseteq Key
  BY CoherentType DEF Settle, InOrder
<1>2. slots \in SUBSET Slots
  BY <1>1 DEF Slot, Slots, TypeOK
<1>3. Suspect(h) \in BOOLEAN
  BY DEF Suspect, TypeOK
<1>4. EndRun(h) /\ Rerun(h, Suspect(h)) /\ LeaveBarrier(h, slots) /\ Publish(Flushed(h, slots))
  BY DEF Settle
<1> HIDE DEF slots
<1>5. batches' \in Seq(Batches) /\ Len(batches') = Len(batches)
      /\ Flushed(h, slots) \in SUBSET Slots
  BY <1>2, <1>4, LeaveType
<1>6. /\ notified' \in [Handle -> Snapshots \cup {Unset}]
      /\ shown' \in [Subscriber -> Snapshots \cup {Unset}]
      /\ listeners' = listeners
  BY <1>4, <1>5, PublishType
<1>7. /\ settleSeq' \in [Handle -> Nat]
      /\ value' \in [Handle -> Snapshots \cup {Unset}]
      /\ status' \in [Handle -> {"idle", "loading", "ready", "error"}]
      /\ deps' \in [Handle -> SUBSET Key]
      /\ fresh' \in [Handle -> {"none", "loading", "check"}]
      /\ data' = data /\ unwalked' = unwalked /\ trouble' = trouble
  BY <1>1 DEF Settle, TypeOK, rows
<1>8. TypeOK'
  BY <1>3, <1>4, <1>5, <1>6, <1>7, EndType DEF TypeOK, Batches
<1>9. InOrder'
  <2>1. \A i \in Handle : phase'[i] = "read" => phase[i] = "read" /\ snap'[i] = snap[i]
    <3>1. phase' = [phase EXCEPT ![h] = "none"] /\ snap' = [snap EXCEPT ![h] = Unset]
      BY <1>3, <1>4, EndType
    <3> QED
      BY <3>1 DEF TypeOK
  <2> QED
    BY <2>1, <1>6 DEF InOrder
<1> QED
  BY <1>8, <1>9

LEMMA FailType ==
  ASSUME TypeOK, InOrder, NEW h \in Handle, Fail(h)
  PROVE  TypeOK' /\ InOrder'
<1>1. EndRun(h) /\ Rerun(h, dirty[h]) /\ LeaveBarrier(h, {}) /\ Publish(Flushed(h, {}))
  BY DEF Fail
<1>2. dirty[h] \in BOOLEAN /\ {} \in SUBSET Slots
  BY DEF TypeOK
<1>3. batches' \in Seq(Batches) /\ Len(batches') = Len(batches)
      /\ Flushed(h, {}) \in SUBSET Slots
  BY <1>1, <1>2, LeaveType
<1>4. /\ notified' \in [Handle -> Snapshots \cup {Unset}]
      /\ shown' \in [Subscriber -> Snapshots \cup {Unset}]
      /\ listeners' = listeners
  BY <1>1, <1>3, PublishType
<1>5. /\ settleSeq' = settleSeq /\ value' = value
      /\ status' \in [Handle -> {"idle", "loading", "ready", "error"}]
      /\ deps' \in [Handle -> SUBSET Key]
      /\ fresh' \in [Handle -> {"none", "loading", "check"}]
      /\ data' = data /\ unwalked' = unwalked /\ trouble' \in Nat
  BY DEF Fail, TypeOK, rows
<1>6. TypeOK'
  BY <1>1, <1>2, <1>3, <1>4, <1>5, EndType DEF TypeOK, Batches
<1>7. InOrder'
  <2>1. \A i \in Handle : phase'[i] = "read" => phase[i] = "read" /\ snap'[i] = snap[i]
    <3>1. phase' = [phase EXCEPT ![h] = "none"] /\ snap' = [snap EXCEPT ![h] = Unset]
      BY <1>1, <1>2, EndType
    <3> QED
      BY <3>1 DEF TypeOK
  <2> QED
    BY <2>1, <1>4 DEF InOrder
<1> QED
  BY <1>6, <1>7

\* The runs that a walk starts, and those whose reload it puts off.
Matched(k) == {h \in Handle : k \in deps[h]}
Runs(k) == {h \in Matched(k) : ~InFlight(h) /\ listeners[h] # {}}
Deferred(k) == {h \in Matched(k) : ~InFlight(h) /\ listeners[h] = {}}
Batched(k) == Cardinality(Matched(k)) > 1 /\ Runs(k) # {}

LEMMA WalkDef ==
  ASSUME NEW k \in Key, Walk(k)
  PROVE  /\ ~MicrotaskDue /\ unwalked[k] > 0
         /\ unwalked' = [unwalked EXCEPT ![k] = @ - 1]
         /\ StartRuns(Runs(k), IF Batched(k) THEN Len(batches) + 1 ELSE 0)
         /\ batches' = IF Batched(k)
                       THEN Append(batches, [waiting |-> Runs(k), queue |-> {}]) ELSE batches
         /\ changed' = [h \in Handle |-> IF h \in Runs(k) THEN {} ELSE ObserveDuringLoad(h, k)]
         /\ dirty' = [h \in Handle |->
                        h \notin Runs(k) /\ (dirty[h] \/ (h \in Matched(k) /\ InFlight(h)))]
         /\ stale' = [h \in Handle |-> h \notin Runs(k) /\ (stale[h] \/ h \in Deferred(k))]
         /\ UNCHANGED <<data, reload, notified, shown, listeners, fresh, trouble>>
BY DEF Walk, Matched, Runs, Deferred, Batched, view

LEMMA WalkType ==
  ASSUME TypeOK, InOrder, NEW k \in Key, Walk(k)
  PROVE  TypeOK' /\ InOrder'
<1> DEFINE b == IF Batched(k) THEN Len(batches) + 1 ELSE 0
<1>0. /\ unwalked[k] > 0 /\ unwalked' = [unwalked EXCEPT ![k] = @ - 1]
      /\ batches' = IF Batched(k)
                    THEN Append(batches, [waiting |-> Runs(k), queue |-> {}]) ELSE batches
      /\ changed' = [h \in Handle |-> IF h \in Runs(k) THEN {} ELSE ObserveDuringLoad(h, k)]
  BY WalkDef
<1>1. Runs(k) \in SUBSET Handle
  BY DEF Runs, Matched
<1>2. batches \in Seq(Batches) /\ Len(batches) \in Nat
  BY LenProperties DEF TypeOK, Batches
<1>3. /\ batches' \in Seq(Batches)
      /\ Len(batches') = IF Batched(k) THEN Len(batches) + 1 ELSE Len(batches)
  <2>1. [waiting |-> Runs(k), queue |-> {}] \in Batches
    BY <1>1 DEF Batches
  <2> QED
    BY <1>0, <1>2, <2>1, AppendProperties
<1>4. b \in 0 .. Len(batches') /\ \A h \in Handle : barrier[h] \in 0 .. Len(batches')
  BY <1>2, <1>3 DEF TypeOK
<1>5. StartRuns(Runs(k), b)
  BY WalkDef
<1> HIDE DEF b
<1>6. /\ phase' \in [Handle -> {"none", "reading", "read"}]
      /\ prior' \in [Handle -> SUBSET Key]
      /\ status' \in [Handle -> {"idle", "loading", "ready", "error"}]
      /\ value' = value /\ snap' = snap /\ settleSeq' = settleSeq
      /\ barrier' \in [Handle -> 0 .. Len(batches')]
      /\ \A h \in Handle : phase'[h] = "read" => phase[h] = "read"
  BY <1>4, <1>5 DEF StartRuns, TypeOK
<1>7. deps' \in [Handle -> SUBSET Key]
  <2>1. \A h \in Handle : deps[h] \cup {Root[h]} \in SUBSET Key
    BY HandleAssumption DEF TypeOK
  <2> QED
    BY <1>5, <2>1 DEF StartRuns, TypeOK
<1>8. unwalked' \in [Key -> Nat]
  BY <1>0 DEF TypeOK
<1>9. changed' \in [Handle -> SUBSET Key]
  <2>1. \A h \in Handle : ObserveDuringLoad(h, k) \in SUBSET Key
    BY DEF TypeOK, ObserveDuringLoad
  <2> QED
    BY <1>0, <2>1
<1>10. dirty' \in [Handle -> BOOLEAN] /\ stale' \in [Handle -> BOOLEAN]
  BY WalkDef, Zenon
<1>11. UNCHANGED <<data, reload, notified, shown, listeners, fresh, trouble>>
  BY WalkDef
<1>12. TypeOK'
  BY <1>3, <1>6, <1>7, <1>8, <1>9, <1>10, <1>11 DEF TypeOK, Batches
<1>13. InOrder'
  BY <1>6, <1>11 DEF InOrder
<1> QED
  BY <1>12, <1>13

LEMMA QuietSteps ==
  ASSUME TypeOK, NEW h \in Handle,
         Reload(h) \/ Load(h) \/ LoadFresh(h) \/ CheckFresh(h)
  PROVE  Quiet
<1>1. CASE Reload(h)
  <2>1. UNCHANGED <<rows, batches>> /\ reload' = [reload EXCEPT ![h] = FALSE]
    BY <1>1 DEF Reload
  <2>2. CASE InFlight(h)
    <3>1. NoRun
      BY <1>1, <2>2 DEF Reload
    <3>2. phase'[h] # "none"
      BY <2>2, <3>1 DEF NoRun, run, InFlight
    <3> QED
      BY <2>1, <3>1, <3>2 DEF Quiet, TypeOK
  <2>3. CASE ~InFlight(h)
    <3>1. StartRun(h)
      BY <1>1, <2>3 DEF Reload
    <3>2. phase'[h] # "none"
      BY <3>1 DEF StartRun, StartRuns
    <3> QED
      BY <2>1, <2>3, <3>1, <3>2 DEF Quiet, TypeOK
  <2> QED
    BY <2>2, <2>3
<1>2. CASE Load(h)
  BY <1>2 DEF Load, Loads, Quiet
<1>3. CASE LoadFresh(h)
  BY <1>3 DEF LoadFresh, Loads, Quiet
<1>4. CASE CheckFresh(h)
  BY <1>4 DEF CheckFresh, Loads, Quiet
<1> QED
  BY <1>1, <1>2, <1>3, <1>4

LEMMA QuietSubscribers ==
  ASSUME NEW s \in Subscriber, Subscribe(s) \/ Unsubscribe(s) \/ Rerender(s)
  PROVE  Quiet
<1>1. On[s] \in Handle
  BY HandleAssumption
<1> QED
  BY <1>1 DEF Subscribe, Unsubscribe, Rerender, Quiet

\* A step of the system, by the parts of it that the invariants tell apart.
LEMMA StepCases ==
  ASSUME TypeOK, Next
  PROVE  \/ Quiet
         \/ \E k \in Key : Walk(k) \/ \E v \in Val : Commit(k, v)
         \/ \E h \in Handle : ReadRows(h) \/ Settle(h) \/ Fail(h) \/ Dispose(h)
BY QuietSteps, QuietSubscribers DEF Next

LEMMA TypeStep ==
  ASSUME TypeOK, InOrder, [Next]_vars
  PROVE  TypeOK' /\ InOrder'
<1>1. CASE UNCHANGED vars
  BY <1>1 DEF vars, rows, run, view, TypeOK, InOrder
<1>2. ASSUME NEW k \in Key, Walk(k)  PROVE TypeOK' /\ InOrder'
  BY <1>2, WalkType
<1>3. ASSUME NEW k \in Key, NEW v \in Val, Commit(k, v)  PROVE TypeOK' /\ InOrder'
  <2>1. /\ data' \in [Key -> Val] /\ unwalked' \in [Key -> Nat] /\ trouble' \in Nat
        /\ UNCHANGED <<status, value, deps, phase, snap, prior, barrier, changed, dirty, stale,
                       reload, settleSeq, batches, notified, shown, listeners, fresh>>
    BY <1>3 DEF Commit, TypeOK, run, view
  <2> QED
    BY <2>1 DEF TypeOK, InOrder
<1>4. ASSUME NEW h \in Handle, ReadRows(h)  PROVE TypeOK' /\ InOrder'
  <2>1. Coherent(h, Read(h, data)) /\ Read(h, data) \in Snapshots
    BY ReadIsSnapshot DEF Coherent, TypeOK
  <2>2. phase' = [phase EXCEPT ![h] = "read"] /\ snap' = [snap EXCEPT ![h] = Read(h, data)]
    BY <1>4 DEF ReadRows
  <2>3. UNCHANGED <<data, unwalked, status, value, deps, prior, barrier, changed, dirty, stale,
                    reload, settleSeq, batches, notified, shown, listeners, fresh, trouble>>
    BY <1>4 DEF ReadRows, rows, view
  <2>4. TypeOK'
    BY <2>1, <2>2, <2>3 DEF TypeOK
  <2>5. \A i \in Handle : phase'[i] = "read" => Coherent(i, snap'[i])
    BY <2>1, <2>2 DEF TypeOK, InOrder
  <2> QED
    BY <2>3, <2>4, <2>5 DEF InOrder
<1>5. ASSUME NEW h \in Handle, Settle(h)  PROVE TypeOK' /\ InOrder'
  BY <1>5, SettleType
<1>6. ASSUME NEW h \in Handle, Fail(h)  PROVE TypeOK' /\ InOrder'
  BY <1>6, FailType
<1>7. ASSUME NEW h \in Handle,
             Reload(h) \/ Load(h) \/ LoadFresh(h) \/ CheckFresh(h)
      PROVE  TypeOK' /\ InOrder'
  <2>1. Quiet
    BY <1>7, QuietSteps
  <2>2. /\ reload' \in [Handle -> BOOLEAN]
        /\ fresh' \in [Handle -> {"none", "loading", "check"}]
        /\ UNCHANGED <<notified, shown, listeners, trouble>>
    BY <1>7 DEF Reload, Load, LoadFresh, CheckFresh, TypeOK, view
  <2>3. \A i \in Handle : listeners'[i] \subseteq {s \in Subscriber : On[s] = i}
    BY <2>2 DEF InOrder
  <2>4. /\ listeners' \in [Handle -> SUBSET Subscriber]
        /\ shown' \in [Subscriber -> Snapshots \cup {Unset}]
    BY <2>2 DEF TypeOK
  <2> QED
    BY <2>1, <2>2, <2>3, <2>4, QuietType
<1>8. ASSUME NEW s \in Subscriber, Subscribe(s) \/ Unsubscribe(s) \/ Rerender(s)
      PROVE  TypeOK' /\ InOrder'
  <2>1. Quiet
    BY <1>8, QuietSubscribers
  <2>2. On[s] \in Handle
    BY HandleAssumption
  <2>3. UNCHANGED <<reload, notified, fresh, trouble>>
    BY <1>8 DEF Subscribe, Unsubscribe, Rerender
  <2>4. /\ listeners' \in [Handle -> SUBSET Subscriber]
        /\ \A i \in Handle : listeners'[i] \subseteq {t \in Subscriber : On[t] = i}
    <3>1. \/ listeners' = [listeners EXCEPT ![On[s]] = @ \cup {s}]
          \/ listeners' = [listeners EXCEPT ![On[s]] = @ \ {s}]
          \/ listeners' = listeners
      BY <1>8 DEF Subscribe, Unsubscribe, Rerender
    <3>2. /\ s \in {t \in Subscriber : On[t] = On[s]}
          /\ listeners \in [Handle -> SUBSET Subscriber]
          /\ \A i \in Handle : listeners[i] \subseteq {t \in Subscriber : On[t] = i}
      BY DEF TypeOK, InOrder
    <3>3. CASE listeners' = [listeners EXCEPT ![On[s]] = @ \cup {s}]
      BY <2>2, <3>2, <3>3
    <3>4. CASE listeners' = [listeners EXCEPT ![On[s]] = @ \ {s}]
      BY <2>2, <3>2, <3>4
    <3> QED
      BY <3>1, <3>2, <3>3, <3>4
  <2>5. shown' \in [Subscriber -> Snapshots \cup {Unset}]
    BY <1>8, <2>2 DEF Subscribe, Unsubscribe, Rerender, TypeOK
  <2>6. /\ reload' \in [Handle -> BOOLEAN]
        /\ fresh' \in [Handle -> {"none", "loading", "check"}]
    BY <2>3 DEF TypeOK
  <2> QED
    BY <2>1, <2>3, <2>4, <2>5, <2>6, QuietType
<1>9. ASSUME NEW h \in Handle, Dispose(h)  PROVE TypeOK' /\ InOrder'
  <2>1. batches' \in Seq(Batches) /\ Len(batches') = Len(batches)
    <3>1. batches \in Seq(Batches) /\ DOMAIN batches = 1 .. Len(batches) /\ Len(batches) \in Nat
      BY LenProperties DEF TypeOK, Batches
    <3>2. \A b \in DOMAIN batches :
            [batches[b] EXCEPT !.queue = {s \in @ : s.handle # h}] \in Batches
      <4>1. \A b \in DOMAIN batches : batches[b] \in Batches
        BY <3>1, ElementOfSeq
      <4> QED
        BY <4>1 DEF Batches
    <3>3. batches' \in [1 .. Len(batches) -> Batches]
      BY <1>9, <3>1, <3>2 DEF Dispose
    <3> QED
      BY <3>1, <3>3
  <2>2. /\ status' \in [Handle -> {"idle", "loading", "ready", "error"}]
        /\ value' \in [Handle -> Snapshots \cup {Unset}]
        /\ deps' \in [Handle -> SUBSET Key]
        /\ stale' \in [Handle -> BOOLEAN]
        /\ settleSeq' \in [Handle -> Nat]
        /\ notified' \in [Handle -> Snapshots \cup {Unset}]
        /\ UNCHANGED <<data, unwalked, phase, snap, prior, barrier, changed, dirty, reload,
                       shown, listeners, fresh, trouble>>
    BY <1>9 DEF Dispose, TypeOK, rows, run
  <2> QED
    BY <2>1, <2>2 DEF TypeOK, InOrder, Batches
<1> QED
  BY <1>1, <1>2, <1>3, <1>4, <1>5, <1>6, <1>7, <1>8, <1>9 DEF Next

\* The state of the handle store stays well typed.
THEOREM HandlesTyped == Spec => []TypeOK
<1>1. Init => TypeOK /\ InOrder
  BY HandleAssumption, EmptySeq DEF Init, TypeOK, InOrder
<1>2. (TypeOK /\ InOrder) /\ [Next]_vars => (TypeOK /\ InOrder)'
  BY TypeStep
<1> QED
  BY <1>1, <1>2, PTL DEF Spec
-----------------------------------------------------------------------------
(***************************************************************************)
(* Sound, the strengthening of NoLostInvalidation: what a handle holds is  *)
(* what the loader reads in some state of the rows; at rest it depends on  *)
(* exactly that, and each row of it is the committed one unless a commit   *)
(* of the row is still to be walked.  What a load in flight has read may   *)
(* also be known to have changed.                                          *)
(***************************************************************************)
Committed(v, k) == unwalked[k] = 0 => v[k] = data[k]

Sound ==
  /\ \A h \in Handle : status[h] = "ready" => Coherent(h, value[h])
  /\ \A h \in Handle : AtRest(h) =>
       deps[h] = DOMAIN value[h] /\ \A k \in deps[h] : Committed(value[h], k)
  /\ \A h \in Handle : phase[h] = "read" =>
       \A k \in DOMAIN snap[h] : Committed(snap[h], k) \/ dirty[h] \/ k \in changed[h]

LEMMA SoundQuiet ==
  ASSUME TypeOK, Sound, Quiet
  PROVE  Sound'
<1>1. data' = data /\ unwalked' = unwalked
  BY DEF Quiet, rows
<1>2. CASE NoRun
  <2>1. UNCHANGED <<status, value, deps, phase, snap, changed, dirty, stale>>
    BY <1>2 DEF NoRun, run
  <2>2. \A h \in Handle : AtRest(h)' => AtRest(h)
    BY <2>1 DEF Quiet, AtRest, InFlight, TypeOK
  <2> QED
    BY <1>1, <2>1, <2>2 DEF Sound, Committed
<1>3. CASE \E h \in Handle : ~InFlight(h) /\ StartRun(h)
  <2>1. PICK h \in Handle : StartRun(h)
    BY <1>3
  <2>2. /\ value' = value /\ snap' = snap
        /\ phase'[h] = "reading"
        /\ \A i \in Handle \ {h} :
             /\ phase'[i] = phase[i] /\ deps'[i] = deps[i] /\ status'[i] = status[i]
             /\ stale'[i] = stale[i] /\ dirty'[i] = dirty[i] /\ changed'[i] = changed[i]
        /\ status'[h] = "ready" => status[h] = "ready"
    BY <2>1 DEF StartRun, StartRuns, TypeOK
  <2>3. \A i \in Handle : AtRest(i)' => AtRest(i) /\ i # h
    BY <2>2 DEF Quiet, AtRest, InFlight
  <2> QED
    BY <1>1, <2>2, <2>3 DEF Sound, Committed
<1> QED
  BY <1>2, <1>3 DEF Quiet

LEMMA SoundWalk ==
  ASSUME TypeOK, Sound, NEW k \in Key, Walk(k)
  PROVE  Sound'
<1>1. /\ unwalked' = [unwalked EXCEPT ![k] = @ - 1]
      /\ StartRuns(Runs(k), IF Batched(k) THEN Len(batches) + 1 ELSE 0)
      /\ changed' = [h \in Handle |-> IF h \in Runs(k) THEN {} ELSE ObserveDuringLoad(h, k)]
      /\ dirty' = [h \in Handle |->
                     h \notin Runs(k) /\ (dirty[h] \/ (h \in Matched(k) /\ InFlight(h)))]
      /\ stale' = [h \in Handle |-> h \notin Runs(k) /\ (stale[h] \/ h \in Deferred(k))]
      /\ data' = data /\ reload' = reload
  BY WalkDef
<1>2. /\ value' = value /\ snap' = snap
      /\ \A h \in Handle :
           /\ phase'[h] = IF h \in Runs(k) THEN "reading" ELSE phase[h]
           /\ h \notin Runs(k) => deps'[h] = deps[h] /\ status'[h] = status[h]
           /\ status'[h] = "ready" => status[h] = "ready"
  BY <1>1 DEF StartRuns
<1>3. \A j \in Key \ {k} : unwalked'[j] = unwalked[j]
  BY <1>1 DEF TypeOK
<1>4. ASSUME NEW h \in Handle, AtRest(h)'
      PROVE  deps'[h] = DOMAIN value'[h] /\ \A j \in deps'[h] : Committed(value[h], j)'
  <2>1. h \notin Runs(k) /\ ~InFlight(h)
    BY <1>2, <1>4 DEF AtRest, InFlight
  <2>2. ~stale[h] /\ h \notin Deferred(k)
    BY <1>1, <1>4, <2>1 DEF AtRest
  <2>3. k \notin deps[h]
    BY <2>1, <2>2 DEF Runs, Deferred, Matched
  <2>4. AtRest(h)
    BY <1>1, <1>2, <1>4, <2>1, <2>2 DEF AtRest, InFlight
  <2>5. deps[h] = DOMAIN value[h] /\ \A j \in deps[h] : Committed(value[h], j)
    BY <2>4 DEF Sound
  <2>6. deps[h] \subseteq Key
    BY DEF TypeOK
  <2> QED
    BY <1>1, <1>2, <1>3, <2>1, <2>3, <2>5, <2>6 DEF Committed
<1>5. ASSUME NEW h \in Handle, phase'[h] = "read", NEW j \in DOMAIN snap[h]
      PROVE  Committed(snap[h], j)' \/ dirty'[h] \/ j \in changed'[h]
  <2>1. h \notin Runs(k) /\ phase[h] = "read"
    BY <1>2, <1>5
  <2>2. changed'[h] = changed[h] \cup {k}
    BY <1>1, <2>1 DEF ObserveDuringLoad, InFlight
  <2>3. dirty[h] => dirty'[h]
    BY <1>1, <2>1, Zenon
  <2>4. Committed(snap[h], j) \/ dirty[h] \/ j \in changed[h]
    BY <2>1 DEF Sound
  <2>5. j # k => unwalked'[j] = unwalked[j]
    BY <1>1 DEF TypeOK
  <2> QED
    BY <1>1, <1>2, <2>2, <2>3, <2>4, <2>5 DEF Committed
<1> QED
  BY <1>2, <1>4, <1>5 DEF Sound

LEMMA SoundSettle ==
  ASSUME TypeOK, InOrder, Sound, NEW h \in Handle, Settle(h)
  PROVE  Sound'
<1>1. /\ phase[h] = "read" /\ snap[h] \in Snapshots /\ Coherent(h, snap[h])
      /\ data' = data /\ unwalked' = unwalked
      /\ status' = [status EXCEPT ![h] = "ready"]
      /\ value' = [value EXCEPT ![h] = snap[h]]
      /\ deps' = [deps EXCEPT ![h] = DOMAIN snap[h]]
  BY CoherentType DEF Settle, InOrder, rows
<1>2. /\ phase' = [phase EXCEPT ![h] = "none"] /\ snap' = [snap EXCEPT ![h] = Unset]
      /\ dirty' = [dirty EXCEPT ![h] = FALSE] /\ changed' = [changed EXCEPT ![h] = {}]
      /\ stale' = [stale EXCEPT ![h] = @ \/ (Suspect(h) /\ listeners[h] = {})]
      /\ reload' = [reload EXCEPT ![h] = @ \/ (Suspect(h) /\ listeners[h] # {})]
  BY DEF Settle, EndRun, Rerun
<1>3. \A i \in Handle \ {h} :
        /\ status'[i] = status[i] /\ value'[i] = value[i] /\ deps'[i] = deps[i]
        /\ phase'[i] = phase[i] /\ snap'[i] = snap[i] /\ dirty'[i] = dirty[i]
        /\ changed'[i] = changed[i] /\ stale'[i] = stale[i] /\ reload'[i] = reload[i]
  BY <1>1, <1>2
<1>4. status'[h] = "ready" /\ value'[h] = snap[h] /\ deps'[h] = DOMAIN snap[h]
      /\ phase'[h] = "none"
  BY <1>1, <1>2 DEF TypeOK
<1>5. ASSUME AtRest(h)'
      PROVE  \A k \in DOMAIN snap[h] : Committed(value[h], k)'
  <2>1. ~(stale[h] \/ (Suspect(h) /\ listeners[h] = {}))
    BY <1>2, <1>5, Zenon DEF AtRest, TypeOK
  <2>2. ~(reload[h] \/ (Suspect(h) /\ listeners[h] # {}))
    BY <1>2, <1>5, Zenon DEF AtRest, TypeOK
  <2>3. ~Suspect(h)
    BY <2>1, <2>2
  <2> QED
    BY <1>1, <1>4, <2>3 DEF Suspect, Sound, Committed
<1>6. \A i \in Handle \ {h} : AtRest(i)' => AtRest(i)
  BY <1>3 DEF AtRest, InFlight
<1>7. \A i \in Handle : phase'[i] = "read" => i # h
  BY <1>4
<1> QED
  BY <1>1, <1>3, <1>4, <1>5, <1>6, <1>7 DEF Sound, Committed

LEMMA SoundFail ==
  ASSUME TypeOK, Sound, NEW h \in Handle, Fail(h)
  PROVE  Sound'
<1>1. /\ data' = data /\ unwalked' = unwalked /\ value' = value
      /\ status' = [status EXCEPT ![h] = "error"]
      /\ deps' = [deps EXCEPT ![h] = prior[h]]
  BY DEF Fail, rows
<1>2. /\ phase' = [phase EXCEPT ![h] = "none"] /\ snap' = [snap EXCEPT ![h] = Unset]
      /\ dirty' = [dirty EXCEPT ![h] = FALSE] /\ changed' = [changed EXCEPT ![h] = {}]
      /\ stale' = [stale EXCEPT ![h] = @ \/ (dirty[h] /\ listeners[h] = {})]
      /\ reload' = [reload EXCEPT ![h] = @ \/ (dirty[h] /\ listeners[h] # {})]
  BY DEF Fail, EndRun, Rerun
<1>3. \A i \in Handle \ {h} :
        /\ status'[i] = status[i] /\ deps'[i] = deps[i]
        /\ phase'[i] = phase[i] /\ snap'[i] = snap[i] /\ dirty'[i] = dirty[i]
        /\ changed'[i] = changed[i] /\ stale'[i] = stale[i] /\ reload'[i] = reload[i]
  BY <1>1, <1>2
<1>4. status'[h] = "error" /\ phase'[h] = "none"
  BY <1>1, <1>2 DEF TypeOK
<1> QED
  BY <1>1, <1>3, <1>4 DEF Sound, AtRest, InFlight, Committed

LEMMA SoundDispose ==
  ASSUME TypeOK, Sound, NEW h \in Handle, Dispose(h)
  PROVE  Sound'
<1>1. /\ UNCHANGED <<data, unwalked, phase, snap, dirty, changed, reload>>
      /\ status' = [status EXCEPT ![h] = "idle"]
      /\ value' = [value EXCEPT ![h] = Unset]
      /\ deps' = [deps EXCEPT ![h] = {}]
      /\ stale' = [stale EXCEPT ![h] = FALSE]
  BY DEF Dispose, rows, run
<1>2. \A i \in Handle \ {h} :
        /\ status'[i] = status[i] /\ value'[i] = value[i] /\ deps'[i] = deps[i]
        /\ stale'[i] = stale[i]
  BY <1>1
<1>3. status'[h] = "idle"
  BY <1>1 DEF TypeOK
<1> QED
  BY <1>1, <1>2, <1>3 DEF Sound, AtRest, InFlight, Committed

LEMMA SoundStep ==
  ASSUME TypeOK, InOrder, Sound, [Next]_vars
  PROVE  Sound'
<1>1. CASE UNCHANGED vars
  BY <1>1 DEF vars, rows, run, Sound, AtRest, InFlight, Committed
<1>2. CASE Quiet
  BY <1>2, SoundQuiet
<1>3. ASSUME NEW k \in Key, Walk(k)  PROVE Sound'
  BY <1>3, SoundWalk
<1>4. ASSUME NEW k \in Key, NEW v \in Val, Commit(k, v)  PROVE Sound'
  <2>1. UNCHANGED <<status, value, deps, phase, snap, changed, dirty, stale, reload>>
    BY <1>4 DEF Commit, run
  <2>2. \A j \in Key : unwalked'[j] = 0 => unwalked[j] = 0 /\ data'[j] = data[j]
    BY <1>4 DEF Commit, TypeOK
  <2>3. \A h \in Handle : deps[h] \subseteq Key
                          /\ (phase[h] = "read" => DOMAIN snap[h] \subseteq Key)
    BY CoherentType DEF TypeOK, InOrder
  <2> QED
    BY <2>1, <2>2, <2>3 DEF Sound, AtRest, InFlight, Committed
<1>5. ASSUME NEW h \in Handle, ReadRows(h)  PROVE Sound'
  <2>1. /\ UNCHANGED <<data, unwalked, status, value, deps, changed, dirty, stale, reload>>
        /\ phase[h] = "reading"
        /\ phase' = [phase EXCEPT ![h] = "read"]
        /\ snap' = [snap EXCEPT ![h] = Read(h, data)]
    BY <1>5 DEF ReadRows, rows
  <2>2. \A i \in Handle \ {h} : phase'[i] = phase[i] /\ snap'[i] = snap[i]
    BY <2>1
  <2>3. phase'[h] = "read" /\ snap'[h] = Read(h, data)
    BY <2>1 DEF TypeOK
  <2>4. \A k \in DOMAIN Read(h, data) : Read(h, data)[k] = data[k]
    BY ReadIsSnapshot DEF TypeOK
  <2> QED
    BY <2>1, <2>2, <2>3, <2>4 DEF Sound, AtRest, InFlight, Committed
<1>6. ASSUME NEW h \in Handle, Settle(h)  PROVE Sound'
  BY <1>6, SoundSettle
<1>7. ASSUME NEW h \in Handle, Fail(h)  PROVE Sound'
  BY <1>7, SoundFail
<1>8. ASSUME NEW h \in Handle, Dispose(h)  PROVE Sound'
  BY <1>8, SoundDispose
<1> QED
  BY <1>1, <1>2, <1>3, <1>4, <1>5, <1>6, <1>7, <1>8, StepCases

\* At rest and with its walks done, a handle holds what a query would read.
LEMMA SoundIsTrue ==
  ASSUME TypeOK, Sound
  PROVE  \A h \in Handle : AtRest(h) /\ Walked(h) => value[h] = Read(h, data)
<1> SUFFICES ASSUME NEW h \in Handle, AtRest(h), Walked(h)
             PROVE  value[h] = Read(h, data)
  OBVIOUS
<1>1. Coherent(h, value[h]) /\ \A k \in DOMAIN value[h] : value[h][k] = data[k]
  BY DEF Sound, AtRest, Walked, Committed
<1>2. data \in [Key -> Val]
  BY DEF TypeOK
<1> QED
  BY <1>1, <1>2, CoherentIsTrue

LEMMA SoundAlways == Spec => [](TypeOK /\ InOrder /\ Sound)
<1>1. Init => TypeOK /\ InOrder /\ Sound
  BY HandleAssumption, EmptySeq DEF Init, TypeOK, InOrder, Sound, AtRest
<1>2. (TypeOK /\ InOrder /\ Sound) /\ [Next]_vars => (TypeOK /\ InOrder /\ Sound)'
  BY TypeStep, SoundStep
<1> QED
  BY <1>1, <1>2, PTL DEF Spec

\* No walk is lost on a load, whenever commits, walks and loads interleave.
THEOREM InvalidationsNotLost == Spec => []NoLostInvalidation
<1>1. TypeOK /\ Sound => NoLostInvalidation
  BY SoundIsTrue DEF NoLostInvalidation
<1> QED
  BY <1>1, SoundAlways, PTL
-----------------------------------------------------------------------------
(***************************************************************************)
(* A loadFresh that looks again finds a run in flight or a handle that is  *)
(* ready: it is never satisfied with one that failed or was disposed.      *)
(***************************************************************************)
Answered == \A h \in Handle : fresh[h] = "check" /\ ~InFlight(h) => status[h] = "ready"

LEMMA AnsweredQuiet ==
  ASSUME TypeOK, Answered, Quiet,
         \A h \in Handle : fresh'[h] = "check" =>
           fresh[h] = "check" \/ (status'[h] = "ready" /\ ~InFlight(h))
  PROVE  Answered'
<1>1. CASE NoRun
  BY <1>1 DEF NoRun, run, Answered, InFlight
<1>2. CASE \E h \in Handle : ~InFlight(h) /\ StartRun(h)
  <2>1. PICK h \in Handle : StartRun(h)
    BY <1>2
  <2>2. /\ phase'[h] = "reading"
        /\ \A i \in Handle \ {h} : phase'[i] = phase[i] /\ status'[i] = status[i]
    BY <2>1 DEF StartRun, StartRuns
  <2> QED
    BY <2>2 DEF Answered, InFlight
<1> QED
  BY <1>1, <1>2 DEF Quiet

LEMMA AnsweredStep ==
  ASSUME TypeOK, Answered, [Next]_vars
  PROVE  Answered'
<1>1. CASE UNCHANGED vars
  BY <1>1 DEF vars, run, Answered, InFlight
<1>2. ASSUME NEW k \in Key, Walk(k)  PROVE Answered'
  <2>1. StartRuns(Runs(k), IF Batched(k) THEN Len(batches) + 1 ELSE 0) /\ fresh' = fresh
    BY <1>2, WalkDef
  <2>2. \A h \in Handle :
          phase'[h] = "reading" \/ (phase'[h] = phase[h] /\ status'[h] = status[h])
    BY <2>1 DEF StartRuns
  <2> QED
    BY <2>1, <2>2 DEF Answered, InFlight
<1>3. ASSUME NEW k \in Key, NEW v \in Val, Commit(k, v)  PROVE Answered'
  BY <1>3 DEF Commit, run, Answered, InFlight
<1>4. ASSUME NEW h \in Handle, ReadRows(h)  PROVE Answered'
  BY <1>4 DEF ReadRows, Answered, InFlight, TypeOK
<1>5. ASSUME NEW h \in Handle, Settle(h)  PROVE Answered'
  <2>1. /\ status' = [status EXCEPT ![h] = "ready"]
        /\ phase' = [phase EXCEPT ![h] = "none"]
        /\ fresh' = [fresh EXCEPT ![h] = IF @ = "loading" THEN "check" ELSE @]
    BY <1>5 DEF Settle, EndRun
  <2> QED
    BY <2>1 DEF Answered, InFlight, TypeOK
<1>6. ASSUME NEW h \in Handle, Fail(h)  PROVE Answered'
  <2>1. /\ status' = [status EXCEPT ![h] = "error"]
        /\ phase' = [phase EXCEPT ![h] = "none"]
        /\ fresh' = [fresh EXCEPT ![h] = "none"]
    BY <1>6 DEF Fail, EndRun
  <2> QED
    BY <2>1 DEF Answered, InFlight, TypeOK
<1>7. ASSUME NEW h \in Handle, Dispose(h)  PROVE Answered'
  BY <1>7 DEF Dispose, run, Answered, InFlight, TypeOK
<1>8. ASSUME NEW h \in Handle, LoadFresh(h)  PROVE Answered'
  <2>1. CASE ~InFlight(h) /\ status[h] = "ready" /\ ~stale[h]
    <3>1. NoRun /\ fresh' = [fresh EXCEPT ![h] = "check"]
      BY <1>8, <2>1 DEF LoadFresh, Loads
    <3> QED
      BY <2>1, <3>1 DEF NoRun, run, Answered, InFlight, TypeOK
  <2>2. CASE ~(~InFlight(h) /\ status[h] = "ready" /\ ~stale[h])
    <3>1. Quiet /\ fresh' = [fresh EXCEPT ![h] = "loading"]
      BY <1>8, <2>2, QuietSteps DEF LoadFresh
    <3> QED
      BY <3>1, AnsweredQuiet DEF TypeOK
  <2> QED
    BY <2>1, <2>2
<1>9. ASSUME NEW h \in Handle, CheckFresh(h)  PROVE Answered'
  <2>1. Quiet
    BY <1>9, QuietSteps
  <2>2. \A i \in Handle : fresh'[i] = "check" => fresh[i] = "check"
    BY <1>9 DEF CheckFresh, TypeOK
  <2> QED
    BY <2>1, <2>2, AnsweredQuiet
<1>10. ASSUME NEW h \in Handle, Reload(h) \/ Load(h)  PROVE Answered'
  BY <1>10, QuietSteps, AnsweredQuiet DEF Reload, Load
<1>11. ASSUME NEW s \in Subscriber, Subscribe(s) \/ Unsubscribe(s) \/ Rerender(s)
       PROVE  Answered'
  BY <1>11, QuietSubscribers, AnsweredQuiet DEF Subscribe, Unsubscribe, Rerender
<1> QED
  BY <1>1, <1>2, <1>3, <1>4, <1>5, <1>6, <1>7, <1>8, <1>9, <1>10, <1>11 DEF Next

\* What loadFresh answers is what a query would read, unless a commit of the
\* rows it depends on is still to be walked.
THEOREM FreshLoadsAreTrue == Spec => LoadFreshIsTrue
<1>1. Init => Answered
  BY DEF Init, Answered
<1>2. TypeOK /\ Answered /\ [Next]_vars => Answered'
  BY AnsweredStep
<1>3. ASSUME TypeOK, Sound, Answered, [Next]_vars, NEW h \in Handle,
             fresh[h] = "check", fresh'[h] = "none", Walked(h)
      PROVE  value[h] = Read(h, data)
  <2>1. MicrotaskDue
    BY <1>3 DEF MicrotaskDue
  <2>2. CheckFresh(h)
    <3>1. fresh' # fresh
      BY <1>3
    <3>2. PICK i \in Handle : LoadFresh(i) \/ CheckFresh(i)
      BY <1>3, <2>1, <3>1, WalkDef
      DEF Next, vars, Commit, ReadRows, Settle, Fail, Reload, Load, Dispose, Subscribe,
          Unsubscribe, Rerender
    <3>3. i = h
      BY <1>3, <3>2 DEF LoadFresh, CheckFresh, TypeOK
    <3> QED
      BY <1>3, <3>2, <3>3 DEF LoadFresh
  <2>3. AtRest(h)
    BY <1>3, <2>2 DEF CheckFresh, Answered, AtRest, TypeOK
  <2> QED
    BY <1>3, <2>3, SoundIsTrue
<1>4. TypeOK /\ Sound /\ Answered /\ [Next]_vars =>
        [\A h \in Handle : fresh[h] = "check" /\ fresh'[h] = "none" /\ Walked(h) =>
           value[h] = Read(h, data)]_vars
  BY <1>3
<1> QED
  BY <1>1, <1>2, <1>4, SoundAlways, PTL DEF Spec, LoadFreshIsTrue
-----------------------------------------------------------------------------
(***************************************************************************)
(* Barriers, the strengthening of NoHungBarrier: a handle with a place in  *)
(* a barrier waits there, and nowhere else.                                *)
(***************************************************************************)
Barriers ==
  /\ NoHungBarrier
  /\ \A h \in Handle : barrier[h] # 0 => h \in batches[barrier[h]].waiting

(***************************************************************************)
(* Orderly: what is queued behind a barrier belongs to a handle that has   *)
(* left it, and is of an earlier settle or what the handle still holds.    *)
(***************************************************************************)
Orderly ==
  \A b \in DOMAIN batches : \A s \in batches[b].queue :
    /\ s.handle \in Handle \ batches[b].waiting
    /\ s.seq \in Nat /\ s.seq <= settleSeq[s.handle]
    /\ s.seq = settleSeq[s.handle] => s.value = value[s.handle]

LEMMA BatchTypes ==
  ASSUME TypeOK
  PROVE  /\ Len(batches) \in Nat /\ DOMAIN batches = 1 .. Len(batches)
         /\ \A b \in DOMAIN batches :
              /\ batches[b] \in Batches
              /\ batches[b].waiting \subseteq Handle /\ batches[b].queue \subseteq Slots
         /\ \A h \in Handle : barrier[h] # 0 => barrier[h] \in DOMAIN batches
<1>1. batches \in Seq(Batches)
  BY DEF TypeOK, Batches
<1>2. Len(batches) \in Nat /\ DOMAIN batches = 1 .. Len(batches)
  BY <1>1, LenProperties
<1>3. \A b \in DOMAIN batches : batches[b] \in Batches
  BY <1>1, <1>2, ElementOfSeq
<1>4. \A h \in Handle : barrier[h] # 0 => barrier[h] \in DOMAIN batches
  BY <1>2 DEF TypeOK
<1> QED
  BY <1>2, <1>3, <1>4 DEF Batches

LEMMA LeaveDef ==
  ASSUME TypeOK, NEW h \in Handle, NEW slots, LeaveBarrier(h, slots)
  PROVE  /\ DOMAIN batches' = DOMAIN batches
         /\ \A b \in DOMAIN batches : b # barrier[h] => batches'[b] = batches[b]
         /\ barrier[h] # 0 =>
              /\ barrier[h] \in DOMAIN batches
              /\ batches'[barrier[h]].waiting = batches[barrier[h]].waiting \ {h}
              /\ batches'[barrier[h]].queue =
                   IF batches[barrier[h]].waiting = {h} THEN {}
                   ELSE batches[barrier[h]].queue \cup slots
<1>1. CASE barrier[h] = 0
  BY <1>1 DEF LeaveBarrier
<1>2. CASE barrier[h] # 0
  <2>1. barrier[h] \in DOMAIN batches
    BY <1>2, LenProperties DEF TypeOK
  <2> QED
    BY <1>2, <2>1 DEF LeaveBarrier
<1> QED
  BY <1>1, <1>2

LEMMA BarriersLeft ==
  ASSUME TypeOK, Barriers, NEW h \in Handle, InFlight(h), NEW slots, LeaveBarrier(h, slots),
         phase' = [phase EXCEPT ![h] = "none"], barrier' = [barrier EXCEPT ![h] = 0]
  PROVE  Barriers'
<1>1. /\ phase'[h] = "none" /\ barrier'[h] = 0
      /\ \A i \in Handle \ {h} : phase'[i] = phase[i] /\ barrier'[i] = barrier[i]
  BY DEF TypeOK
<1>2. \A b \in DOMAIN batches : batches[b].waiting \subseteq Handle
  BY BatchTypes
<1>3. ASSUME NEW b \in DOMAIN batches'
      PROVE  /\ batches'[b].queue # {} => batches'[b].waiting # {}
             /\ \A i \in batches'[b].waiting : InFlight(i)' /\ barrier'[i] = b
  <2>1. CASE b # barrier[h]
    <3>1. b \in DOMAIN batches /\ batches'[b] = batches[b] /\ h \notin batches[b].waiting
      BY <1>3, <2>1, LeaveDef DEF Barriers, NoHungBarrier
    <3> QED
      BY <1>1, <1>2, <3>1 DEF Barriers, NoHungBarrier, InFlight
  <2>2. CASE b = barrier[h]
    <3>1. b # 0 /\ b \in DOMAIN batches
      <4>1. b \in DOMAIN batches
        BY <1>3, LeaveDef
      <4> QED
        BY <4>1, BatchTypes
    <3>2. /\ batches'[b].waiting = batches[b].waiting \ {h}
          /\ batches'[b].queue = IF batches[b].waiting = {h} THEN {}
                                 ELSE batches[b].queue \cup slots
      BY <2>2, <3>1, LeaveDef
    <3>3. h \in batches[b].waiting
      BY <2>2, <3>1 DEF Barriers
    <3> QED
      BY <1>1, <1>2, <3>1, <3>2, <3>3 DEF Barriers, NoHungBarrier, InFlight
  <2> QED
    BY <2>1, <2>2
<1>4. ASSUME NEW i \in Handle, barrier'[i] # 0  PROVE i \in batches'[barrier'[i]].waiting
  <2>1. i # h /\ barrier'[i] = barrier[i]
    BY <1>1, <1>4
  <2>2. i \in batches[barrier[i]].waiting /\ barrier[i] \in DOMAIN batches
    BY <1>4, <2>1, LenProperties DEF Barriers, TypeOK
  <2>3. CASE barrier[i] # barrier[h]
    BY <2>1, <2>2, <2>3, LeaveDef
  <2>4. CASE barrier[i] = barrier[h]
    <3>1. batches'[barrier[h]].waiting = batches[barrier[h]].waiting \ {h}
      BY <1>4, <2>1, <2>4, LeaveDef
    <3> QED
      BY <2>1, <2>2, <2>4, <3>1
  <2> QED
    BY <2>3, <2>4
<1> QED
  BY <1>3, <1>4 DEF Barriers, NoHungBarrier

LEMMA BarriersStep ==
  ASSUME TypeOK, Barriers, [Next]_vars
  PROVE  Barriers'
<1>1. CASE UNCHANGED vars
  BY <1>1 DEF vars, run, Barriers, NoHungBarrier, InFlight
<1>2. CASE Quiet
  <2>1. batches' = batches
    BY <1>2 DEF Quiet
  <2>2. CASE NoRun
    BY <2>1, <2>2 DEF NoRun, run, Barriers, NoHungBarrier, InFlight
  <2>3. CASE \E h \in Handle : ~InFlight(h) /\ StartRun(h)
    <3>1. PICK h \in Handle : ~InFlight(h) /\ StartRun(h)
      BY <2>3
    <3>2. /\ barrier'[h] = 0
          /\ \A i \in Handle \ {h} : phase'[i] = phase[i] /\ barrier'[i] = barrier[i]
      BY <3>1 DEF StartRun, StartRuns
    <3>3. \A b \in DOMAIN batches : batches[b].waiting \subseteq Handle \ {h}
      BY <3>1, BatchTypes DEF Barriers, NoHungBarrier
    <3> QED
      BY <2>1, <3>2, <3>3 DEF Barriers, NoHungBarrier, InFlight
  <2> QED
    BY <1>2, <2>2, <2>3 DEF Quiet
<1>3. ASSUME NEW k \in Key, Walk(k)  PROVE Barriers'
  <2> DEFINE n == Len(batches)
  <2>1. /\ StartRuns(Runs(k), IF Batched(k) THEN n + 1 ELSE 0)
        /\ batches' = IF Batched(k)
                      THEN Append(batches, [waiting |-> Runs(k), queue |-> {}]) ELSE batches
    BY <1>3, WalkDef
  <2>2. \A h \in Handle :
          IF h \in Runs(k)
          THEN phase'[h] = "reading" /\ barrier'[h] = IF Batched(k) THEN n + 1 ELSE 0
          ELSE phase'[h] = phase[h] /\ barrier'[h] = barrier[h]
    BY <2>1 DEF StartRuns
  <2>3. n \in Nat /\ DOMAIN batches = 1 .. n
        /\ \A b \in 1 .. n : batches[b].waiting \subseteq Handle
    BY BatchTypes
  <2>4. \A b \in 1 .. n : batches[b].waiting \cap Runs(k) = {}
    BY <2>3 DEF Barriers, NoHungBarrier, Runs
  <2>5. Runs(k) \subseteq Handle
    BY DEF Runs, Matched
  <2>6. CASE ~Batched(k)
    BY <2>1, <2>2, <2>3, <2>4, <2>6 DEF Barriers, NoHungBarrier, InFlight
  <2>7. CASE Batched(k)
    <3>1. /\ DOMAIN batches' = 1 .. n + 1
          /\ \A b \in 1 .. n : batches'[b] = batches[b]
          /\ batches'[n + 1] = [waiting |-> Runs(k), queue |-> {}]
      BY <2>1, <2>3, <2>7 DEF TypeOK
    <3>2. \A b \in 1 .. n + 1 : b = n + 1 \/ b \in 1 .. n
      BY <2>3
    <3>3. NoHungBarrier'
      BY <2>2, <2>3, <2>4, <2>5, <2>7, <3>1, <3>2 DEF Barriers, NoHungBarrier, InFlight
    <3>4. ASSUME NEW h \in Handle, barrier'[h] # 0
          PROVE  h \in batches'[barrier'[h]].waiting
      <4>1. CASE h \in Runs(k)
        BY <2>2, <2>7, <3>1, <4>1
      <4>2. CASE h \notin Runs(k)
        <5>1. barrier'[h] = barrier[h] /\ barrier[h] \in 1 .. n
          BY <2>2, <2>3, <3>4, <4>2 DEF TypeOK
        <5> QED
          BY <3>1, <3>4, <5>1 DEF Barriers
      <4> QED
        BY <4>1, <4>2
    <3> QED
      BY <3>3, <3>4 DEF Barriers
  <2> QED
    BY <2>6, <2>7
<1>4. ASSUME NEW k \in Key, NEW v \in Val, Commit(k, v)  PROVE Barriers'
  BY <1>4 DEF Commit, run, Barriers, NoHungBarrier, InFlight
<1>5. ASSUME NEW h \in Handle, ReadRows(h)  PROVE Barriers'
  <2>1. UNCHANGED <<batches, barrier>> /\ phase' = [phase EXCEPT ![h] = "read"]
    BY <1>5 DEF ReadRows
  <2>2. \A i \in Handle : InFlight(i) => InFlight(i)'
    BY <2>1 DEF InFlight, TypeOK
  <2>3. \A b \in DOMAIN batches : batches[b].waiting \subseteq Handle
    BY BatchTypes
  <2> QED
    BY <2>1, <2>2, <2>3 DEF Barriers, NoHungBarrier
<1>6. ASSUME NEW h \in Handle, Settle(h)  PROVE Barriers'
  BY <1>6, BarriersLeft DEF Settle, EndRun, InFlight
<1>7. ASSUME NEW h \in Handle, Fail(h)  PROVE Barriers'
  BY <1>7, BarriersLeft DEF Fail, EndRun
<1>8. ASSUME NEW h \in Handle, Dispose(h)  PROVE Barriers'
  <2>1. /\ phase' = phase /\ barrier' = barrier
        /\ DOMAIN batches' = DOMAIN batches
        /\ \A b \in DOMAIN batches :
             batches'[b] = [batches[b] EXCEPT !.queue = {s \in @ : s.handle # h}]
    BY <1>8 DEF Dispose, run
  <2>2. \A b \in DOMAIN batches : batches[b] \in Batches
    BY BatchTypes
  <2>3. \A b \in DOMAIN batches : batches'[b].waiting = batches[b].waiting
                                  /\ batches'[b].queue \subseteq batches[b].queue
    BY <2>1, <2>2 DEF Batches
  <2>4. \A i \in Handle : barrier[i] # 0 => barrier[i] \in DOMAIN batches
    BY BatchTypes
  <2> QED
    BY <2>1, <2>3, <2>4 DEF Barriers, NoHungBarrier, InFlight
<1> QED
  BY <1>1, <1>2, <1>3, <1>4, <1>5, <1>6, <1>7, <1>8, StepCases

LEMMA BarriersAlways == Spec => []Barriers
<1>1. Init => Barriers
  BY EmptySeq DEF Init, Barriers, NoHungBarrier
<1>2. TypeOK /\ Barriers /\ [Next]_vars => Barriers'
  BY BarriersStep
<1> QED
  BY <1>1, <1>2, HandlesTyped, PTL DEF Spec

\* Every notification behind a barrier waits for a load that is in flight
\* and holds its place there.
THEOREM BarriersOpen == Spec => []NoHungBarrier
BY BarriersAlways, PTL DEF Barriers
-----------------------------------------------------------------------------
(***************************************************************************)
(* The end of a run of h, with the slots it queues: those of its own are   *)
(* of this settle and of the value it leaves, those of others stay true.   *)
(***************************************************************************)
Ends(h, slots) ==
  /\ InFlight(h) /\ slots \in SUBSET Slots
  /\ LeaveBarrier(h, slots) /\ Publish(Flushed(h, slots))
  /\ \A i \in Handle \ {h} : settleSeq'[i] = settleSeq[i] /\ value'[i] = value[i]
  /\ \/ settleSeq'[h] = settleSeq[h] + 1
     \/ settleSeq'[h] = settleSeq[h] /\ value'[h] = value[h]
  /\ \A s \in slots : s.handle = h /\ s.seq = settleSeq'[h] /\ s.value = value'[h]

LEMMA SettleEnds ==
  ASSUME TypeOK, InOrder, NEW h \in Handle, Settle(h)
  PROVE  Ends(h, IF ~Suspect(h) /\ notified[h] # snap[h]
                 THEN {Slot(h, settleSeq[h] + 1, snap[h])} ELSE {})
<1>1. /\ phase[h] = "read" /\ snap[h] \in Snapshots
      /\ settleSeq' = [settleSeq EXCEPT ![h] = @ + 1]
      /\ value' = [value EXCEPT ![h] = snap[h]]
  BY CoherentType DEF Settle, InOrder
<1>2. Slot(h, settleSeq[h] + 1, snap[h]) \in Slots
  BY <1>1 DEF Slot, Slots, TypeOK
<1>3. settleSeq'[h] = settleSeq[h] + 1 /\ value'[h] = snap[h]
      /\ \A i \in Handle \ {h} : settleSeq'[i] = settleSeq[i] /\ value'[i] = value[i]
  BY <1>1 DEF TypeOK
<1> DEFINE slots == IF ~Suspect(h) /\ notified[h] # snap[h]
                    THEN {Slot(h, settleSeq[h] + 1, snap[h])} ELSE {}
<1>4. LeaveBarrier(h, slots) /\ Publish(Flushed(h, slots))
  BY DEF Settle
<1>5. \A s \in slots : s.handle = h /\ s.seq = settleSeq'[h] /\ s.value = value'[h]
  BY <1>3 DEF Slot
<1>6. slots \in SUBSET Slots
  BY <1>2
<1> HIDE DEF slots
<1>7. Ends(h, slots)
  BY <1>1, <1>3, <1>4, <1>5, <1>6 DEF Ends, InFlight
<1> QED
  BY <1>7 DEF slots

LEMMA FailEnds ==
  ASSUME NEW h \in Handle, Fail(h)
  PROVE  Ends(h, {})
BY DEF Fail, Ends

\* A flush tells what the handles hold after the step; of h it tells
\* something only if h has queued something.
LEMMA EndsTellTheTruth ==
  ASSUME TypeOK, Barriers, Orderly, NEW h \in Handle, NEW slots, Ends(h, slots),
         NEW i \in Told(Flushed(h, slots))
  PROVE  /\ News(i, Flushed(h, slots)) = value'[i]
         /\ i = h => slots # {}
<1>1. PICK s \in Current(Flushed(h, slots)) :
        s.handle = i /\ News(i, Flushed(h, slots)) = s.value
  BY NewsIsASlot
<1>2. s \in Flushed(h, slots) /\ s.seq = settleSeq'[i] /\ i \in Handle
  BY <1>1 DEF Current, Told
<1>3. CASE s \in slots
  BY <1>1, <1>3 DEF Ends
<1>4. CASE s \notin slots
  <2>1. barrier[h] # 0 /\ s \in batches[barrier[h]].queue
    BY <1>2, <1>4 DEF Flushed
  <2>2. barrier[h] \in DOMAIN batches /\ h \in batches[barrier[h]].waiting
    BY <2>1, BatchTypes DEF Barriers
  <2>3. i # h /\ (s.seq = settleSeq[i] => s.value = value[i])
    BY <1>1, <2>1, <2>2 DEF Orderly
  <2> QED
    BY <1>1, <1>2, <2>3 DEF Ends
<1> QED
  BY <1>3, <1>4

LEMMA OrderlyEnds ==
  ASSUME TypeOK, Barriers, Orderly, NEW h \in Handle, NEW slots, Ends(h, slots)
  PROVE  Orderly'
<1>1. LeaveBarrier(h, slots)
  BY DEF Ends
<1>2. settleSeq \in [Handle -> Nat]
  BY DEF TypeOK
<1> SUFFICES ASSUME NEW b \in DOMAIN batches', NEW s \in batches'[b].queue
             PROVE  /\ s.handle \in Handle \ batches'[b].waiting
                    /\ s.seq \in Nat /\ s.seq <= settleSeq'[s.handle]
                    /\ s.seq = settleSeq'[s.handle] => s.value = value'[s.handle]
  BY DEF Orderly
<1>3. b \in DOMAIN batches
  BY <1>1, LeaveDef
<1>4. batches'[b].waiting \subseteq batches[b].waiting
  <2>1. CASE b = barrier[h]
    <3>1. b # 0
      BY <1>3, BatchTypes
    <3> QED
      BY <1>1, <2>1, <3>1, LeaveDef
  <2>2. CASE b # barrier[h]
    BY <1>1, <1>3, <2>2, LeaveDef
  <2> QED
    BY <2>1, <2>2
<1>5. CASE s \in batches[b].queue
  <2>1. /\ s.handle \in Handle \ batches[b].waiting
        /\ s.seq \in Nat /\ s.seq <= settleSeq[s.handle]
        /\ s.seq = settleSeq[s.handle] => s.value = value[s.handle]
    BY <1>3, <1>5 DEF Orderly
  <2>2. CASE s.handle # h
    BY <1>4, <2>1, <2>2 DEF Ends
  <2>3. CASE s.handle = h
    BY <1>2, <1>4, <2>1, <2>3 DEF Ends
  <2> QED
    BY <2>2, <2>3
<1>6. CASE s \notin batches[b].queue
  <2>1. b = barrier[h] /\ b # 0
    <3>1. b # barrier[h] => batches'[b] = batches[b]
      BY <1>1, <1>3, LeaveDef
    <3> QED
      BY <1>3, <1>6, <3>1, BatchTypes
  <2>2. s \in slots /\ batches'[b].waiting = batches[b].waiting \ {h}
    <3>1. /\ batches'[b].waiting = batches[b].waiting \ {h}
          /\ batches'[b].queue = IF batches[b].waiting = {h} THEN {}
                                 ELSE batches[b].queue \cup slots
      BY <1>1, <2>1, LeaveDef
    <3> QED
      BY <1>6, <3>1
  <2>3. s.handle = h /\ s.seq = settleSeq'[h] /\ s.value = value'[h] /\ s \in Slots
    BY <2>2 DEF Ends
  <2>4. settleSeq'[h] \in Nat
    BY <1>2 DEF Ends
  <2> QED
    BY <2>2, <2>3, <2>4
<1> QED
  BY <1>5, <1>6

LEMMA OrderlyStep ==
  ASSUME TypeOK, InOrder, Barriers, Orderly, [Next]_vars
  PROVE  Orderly'
<1>1. CASE UNCHANGED vars
  BY <1>1 DEF vars, Orderly
<1>2. CASE Quiet
  <2>1. UNCHANGED <<batches, settleSeq, value>>
    BY <1>2 DEF Quiet, NoRun, StartRun, StartRuns
  <2> QED
    BY <2>1 DEF Orderly
<1>3. ASSUME NEW k \in Key, Walk(k)  PROVE Orderly'
  <2>1. /\ settleSeq' = settleSeq /\ value' = value
        /\ batches' = IF Batched(k)
                      THEN Append(batches, [waiting |-> Runs(k), queue |-> {}]) ELSE batches
    BY <1>3, WalkDef DEF StartRuns
  <2>2. \A b \in DOMAIN batches' :
          batches'[b].queue = {} \/ (b \in DOMAIN batches /\ batches'[b] = batches[b])
    BY <2>1, BatchTypes DEF TypeOK
  <2> QED
    BY <2>1, <2>2 DEF Orderly
<1>4. ASSUME NEW k \in Key, NEW v \in Val, Commit(k, v)  PROVE Orderly'
  BY <1>4 DEF Commit, Orderly
<1>5. ASSUME NEW h \in Handle, ReadRows(h)  PROVE Orderly'
  BY <1>5 DEF ReadRows, Orderly
<1>6. ASSUME NEW h \in Handle, Settle(h)  PROVE Orderly'
  BY <1>6, SettleEnds, OrderlyEnds
<1>7. ASSUME NEW h \in Handle, Fail(h)  PROVE Orderly'
  BY <1>7, FailEnds, OrderlyEnds
<1>8. ASSUME NEW h \in Handle, Dispose(h)  PROVE Orderly'
  <2>1. /\ DOMAIN batches' = DOMAIN batches
        /\ \A b \in DOMAIN batches :
             batches'[b] = [batches[b] EXCEPT !.queue = {s \in @ : s.handle # h}]
        /\ \A i \in Handle \ {h} : settleSeq'[i] = settleSeq[i] /\ value'[i] = value[i]
    BY <1>8 DEF Dispose
  <2>2. \A b \in DOMAIN batches : batches[b] \in Batches
    BY BatchTypes
  <2>3. \A b \in DOMAIN batches : batches'[b].waiting = batches[b].waiting
          /\ batches'[b].queue = {s \in batches[b].queue : s.handle # h}
    BY <2>1, <2>2 DEF Batches
  <2> QED
    BY <2>1, <2>3 DEF Orderly
<1> QED
  BY <1>1, <1>2, <1>3, <1>4, <1>5, <1>6, <1>7, <1>8, StepCases

\* What is pushed is what the handle holds, and not suspect.
LEMMA PushStep ==
  ASSUME TypeOK, InOrder, Barriers, Orderly, [Next]_vars, NEW i \in Handle,
         notified'[i] \notin {notified[i], Unset}
  PROVE  notified'[i] = value'[i] /\ ~reload'[i]
<1>1. PICK h \in Handle : Settle(h) \/ Fail(h)
  <2>1. notified' # notified
    OBVIOUS
  <2>2. ASSUME NEW h \in Handle, Dispose(h)  PROVE FALSE
    BY <2>2 DEF Dispose, TypeOK
  <2> QED
    BY <2>1, <2>2, WalkDef
    DEF Next, vars, view, Commit, ReadRows, Reload, Load, LoadFresh, CheckFresh,
        Subscribe, Unsubscribe, Rerender
<1>2. ~reload[i]
  BY <1>1 DEF Settle, Fail, MicrotaskDue
<1>3. ASSUME NEW slots, Ends(h, slots), i = h /\ slots # {} => ~reload'[h],
             i # h => reload'[i] = reload[i]
      PROVE  notified'[i] = value'[i] /\ ~reload'[i]
  <2>1. Publish(Flushed(h, slots))
    BY <1>3 DEF Ends
  <2>2. notified' = [j \in Handle |-> IF j \in Told(Flushed(h, slots))
                                     THEN News(j, Flushed(h, slots)) ELSE notified[j]]
    BY <2>1, PublishDef
  <2>3. i \in Told(Flushed(h, slots)) /\ notified'[i] = News(i, Flushed(h, slots))
    BY <2>2
  <2>4. notified'[i] = value'[i] /\ (i = h => slots # {})
    BY <1>3, <2>3, EndsTellTheTruth
  <2> QED
    BY <1>2, <1>3, <2>4
<1>4. CASE Settle(h)
  <2> DEFINE slots == IF ~Suspect(h) /\ notified[h] # snap[h]
                      THEN {Slot(h, settleSeq[h] + 1, snap[h])} ELSE {}
  <2>1. reload' = [reload EXCEPT ![h] = @ \/ (Suspect(h) /\ listeners[h] # {})]
    BY <1>4 DEF Settle, Rerun
  <2>2. i # h => reload'[i] = reload[i]
    BY <2>1 DEF TypeOK
  <2>3. ASSUME i = h, ~Suspect(h)  PROVE ~reload'[h]
    BY <1>2, <2>1, <2>3, Zenon DEF TypeOK
  <2>4. Ends(h, slots)
    BY <1>4, SettleEnds
  <2>5. slots # {} => ~Suspect(h)
    OBVIOUS
  <2> HIDE DEF slots
  <2> QED
    BY <1>3, <2>2, <2>3, <2>4, <2>5
<1>5. CASE Fail(h)
  <2>1. i # h => reload'[i] = reload[i]
    BY <1>5 DEF Fail, Rerun, TypeOK
  <2> QED
    BY <1>3, <1>5, <2>1, FailEnds
<1> QED
  BY <1>1, <1>4, <1>5

LEMMA OrderlyAlways == Spec => []Orderly
<1>1. Init => Orderly
  BY EmptySeq DEF Init, Orderly
<1>2. TypeOK /\ InOrder /\ Barriers /\ Orderly /\ [Next]_vars => Orderly'
  BY OrderlyStep
<1> QED
  BY <1>1, <1>2, SoundAlways, BarriersAlways, PTL DEF Spec

\* No subscriber is told an older value after a newer one, or one that is
\* known to be suspect, in whatever order loads settle and barriers open.
THEOREM PushesCurrent == Spec => PushesAreCurrent
<1>1. TypeOK /\ InOrder /\ Barriers /\ Orderly /\ [Next]_vars =>
        [\A h \in Handle :
           notified'[h] \notin {notified[h], Unset} =>
             notified'[h] = value'[h] /\ ~reload'[h]]_vars
  BY PushStep
<1> QED
  BY <1>1, SoundAlways, BarriersAlways, OrderlyAlways, PTL DEF Spec, PushesAreCurrent
-----------------------------------------------------------------------------
(***************************************************************************)
(* What subscribers show.                                                  *)
(***************************************************************************)
\* The steps that end no run leave alone what is pushed and queued, and a
\* subscriber that shows something else shows the value.
LEMMA MissedByNone ==
  ASSUME TypeOK, OnlyAnUndoneChangeIsMissed,
         \A h \in Handle : AtRest(h)' => AtRest(h),
         \A h \in Handle : AtRest(h)' =>
           value'[h] = value[h] /\ notified'[h] = notified[h] /\ (Queued(h) => Queued(h)'),
         \A s \in Subscriber : s \in listeners'[On[s]] =>
           \/ shown'[s] = value'[On[s]]
           \/ s \in listeners[On[s]] /\ shown'[s] = shown[s]
  PROVE  OnlyAnUndoneChangeIsMissed'
BY HandleAssumption DEF OnlyAnUndoneChangeIsMissed

LEMMA QuietRest ==
  ASSUME TypeOK, Quiet
  PROVE  /\ \A h \in Handle : AtRest(h)' => AtRest(h)
         /\ value' = value /\ settleSeq' = settleSeq /\ batches' = batches
<1>1. value' = value /\ settleSeq' = settleSeq /\ batches' = batches
  BY DEF Quiet, NoRun, StartRun, StartRuns
<1>2. CASE NoRun
  <2>1. UNCHANGED <<status, phase, stale>>
    BY <1>2 DEF NoRun, run
  <2> QED
    BY <1>1, <2>1 DEF Quiet, AtRest, InFlight
<1>3. CASE \E h \in Handle : ~InFlight(h) /\ StartRun(h)
  <2>1. PICK h \in Handle : StartRun(h)
    BY <1>3
  <2>2. /\ phase'[h] = "reading"
        /\ \A i \in Handle \ {h} :
             phase'[i] = phase[i] /\ status'[i] = status[i] /\ stale'[i] = stale[i]
    BY <2>1 DEF StartRun, StartRuns
  <2> QED
    BY <1>1, <2>2 DEF Quiet, AtRest, InFlight
<1> QED
  BY <1>2, <1>3 DEF Quiet

\* The end of a run of h: what it flushes is shown, what it leaves behind
\* its barrier is queued.
LEMMA MissedByEnds ==
  ASSUME TypeOK, InOrder, Barriers, Orderly, OnlyAnUndoneChangeIsMissed,
         NEW h \in Handle, NEW slots, Ends(h, slots),
         \A i \in Handle \ {h} : AtRest(i)' => AtRest(i),
         AtRest(h)' => slots # {} \/ notified[h] = value'[h]
  PROVE  OnlyAnUndoneChangeIsMissed'
<1> DEFINE F == Flushed(h, slots)
<1>1. LeaveBarrier(h, slots) /\ Publish(F)
  BY DEF Ends
<1>2. /\ notified' = [i \in Handle |-> IF i \in Told(F) THEN News(i, F) ELSE notified[i]]
      /\ shown' = [s \in Subscriber |->
                     IF \E i \in Told(F) : s \in listeners[i] THEN News(On[s], F) ELSE shown[s]]
      /\ listeners' = listeners
  BY <1>1, PublishDef
<1>3. \A i \in Told(F) : News(i, F) = value'[i]
  BY EndsTellTheTruth
<1> SUFFICES ASSUME NEW s \in Subscriber, s \in listeners[On[s]], AtRest(On[s])',
                    ~Queued(On[s])', On[s] \notin Told(F)
             PROVE  shown'[s] = value'[On[s]] \/ notified'[On[s]] = value'[On[s]]
  <2>1. ASSUME NEW s \in Subscriber, On[s] \in Told(F)
        PROVE  s \in listeners[On[s]] => shown'[s] = value'[On[s]]
    BY <1>2, <1>3, <2>1
  <2> QED
    BY <1>2, <2>1 DEF OnlyAnUndoneChangeIsMissed
<1> DEFINE i == On[s]
<1>4. i \in Handle
  BY HandleAssumption
<1>5. /\ notified'[i] = notified[i]
      /\ shown'[s] = shown[s]
  <2>1. \A j \in Told(F) : s \notin listeners[j]
    BY DEF InOrder, Told
  <2> QED
    BY <1>2, <1>4, <2>1
<1>6. \A t \in F : t.handle = i => t.seq # settleSeq'[i]
  BY <1>4 DEF Told, Current
<1>7. CASE i # h
  <2>1. AtRest(i) /\ value'[i] = value[i] /\ settleSeq'[i] = settleSeq[i]
    BY <1>4, <1>7 DEF Ends
  <2>2. ASSUME NEW b \in DOMAIN batches, NEW t \in batches[b].queue,
               t.handle = i, t.seq = settleSeq[i]
        PROVE  FALSE
    <3>1. t \notin F
      BY <1>6, <2>1, <2>2
    <3>2. CASE b = barrier[h]
      <4>1. b # 0
        BY BatchTypes
      <4>2. batches[b].waiting # {h}
        BY <3>1, <3>2, <4>1 DEF Flushed
      <4>3. b \in DOMAIN batches' /\ t \in batches'[b].queue
        BY <1>1, <3>2, <4>1, <4>2, LeaveDef
      <4> QED
        BY <2>1, <2>2, <4>3 DEF Queued
    <3>3. CASE b # barrier[h]
      <4>1. b \in DOMAIN batches' /\ t \in batches'[b].queue
        BY <1>1, <3>3, LeaveDef
      <4> QED
        BY <2>1, <2>2, <4>1 DEF Queued
    <3> QED
      BY <3>2, <3>3
  <2>3. ~Queued(i)
    BY <2>2 DEF Queued
  <2> QED
    BY <1>5, <2>1, <2>3 DEF OnlyAnUndoneChangeIsMissed
<1>8. CASE i = h
  <2>1. CASE slots = {}
    BY <1>5, <1>8, <2>1
  <2>2. ASSUME NEW t \in slots  PROVE FALSE
    <3>1. t.handle = h /\ t.seq = settleSeq'[h]
      BY <2>2 DEF Ends
    <3>2. t \notin F
      BY <1>6, <1>8, <3>1
    <3>3. barrier[h] # 0 /\ batches[barrier[h]].waiting # {h}
      BY <2>2, <3>2 DEF Flushed
    <3>4. barrier[h] \in DOMAIN batches' /\ t \in batches'[barrier[h]].queue
      <4>1. /\ barrier[h] \in DOMAIN batches /\ DOMAIN batches' = DOMAIN batches
            /\ batches'[barrier[h]].queue =
                 IF batches[barrier[h]].waiting = {h} THEN {}
                 ELSE batches[barrier[h]].queue \cup slots
        BY <1>1, <3>3, LeaveDef
      <4> QED
        BY <2>2, <3>3, <4>1
    <3> QED
      BY <1>8, <3>1, <3>4 DEF Queued
  <2> QED
    BY <2>1, <2>2
<1> QED
  BY <1>7, <1>8

LEMMA MissedStep ==
  ASSUME TypeOK, InOrder, Barriers, Orderly, OnlyAnUndoneChangeIsMissed, [Next]_vars
  PROVE  OnlyAnUndoneChangeIsMissed'
<1>1. CASE UNCHANGED vars
  BY <1>1 DEF vars, run, view, OnlyAnUndoneChangeIsMissed, AtRest, InFlight, Queued
<1>2. ASSUME NEW h \in Handle, Reload(h) \/ Load(h) \/ LoadFresh(h) \/ CheckFresh(h)
      PROVE  OnlyAnUndoneChangeIsMissed'
  <2>1. UNCHANGED <<notified, shown, listeners>>
    BY <1>2 DEF Reload, Load, LoadFresh, CheckFresh, view
  <2> QED
    BY <1>2, <2>1, QuietSteps, QuietRest, MissedByNone DEF Queued
<1>3. ASSUME NEW s \in Subscriber, Subscribe(s) \/ Unsubscribe(s) \/ Rerender(s)
      PROVE  OnlyAnUndoneChangeIsMissed'
  <2>1. Quiet
    BY <1>3, QuietSubscribers
  <2>2. notified' = notified /\ value' = value /\ settleSeq' = settleSeq /\ batches' = batches
    BY <1>3, <2>1, QuietRest DEF Subscribe, Unsubscribe, Rerender
  <2>3. ASSUME NEW t \in Subscriber, t \in listeners'[On[t]]
        PROVE  \/ shown'[t] = value'[On[t]]
               \/ t \in listeners[On[t]] /\ shown'[t] = shown[t]
    <3>0. On[s] \in Handle /\ On[t] \in Handle
      BY HandleAssumption
    <3>1. CASE Subscribe(s)
      BY <2>2, <2>3, <3>0, <3>1 DEF Subscribe, TypeOK
    <3>2. CASE Unsubscribe(s)
      BY <2>2, <2>3, <3>0, <3>2 DEF Unsubscribe, TypeOK
    <3>3. CASE Rerender(s)
      BY <2>2, <2>3, <3>0, <3>3 DEF Rerender, TypeOK
    <3> QED
      BY <1>3, <3>1, <3>2, <3>3
  <2> QED
    BY <2>1, <2>2, <2>3, QuietRest, MissedByNone DEF Queued
<1>4. ASSUME NEW k \in Key, Walk(k)  PROVE OnlyAnUndoneChangeIsMissed'
  <2>1. /\ StartRuns(Runs(k), IF Batched(k) THEN Len(batches) + 1 ELSE 0)
        /\ batches' = IF Batched(k)
                      THEN Append(batches, [waiting |-> Runs(k), queue |-> {}]) ELSE batches
        /\ stale' = [h \in Handle |-> h \notin Runs(k) /\ (stale[h] \/ h \in Deferred(k))]
        /\ UNCHANGED <<reload, notified, shown, listeners>>
    BY <1>4, WalkDef
  <2>2. /\ value' = value /\ settleSeq' = settleSeq
        /\ \A h \in Handle :
             \/ phase'[h] = "reading"
             \/ phase'[h] = phase[h] /\ status'[h] = status[h] /\ (stale[h] => stale'[h])
    BY <2>1, Zenon DEF StartRuns
  <2>3. \A h \in Handle : AtRest(h)' => AtRest(h)
    BY <2>1, <2>2 DEF AtRest, InFlight
  <2>4. \A b \in DOMAIN batches : b \in DOMAIN batches' /\ batches'[b] = batches[b]
    BY <2>1, BatchTypes DEF TypeOK
  <2>5. \A h \in Handle : Queued(h) => Queued(h)'
    BY <2>2, <2>4 DEF Queued
  <2> QED
    BY <2>1, <2>2, <2>3, <2>5, MissedByNone
<1>5. ASSUME NEW k \in Key, NEW v \in Val, Commit(k, v)  PROVE OnlyAnUndoneChangeIsMissed'
  BY <1>5 DEF Commit, run, view, OnlyAnUndoneChangeIsMissed, AtRest, InFlight, Queued
<1>6. ASSUME NEW h \in Handle, ReadRows(h)  PROVE OnlyAnUndoneChangeIsMissed'
  <2>1. UNCHANGED <<status, value, stale, reload, settleSeq, batches, notified, shown, listeners>>
        /\ phase' = [phase EXCEPT ![h] = "read"] /\ phase[h] = "reading"
    BY <1>6 DEF ReadRows, view
  <2>2. \A i \in Handle : AtRest(i)' => AtRest(i)
    BY <2>1 DEF AtRest, InFlight, TypeOK
  <2> QED
    BY <2>1, <2>2, MissedByNone DEF Queued
<1>7. ASSUME NEW h \in Handle, Settle(h)  PROVE OnlyAnUndoneChangeIsMissed'
  <2> DEFINE slots == IF ~Suspect(h) /\ notified[h] # snap[h]
                      THEN {Slot(h, settleSeq[h] + 1, snap[h])} ELSE {}
  <2>1. /\ status' = [status EXCEPT ![h] = "ready"]
        /\ phase' = [phase EXCEPT ![h] = "none"]
        /\ value' = [value EXCEPT ![h] = snap[h]]
        /\ stale' = [stale EXCEPT ![h] = @ \/ (Suspect(h) /\ listeners[h] = {})]
        /\ reload' = [reload EXCEPT ![h] = @ \/ (Suspect(h) /\ listeners[h] # {})]
    BY <1>7 DEF Settle, EndRun, Rerun
  <2>2. \A i \in Handle \ {h} : AtRest(i)' => AtRest(i)
    BY <2>1 DEF AtRest, InFlight
  <2>3. ASSUME AtRest(h)'  PROVE ~Suspect(h)
    <3>1. ~(stale[h] \/ (Suspect(h) /\ listeners[h] = {}))
      BY <2>1, <2>3, Zenon DEF AtRest, TypeOK
    <3>2. ~(reload[h] \/ (Suspect(h) /\ listeners[h] # {}))
      BY <2>1, <2>3, Zenon DEF AtRest, TypeOK
    <3> QED
      BY <3>1, <3>2
  <2>4. value'[h] = snap[h]
    BY <2>1 DEF TypeOK
  <2>5. AtRest(h)' => slots # {} \/ notified[h] = value'[h]
    BY <2>3, <2>4
  <2>6. Ends(h, slots)
    BY <1>7, SettleEnds
  <2> HIDE DEF slots
  <2> QED
    BY <2>2, <2>5, <2>6, MissedByEnds
<1>8. ASSUME NEW h \in Handle, Fail(h)  PROVE OnlyAnUndoneChangeIsMissed'
  <2>1. /\ status' = [status EXCEPT ![h] = "error"]
        /\ phase' = [phase EXCEPT ![h] = "none"]
        /\ stale' = [stale EXCEPT ![h] = @ \/ (dirty[h] /\ listeners[h] = {})]
        /\ reload' = [reload EXCEPT ![h] = @ \/ (dirty[h] /\ listeners[h] # {})]
    BY <1>8 DEF Fail, EndRun, Rerun
  <2>2. \A i \in Handle \ {h} : AtRest(i)' => AtRest(i)
    BY <2>1 DEF AtRest, InFlight
  <2>3. ~AtRest(h)'
    BY <2>1 DEF AtRest, TypeOK
  <2> QED
    BY <1>8, <2>2, <2>3, FailEnds, MissedByEnds
<1>9. ASSUME NEW h \in Handle, Dispose(h)  PROVE OnlyAnUndoneChangeIsMissed'
  <2>1. /\ UNCHANGED <<phase, reload, shown, listeners>>
        /\ status' = [status EXCEPT ![h] = "idle"]
        /\ \A i \in Handle \ {h} :
             /\ status'[i] = status[i] /\ value'[i] = value[i] /\ stale'[i] = stale[i]
             /\ settleSeq'[i] = settleSeq[i] /\ notified'[i] = notified[i]
        /\ DOMAIN batches' = DOMAIN batches
        /\ \A b \in DOMAIN batches :
             batches'[b] = [batches[b] EXCEPT !.queue = {s \in @ : s.handle # h}]
    BY <1>9 DEF Dispose, run
  <2>2. ~AtRest(h)' /\ \A i \in Handle \ {h} : AtRest(i)' => AtRest(i)
    BY <2>1 DEF AtRest, InFlight, TypeOK
  <2>3. \A b \in DOMAIN batches : batches[b] \in Batches
    BY BatchTypes
  <2>4. \A b \in DOMAIN batches :
          batches'[b].queue = {s \in batches[b].queue : s.handle # h}
    BY <2>1, <2>3 DEF Batches
  <2>5. \A i \in Handle \ {h} : Queued(i) => Queued(i)'
    BY <2>1, <2>4 DEF Queued
  <2> QED
    BY <2>1, <2>2, <2>5, MissedByNone
<1> QED
  BY <1>1, <1>2, <1>3, <1>4, <1>5, <1>6, <1>7, <1>8, <1>9 DEF Next

\* A subscriber of a handle at rest shows its value, unless the value is
\* again the one that was pushed last.
THEOREM DeliveriesNotLost == Spec => []OnlyAnUndoneChangeIsMissed
<1>1. Init => OnlyAnUndoneChangeIsMissed
  BY HandleAssumption DEF Init, OnlyAnUndoneChangeIsMissed
<1>2. TypeOK /\ InOrder /\ Barriers /\ Orderly /\ OnlyAnUndoneChangeIsMissed /\ [Next]_vars =>
        OnlyAnUndoneChangeIsMissed'
  BY MissedStep
<1> QED
  BY <1>1, <1>2, SoundAlways, BarriersAlways, OrderlyAlways, PTL DEF Spec
-----------------------------------------------------------------------------
(***************************************************************************)
(* The handle store and the undo manager together.                         *)
(***************************************************************************)
LEMMA HandlesInTab == TabSpec => Spec
<1>1. TabInit => Init
  BY DEF TabInit
<1>2. [TabNext]_tabVars => [Next]_vars
  BY DEF TabNext, tabVars
<1> QED
  BY <1>1, <1>2, PTL DEF TabSpec, Spec

LEMMA UndoInTab == TabSpec => UndoSpec
<1>1. TabInit => UndoInit
  BY DEF TabInit
<1>2. [TabNext]_tabVars => [UndoNext]_undoVars
  BY DEF TabNext, tabVars
<1> QED
  BY <1>1, <1>2, PTL DEF TabSpec, UndoSpec

\* The handle store and the undo manager stay well typed side by side,
\* whichever of them has something to do.
THEOREM TabTyped == TabSpec => []TabTypeOK
<1>1. TypeOK /\ UndoTypeOK => TabTypeOK
  BY DEF TabTypeOK
<1> QED
  BY <1>1, HandlesInTab, UndoInTab, HandlesTyped, UndoTyped, PTL

\* What holds of the handle store and of the undo manager alone holds of the
\* tab, as it is checked.
THEOREM TabKeepsItsPromises ==
  ASSUME Tidy(Paper)
  PROVE  TabSpec =>
           /\ []NoLostInvalidation /\ []NoHungBarrier /\ []OnlyAnUndoneChangeIsMissed
           /\ PushesAreCurrent /\ LoadFreshIsTrue
           /\ DeletesTakeChildren => UndoIsExact
BY HandlesInTab, UndoInTab, InvalidationsNotLost, BarriersOpen, DeliveriesNotLost, PushesCurrent,
   FreshLoadsAreTrue, ReplaysAreExact, PTL
=============================================================================
