------------------------ MODULE StagingQueue_proofs ------------------------
(***************************************************************************)
(* With one observer on the database no change of blocks_synced is lost,   *)
(* whatever the window size and however drains, rescans, deliveries,       *)
(* failures and reloads interleave.                                        *)
(***************************************************************************)
EXTENDS StagingQueue, FiniteSetTheorems, TLAPS

\* One tab is open.  With two, LastChangeWins is refuted by a run.
OneTab == \A s, t \in Tab : s = t

HasChange(i) == \E e \in queue : e.id = i

\* e is the last change of its block: no other is younger, in the queue or
\* in a window, and it says whether the block is staged.
Newest(e) ==
  /\ e.op = IF staged[e.id] = None THEN "delete" ELSE "upsert"
  /\ \A f \in queue : f.id = e.id => f.seq <= e.seq
  /\ \A t \in Tab : \A f \in pass[t].entries : f.id = e.id => f.seq <= e.seq

\* A change queued after the window of t was read.
Later(t, e) == \A f \in pass[t].entries : f.seq < e.seq
LaterChange(t, i) == \E e \in queue : e.id = i /\ Later(t, e)

Touched(t) == pass[t].ids \cup {e.id : e \in pass[t].entries}

SequenceNumbers ==
  /\ IsFiniteSet(queue)
  /\ \A e \in queue : e.seq <= lastSeq
  /\ \A t \in Tab :
       /\ \A e \in pass[t].entries : e.seq <= lastSeq
       /\ \A e, f \in queue \cup pass[t].entries : e.seq = f.seq => e = f

\* If the queue holds a change of a block, it holds its last.
QueueHoldsNewest == \A e \in queue : \E n \in queue : n.id = e.id /\ Newest(n)

MissedAreStaged == \A i \in missed : staged[i] # None \/ HasChange(i)

\* The window is a prefix of the queue, less what a delivery has dropped.
WindowIsPrefix(t) ==
  /\ pass[t].phase \in {"idle", "queue", "scan"} => pass[t].entries = {}
  /\ rescan[t] = "running" =>
       pass[t].entries = {} /\ pass[t].phase \in {"scan", "rows", "write"}
  /\ pass[t].phase = "scan" => rescan[t] = "running"
  /\ rescan[t] # "no" => open
  /\ \A e \in queue : e \in pass[t].entries \/ Later(t, e)
  /\ \A f \in pass[t].entries : HasChange(f.id)
  /\ rescan[t] # "running" /\ pass[t].phase \in {"rows", "write"} =>
       pass[t].ids = LastlyChangedBy("upsert", pass[t].entries)

\* What becomes of block i when the window is written.
Covered(t, i) ==
  \/ i \in pass[t].skip
  \/ i \in DOMAIN pass[t].rows /\ pass[t].rows[i] = staged[i]
  \/ i \notin DOMAIN pass[t].rows /\ blocks[i] = staged[i]
  \/ LaterChange(t, i)
  \/ i \in LastlyChangedBy("delete", pass[t].entries) /\ staged[i] = None

WindowIsCovered(t) ==
  /\ pass[t].phase = "write" =>
       /\ DOMAIN pass[t].rows \subseteq pass[t].ids
       /\ \A i \in Touched(t) : Covered(t, i)
  /\ pass[t].phase = "consume" =>
       \A i \in Touched(t) :
         i \in pass[t].skip \/ blocks[i] = staged[i] \/ LaterChange(t, i)
  /\ pass[t].phase \in {"write", "consume"} =>
       /\ pass[t].skip \subseteq Touched(t)
       /\ \A i \in pass[t].skip : staged[i] # None \/ LaterChange(t, i)

Inv ==
  /\ TypeOK
  /\ SequenceNumbers
  /\ QueueHoldsNewest
  /\ MissedAreStaged
  /\ \A t \in Tab : WindowIsPrefix(t) /\ WindowIsCovered(t)
  /\ NoSignalLost
-----------------------------------------------------------------------------
LEMMA NoPassType == NoPass \in Passes
<1>1. NoPass.rows \in [{} -> 1 .. MaxChanges]
  BY DEF NoPass
<1> QED
  BY <1>1 DEF NoPass, Passes

LEMMA PassFields ==
  ASSUME TypeOK, NEW t \in Tab
  PROVE  /\ pass[t] \in Passes
         /\ pass[t].entries \subseteq Changes
         /\ pass[t].ids \subseteq Id /\ pass[t].skip \subseteq Id
         /\ Touched(t) \subseteq Id
BY DEF TypeOK, Passes, Changes, Touched

\* What ReadRows makes of the window when it skips `skip`.
RowsRead(t, skip) ==
  /\ pass' = [pass EXCEPT ![t].phase = "write", ![t].skip = skip,
                ![t].rows = [i \in {j \in pass[t].ids : /\ staged[j] # None
                                                        /\ staged[j] # blocks[j]} \ skip
                             |-> staged[i]]]
  /\ \A i \in skip : staged[i] # None
  /\ faults' \in Nat

LEMMA ReadRowsPicks ==
  ASSUME TypeOK, NEW t \in Tab, ReadRows(t)
  PROVE  \E skip \in SUBSET pass[t].ids : RowsRead(t, skip)
<1> DEFINE there == {i \in pass[t].ids : staged[i] # None}
           differ == {i \in there : staged[i] # blocks[i]}
           Found(skip) ==
             pass' = [pass EXCEPT ![t].phase = "write", ![t].skip = skip,
                        ![t].rows = [i \in differ \ skip |-> staged[i]]]
<1>1. \/ Found(there) /\ UNCHANGED faults
      \/ Found({}) /\ UNCHANGED faults
      \/ (\E corrupt \in SUBSET differ : Found(corrupt)) /\ faults' = faults + 1
  BY Zenon DEF ReadRows
<1>2. PICK skip \in SUBSET there : Found(skip)
  <2>1. there \in SUBSET there /\ {} \in SUBSET there /\ SUBSET differ \subseteq SUBSET there
    OBVIOUS
  <2> HIDE DEF Found, there, differ
  <2> QED
    BY <1>1, <2>1
<1>3. faults' \in Nat
  <2> HIDE DEF Found
  <2> QED
    BY <1>1 DEF TypeOK
<1>4. differ = {j \in pass[t].ids : staged[j] # None /\ staged[j] # blocks[j]}
  OBVIOUS
<1>5. RowsRead(t, skip)
  <2>1. \A i \in skip : staged[i] # None
    BY <1>2
  <2> HIDE DEF differ
  <2> QED
    BY <1>2, <1>3, <1>4, <2>1 DEF RowsRead
<1> QED
  BY <1>2, <1>5

LEMMA RowsReadType ==
  ASSUME TypeOK, NEW t \in Tab, NEW skip \in SUBSET pass[t].ids, RowsRead(t, skip)
  PROVE  pass' \in [Tab -> Passes]
<1> DEFINE differ == {j \in pass[t].ids : staged[j] # None /\ staged[j] # blocks[j]}
           rows == [i \in differ \ skip |-> staged[i]]
<1>1. pass[t] \in Passes /\ pass[t].ids \subseteq Id
  BY PassFields
<1>2. rows \in [differ \ skip -> 1 .. MaxChanges] /\ differ \ skip \in SUBSET Id
  BY <1>1 DEF TypeOK, Versions
<1>3. rows \in UNION {[S -> 1 .. MaxChanges] : S \in SUBSET Id}
  BY <1>2
<1>4. [pass[t] EXCEPT !.phase = "write", !.skip = skip, !.rows = rows] \in Passes
  BY <1>1, <1>3 DEF Passes
<1> QED
  BY <1>4 DEF RowsRead, TypeOK

(***************************************************************************)
(* TypeCorrect: the tables and the state of every observer keep their      *)
(* types; in particular no window carries a row that is not there.         *)
(***************************************************************************)
LEMMA TypeStep == ASSUME TypeOK, [Next]_vars PROVE TypeOK'
<1>1. ASSUME NEW i \in Id, Arrive(i) \/ Leave(i) PROVE TypeOK'
  <2>1. /\ lastSeq < MaxChanges /\ lastSeq' = lastSeq + 1
        /\ UNCHANGED <<blocks, open, rescan, job, marker, pass, missed, scanned, faults>>
        /\ wanted' = [t \in Tab |-> TRUE]
    BY <1>1 DEF Arrive, Leave, Enqueue, Notify
  <2>2. PICK op \in {"upsert", "delete"} :
          queue' \subseteq queue \cup {[seq |-> lastSeq + 1, id |-> i, op |-> op]}
    BY <1>1 DEF Arrive, Leave, Enqueue
  <2>3. queue' \subseteq Changes
    BY <2>1, <2>2, StagingBoundAssumption DEF TypeOK, Changes
  <2>4. staged' \in [Id -> Versions]
    BY <1>1, <2>1, StagingBoundAssumption DEF Arrive, Leave, TypeOK, Versions
  <2> QED
    BY <2>1, <2>3, <2>4, StagingBoundAssumption DEF TypeOK
<1>2. ASSUME NEW t \in Tab, ReadQueue(t) PROVE TypeOK'
  <2> DEFINE window == Oldest(Chunk, queue)
             read == [NoPass EXCEPT !.phase = "rows", !.entries = window,
                                    !.ids = LastlyChangedBy("upsert", window)]
  <2>1. window \subseteq Changes /\ LastlyChangedBy("upsert", window) \subseteq Id
    BY DEF Oldest, LastlyChangedBy, TypeOK
  <2>2. read \in Passes
    BY <2>1, NoPassType DEF Passes
  <2>3. pass' \in [Tab -> Passes] /\ wanted' \in [Tab -> BOOLEAN]
    BY <1>2, <2>2, NoPassType DEF ReadQueue, TypeOK
  <2> QED
    BY <1>2, <2>3 DEF ReadQueue, TypeOK, tables
<1>3. ASSUME NEW t \in Tab, ReadRows(t) PROVE TypeOK'
  <2>1. PICK skip \in SUBSET pass[t].ids : RowsRead(t, skip)
    BY <1>3, ReadRowsPicks
  <2>2. pass' \in [Tab -> Passes]
    BY <2>1, RowsReadType
  <2> QED
    BY <1>3, <2>1, <2>2 DEF ReadRows, RowsRead, TypeOK, tables
<1>4. ASSUME NEW t \in Tab, WriteRows(t) PROVE TypeOK'
  <2> DEFINE scan == [NoPass EXCEPT !.phase = "scan", !.todo = pass[t].todo]
  <2>1. pass[t] \in Passes /\ scan \in Passes
    BY NoPassType DEF TypeOK, Passes
  <2>2. [pass[t] EXCEPT !.phase = "consume"] \in Passes
    BY <2>1 DEF Passes
  <2>3. pass' \in [Tab -> Passes] /\ missed' \subseteq Id
    <3>1. CASE rescan[t] = "running"
      <4>1. pass' = [pass EXCEPT ![t] = scan]
            /\ missed' = (missed \ pass[t].ids) \cup pass[t].skip
        BY <1>4, <3>1 DEF WriteRows, Account
      <4>2. pass[t].skip \subseteq Id
        BY <2>1 DEF Passes
      <4> HIDE DEF scan
      <4> QED
        BY <2>1, <4>1, <4>2 DEF TypeOK
    <3>2. CASE rescan[t] # "running"
      <4>1. pass' = [pass EXCEPT ![t] = [pass[t] EXCEPT !.phase = "consume"]]
        BY <1>4, <3>2 DEF WriteRows
      <4> QED
        BY <1>4, <2>2, <3>2, <4>1 DEF WriteRows, TypeOK
    <3> QED
      BY <3>1, <3>2
  <2>4. \A i \in DOMAIN pass[t].rows : pass[t].rows[i] \in Versions
    BY <2>1 DEF Passes, Versions
  <2>5. blocks' \in [Id -> Versions]
    BY <1>4, <2>4 DEF WriteRows, TypeOK, Versions
  <2> QED
    BY <1>4, <2>3, <2>5 DEF WriteRows, TypeOK
<1>5. ASSUME NEW t \in Tab, Consume(t) PROVE TypeOK'
  <2> DEFINE stop == IF Cardinality(pass[t].entries) < Chunk THEN NoPass
                     ELSE [NoPass EXCEPT !.phase = "queue"]
  <2>1. stop \in Passes
    BY NoPassType DEF Passes
  <2>2. pass' = [pass EXCEPT ![t] = stop]
    BY <1>5 DEF Consume
  <2>3. pass' \in [Tab -> Passes]
    BY <2>1, <2>2 DEF TypeOK
  <2>4. missed' \subseteq Id /\ queue' \subseteq Changes
    BY <1>5 DEF Consume, Account, TypeOK, Passes
  <2> QED
    BY <1>5, <2>3, <2>4 DEF Consume, Notify, TypeOK
<1>6. ASSUME NEW t \in Tab, StartRescan(t) PROVE TypeOK'
  <2>1. [NoPass EXCEPT !.phase = "scan", !.todo = {i \in Id : staged[i] # None}] \in Passes
    BY NoPassType DEF Passes
  <2> QED
    BY <1>6, <2>1 DEF StartRescan, TypeOK, tables
<1>7. ASSUME NEW t \in Tab, NextChunk(t) PROVE TypeOK'
  <2>1. PICK S \in SUBSET pass[t].todo :
          pass' = [pass EXCEPT ![t].phase = "rows", ![t].ids = S, ![t].todo = @ \ S]
    BY <1>7 DEF NextChunk
  <2>2. pass[t] \in Passes
    BY DEF TypeOK
  <2>3. [pass[t] EXCEPT !.phase = "rows", !.ids = S, !.todo = @ \ S] \in Passes
    BY <2>2 DEF Passes
  <2>4. pass' \in [Tab -> Passes]
    BY <2>1, <2>3 DEF TypeOK
  <2> QED
    BY <1>7, <2>4 DEF NextChunk, TypeOK, tables
<1>8. ASSUME NEW t \in Tab, EndRescan(t) \/ UnitFails(t) \/ Reload(t) PROVE TypeOK'
  <2>1. /\ pass' = [pass EXCEPT ![t] = NoPass]
        /\ UNCHANGED <<staged, blocks, queue, lastSeq, open, marker, missed>>
    BY <1>8 DEF EndRescan, UnitFails, Reload, tables
  <2>2. CASE EndRescan(t)
    BY <2>1, <2>2, NoPassType DEF EndRescan, TypeOK, tables
  <2>3. CASE UnitFails(t)
    <3>1. rescan' \in [Tab -> {"no", "queued", "running"}]
      BY <2>3 DEF UnitFails, TypeOK
    <3>2. UNCHANGED <<wanted, job, scanned>> /\ faults' = faults + 1
      BY <2>3 DEF UnitFails
    <3> QED
      <4>1. pass' \in [Tab -> Passes]
        BY <2>1, NoPassType DEF TypeOK
      <4> QED
        BY <2>1, <3>1, <3>2, <4>1 DEF TypeOK
  <2>4. CASE Reload(t)
    <3>1. faults' \in Nat
      BY <2>4 DEF Reload, TypeOK
    <3>2. /\ wanted' \in [Tab -> BOOLEAN] /\ job' \in [Tab -> BOOLEAN]
          /\ rescan' \in [Tab -> {"no", "queued", "running"}]
      BY <2>4 DEF Reload, TypeOK
    <3> QED
      BY <2>1, <2>4, <3>1, <3>2, NoPassType DEF Reload, TypeOK
  <2> QED
    BY <1>8, <2>2, <2>3, <2>4
<1>9. ASSUME NEW t \in Tab, Unlock(t) \/ StartJob(t) \/ RecordMarker(t) PROVE TypeOK'
  <2>1. UNCHANGED <<staged, blocks, queue, lastSeq, missed, pass, wanted, scanned, faults>>
    BY <1>9 DEF Unlock, StartJob, RecordMarker, tables
  <2>2. /\ open' \in BOOLEAN /\ marker' \in BOOLEAN /\ job' \in [Tab -> BOOLEAN]
        /\ rescan' \in [Tab -> {"no", "queued", "running"}]
    BY <1>9 DEF Unlock, StartJob, RecordMarker, TypeOK, tables
  <2> QED
    BY <2>1, <2>2 DEF TypeOK
<1>10. CASE UNCHANGED vars
  BY <1>10 DEF vars, tables, chain, TypeOK
<1> QED
  BY <1>1, <1>2, <1>3, <1>4, <1>5, <1>6, <1>7, <1>8, <1>9, <1>10 DEF Next

LEMMA TypeInitially == Init => TypeOK
<1> SUFFICES ASSUME Init PROVE TypeOK
  OBVIOUS
<1>1. pass \in [Tab -> Passes]
  BY NoPassType DEF Init
<1>2. staged \in [Id -> Versions] /\ blocks \in [Id -> Versions]
  BY DEF Init, Versions
<1>3. lastSeq \in 0 .. MaxChanges /\ queue \subseteq Changes
  BY StagingBoundAssumption DEF Init
<1> QED
  BY <1>1, <1>2, <1>3 DEF Init, TypeOK

THEOREM TypeCorrect == Spec => []TypeOK
BY TypeInitially, TypeStep, PTL DEF Spec

\* A window is closed downwards: what is older than one of its changes is in it.
LEMMA OldestIsPrefix ==
  ASSUME NEW Q, IsFiniteSet(Q), NEW n \in Nat,
         NEW e \in Oldest(n, Q), NEW f \in Q, f.seq <= e.seq,
         \A g \in Q : g.seq \in Nat
  PROVE  f \in Oldest(n, Q)
<1> DEFINE Before(x) == {g \in Q : g.seq < x.seq}
<1>1. Before(f) \subseteq Before(e)
  BY DEF Oldest
<1>2. IsFiniteSet(Before(e))
  BY FS_Subset
<1>3. Cardinality(Before(f)) <= Cardinality(Before(e))
  BY <1>1, <1>2, FS_Subset
<1>4. Cardinality(Before(e)) < n
  BY DEF Oldest
<1>5. Cardinality(Before(e)) \in Nat /\ Cardinality(Before(f)) \in Nat
  BY <1>1, <1>2, FS_Subset, FS_CardinalityType
<1>6. Cardinality(Before(f)) < n
  BY <1>3, <1>4, <1>5
<1> QED
  BY <1>6 DEF Oldest

(***************************************************************************)
(* A delivery or a removal: one new change, younger than every other.      *)
(***************************************************************************)
LEMMA EnqueueStep ==
  ASSUME Inv, TypeOK', NEW i \in Id,
         NEW v \in {None, lastSeq + 1},
         NEW op, op = IF v = None THEN "delete" ELSE "upsert",
         staged' = [staged EXCEPT ![i] = v],
         NEW Q \in SUBSET queue,
         \A e \in queue : e \in Q \/ e.id = i,
         Enqueue(Q, i, op)
  PROVE  Inv'
<1> SUFFICES ASSUME NEW new, new = [seq |-> lastSeq + 1, id |-> i, op |-> op]
             PROVE  Inv'
  OBVIOUS
<1>1. /\ queue' = Q \cup {new}
      /\ lastSeq' = lastSeq + 1 /\ lastSeq < MaxChanges
      /\ UNCHANGED <<blocks, open, rescan, job, marker, pass, missed, scanned, faults>>
      /\ wanted' = [t \in Tab |-> TRUE]
  BY DEF Enqueue, Notify
<1>2. new \in Changes /\ new \in queue' /\ new.id = i /\ new.seq = lastSeq + 1
  BY <1>1, StagingBoundAssumption DEF Inv, TypeOK, Changes
<1>4. /\ \A e \in queue : e.seq \in Nat /\ e.seq < new.seq
      /\ \A t \in Tab : \A e \in pass[t].entries : e.seq \in Nat /\ e.seq < new.seq
  BY <1>2, PassFields DEF Inv, TypeOK, SequenceNumbers, Changes
<1>5. SequenceNumbers'
  <2>1. IsFiniteSet(queue')
    BY <1>1, FS_Subset, FS_AddElement DEF Inv, SequenceNumbers
  <2>2. \A e \in queue' : e.seq <= lastSeq'
    BY <1>1, <1>2, <1>4 DEF Inv, TypeOK, SequenceNumbers
  <2>3. \A t \in Tab : \A e \in pass'[t].entries : e.seq <= lastSeq'
    BY <1>1, <1>2, <1>4 DEF Inv, TypeOK, SequenceNumbers
  <2>4. ASSUME NEW t \in Tab, NEW e \in queue' \cup pass'[t].entries,
               NEW f \in queue' \cup pass'[t].entries, e.seq = f.seq
        PROVE  e = f
    <3>1. e = new \/ e \in queue \cup pass[t].entries
      BY <1>1
    <3>2. f = new \/ f \in queue \cup pass[t].entries
      BY <1>1
    <3> QED
      BY <2>4, <3>1, <3>2, <1>2, <1>4 DEF Inv, SequenceNumbers
  <2> QED
    BY <2>1, <2>2, <2>3, <2>4 DEF SequenceNumbers
<1>6. Newest(new)'
  <2>1. staged'[i] = v
    BY DEF Inv, TypeOK
  <2>2. new.op = IF staged'[new.id] = None THEN "delete" ELSE "upsert"
    BY <2>1, <1>2
  <2>3. \A f \in queue' : f.seq <= new.seq
    BY <1>1, <1>2, <1>4 DEF Inv, TypeOK
  <2>4. \A t \in Tab : \A f \in pass'[t].entries : f.seq <= new.seq
    BY <1>1, <1>2, <1>4 DEF Inv, TypeOK
  <2> QED
    BY <2>2, <2>3, <2>4 DEF Newest
<1>7. QueueHoldsNewest'
  <2> SUFFICES ASSUME NEW e \in queue'
               PROVE  \E n \in queue' : n.id = e.id /\ Newest(n)'
    BY DEF QueueHoldsNewest
  <2>1. CASE e.id = i
    BY <1>2, <1>6, <2>1
  <2>2. CASE e.id # i
    <3>1. e \in queue
      BY <1>1, <1>2, <2>2
    <3>2. PICK n \in queue : n.id = e.id /\ Newest(n)
      BY <3>1 DEF Inv, QueueHoldsNewest
    <3>3. n \in queue' /\ n.id # i
      BY <1>1, <2>2, <3>2
    <3>4. staged'[n.id] = staged[n.id]
      BY <3>3, <3>2, <3>1 DEF Inv, TypeOK, Changes
    <3>5. \A f \in queue' : f.id = n.id => f \in queue
      BY <1>1, <1>2, <3>3
    <3> QED
      BY <1>1, <3>2, <3>3, <3>4, <3>5 DEF Newest
  <2> QED
    BY <2>1, <2>2
<1>8. \A j \in Id : HasChange(j) => HasChange(j)'
  BY <1>1, <1>2 DEF HasChange
<1>9. \A j \in Id : j # i => staged'[j] = staged[j]
  BY DEF Inv, TypeOK
<1>10. HasChange(i)' /\ \A t \in Tab : LaterChange(t, i)'
  BY <1>1, <1>2, <1>4 DEF HasChange, LaterChange, Later
<1>11. \A t \in Tab : \A j \in Id : LaterChange(t, j) => LaterChange(t, j)'
  BY <1>1, <1>10 DEF LaterChange, Later
<1>12. MissedAreStaged'
  BY <1>1, <1>8, <1>9, <1>10 DEF Inv, TypeOK, MissedAreStaged
<1>13. NoSignalLost'
  BY <1>1, <1>8, <1>9, <1>10 DEF Inv, NoSignalLost, HasChange
<1>14. ASSUME NEW t \in Tab
       PROVE  WindowIsPrefix(t)' /\ WindowIsCovered(t)'
  <2>1. WindowIsPrefix(t)'
    <3>1. \A f \in pass[t].entries : f.id \in Id
      BY PassFields DEF Inv, Changes
    <3>2. \A e \in queue' : e \in pass'[t].entries \/ Later(t, e)'
      BY <1>1, <1>2, <1>4 DEF Inv, WindowIsPrefix, Later
    <3>3. \A f \in pass'[t].entries : HasChange(f.id)'
      BY <1>1, <1>8, <3>1 DEF Inv, WindowIsPrefix
    <3> QED
      BY <1>1, <3>2, <3>3 DEF Inv, WindowIsPrefix
  <2>2. Touched(t) \subseteq Id /\ pass[t].skip \subseteq Id /\ Touched(t)' = Touched(t)
    BY <1>1, PassFields DEF Inv, Touched
  <2>3. \A j \in Touched(t) : Covered(t, j) => Covered(t, j)'
    BY <1>1, <1>9, <1>10, <1>11, <2>2 DEF Covered
  <2> QED
    BY <1>1, <1>9, <1>10, <1>11, <2>1, <2>2, <2>3 DEF Inv, WindowIsCovered
<1> QED
  BY <1>5, <1>7, <1>12, <1>13, <1>14 DEF Inv
-----------------------------------------------------------------------------
\* A step of the one tab that leaves the tables alone.
LEMMA PassStep ==
  ASSUME Inv, OneTab, NEW t \in Tab, TypeOK',
         UNCHANGED <<staged, blocks, queue, lastSeq, missed>>,
         pass'[t].entries \subseteq queue \cup pass[t].entries,
         WindowIsPrefix(t)', WindowIsCovered(t)'
  PROVE  Inv'
<1>1. \A u \in Tab : u = t
  BY DEF OneTab
<1>2. SequenceNumbers'
  <2>1. \A e \in pass'[t].entries : e.seq <= lastSeq'
    BY DEF Inv, SequenceNumbers
  <2>2. \A e, f \in queue' \cup pass'[t].entries : e.seq = f.seq => e = f
    BY DEF Inv, SequenceNumbers
  <2> QED
    BY <1>1, <2>1, <2>2 DEF Inv, SequenceNumbers
<1>3. QueueHoldsNewest'
  <2> SUFFICES ASSUME NEW e \in queue'
               PROVE  \E n \in queue' : n.id = e.id /\ Newest(n)'
    BY DEF QueueHoldsNewest
  <2>1. PICK n \in queue : n.id = e.id /\ Newest(n)
    BY DEF Inv, QueueHoldsNewest
  <2>2. Newest(n)'
    BY <1>1, <2>1 DEF Newest
  <2> QED
    BY <2>1, <2>2
<1>4. MissedAreStaged' /\ NoSignalLost'
  BY DEF Inv, MissedAreStaged, NoSignalLost, HasChange
<1> QED
  BY <1>1, <1>2, <1>3, <1>4 DEF Inv

\* Between windows there is nothing to show of a pass.
LEMMA IdlePassStep ==
  ASSUME Inv, OneTab, NEW t \in Tab, TypeOK',
         UNCHANGED <<staged, blocks, queue, lastSeq, missed>>,
         pass'[t].entries = {},
         rescan'[t] # "no" => open',
         \/ pass'[t].phase \in {"idle", "queue"} /\ rescan'[t] # "running"
         \/ pass'[t].phase \in {"scan", "rows"} /\ rescan'[t] = "running"
  PROVE  Inv'
<1>1. WindowIsPrefix(t)'
  BY DEF WindowIsPrefix, Later
<1>2. WindowIsCovered(t)'
  BY DEF WindowIsCovered
<1> QED
  BY <1>1, <1>2, PassStep

LEMMA ReadQueueStep ==
  ASSUME Inv, OneTab, TypeOK', NEW t \in Tab, ReadQueue(t)
  PROVE  Inv'
<1> DEFINE window == Oldest(Chunk, queue)
           read == [NoPass EXCEPT !.phase = "rows", !.entries = window,
                                  !.ids = LastlyChangedBy("upsert", window)]
<1>1. /\ UNCHANGED <<tables, rescan, job, missed, scanned, faults>>
      /\ pass' = [pass EXCEPT ![t] = IF queue = {} THEN NoPass ELSE read]
  BY DEF ReadQueue
<1>2. window \subseteq queue /\ LastlyChangedBy("upsert", window) \subseteq Id
  BY DEF Oldest, LastlyChangedBy
<1>6. CASE queue = {}
  <2>1. pass'[t] = NoPass
    BY <1>1, <1>6 DEF Inv, TypeOK
  <2>2. rescan'[t] # "running" /\ rescan' = rescan /\ open' = open
    BY <1>1 DEF ReadQueue, Inv, WindowIsPrefix, tables
  <2>3. pass'[t].entries = {} /\ pass'[t].phase = "idle"
    BY <2>1 DEF NoPass
  <2>4. rescan'[t] # "no" => open'
    BY <2>2 DEF Inv, WindowIsPrefix
  <2> QED
    BY <1>1, <2>2, <2>3, <2>4, IdlePassStep DEF tables
<1>7. CASE queue # {}
  <2>1. /\ pass'[t] = read
        /\ pass'[t].phase = "rows" /\ pass'[t].entries = window
        /\ pass'[t].ids = LastlyChangedBy("upsert", window)
    BY <1>1, <1>7 DEF Inv, TypeOK, NoPass
  <2>2. pass[t].phase \in {"idle", "queue"}
    BY DEF ReadQueue
  <2>3. \A e \in queue : e \in window \/ \A f \in window : f.seq < e.seq
    <3>1. \A e \in queue : e.seq \in Nat
      BY DEF Inv, TypeOK, Changes
    <3>2. ASSUME NEW e \in queue, NEW f \in window, ~ (f.seq < e.seq)
          PROVE  e \in window
      <4>1. e.seq <= f.seq
        BY <1>2, <3>1, <3>2
      <4>2. IsFiniteSet(queue) /\ Chunk \in Nat
        BY ChunkAssumption DEF Inv, SequenceNumbers
      <4> QED
        BY <3>1, <4>1, <4>2, OldestIsPrefix
    <3> QED
      BY <3>2
  <2>4. rescan[t] # "running"
    BY <2>2 DEF Inv, WindowIsPrefix
  <2>5. WindowIsPrefix(t)'
    <3>1. \A e \in queue' : e \in pass'[t].entries \/ Later(t, e)'
      BY <1>1, <2>1, <2>3 DEF Later, tables
    <3>2. \A f \in pass'[t].entries : HasChange(f.id)'
      BY <1>1, <1>2, <2>1 DEF HasChange, tables
    <3>3. rescan'[t] # "running" /\ (rescan'[t] # "no" => open')
      BY <1>1, <2>4 DEF tables, Inv, WindowIsPrefix
    <3> QED
      BY <2>1, <3>1, <3>2, <3>3 DEF WindowIsPrefix
  <2>6. WindowIsCovered(t)'
    BY <2>1 DEF WindowIsCovered
  <2> QED
    BY <1>1, <1>2, <2>1, <2>5, <2>6, PassStep DEF tables
<1> QED
  BY <1>6, <1>7

LEMMA StartRescanStep ==
  ASSUME Inv, OneTab, TypeOK', NEW t \in Tab, StartRescan(t)
  PROVE  Inv'
<1> DEFINE scan == [NoPass EXCEPT !.phase = "scan", !.todo = {i \in Id : staged[i] # None}]
<1>1. scan.entries = {} /\ scan.phase = "scan"
  BY DEF NoPass
<1>2. pass'[t] = scan /\ rescan'[t] = "running" /\ open'
  BY DEF Inv, TypeOK, StartRescan, WindowIsPrefix, tables
<1> QED
  BY <1>1, <1>2, IdlePassStep DEF StartRescan, tables

LEMMA NextChunkStep ==
  ASSUME Inv, OneTab, TypeOK', NEW t \in Tab, NextChunk(t)
  PROVE  Inv'
<1>1. PICK S \in SUBSET pass[t].todo :
        pass' = [pass EXCEPT ![t].phase = "rows", ![t].ids = S, ![t].todo = @ \ S]
  BY DEF NextChunk
<1>2. pass[t] \in Passes
  BY PassFields DEF Inv
<1>3. pass'[t] = [pass[t] EXCEPT !.phase = "rows", !.ids = S, !.todo = @ \ S]
  BY <1>1 DEF Inv, TypeOK
<1>6. pass[t].phase = "scan" /\ pass[t].entries = {} /\ rescan[t] = "running"
  BY DEF NextChunk, Inv, WindowIsPrefix
<1>7. pass'[t].entries = {} /\ pass'[t].phase = "rows"
  BY <1>2, <1>3, <1>6 DEF Passes
<1> QED
  BY <1>6, <1>7, IdlePassStep DEF NextChunk, tables, Inv, WindowIsPrefix

\* A pass that ends, fails or is lost with its page.
LEMMA StopStep ==
  ASSUME Inv, OneTab, TypeOK', NEW t \in Tab, EndRescan(t) \/ UnitFails(t) \/ Reload(t)
  PROVE  Inv'
<1>1. /\ pass' = [pass EXCEPT ![t] = NoPass]
      /\ UNCHANGED <<staged, blocks, queue, lastSeq, open, marker, missed>>
  BY DEF EndRescan, UnitFails, Reload, tables
<1>4. pass'[t] = NoPass
  BY <1>1 DEF Inv, TypeOK
<1>5. rescan'[t] # "running" /\ (rescan'[t] # "no" => open')
  BY <1>1 DEF EndRescan, UnitFails, Reload, Inv, TypeOK, WindowIsPrefix
<1> QED
  <2>1. pass'[t].entries = {} /\ pass'[t].phase = "idle"
    BY <1>4 DEF NoPass
  <2> QED
    BY <1>1, <1>5, <2>1, IdlePassStep

\* The steps of the workspace's gate and of the reconcile job.
LEMMA GateStep ==
  ASSUME Inv, OneTab, TypeOK', NEW t \in Tab, Unlock(t) \/ StartJob(t) \/ RecordMarker(t)
  PROVE  Inv'
<1>1. UNCHANGED <<staged, blocks, queue, lastSeq, missed, pass, wanted, scanned, faults>>
  BY DEF Unlock, StartJob, RecordMarker, tables
<1>4. \/ UNCHANGED rescan /\ (open => open')
      \/ rescan[t] = "no" /\ rescan'[t] = "queued" /\ open'
  BY DEF Unlock, StartJob, RecordMarker, Inv, TypeOK, WindowIsPrefix, tables
<1>5. pass[t].phase # "scan" \/ (UNCHANGED rescan /\ (open => open'))
  BY <1>4 DEF Inv, WindowIsPrefix
<1>6. WindowIsPrefix(t)'
  BY <1>1, <1>4, <1>5 DEF Inv, WindowIsPrefix, Later, HasChange
<1>7. WindowIsCovered(t)'
  BY <1>1 DEF Inv, WindowIsCovered, Covered, LaterChange, Later, Touched
<1> QED
  BY <1>1, <1>6, <1>7, PassStep
-----------------------------------------------------------------------------
(***************************************************************************)
(* Reading the rows of a window covers all of its blocks.                  *)
(***************************************************************************)
LEMMA ReadRowsStep ==
  ASSUME Inv, OneTab, TypeOK', NEW t \in Tab, ReadRows(t)
  PROVE  Inv'
<1> DEFINE there == {i \in pass[t].ids : staged[i] # None}
           differ == {i \in there : staged[i] # blocks[i]}
<1>1. PICK skip \in SUBSET pass[t].ids : RowsRead(t, skip)
  BY ReadRowsPicks DEF Inv
<1>2. /\ pass[t].phase = "rows" /\ pass[t] \in Passes
      /\ pass[t].ids \subseteq Id /\ Touched(t) \subseteq Id
      /\ UNCHANGED <<staged, blocks, queue, lastSeq, open, rescan, missed>>
  BY PassFields DEF ReadRows, Inv, tables
<1>3. \A i \in skip : staged[i] # None
  BY <1>1 DEF RowsRead
<1>4. pass'[t] = [pass[t] EXCEPT !.phase = "write", !.skip = skip,
                    !.rows = [i \in differ \ skip |-> staged[i]]]
  <2>1. differ = {i \in pass[t].ids : staged[i] # None /\ staged[i] # blocks[i]}
    OBVIOUS
  <2> HIDE DEF differ
  <2> QED
    BY <1>1, <2>1 DEF RowsRead, Inv, TypeOK
<1>7. /\ pass'[t].phase = "write" /\ pass'[t].skip = skip
      /\ pass'[t].rows = [i \in differ \ skip |-> staged[i]]
      /\ pass'[t].entries = pass[t].entries /\ pass'[t].ids = pass[t].ids
  BY <1>2, <1>4 DEF Passes
<1>8. Touched(t)' = Touched(t)
  BY <1>7 DEF Touched
<1>9. \A e : Later(t, e)' <=> Later(t, e)
  BY <1>7 DEF Later
<1>10. WindowIsPrefix(t)'
  BY <1>2, <1>7, <1>9 DEF Inv, WindowIsPrefix, HasChange
<1>11. ASSUME NEW i \in Touched(t)
       PROVE  Covered(t, i)'
  <2>1. CASE i \in skip
    BY <1>7, <2>1 DEF Covered
  <2>2. CASE i \in differ \ skip
    BY <1>2, <1>7, <2>2 DEF Covered
  <2>3. CASE i \notin differ /\ i \in there
    BY <1>2, <1>7, <2>3 DEF Covered
  <2>4. CASE i \notin there /\ blocks[i] = staged[i]
    BY <1>2, <1>7, <2>4 DEF Covered
  <2>5. CASE i \notin there /\ blocks[i] # staged[i] /\ HasChange(i)
    <3>1. PICK n \in queue : n.id = i /\ Newest(n)
      BY <2>5 DEF Inv, QueueHoldsNewest, HasChange
    <3>2. CASE Later(t, n)
      BY <1>2, <1>9, <3>1, <3>2 DEF Covered, LaterChange
    <3>3. CASE n \in pass[t].entries
      <4>1. rescan[t] # "running"
        BY <3>3 DEF Inv, WindowIsPrefix
      <4>2. i \in LastlyChangedBy(n.op, pass[t].entries)
        BY <1>2, <3>1, <3>3 DEF LastlyChangedBy, Newest
      <4>3. n.op # "upsert"
        <5> SUFFICES ASSUME n.op = "upsert" PROVE FALSE
          OBVIOUS
        <5>1. i \in pass[t].ids
          BY <1>2, <4>1, <4>2 DEF Inv, WindowIsPrefix
        <5>2. staged[i] # None
          BY <3>1 DEF Newest
        <5> QED
          BY <2>5, <5>1, <5>2
      <4>4. n.op = "delete" /\ staged[i] = None
        BY <3>1, <4>3 DEF Newest
      <4> QED
        BY <1>2, <1>7, <4>2, <4>4 DEF Covered
    <3> QED
      BY <3>1, <3>2, <3>3 DEF Inv, WindowIsPrefix
  <2>6. CASE i \notin there /\ blocks[i] # staged[i] /\ ~HasChange(i)
    <3>1. i \in missed
      BY <1>2, <2>6 DEF Inv, NoSignalLost, HasChange
    <3>2. staged[i] # None
      BY <2>6, <3>1 DEF Inv, MissedAreStaged
    <3>3. i \notin pass[t].ids
      BY <2>6, <3>2
    <3>4. HasChange(i)
      BY <3>3 DEF Touched, Inv, WindowIsPrefix
    <3> QED
      BY <2>6, <3>4
  <2> QED
    BY <2>1, <2>2, <2>3, <2>4, <2>5, <2>6
<1>12. WindowIsCovered(t)'
  <2>1. skip \subseteq Touched(t)
    BY DEF Touched
  <2>2. DOMAIN pass'[t].rows \subseteq pass'[t].ids
    BY <1>7
  <2> QED
    BY <1>2, <1>3, <1>7, <1>8, <1>11, <2>1, <2>2 DEF WindowIsCovered
<1> QED
  BY <1>2, <1>7, <1>10, <1>12, PassStep

(***************************************************************************)
(* Writing it leaves each of its blocks current, skipped or changed again. *)
(***************************************************************************)
LEMMA WriteRowsStep ==
  ASSUME Inv, OneTab, TypeOK', NEW t \in Tab, WriteRows(t)
  PROVE  Inv'
<1> DEFINE rows == pass[t].rows
           gone == {i \in LastlyChangedBy("delete", pass[t].entries) : staged[i] = None}
           scan == [NoPass EXCEPT !.phase = "scan", !.todo = pass[t].todo]
<1>1. /\ pass[t].phase = "write" /\ pass[t] \in Passes
      /\ pass[t].ids \subseteq Id /\ pass[t].skip \subseteq Id /\ Touched(t) \subseteq Id
      /\ pass[t].entries \subseteq Changes
      /\ DOMAIN rows \subseteq pass[t].ids
      /\ \A i \in DOMAIN rows : rows[i] \in 1 .. MaxChanges
      /\ UNCHANGED <<staged, queue, lastSeq, open, marker, wanted, rescan, job,
                     scanned, faults>>
  BY PassFields DEF WriteRows, Inv, WindowIsCovered, Passes
<1>2. blocks' = [i \in Id |-> IF i \in gone THEN None
                              ELSE IF i \in DOMAIN rows THEN rows[i] ELSE blocks[i]]
  BY DEF WriteRows
<1>4. gone \subseteq Touched(t) /\ DOMAIN rows \subseteq Touched(t)
  BY <1>1 DEF LastlyChangedBy, Touched
<1>5. \A i \in Id \ Touched(t) : blocks'[i] = blocks[i]
  BY <1>2, <1>4
<1>6. ASSUME NEW i \in Touched(t)
      PROVE  i \in pass[t].skip \/ blocks'[i] = staged[i] \/ LaterChange(t, i)
  <2>1. Covered(t, i)
    BY <1>1 DEF Inv, WindowIsCovered
  <2>2. CASE i \in gone
    BY <1>1, <1>2, <2>2
  <2>3. CASE i \notin gone
    BY <1>1, <1>2, <2>1, <2>3 DEF Covered
  <2> QED
    BY <2>2, <2>3
<1>7. \A u \in Tab : u = t
  BY DEF OneTab
<1>8. QueueHoldsNewest' /\ SequenceNumbers'
      /\ WindowIsPrefix(t)' /\ WindowIsCovered(t)' /\ MissedAreStaged' /\ NoSignalLost'
  <2>1. CASE rescan[t] = "running"
    <3>1. pass' = [pass EXCEPT ![t] = scan] /\ missed' = (missed \ pass[t].ids) \cup pass[t].skip
      BY <2>1 DEF WriteRows, Account
    <3>2. scan.phase = "scan" /\ scan.entries = {}
      BY DEF NoPass
    <3>3. pass'[t] = scan
      BY <3>1 DEF Inv, TypeOK
    <3>5. pass[t].entries = {} /\ Touched(t) = pass[t].ids
      BY <2>1 DEF Inv, WindowIsPrefix, Touched
    <3>6. SequenceNumbers' /\ QueueHoldsNewest'
      <4>1. SequenceNumbers'
        BY <1>1, <1>7, <3>2, <3>3 DEF Inv, SequenceNumbers
      <4>2. ASSUME NEW n \in queue, Newest(n)
            PROVE  Newest(n)'
        BY <1>1, <1>7, <3>2, <3>3, <4>2 DEF Newest
      <4> QED
        BY <1>1, <4>1, <4>2 DEF Inv, QueueHoldsNewest
    <3>7. WindowIsPrefix(t)'
      BY <1>1, <2>1, <3>2, <3>3 DEF Inv, WindowIsPrefix, Later
    <3>8. WindowIsCovered(t)'
      BY <3>2, <3>3 DEF WindowIsCovered
    <3>9. MissedAreStaged'
      <4>1. \A i \in pass[t].skip : staged[i] # None \/ HasChange(i)
        BY <1>1 DEF Inv, WindowIsCovered, LaterChange, HasChange
      <4> QED
        BY <1>1, <3>1, <4>1 DEF Inv, MissedAreStaged, HasChange
    <3>10. NoSignalLost'
      <4> SUFFICES ASSUME NEW i \in Id
                   PROVE  blocks'[i] = staged'[i] \/ i \in missed' \/ \E e \in queue' : e.id = i
        BY DEF NoSignalLost
      <4>1. CASE i \in Touched(t)
        BY <1>1, <1>6, <3>1, <4>1 DEF LaterChange
      <4>2. CASE i \notin Touched(t)
        BY <1>1, <1>5, <3>1, <3>5, <4>2 DEF Inv, NoSignalLost
      <4> QED
        BY <4>1, <4>2
    <3> QED
      BY <3>6, <3>7, <3>8, <3>9, <3>10
  <2>2. CASE rescan[t] # "running"
    <3>1. pass' = [pass EXCEPT ![t].phase = "consume"] /\ missed' = missed
      BY <2>2 DEF WriteRows
    <3>2. pass'[t] = [pass[t] EXCEPT !.phase = "consume"]
      BY <3>1 DEF Inv, TypeOK
    <3>3. /\ pass'[t].phase = "consume" /\ pass'[t].skip = pass[t].skip
          /\ pass'[t].entries = pass[t].entries /\ pass'[t].ids = pass[t].ids
      BY <1>1, <3>2 DEF Passes
    <3>5. SequenceNumbers' /\ QueueHoldsNewest'
      <4>1. SequenceNumbers'
        BY <1>1, <1>7, <3>3 DEF Inv, SequenceNumbers
      <4>2. ASSUME NEW n \in queue, Newest(n)
            PROVE  Newest(n)'
        BY <1>1, <1>7, <3>3, <4>2 DEF Newest
      <4> QED
        BY <1>1, <4>1, <4>2 DEF Inv, QueueHoldsNewest
    <3>6. WindowIsPrefix(t)'
      BY <1>1, <2>2, <3>3 DEF Inv, WindowIsPrefix, Later, HasChange
    <3>7. Touched(t)' = Touched(t) /\ \A i : LaterChange(t, i)' <=> LaterChange(t, i)
      BY <1>1, <3>3 DEF Touched, LaterChange, Later
    <3>8. WindowIsCovered(t)'
      BY <1>1, <1>6, <3>3, <3>7 DEF Inv, WindowIsCovered
    <3>9. MissedAreStaged'
      BY <1>1, <3>1 DEF Inv, MissedAreStaged, HasChange
    <3>10. NoSignalLost'
      <4> SUFFICES ASSUME NEW i \in Id
                   PROVE  blocks'[i] = staged'[i] \/ i \in missed' \/ \E e \in queue' : e.id = i
        BY DEF NoSignalLost
      <4>1. CASE \E e \in pass[t].entries : e.id = i
        BY <1>1, <4>1 DEF Inv, WindowIsPrefix, HasChange
      <4>2. CASE i \in Touched(t) /\ ~ \E e \in pass[t].entries : e.id = i
        <5>1. i \in pass[t].ids
          BY <4>2 DEF Touched
        <5>2. i \in LastlyChangedBy("upsert", pass[t].entries)
          BY <1>1, <2>2, <5>1 DEF Inv, WindowIsPrefix
        <5> QED
          BY <4>2, <5>2 DEF LastlyChangedBy
      <4>3. CASE i \notin Touched(t)
        BY <1>1, <1>5, <3>1, <4>3 DEF Inv, NoSignalLost
      <4> QED
        BY <4>1, <4>2, <4>3
    <3> QED
      BY <3>5, <3>6, <3>8, <3>9, <3>10
  <2> QED
    BY <2>1, <2>2
<1> QED
  BY <1>7, <1>8 DEF Inv

(***************************************************************************)
(* Consuming a window drops only changes of blocks that are dealt with.    *)
(***************************************************************************)
LEMMA ConsumeStep ==
  ASSUME Inv, OneTab, TypeOK', NEW t \in Tab, Consume(t)
  PROVE  Inv'
<1> DEFINE entries == pass[t].entries
           next == IF Cardinality(entries) < Chunk THEN NoPass
                   ELSE [NoPass EXCEPT !.phase = "queue"]
<1>1. /\ pass[t].phase = "consume" /\ pass[t] \in Passes
      /\ pass[t].skip \subseteq Id /\ Touched(t) \subseteq Id
      /\ entries \subseteq Changes
      /\ queue' = {e \in queue : \A f \in entries : e.seq > f.seq}
      /\ missed' = (missed \ {e.id : e \in entries}) \cup pass[t].skip
      /\ pass' = [pass EXCEPT ![t] = next]
      /\ wanted' = [u \in Tab |-> TRUE]
      /\ UNCHANGED <<staged, blocks, lastSeq, open, marker, rescan, job, scanned, faults>>
  BY PassFields, Zenon DEF Consume, Account, Notify, Inv
<1>2. next.entries = {} /\ next.phase \in {"idle", "queue"}
  BY DEF NoPass
<1>3. pass'[t] = next /\ \A u \in Tab : u = t
  BY <1>1 DEF Inv, TypeOK, OneTab
<1>4. \A e, f \in queue \cup entries : e.seq \in Nat /\ f.seq \in Nat
  BY <1>1 DEF Inv, TypeOK, Changes
<1>5. queue' = {e \in queue : Later(t, e)}
  BY <1>1, <1>4 DEF Later
<1>7. SequenceNumbers'
  BY <1>1, <1>2, <1>3, <1>5, FS_Subset DEF Inv, SequenceNumbers
<1>8. QueueHoldsNewest'
  <2> SUFFICES ASSUME NEW e \in queue'
               PROVE  \E n \in queue' : n.id = e.id /\ Newest(n)'
    BY DEF QueueHoldsNewest
  <2>1. PICK n \in queue : n.id = e.id /\ Newest(n)
    BY <1>5 DEF Inv, QueueHoldsNewest
  <2>2. e.seq <= n.seq
    BY <1>5, <2>1 DEF Newest
  <2>3. Later(t, n)
    BY <1>4, <1>5, <2>2 DEF Later
  <2>4. Newest(n)'
    BY <1>1, <1>2, <1>3, <1>5, <2>1 DEF Newest
  <2> QED
    BY <1>5, <2>1, <2>3, <2>4
<1>9. WindowIsPrefix(t)' /\ WindowIsCovered(t)'
  BY <1>1, <1>2, <1>3 DEF Inv, WindowIsPrefix, WindowIsCovered, Later
<1>10. \A i \in Id : LaterChange(t, i) => HasChange(i)'
  BY <1>5 DEF LaterChange, HasChange
\* A block none of whose changes is in the window keeps them all.
<1>11. ASSUME NEW i \in Id, i \notin {e.id : e \in entries}, HasChange(i)
       PROVE  HasChange(i)'
  BY <1>5, <1>11 DEF HasChange, Inv, WindowIsPrefix
<1>12. MissedAreStaged'
  <2> SUFFICES ASSUME NEW i \in missed' PROVE staged'[i] # None \/ HasChange(i)'
    BY DEF MissedAreStaged
  <2>1. CASE i \in pass[t].skip
    BY <1>1, <1>10, <2>1 DEF Inv, WindowIsCovered
  <2>2. CASE i \in missed /\ i \notin {e.id : e \in entries}
    BY <1>1, <1>11, <2>2 DEF Inv, MissedAreStaged, TypeOK
  <2> QED
    BY <1>1, <2>1, <2>2
<1>13. NoSignalLost'
  <2> SUFFICES ASSUME NEW i \in Id
               PROVE  blocks'[i] = staged'[i] \/ i \in missed' \/ HasChange(i)'
    BY DEF NoSignalLost, HasChange
  <2>1. CASE i \in {e.id : e \in entries}
    <3>1. i \in pass[t].skip \/ blocks[i] = staged[i] \/ LaterChange(t, i)
      BY <1>1, <2>1 DEF Inv, WindowIsCovered, Touched
    <3> QED
      BY <1>1, <1>10, <3>1
  <2>2. CASE i \notin {e.id : e \in entries}
    <3>1. blocks[i] = staged[i] \/ i \in missed \/ HasChange(i)
      BY DEF Inv, NoSignalLost, HasChange
    <3> QED
      BY <1>1, <1>11, <2>2, <3>1
  <2> QED
    BY <2>1, <2>2
<1> QED
  BY <1>3, <1>7, <1>8, <1>9, <1>12, <1>13 DEF Inv
-----------------------------------------------------------------------------
LEMMA InvInitially == Init => Inv
<1> SUFFICES ASSUME Init PROVE Inv
  OBVIOUS
<1>1. \A t \in Tab : pass[t] = NoPass
  BY DEF Init
<1>2. TypeOK
  BY TypeInitially
<1>3. SequenceNumbers
  BY <1>1, FS_EmptySet DEF Init, SequenceNumbers, NoPass
<1>4. QueueHoldsNewest /\ MissedAreStaged /\ NoSignalLost
  BY DEF Init, QueueHoldsNewest, MissedAreStaged, NoSignalLost
<1>5. \A t \in Tab : WindowIsPrefix(t) /\ WindowIsCovered(t)
  BY <1>1 DEF Init, NoPass, WindowIsPrefix, WindowIsCovered
<1> QED
  BY <1>2, <1>3, <1>4, <1>5 DEF Inv

LEMMA InvStep == ASSUME Inv, OneTab, [Next]_vars PROVE Inv'
<1>0. TypeOK'
  BY TypeStep DEF Inv
<1>1. ASSUME NEW i \in Id, Arrive(i) PROVE Inv'
  <2> DEFINE Q == {e \in queue : e.id = i => e.op # "delete"}
             v == lastSeq + 1
             op == "upsert"
  <2>1. /\ Enqueue(Q, i, op) /\ staged' = [staged EXCEPT ![i] = v]
        /\ \A e \in queue : e \in Q \/ e.id = i
        /\ Q \in SUBSET queue
    BY <1>1 DEF Arrive
  <2>2. v # None /\ v \in {None, lastSeq + 1}
    BY NoneAssumption DEF Inv, TypeOK
  <2> HIDE DEF Q, v
  <2> QED
    BY <1>0, <2>1, <2>2, EnqueueStep
<1>2. ASSUME NEW i \in Id, Leave(i) PROVE Inv'
  BY <1>0, <1>2, EnqueueStep DEF Leave
<1>3. ASSUME NEW t \in Tab,
             \/ ReadQueue(t) \/ ReadRows(t) \/ WriteRows(t) \/ Consume(t)
             \/ StartRescan(t) \/ NextChunk(t) \/ EndRescan(t)
             \/ UnitFails(t) \/ Reload(t)
             \/ Unlock(t) \/ StartJob(t) \/ RecordMarker(t)
      PROVE  Inv'
  BY <1>0, <1>3, ReadQueueStep, ReadRowsStep, WriteRowsStep, ConsumeStep,
     StartRescanStep, NextChunkStep, StopStep, GateStep
<1>4. CASE UNCHANGED vars
  <2>1. UNCHANGED <<staged, blocks, queue, lastSeq, open, marker, wanted, rescan, job,
                    pass, missed, scanned, faults>>
    BY <1>4 DEF vars, tables, chain
  <2>2. SequenceNumbers' /\ QueueHoldsNewest' /\ MissedAreStaged' /\ NoSignalLost'
    BY <2>1 DEF Inv, SequenceNumbers, QueueHoldsNewest, Newest, MissedAreStaged,
                NoSignalLost, HasChange
  <2>3. \A t \in Tab : WindowIsPrefix(t)' /\ WindowIsCovered(t)'
    BY <2>1 DEF Inv, WindowIsPrefix, WindowIsCovered, Covered, LaterChange, Later,
                Touched, HasChange
  <2> QED
    BY <1>0, <2>2, <2>3 DEF Inv
<1> QED
  BY <1>1, <1>2, <1>3, <1>4 DEF Next

(***************************************************************************)
(* NoSignalLostHolds: while one observer works on the database, a block    *)
(* whose row differs from the staged one is always still queued, whatever  *)
(* the window size, for any number of blocks, failures and reloads.        *)
(***************************************************************************)
THEOREM NoSignalLostHolds ==
  ASSUME OneTab
  PROVE  Spec => []NoSignalLost
<1>1. Inv => NoSignalLost
  BY DEF Inv
<1>2. Inv /\ [Next]_vars => Inv'
  BY InvStep
<1> QED
  BY <1>1, <1>2, InvInitially, PTL DEF Spec

(***************************************************************************)
(* OneTabConverges: and so, once the queue is drained and nothing was      *)
(* deferred, blocks holds exactly the staged rows (LastChangeWins).        *)
(***************************************************************************)
THEOREM OneTabConverges ==
  ASSUME OneTab
  PROVE  Spec => []LastChangeWins
<1>1. Inv => LastChangeWins
  <2> SUFFICES ASSUME Inv, queue = {}, missed = {} PROVE blocks = staged
    BY DEF LastChangeWins
  <2>1. \A i \in Id : blocks[i] = staged[i]
    BY DEF Inv, NoSignalLost
  <2> QED
    BY <2>1 DEF Inv, TypeOK
<1>2. Inv /\ [Next]_vars => Inv'
  BY InvStep
<1> QED
  BY <1>1, <1>2, InvInitially, PTL DEF Spec

-----------------------------------------------------------------------------
(***************************************************************************)
(* Nothing is stranded.  What a locked workspace deferred is current or    *)
(* queued again (Clean) once the job's rescan is over, hence before the    *)
(* marker; until then a rescan that runs has it still to do, and a window  *)
(* that has deferred rows is followed by one.                              *)
(***************************************************************************)
Clean == \A i \in missed : blocks[i] = staged[i] \/ HasChange(i)

ToDo(t, i) == i \in pass[t].todo \/ (pass[t].phase # "scan" /\ i \in pass[t].ids)

\* Without failures.
Rescued(t) ==
  /\ marker \/ (job[t] /\ rescan[t] = "no") => Clean
  /\ pass[t].phase \in {"write", "consume"} /\ pass[t].skip # {} =>
       ~open \/ rescan[t] = "queued"
  /\ rescan[t] = "running" =>
       \A i \in missed : blocks[i] = staged[i] \/ HasChange(i) \/ ToDo(t, i)

\* The job waits for the gate and for its rescan.
Gated(t) ==
  /\ ~open => ~marker /\ ~job[t]
  /\ marker => rescan[t] = "no"

StrandedInv ==
  /\ marker => Tab # {}
  /\ \A t \in Tab : Gated(t) /\ (faults = 0 => Rescued(t))

LEMMA GatedStep ==
  ASSUME TypeOK, OneTab, \A u \in Tab : WindowIsPrefix(u), NEW t \in Tab, Gated(t), [Next]_vars
  PROVE  Gated(t)'
<1>1. \A u \in Tab : u = t
  BY DEF OneTab
<1>2. rescan \in [Tab -> {"no", "queued", "running"}] /\ job \in [Tab -> BOOLEAN]
  BY DEF TypeOK
<1>3. CASE UNCHANGED <<open, marker, job, rescan>>
  BY <1>3 DEF Gated
<1>4. ASSUME NEW i \in Id, Arrive(i) \/ Leave(i) PROVE Gated(t)'
  BY <1>3, <1>4 DEF Arrive, Leave, Enqueue
<1>5. CASE ReadQueue(t) \/ ReadRows(t) \/ WriteRows(t) \/ Consume(t) \/ NextChunk(t)
  BY <1>3, <1>5 DEF ReadQueue, ReadRows, WriteRows, Consume, NextChunk, tables
<1>6. CASE StartRescan(t)
  BY <1>2, <1>6 DEF StartRescan, Gated, tables
<1>7. CASE EndRescan(t) \/ UnitFails(t)
  BY <1>2, <1>7 DEF EndRescan, UnitFails, Gated, tables
<1>8. CASE Reload(t)
  BY <1>2, <1>8 DEF Reload, Gated, tables
<1>9. CASE Unlock(t) \/ StartJob(t)
  BY <1>2, <1>9 DEF Unlock, StartJob, Gated, tables
<1>10. CASE RecordMarker(t)
  BY <1>2, <1>10 DEF RecordMarker, Gated
<1>11. CASE UNCHANGED vars
  BY <1>3, <1>11 DEF vars, tables, chain
<1> QED
  BY <1>1, <1>4, <1>5, <1>6, <1>7, <1>8, <1>9, <1>10, <1>11 DEF Next

\* Changes that are only queued.
LEMMA RescuedEnqueue ==
  ASSUME TypeOK, NEW i \in Id, Arrive(i) \/ Leave(i), NEW t \in Tab, Rescued(t)
  PROVE  Rescued(t)'
<1>1. UNCHANGED <<blocks, open, rescan, job, marker, pass, missed>>
  BY DEF Arrive, Leave, Enqueue
<1>2. \A k \in Id : k # i => staged'[k] = staged[k]
  BY DEF Arrive, Leave, TypeOK
<1>3. \A e \in queue : e.id # i => e \in queue'
  BY DEF Arrive, Leave, Enqueue
<1>4. HasChange(i)'
  <2>1. PICK op \in {"upsert", "delete"} : [seq |-> lastSeq + 1, id |-> i, op |-> op] \in queue'
    BY DEF Arrive, Leave, Enqueue
  <2> QED
    BY <2>1 DEF HasChange
<1>5. ASSUME NEW k \in missed, blocks[k] = staged[k] \/ HasChange(k)
      PROVE  blocks'[k] = staged'[k] \/ HasChange(k)'
  <2>1. CASE k = i
    BY <1>4, <2>1
  <2>2. CASE k # i
    BY <1>1, <1>2, <1>3, <1>5, <2>2 DEF HasChange, TypeOK
  <2> QED
    BY <2>1, <2>2
<1>6. Clean => Clean'
  BY <1>1, <1>5 DEF Clean
<1> QED
  BY <1>1, <1>5, <1>6 DEF Rescued, ToDo

\* A window that has read while the workspace was open defers nothing.
LEMMA RescuedRead ==
  ASSUME TypeOK, NEW t \in Tab, WindowIsPrefix(t), Rescued(t),
         ReadQueue(t) \/ ReadRows(t) \/ NextChunk(t), faults' = 0
  PROVE  Rescued(t)'
<1>1. /\ UNCHANGED <<staged, blocks, queue, open, marker, rescan, job, missed>>
      /\ pass[t] \in Passes /\ faults \in Nat
  BY DEF ReadQueue, ReadRows, NextChunk, tables, TypeOK
<1>2. Clean' <=> Clean
  BY <1>1 DEF Clean, HasChange
<1>3. CASE ReadQueue(t)
  <2>1. pass'[t].phase \in {"idle", "rows"}
    BY <1>3 DEF ReadQueue, NoPass, TypeOK
  <2>2. rescan[t] # "running"
    BY <1>3 DEF ReadQueue, WindowIsPrefix
  <2> QED
    BY <1>1, <1>2, <2>1, <2>2 DEF Rescued
<1>4. CASE ReadRows(t)
  <2>1. PICK skip \in SUBSET pass[t].ids : RowsRead(t, skip)
    BY <1>4, ReadRowsPicks
  <2>2. DOMAIN pass[t] = {"phase", "entries", "ids", "rows", "skip", "todo"}
    BY <1>1 DEF Passes
  <2>3. /\ pass'[t].phase = "write" /\ pass'[t].skip = skip
        /\ pass'[t].ids = pass[t].ids /\ pass'[t].todo = pass[t].todo
    BY <2>1, <2>2 DEF RowsRead, TypeOK
  <2>4. pass[t].phase = "rows"
    BY <1>4 DEF ReadRows
  <2>5. open => pass'[t].skip = {}
    <3> SUFFICES ASSUME open PROVE pass'[t].skip = {}
      OBVIOUS
    <3> DEFINE there == {i \in pass[t].ids : staged[i] # None}
               differ == {i \in there : staged[i] # blocks[i]}
               Found(sk) ==
                 pass' = [pass EXCEPT ![t].phase = "write", ![t].skip = sk,
                            ![t].rows = [i \in differ \ sk |-> staged[i]]]
    <3>1. Found({}) \/ faults' = faults + 1
      BY <1>4, Zenon DEF ReadRows
    <3>2. faults + 1 # 0
      BY <1>1
    <3>3. Found({}) => pass'[t].skip = {}
      BY <2>2 DEF TypeOK
    <3> QED
      BY <3>1, <3>2, <3>3
  <2> QED
    BY <1>1, <1>2, <2>3, <2>4, <2>5 DEF Rescued, ToDo, HasChange
<1>5. CASE NextChunk(t)
  <2>1. PICK S \in SUBSET pass[t].todo :
          pass' = [pass EXCEPT ![t].phase = "rows", ![t].ids = S, ![t].todo = @ \ S]
    BY <1>5 DEF NextChunk
  <2>2. DOMAIN pass[t] = {"phase", "entries", "ids", "rows", "skip", "todo"}
    BY <1>1 DEF Passes
  <2>3. pass'[t].phase = "rows" /\ pass'[t].ids = S /\ pass'[t].todo = pass[t].todo \ S
    BY <2>1, <2>2 DEF TypeOK
  <2>4. pass[t].phase = "scan"
    BY <1>5 DEF NextChunk
  <2>5. ASSUME NEW i \in missed, ToDo(t, i) PROVE ToDo(t, i)'
    BY <2>3, <2>4, <2>5 DEF ToDo
  <2>6. \A i : HasChange(i)' <=> HasChange(i)
    BY <1>1 DEF HasChange
  <2> QED
    BY <1>1, <1>2, <2>3, <2>5, <2>6 DEF Rescued
<1> QED
  BY <1>3, <1>4, <1>5

LEMMA RescuedWrite ==
  ASSUME Inv, NEW t \in Tab, Rescued(t), WriteRows(t)
  PROVE  Rescued(t)'
<1>1. /\ UNCHANGED <<staged, queue, open, marker, rescan, job>>
      /\ pass[t] \in Passes /\ pass[t].phase = "write" /\ Touched(t) \subseteq Id
      /\ missed \subseteq Id /\ WindowIsPrefix(t) /\ WindowIsCovered(t)
  BY PassFields DEF WriteRows, Inv, TypeOK
<1>2. \A i : HasChange(i)' <=> HasChange(i)
  BY <1>1 DEF HasChange
<1>3. ASSUME NEW i \in Id, i \notin Touched(t)
      PROVE  blocks'[i] = blocks[i]
  <2>1. i \notin LastlyChangedBy("delete", pass[t].entries) /\ i \notin DOMAIN pass[t].rows
    BY <1>1, <1>3 DEF LastlyChangedBy, Touched, WindowIsCovered
  <2> QED
    BY <2>1 DEF WriteRows
<1>4. CASE rescan[t] = "running"
  <2>1. /\ missed' = (missed \ pass[t].ids) \cup pass[t].skip
        /\ pass' = [pass EXCEPT ![t] = [NoPass EXCEPT !.phase = "scan", !.todo = pass[t].todo]]
    BY <1>4 DEF WriteRows, Account
  <2>2. pass[t].entries = {} /\ open /\ Touched(t) = pass[t].ids
    BY <1>1, <1>4 DEF WindowIsPrefix, Touched
  <2>3. pass[t].skip = {}
    BY <1>1, <1>4, <2>2 DEF Rescued
  <2>4. pass'[t].phase = "scan" /\ pass'[t].todo = pass[t].todo
    BY <2>1 DEF Inv, TypeOK, NoPass
  <2>5. ASSUME NEW i \in missed'
        PROVE  i \in missed /\ i \notin Touched(t) /\ blocks'[i] = blocks[i]
    BY <1>1, <1>3, <2>1, <2>2, <2>3, <2>5
  <2>6. ASSUME NEW i \in missed'
        PROVE  blocks'[i] = staged'[i] \/ HasChange(i)' \/ ToDo(t, i)'
    BY <1>1, <1>2, <1>4, <2>2, <2>4, <2>5, <2>6 DEF Rescued, ToDo
  <2>7. Clean => Clean'
    BY <1>1, <1>2, <2>5 DEF Clean
  <2> QED
    BY <1>1, <2>4, <2>6, <2>7 DEF Rescued
<1>5. CASE rescan[t] # "running"
  <2>1. missed' = missed /\ pass' = [pass EXCEPT ![t].phase = "consume"]
    BY <1>5 DEF WriteRows
  <2>2. DOMAIN pass[t] = {"phase", "entries", "ids", "rows", "skip", "todo"}
    BY <1>1 DEF Passes
  <2>3. pass'[t].phase = "consume" /\ pass'[t].skip = pass[t].skip
    BY <2>1, <2>2 DEF Inv, TypeOK
  <2>4. \A i \in Touched(t) : HasChange(i)
    BY <1>1, <1>5 DEF Touched, WindowIsPrefix, LastlyChangedBy
  <2>5. Clean => Clean'
    BY <1>1, <1>2, <1>3, <2>1, <2>4 DEF Clean
  <2> QED
    BY <1>1, <1>5, <2>3, <2>5 DEF Rescued
<1> QED
  BY <1>4, <1>5

LEMMA RescuedConsume ==
  ASSUME Inv, NEW t \in Tab, Gated(t), Rescued(t), Consume(t)
  PROVE  Rescued(t)'
<1> DEFINE entries == pass[t].entries
<1>1. /\ UNCHANGED <<staged, blocks, open, marker, rescan, job>>
      /\ pass[t].phase = "consume" /\ WindowIsPrefix(t) /\ missed \subseteq Id
      /\ queue' = {e \in queue : \A f \in entries : e.seq > f.seq}
      /\ missed' = (missed \ {e.id : e \in entries}) \cup pass[t].skip
  BY DEF Consume, Account, Inv, TypeOK
<1>2. pass'[t].phase \in {"idle", "queue"}
  BY DEF Consume, NoPass, Inv, TypeOK
<1>3. \A e, f \in queue \cup entries : e.seq \in Nat /\ f.seq \in Nat
  BY PassFields DEF Inv, TypeOK, Changes
<1>4. rescan[t] # "running"
  BY <1>1 DEF WindowIsPrefix
<1>5. ASSUME NEW i \in missed, i \notin {e.id : e \in entries}, HasChange(i)
      PROVE  HasChange(i)'
  BY <1>1, <1>3, <1>5 DEF HasChange, WindowIsPrefix, Later
<1>6. ASSUME marker \/ (job[t] /\ rescan[t] = "no")
      PROVE  Clean'
  <2>1. open /\ rescan[t] = "no"
    BY <1>6 DEF Gated
  <2>2. pass[t].skip = {}
    BY <1>1, <2>1 DEF Rescued
  <2>3. Clean
    BY <1>6 DEF Rescued
  <2> QED
    BY <1>1, <1>5, <2>2, <2>3 DEF Clean
<1> QED
  BY <1>1, <1>2, <1>4, <1>6 DEF Rescued

LEMMA RescuedRescan ==
  ASSUME Inv, NEW t \in Tab, Rescued(t), StartRescan(t) \/ EndRescan(t)
  PROVE  Rescued(t)'
<1>1. UNCHANGED <<staged, blocks, queue, open, marker, job, missed>> /\ missed \subseteq Id
  BY DEF StartRescan, EndRescan, tables, Inv, TypeOK
<1>2. Clean' <=> Clean
  BY <1>1 DEF Clean, HasChange
<1>3. CASE StartRescan(t)
  <2>1. /\ pass'[t].phase = "scan" /\ pass'[t].todo = {i \in Id : staged[i] # None}
        /\ rescan'[t] = "running"
    BY <1>3 DEF StartRescan, NoPass, Inv, TypeOK
  <2>2. \A i \in missed : HasChange(i) \/ i \in pass'[t].todo
    BY <1>1, <2>1 DEF Inv, MissedAreStaged
  <2>3. ASSUME NEW i \in missed PROVE HasChange(i)' \/ ToDo(t, i)'
    BY <1>1, <2>1, <2>2 DEF ToDo, HasChange
  <2> QED
    BY <1>1, <1>2, <2>1, <2>3 DEF Rescued
<1>4. CASE EndRescan(t)
  <2>1. /\ pass[t].phase = "scan" /\ pass[t].todo = {} /\ rescan'[t] = "no"
        /\ pass'[t].phase = "idle"
    BY <1>4 DEF EndRescan, NoPass, Inv, TypeOK
  <2>2. rescan[t] = "running"
    BY <2>1 DEF Inv, WindowIsPrefix
  <2>3. Clean
    BY <2>1, <2>2 DEF Rescued, ToDo, Clean
  <2> QED
    BY <1>2, <2>1, <2>3 DEF Rescued
<1> QED
  BY <1>3, <1>4

LEMMA RescuedGate ==
  ASSUME Inv, NEW t \in Tab, Gated(t), Rescued(t),
         \/ Unlock(t) \/ StartJob(t) \/ RecordMarker(t)
         \/ Reload(t) /\ pass[t].phase = "idle"
  PROVE  Rescued(t)'
<1>1. UNCHANGED <<staged, blocks, queue, missed>>
  BY DEF Unlock, StartJob, RecordMarker, Reload, tables
<1>2. Clean' <=> Clean
  BY <1>1 DEF Clean, HasChange
<1>3. /\ rescan \in [Tab -> {"no", "queued", "running"}] /\ job \in [Tab -> BOOLEAN]
      /\ pass \in [Tab -> Passes]
  BY DEF Inv, TypeOK
<1>4. CASE Unlock(t)
  <2>1. /\ ~open /\ open' /\ rescan'[t] = "queued" /\ UNCHANGED <<marker, job, pass>>
    BY <1>3, <1>4 DEF Unlock
  <2>2. ~marker /\ ~job[t]
    BY <2>1 DEF Gated
  <2> QED
    BY <2>1, <2>2 DEF Rescued
<1>5. CASE StartJob(t)
  <2>1. /\ ~marker /\ rescan'[t] = "queued" /\ UNCHANGED <<marker, pass, open>>
    BY <1>3, <1>5 DEF StartJob, tables
  <2> QED
    BY <2>1 DEF Rescued
<1>6. CASE RecordMarker(t)
  <2>1. /\ job[t] /\ rescan[t] = "no" /\ UNCHANGED <<rescan, pass, open>>
    BY <1>6 DEF RecordMarker
  <2> QED
    BY <1>2, <2>1 DEF Rescued
<1>7. CASE Reload(t) /\ pass[t].phase = "idle"
  <2>1. /\ pass'[t].phase = "idle" /\ ~job'[t] /\ rescan'[t] = "no" /\ marker' = marker
    BY <1>3, <1>7 DEF Reload, NoPass, tables
  <2> QED
    BY <1>2, <2>1 DEF Rescued
<1> QED
  BY <1>4, <1>5, <1>6, <1>7

LEMMA StrandedStep == ASSUME Inv, OneTab, StrandedInv, [Next]_vars PROVE StrandedInv'
<1> SUFFICES ASSUME NEW t \in Tab PROVE Gated(t)' /\ (faults' = 0 => Rescued(t)')
  <2>1. Tab = {} => marker' = marker
    BY DEF Next, vars, tables, Arrive, Leave, Enqueue
  <2> QED
    BY <2>1 DEF StrandedInv
<1>1. /\ TypeOK /\ \A u \in Tab : WindowIsPrefix(u) /\ u = t
      /\ Gated(t) /\ faults \in Nat
  BY DEF Inv, TypeOK, OneTab, StrandedInv
<1>2. Gated(t)'
  BY <1>1, GatedStep
<1>3. ASSUME faults' = 0 PROVE Rescued(t)'
  <2>1. \/ UNCHANGED vars
        \/ \E i \in Id : Arrive(i) \/ Leave(i)
        \/ ReadQueue(t) \/ ReadRows(t) \/ NextChunk(t)
        \/ WriteRows(t)
        \/ Consume(t)
        \/ StartRescan(t) \/ EndRescan(t)
        \/ UnitFails(t)
        \/ Unlock(t) \/ StartJob(t) \/ RecordMarker(t) \/ Reload(t)
    BY <1>1 DEF Next
  <2>2. faults = 0 /\ ~UnitFails(t) /\ (Reload(t) => pass[t].phase = "idle")
    <3>1. UnitFails(t) => faults' = faults + 1
      BY DEF UnitFails
    <3>2. Reload(t) /\ pass[t].phase # "idle" => faults' = faults + 1
      BY DEF Reload
    <3>3. faults' = faults \/ faults' = faults + 1
      BY <1>1, <2>1 DEF vars, tables, chain, Arrive, Leave, Enqueue, ReadQueue, ReadRows,
         NextChunk, WriteRows, Consume, StartRescan, EndRescan, UnitFails, Unlock,
         StartJob, RecordMarker, Reload
    <3> QED
      BY <1>1, <1>3, <3>1, <3>2, <3>3
  <2>3. Rescued(t)
    BY <2>2 DEF StrandedInv
  <2>4. CASE UNCHANGED vars
    <3>1. UNCHANGED <<staged, blocks, queue, open, marker, rescan, job, pass, missed>>
      BY <2>4 DEF vars, tables, chain
    <3> QED
      BY <2>3, <3>1 DEF Rescued, ToDo, Clean, HasChange
  <2>5. ASSUME NEW i \in Id, Arrive(i) \/ Leave(i) PROVE Rescued(t)'
    BY <1>1, <2>3, <2>5, RescuedEnqueue
  <2>6. CASE ReadQueue(t) \/ ReadRows(t) \/ NextChunk(t)
    BY <1>1, <1>3, <2>3, <2>6, RescuedRead
  <2>7. CASE WriteRows(t)
    BY <2>3, <2>7, RescuedWrite
  <2>8. CASE Consume(t)
    BY <1>1, <2>3, <2>8, RescuedConsume
  <2>9. CASE StartRescan(t) \/ EndRescan(t)
    BY <2>3, <2>9, RescuedRescan
  <2>10. CASE Unlock(t) \/ StartJob(t) \/ RecordMarker(t) \/ Reload(t)
    BY <1>1, <2>2, <2>3, <2>10, RescuedGate
  <2> QED
    BY <2>1, <2>2, <2>4, <2>5, <2>6, <2>7, <2>8, <2>9, <2>10
<1> QED
  BY <1>2, <1>3

(***************************************************************************)
(* NothingStrandedHolds: in one tab and without failures, whatever a       *)
(* locked workspace deferred is current or queued again by the time the    *)
(* one-time job is recorded, whenever the workspace is opened and however  *)
(* drains, deliveries and reloads fall in between.                         *)
(***************************************************************************)
THEOREM NothingStrandedHolds ==
  ASSUME OneTab
  PROVE  Spec => []NothingStranded
<1>1. Init => StrandedInv
  BY DEF Init, StrandedInv, Gated, Rescued, Clean, NoPass
<1>2. Inv /\ StrandedInv /\ [Next]_vars => Inv' /\ StrandedInv'
  BY InvStep, StrandedStep
<1>3. Inv /\ StrandedInv => NothingStranded
  <2> SUFFICES ASSUME StrandedInv, faults = 0, open, marker, NEW i \in missed,
                      \A t \in Tab : rescan[t] = "no"
               PROVE  blocks[i] = staged[i] \/ \E e \in queue : e.id = i
    BY DEF Inv, TypeOK, NothingStranded
  <2>1. Tab # {}
    BY DEF StrandedInv
  <2> QED
    BY <2>1 DEF StrandedInv, Rescued, Clean, HasChange
<1> QED
  BY <1>1, <1>2, <1>3, InvInitially, PTL DEF Spec

(***************************************************************************)
(* StagedRowsStayHolds: no number of tabs, failures or stale windows makes *)
(* a drain hard-delete a block that is staged.                             *)
(***************************************************************************)
THEOREM StagedRowsStayHolds == Spec => StagedRowsStay
<1> DEFINE Kept == \A i \in Id : blocks[i] # None /\ blocks'[i] = None => staged[i] = None
<1>1. TypeOK /\ [Next]_vars => [Kept]_blocks
  <2> SUFFICES ASSUME TypeOK, [Next]_vars, blocks' # blocks
               PROVE  Kept
    OBVIOUS
  <2>1. PICK t \in Tab : WriteRows(t)
    BY DEF Next, vars, tables, Arrive, Leave, Enqueue, ReadQueue, ReadRows, Consume,
           StartRescan, NextChunk, EndRescan, UnitFails, Reload, Unlock, StartJob,
           RecordMarker
  <2>2. pass[t] \in Passes
    BY DEF TypeOK
  <2>3. \A i \in DOMAIN pass[t].rows : pass[t].rows[i] # None
    BY <2>2, NoneAssumption DEF Passes
  <2> QED
    BY <2>1, <2>3 DEF WriteRows
<1> QED
  BY <1>1, TypeCorrect, PTL DEF Spec, StagedRowsStay
=============================================================================
