----------------------------- MODULE UploadQueue -----------------------------
(***************************************************************************)
(* The upload orchestrator of powersync.ts: an optimistic pass over a      *)
(* whole batch, and a fallback that takes its transactions one by one,     *)
(* retries, gives up after a budget, and quarantines.                      *)
(*                                                                         *)
(* Transactions are numbered in commit order.  complete() is a prefix      *)
(* checkpoint, so `head` is all the state ps_crud has here.  The retry     *)
(* counts and the pass itself live in memory and die with the page.        *)
(***************************************************************************)
EXTENDS Naturals, FiniteSets

CONSTANTS
  Last,        \* transactions committed, a bound
  BatchMax,    \* MAX_TRANSACTIONS_PER_UPLOAD_BATCH
  Budget,      \* AMBIGUOUS_RETRY_BUDGET
  Creates,     \* transactions with creates after compaction
  Patches,     \* transactions with patches after compaction
  Sealed,      \* transactions of an end-to-end encrypted workspace
  MaxBlips,    \* bound on transient failures
  MaxRestarts  \* bound on restarts

ASSUME LastAssumption == Last \in Nat
ASSUME BatchAssumption == BatchMax \in Nat \ {0}
ASSUME BudgetAssumption == Budget \in Nat \ {0}
ASSUME KindAssumption == {Creates, Patches, Sealed} \subseteq SUBSET (1 .. Last)
ASSUME BlipAssumption == MaxBlips \in Nat /\ MaxRestarts \in Nat

Tx == 1 .. Last
Parts == (Creates \X {"creates"}) \cup (Patches \X {"patches"})
PartsOf(t) == {p \in Parts : p[1] = t}

VARIABLES
  tail,      \* transactions 1 .. tail were committed locally
  head,      \* transactions 1 .. head were drained from ps_crud
  mode,      \* "idle", "batch" or "single": what the pass is doing
  next,      \* the next call of the pass, or "record" and "drop"
  upto,      \* last transaction of the collected batch
  landed,    \* parts the server has applied at least once
  rejected,  \* transactions in ps_crud_rejected
  attempts,  \* ambiguousAttempts: failed passes of a transaction, in memory
  key,       \* the workspace key can be read
  keySeen,   \* history: it could be read at some time
  blips, restarts

passVars == <<mode, next, upto>>
vars == <<tail, head, passVars, landed, rejected, attempts, key, keySeen,
          blips, restarts>>

\* Mutant: counters are never cleared.
ForgetNothing(S) == attempts
\* Mutant: encrypts without looking for the key.
EncryptableAlways(S) == TRUE

Forget(S) == [t \in Tx |-> IF t \in S THEN 0 ELSE attempts[t]]
Encryptable(S) == key \/ S \cap Sealed = {}
Current == head + 1
\* The transactions of the current call.
InCall == IF mode = "batch" THEN Current .. upto ELSE {Current}

Init ==
  /\ tail = 0 /\ head = 0
  /\ mode = "idle" /\ next = "creates" /\ upto = 0
  /\ landed = {} /\ rejected = {}
  /\ attempts = [t \in Tx |-> 0]
  /\ key \in BOOLEAN /\ keySeen = key
  /\ blips = 0 /\ restarts = 0
-----------------------------------------------------------------------------
Commit ==
  /\ tail < Last
  /\ tail' = tail + 1
  /\ UNCHANGED <<head, passVars, landed, rejected, attempts, key, keySeen,
                 blips, restarts>>

KeyAppears ==
  /\ ~key
  /\ key' = TRUE /\ keySeen' = TRUE
  /\ UNCHANGED <<tail, head, passVars, landed, rejected, attempts, blips, restarts>>

\* The key store is locked, or the entry is evicted.
KeyVanishes ==
  /\ key
  /\ blips < MaxBlips
  /\ blips' = blips + 1
  /\ key' = FALSE
  /\ UNCHANGED <<tail, head, passVars, landed, rejected, attempts, keySeen, restarts>>

Same == UNCHANGED <<tail, key, keySeen, restarts>>

GoIdle == mode' = "idle" /\ next' = "creates" /\ UNCHANGED upto
GoSingle == mode' = "single" /\ next' = "creates" /\ UNCHANGED upto

\* Collect a prefix of the queue (fewer than BatchMax transactions when the
\* entry limit is reached first) and encrypt it; a failure to encrypt the
\* batch falls through to the loop over its transactions.
CollectBatch ==
  /\ mode = "idle"
  /\ head < tail
  /\ \E n \in 1 .. BatchMax :
       /\ head + n <= tail
       /\ upto' = head + n
       /\ mode' = IF Encryptable(Current .. head + n) THEN "batch" ELSE "single"
  /\ next' = "creates"
  /\ Same /\ UNCHANGED <<head, landed, rejected, attempts, blips>>

\* encryptOps of a single transaction throws out of the loop.
CannotEncrypt ==
  /\ mode = "single" /\ next = "creates"
  /\ ~Encryptable({Current})
  /\ GoIdle
  /\ Same /\ UNCHANGED <<head, landed, rejected, attempts, blips>>

MayCall == mode = "single" /\ next = "creates" => Encryptable({Current})

\* Mutant: every transaction is sent by both calls.
CallForAll(kind, then) ==
  /\ mode \in {"batch", "single"} /\ next = kind
  /\ MayCall
  /\ landed' = landed \cup (InCall \X {kind})
  /\ next' = then
  /\ Same /\ UNCHANGED <<head, mode, upto, rejected, attempts, blips>>

\* createRows succeeds, then applyPatches succeeds.
Call(kind, then) ==
  /\ mode \in {"batch", "single"} /\ next = kind
  /\ MayCall
  /\ landed' = landed \cup {p \in Parts : p[1] \in InCall /\ p[2] = kind}
  /\ next' = then
  /\ Same /\ UNCHANGED <<head, mode, upto, rejected, attempts, blips>>

SendCreates == Call("creates", "patches")
SendPatches == Call("patches", "complete")

\* Mutant: completes what is queued by now, not what was collected.
CompleteTail ==
  /\ mode = "batch" /\ next = "complete"
  /\ head' = tail
  /\ attempts' = [t \in Tx |-> 0]
  /\ GoIdle
  /\ Same /\ UNCHANGED <<landed, rejected, blips>>

\* The checkpoint after everything was applied.
CompleteBatch ==
  /\ mode = "batch" /\ next = "complete"
  /\ head' = upto
  /\ attempts' = Forget(InCall)
  /\ GoIdle
  /\ Same /\ UNCHANGED <<landed, rejected, blips>>

Advance ==
  /\ head' = Current
  /\ attempts' = Forget({Current})
  /\ IF Current < upto THEN GoSingle ELSE GoIdle
  /\ Same /\ UNCHANGED <<landed, rejected, blips>>

CompleteSingle == mode = "single" /\ next = "complete" /\ Advance

\* A failed call may have applied any of its chunks, or all of them when only
\* the answer was lost; a failed checkpoint has applied nothing.
PartlyLands ==
  \E S \in SUBSET {p \in Parts : p[1] \in InCall /\ p[2] = next} :
    landed' = landed \cup S

\* Any failure of a batch isolates its transactions.
BatchFails ==
  /\ mode = "batch"
  /\ blips < MaxBlips
  /\ blips' = blips + 1
  /\ PartlyLands
  /\ GoSingle
  /\ Same /\ UNCHANGED <<head, rejected, attempts>>

\* A call the server refuses for good, or that times out: same isolation,
\* and not bounded, since the server refuses it every time.
BatchRefused ==
  /\ mode = "batch" /\ next # "complete"
  /\ PartlyLands
  /\ GoSingle
  /\ Same /\ UNCHANGED <<head, rejected, attempts, blips>>

\* The per-transaction loop classifies the error.
SingleTransient ==
  /\ mode = "single" /\ next \in {"creates", "patches", "complete"}
  /\ MayCall
  /\ blips < MaxBlips
  /\ blips' = blips + 1
  /\ PartlyLands
  /\ GoIdle
  /\ Same /\ UNCHANGED <<head, rejected, attempts>>

\* Mutant: retries without a budget.
SingleAmbiguousForever ==
  /\ mode = "single" /\ next \in {"creates", "patches"}
  /\ MayCall
  /\ PartlyLands
  /\ GoIdle
  /\ Same /\ UNCHANGED <<head, attempts, rejected, blips>>

SingleAmbiguous ==
  /\ mode = "single" /\ next \in {"creates", "patches"}
  /\ MayCall
  /\ PartlyLands
  /\ attempts' = [attempts EXCEPT ![Current] = @ + 1]
  /\ IF attempts[Current] + 1 >= Budget
     THEN next' = "record" /\ UNCHANGED <<mode, upto>>
     ELSE GoIdle
  /\ Same /\ UNCHANGED <<head, rejected, blips>>

SinglePermanent ==
  /\ mode = "single" /\ next \in {"creates", "patches"}
  /\ MayCall
  /\ PartlyLands
  /\ next' = "record"
  /\ Same /\ UNCHANGED <<head, mode, upto, rejected, attempts, blips>>

\* Mutant: the quarantine row is best-effort.
RecordNothing ==
  /\ mode = "single" /\ next = "record"
  /\ next' = "drop"
  /\ Same /\ UNCHANGED <<head, mode, upto, landed, rejected, attempts, blips>>

\* recordRejection and complete() are two transactions on the device.
RecordRejection ==
  /\ mode = "single" /\ next = "record"
  /\ rejected' = rejected \cup {Current}
  /\ next' = "drop"
  /\ Same /\ UNCHANGED <<head, mode, upto, landed, attempts, blips>>

DropRejected == mode = "single" /\ next = "drop" /\ Advance

\* Either of them throws out of the loop; nothing of it is written.
QuarantineFails ==
  /\ mode = "single" /\ next \in {"record", "drop"}
  /\ blips < MaxBlips
  /\ blips' = blips + 1
  /\ GoIdle
  /\ Same /\ UNCHANGED <<head, landed, rejected, attempts>>

\* The page goes away; the call in flight may still land.
Restart ==
  /\ restarts < MaxRestarts
  /\ restarts' = restarts + 1
  /\ IF mode # "idle" /\ MayCall THEN PartlyLands ELSE UNCHANGED landed
  /\ attempts' = [t \in Tx |-> 0]
  /\ GoIdle
  /\ UNCHANGED <<tail, head, rejected, key, keySeen, blips>>
-----------------------------------------------------------------------------
Progress ==
  \/ CollectBatch \/ SendCreates \/ SendPatches \/ CompleteBatch
  \/ CompleteSingle \/ BatchRefused \/ SingleAmbiguous \/ SinglePermanent
  \/ RecordRejection \/ DropRejected \/ CannotEncrypt

Next ==
  \/ Commit \/ KeyAppears \/ KeyVanishes
  \/ CollectBatch \/ CannotEncrypt
  \/ SendCreates \/ SendPatches \/ CompleteBatch \/ CompleteSingle
  \/ BatchFails \/ BatchRefused
  \/ SingleTransient \/ SingleAmbiguous \/ SinglePermanent
  \/ RecordRejection \/ DropRejected \/ QuarantineFails
  \/ Restart

Spec == Init /\ [][Next]_vars

\* PowerSync calls uploadData again as long as ps_crud is not empty; a pass
\* runs on until it returns or throws; a missing key is supplied in the end.
UploadFairness == WF_vars(Progress) /\ WF_vars(KeyAppears)
-----------------------------------------------------------------------------
TypeOK ==
  /\ tail \in Nat /\ head \in Nat /\ upto \in Nat
  /\ mode \in {"idle", "batch", "single"}
  /\ next \in {"creates", "patches", "complete", "record", "drop"}
  /\ landed \subseteq Parts
  /\ rejected \subseteq Tx
  /\ attempts \in [Tx -> Nat]
  /\ key \in BOOLEAN /\ keySeen \in BOOLEAN
  /\ blips \in Nat /\ restarts \in Nat

HasLanded(t) == PartsOf(t) \subseteq landed

(***************************************************************************)
(* NothingLost: an edit that has left the upload queue is on the server in *)
(* full or is kept in ps_crud_rejected, whatever failed in between and     *)
(* wherever the page was closed.                                           *)
(***************************************************************************)
NothingLost == \A t \in 1 .. head : HasLanded(t) \/ t \in rejected

(***************************************************************************)
(* OnlyHeadIsCounted: the retry counters in memory never hold more than    *)
(* the one transaction the queue is stuck on, and none that has drained,   *)
(* so a transaction never starts on a used-up budget.                      *)
(***************************************************************************)
OnlyHeadIsCounted == \A t \in Tx : attempts[t] > 0 => t = Current

(***************************************************************************)
(* SealedWaits: while the key of an encrypted workspace has never been     *)
(* there, none of its edits is sent, drained or given up on.               *)
(***************************************************************************)
SealedWaits ==
  ~keySeen => \A t \in Sealed :
    t > head /\ t \notin rejected /\ PartsOf(t) \cap landed = {}

(***************************************************************************)
(* QueueDrains: every committed edit leaves the queue in the end, even if  *)
(* the server answers ambiguously or refuses every time.                   *)
(***************************************************************************)
QueueDrains == \A t \in Tx : tail >= t ~> head >= t

Box == INSTANCE Outbox
  WITH queued <- tail, settled <- head, quarantined <- rejected,
       delivered <- {t \in 1 .. tail : HasLanded(t)}

(***************************************************************************)
(* ImplementsOutbox: the orchestrator keeps the promise of Outbox.         *)
(***************************************************************************)
ImplementsOutbox == Box!OutboxSpec
=============================================================================
