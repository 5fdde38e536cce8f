---------------------------- MODULE Upload_proofs ----------------------------
(***************************************************************************)
(* What UploadQueue promises of every batch size, retry budget and number  *)
(* of transactions: type correctness, NothingLost, OnlyHeadIsCounted,      *)
(* SealedWaits, and that it implements Outbox.  With ServerRow_proofs:     *)
(* what holds of the orchestrator and of the server row holds of the two   *)
(* ends together.                                                          *)
(***************************************************************************)
EXTENDS MC_Upload, ServerRow_proofs

(***************************************************************************)
(* PassInOrder, the strengthening the proofs need: the pass works on a     *)
(* nonempty prefix of the queue; what it is about to do next says what has *)
(* been done for the transactions of its call.                             *)
(***************************************************************************)
PassInOrder ==
  /\ head <= tail /\ tail <= Last
  /\ mode # "idle" => Current <= upto /\ upto <= tail
  /\ mode = "idle" => next = "creates"
  /\ mode = "batch" => next \in {"creates", "patches", "complete"}
  /\ next \in {"patches", "complete"} =>
       \A p \in Parts : p[1] \in InCall /\ p[2] = "creates" => p \in landed
  /\ next = "complete" =>
       \A p \in Parts : p[1] \in InCall /\ p[2] = "patches" => p \in landed
  /\ next = "drop" => Current \in rejected
  /\ \A p \in landed : p[1] <= tail

\* ... and that nothing sealed is past encryption before there was a key.
SealedOutOfCall ==
  ~keySeen =>
    /\ ~key
    /\ mode = "batch" => InCall \cap Sealed = {}
    /\ mode = "single" /\ next # "creates" => Current \notin Sealed

-----------------------------------------------------------------------------
LEMMA PartKinds ==
  \A p \in Parts : p[1] \in Tx /\ p[2] \in {"creates", "patches"}
BY KindAssumption DEF Parts, Tx

\* Everything a transaction has to send is its creates and its patches.
LEMMA BothCallsLand ==
  ASSUME NEW t,
         \A p \in Parts : p[1] = t /\ p[2] = "creates" => p \in landed,
         \A p \in Parts : p[1] = t /\ p[2] = "patches" => p \in landed
  PROVE  HasLanded(t)
BY PartKinds DEF HasLanded, PartsOf

LEMMA CallTransactions ==
  ASSUME TypeOK, PassInOrder, mode # "idle"
  PROVE  /\ Current \in Tx /\ Current \in InCall
         /\ InCall \subseteq Tx
         /\ \A t \in InCall : t >= Current /\ t <= tail
BY LastAssumption DEF TypeOK, PassInOrder, Current, InCall, Tx

LEMMA TypeCorrectStep ==
  TypeOK /\ PassInOrder /\ [Next]_vars => TypeOK' /\ PassInOrder'
<1> SUFFICES ASSUME TypeOK, PassInOrder, [Next]_vars
             PROVE  TypeOK' /\ PassInOrder'
  OBVIOUS
<1> USE LastAssumption, PartKinds
<1>1. CASE Commit
  BY <1>1 DEF Commit, TypeOK, PassInOrder, passVars, Current, InCall, Parts, Tx
<1>2. CASE KeyAppears
  BY <1>2 DEF KeyAppears, TypeOK, PassInOrder, passVars, Current, InCall
<1>3. CASE KeyVanishes
  <2>1. TypeOK'
    <3>1. key' \in BOOLEAN /\ keySeen' \in BOOLEAN
      BY <1>3, Zenon DEF KeyVanishes, TypeOK
    <3>2. UNCHANGED <<tail, head, mode, next, upto, landed, rejected, attempts, restarts>>
          /\ blips' = blips + 1
      BY <1>3, Zenon DEF KeyVanishes, passVars
    <3> QED
      BY <3>1, <3>2 DEF TypeOK
  <2>2. PassInOrder'
    BY <1>3 DEF KeyVanishes, PassInOrder, passVars, Current, InCall
  <2> QED
    BY <2>1, <2>2
<1>4. CASE CollectBatch
  <2>1. PICK n \in 1 .. BatchMax :
          /\ head + n <= tail
          /\ upto' = head + n
          /\ mode' \in {"batch", "single"}
    BY <1>4 DEF CollectBatch
  <2>2. n \in Nat \ {0}
    BY BatchAssumption
  <2> QED
    BY <1>4, <2>1, <2>2 DEF CollectBatch, Same, TypeOK, PassInOrder, Current, InCall
<1>5. CASE CannotEncrypt
  BY <1>5 DEF CannotEncrypt, GoIdle, Same, TypeOK, PassInOrder, Current, InCall
<1>6. CASE SendCreates
  BY <1>6 DEF SendCreates, Call, Same, TypeOK, PassInOrder, Current, InCall
<1>7. CASE SendPatches
  BY <1>7 DEF SendPatches, Call, Same, TypeOK, PassInOrder, Current, InCall
<1>8. CASE CompleteBatch
  BY <1>8 DEF CompleteBatch, GoIdle, Same, Forget, TypeOK, PassInOrder, Current, InCall
<1>9. CASE CompleteSingle
  BY <1>9 DEF CompleteSingle, Advance, GoIdle, GoSingle, Same, Forget, TypeOK,
              PassInOrder, Current, InCall
<1>10. CASE BatchFails
  BY <1>10, BlipAssumption
  DEF BatchFails, PartlyLands, GoSingle, Same, TypeOK, PassInOrder, Current, InCall
<1>11. CASE BatchRefused
  BY <1>11
  DEF BatchRefused, PartlyLands, GoSingle, Same, TypeOK, PassInOrder, Current, InCall
<1>12. CASE SingleTransient
  BY <1>12, BlipAssumption
  DEF SingleTransient, PartlyLands, GoIdle, Same, TypeOK, PassInOrder, Current, InCall
<1>13. CASE SingleAmbiguous
  <2>1. TypeOK'
    <3>1. attempts' \in [Tx -> Nat]
      BY <1>13, CallTransactions DEF SingleAmbiguous, TypeOK
    <3>2. landed' \subseteq Parts
      BY <1>13 DEF SingleAmbiguous, PartlyLands, TypeOK
    <3> QED
      BY <1>13, <3>1, <3>2 DEF SingleAmbiguous, GoIdle, Same, TypeOK
  <2>2. PassInOrder'
    BY <1>13 DEF SingleAmbiguous, PartlyLands, GoIdle, Same, TypeOK, PassInOrder,
                 Current, InCall
  <2> QED
    BY <2>1, <2>2
<1>14. CASE SinglePermanent
  BY <1>14 DEF SinglePermanent, PartlyLands, Same, TypeOK, PassInOrder, Current, InCall
<1>15. CASE RecordRejection
  BY <1>15, CallTransactions DEF RecordRejection, Same, TypeOK, PassInOrder, Current, InCall
<1>16. CASE DropRejected
  BY <1>16 DEF DropRejected, Advance, GoIdle, GoSingle, Same, Forget, TypeOK,
               PassInOrder, Current, InCall
<1>17. CASE QuarantineFails
  BY <1>17, BlipAssumption
  DEF QuarantineFails, GoIdle, Same, TypeOK, PassInOrder, Current, InCall
<1>18. CASE Restart
  BY <1>18, BlipAssumption
  DEF Restart, PartlyLands, GoIdle, TypeOK, PassInOrder, Current, InCall
<1>19. CASE UNCHANGED vars
  BY <1>19 DEF vars, passVars, TypeOK, PassInOrder, Current, InCall
<1> QED
  BY <1>1, <1>2, <1>3, <1>4, <1>5, <1>6, <1>7, <1>8, <1>9, <1>10, <1>11, <1>12,
     <1>13, <1>14, <1>15, <1>16, <1>17, <1>18, <1>19 DEF Next

(***************************************************************************)
(* TypeCorrect: every variable of the upload pass keeps its type.          *)
(***************************************************************************)
THEOREM TypeCorrect == Spec => [](TypeOK /\ PassInOrder)
<1>1. Init => TypeOK /\ PassInOrder
  BY LastAssumption DEF Init, TypeOK, PassInOrder, Parts, Tx, Current, InCall
<1>2. TypeOK /\ PassInOrder /\ [Next]_vars => TypeOK' /\ PassInOrder'
  BY TypeCorrectStep
<1> QED
  BY <1>1, <1>2, PTL DEF Spec
-----------------------------------------------------------------------------
(***************************************************************************)
(* NothingLostHolds: for any batch size, retry budget and number of        *)
(* failures, an edit that has left the queue is on the server in full or   *)
(* is in ps_crud_rejected.  Only the three checkpoints move the head, and  *)
(* PassInOrder says what has been done for what they drain.                *)
(***************************************************************************)
THEOREM NothingLostHolds == Spec => []NothingLost
<1>1. Init => NothingLost
  BY DEF Init, NothingLost
<1>2. TypeOK /\ PassInOrder /\ NothingLost /\ [Next]_vars => NothingLost'
  <2> SUFFICES ASSUME TypeOK, PassInOrder, NothingLost, [Next]_vars
               PROVE  NothingLost'
    OBVIOUS
  <2>1. landed \subseteq landed' /\ rejected \subseteq rejected'
    BY DEF Next, vars, passVars, Commit, KeyAppears, KeyVanishes, CollectBatch,
           CannotEncrypt, SendCreates, SendPatches, Call, CompleteBatch,
           CompleteSingle, Advance, BatchFails, BatchRefused, SingleTransient,
           SingleAmbiguous, SinglePermanent, PartlyLands, RecordRejection,
           DropRejected, QuarantineFails, Restart
  <2>2. CASE head' = head
    BY <2>1, <2>2 DEF NothingLost, HasLanded
  <2>3. ASSUME head' \in Nat,
               \A t \in head + 1 .. head' : HasLanded(t) \/ t \in rejected
        PROVE  NothingLost'
    <3>1. \A t \in 1 .. head' : t \in 1 .. head \/ t \in head + 1 .. head'
      BY <2>3 DEF TypeOK
    <3> QED
      BY <2>1, <2>3, <3>1 DEF NothingLost, HasLanded
  <2>4. CASE CompleteBatch
    <3>1. head' = upto /\ InCall = head + 1 .. upto /\ next = "complete"
      BY <2>4 DEF CompleteBatch, InCall, Current
    <3>2. \A t \in InCall : HasLanded(t)
      BY <3>1, BothCallsLand DEF PassInOrder
    <3> QED
      BY <2>3, <3>1, <3>2 DEF TypeOK
  <2>5. CASE CompleteSingle
    <3>1. head' = head + 1 /\ InCall = {head + 1} /\ next = "complete"
      BY <2>5 DEF CompleteSingle, Advance, InCall, Current
    <3>2. HasLanded(head + 1)
      BY <3>1, BothCallsLand DEF PassInOrder
    <3> QED
      BY <2>3, <3>1, <3>2 DEF TypeOK
  <2>6. CASE DropRejected
    <3>1. head' = head + 1 /\ head + 1 \in rejected
      BY <2>6 DEF DropRejected, Advance, Current, PassInOrder
    <3> QED
      BY <2>3, <3>1 DEF TypeOK
  <2>7. head' = head \/ CompleteBatch \/ CompleteSingle \/ DropRejected
    BY DEF Next, vars, Commit, KeyAppears, KeyVanishes, CollectBatch,
           CannotEncrypt, SendCreates, SendPatches, Call, BatchFails, BatchRefused,
           SingleTransient, SingleAmbiguous, SinglePermanent, RecordRejection,
           QuarantineFails, Restart
  <2> QED
    BY <2>2, <2>4, <2>5, <2>6, <2>7
<1> QED
  BY <1>1, <1>2, TypeCorrect, PTL DEF Spec

(***************************************************************************)
(* OnlyHeadIsCountedHolds: the in-memory retry counter never carries over  *)
(* from one transaction to another.                                        *)
(***************************************************************************)
THEOREM OnlyHeadIsCountedHolds == Spec => []OnlyHeadIsCounted
<1>1. Init => OnlyHeadIsCounted
  BY DEF Init, OnlyHeadIsCounted
<1>2. TypeOK /\ PassInOrder /\ OnlyHeadIsCounted /\ [Next]_vars => OnlyHeadIsCounted'
  <2> SUFFICES ASSUME TypeOK, PassInOrder, OnlyHeadIsCounted, [Next]_vars
               PROVE  OnlyHeadIsCounted'
    OBVIOUS
  <2>1. CASE CompleteBatch
    <3>1. Current \in InCall
      BY <2>1, CallTransactions DEF CompleteBatch
    <3>2. \A t \in Tx : attempts'[t] = IF t \in InCall THEN 0 ELSE attempts[t]
      BY <2>1 DEF CompleteBatch, Forget
    <3> QED
      BY <3>1, <3>2 DEF OnlyHeadIsCounted
  <2>2. CASE CompleteSingle \/ DropRejected
    <3>1. \A t \in Tx : attempts'[t] = IF t = Current THEN 0 ELSE attempts[t]
      BY <2>2 DEF CompleteSingle, DropRejected, Advance, Forget
    <3> QED
      BY <3>1 DEF OnlyHeadIsCounted
  <2>3. CASE SingleAmbiguous
    <3>1. Current \in Tx /\ Current' = Current
      BY <2>3, CallTransactions DEF SingleAmbiguous, Current
    <3>2. \A t \in Tx : t # Current => attempts'[t] = attempts[t]
      BY <2>3 DEF SingleAmbiguous, TypeOK
    <3> QED
      BY <3>1, <3>2 DEF OnlyHeadIsCounted
  <2>4. CASE Restart
    BY <2>4 DEF Restart, OnlyHeadIsCounted
  <2>5. CASE UNCHANGED <<head, attempts>>
    BY <2>5 DEF OnlyHeadIsCounted, Current
  <2> QED
    BY <2>1, <2>2, <2>3, <2>4, <2>5
    DEF Next, vars, Commit, KeyAppears, KeyVanishes, CollectBatch, CannotEncrypt,
        SendCreates, SendPatches, Call, BatchFails, BatchRefused, SingleTransient,
        SinglePermanent, RecordRejection, QuarantineFails
<1> QED
  BY <1>1, <1>2, TypeCorrect, PTL DEF Spec

(***************************************************************************)
(* SealedWaitsHolds: no retry, fallback or quarantine gets an edit of an   *)
(* encrypted workspace past the encryption step without its key.           *)
(***************************************************************************)
THEOREM SealedWaitsHolds == Spec => []SealedWaits
<1> DEFINE Inv == SealedWaits /\ SealedOutOfCall
<1>1. Init => Inv
  BY KindAssumption DEF Init, SealedWaits, SealedOutOfCall, PartsOf, Tx
<1>2. TypeOK /\ PassInOrder /\ Inv /\ [Next]_vars => Inv'
  <2> SUFFICES ASSUME TypeOK, PassInOrder, Inv, [Next]_vars
               PROVE  Inv'
    OBVIOUS
  <2>0. keySeen' \in BOOLEAN
    BY TypeCorrectStep DEF TypeOK
  <2> SUFFICES ASSUME keySeen' = FALSE
               PROVE  Inv'
    BY <2>0 DEF SealedWaits, SealedOutOfCall
  <2>1. keySeen = FALSE /\ key = FALSE /\ key' = FALSE
    <3>1. keySeen = FALSE
      BY DEF Next, vars, passVars, Same, Commit, KeyAppears, KeyVanishes, CollectBatch,
             CannotEncrypt, SendCreates, SendPatches, Call, CompleteBatch,
             CompleteSingle, Advance, BatchFails, BatchRefused, SingleTransient,
             SingleAmbiguous, SinglePermanent, RecordRejection,
             DropRejected, QuarantineFails, Restart
    <3>2. key = FALSE
      BY <3>1 DEF SealedOutOfCall, TypeOK
    <3>3. key' = FALSE
      BY <3>2 DEF Next, vars, passVars, Same, Commit, KeyAppears, KeyVanishes, CollectBatch,
             CannotEncrypt, SendCreates, SendPatches, Call, CompleteBatch,
             CompleteSingle, Advance, BatchFails, BatchRefused, SingleTransient,
             SingleAmbiguous, SinglePermanent, RecordRejection,
             DropRejected, QuarantineFails, Restart
    <3> QED
      BY <3>1, <3>2, <3>3
  <2>2. \A t \in Sealed : t > head /\ t \notin rejected /\ PartsOf(t) \cap landed = {}
    BY <2>1 DEF SealedWaits
  <2>3. Sealed \subseteq Tx
    BY KindAssumption DEF Tx
  <2>4. SealedWaits'
    <3>1. CASE UNCHANGED <<head, rejected, landed>>
      BY <2>2, <3>1 DEF SealedWaits, PartsOf
    <3>2. CASE CompleteBatch
      <4>1. InCall \cap Sealed = {} /\ InCall = head + 1 .. upto /\ head' = upto
        BY <2>1, <3>2 DEF SealedOutOfCall, CompleteBatch, InCall, Current
      <4>2. \A t \in Sealed : t > head'
        BY <2>2, <2>3, <4>1 DEF TypeOK, Tx
      <4> QED
        BY <2>2, <3>2, <4>2 DEF SealedWaits, PartsOf, CompleteBatch
    <3>3. CASE CompleteSingle \/ DropRejected
      <4>1. Current \notin Sealed /\ head' = Current
        BY <2>1, <3>3 DEF SealedOutOfCall, CompleteSingle, DropRejected, Advance
      <4>2. \A t \in Sealed : t > head'
        BY <2>2, <2>3, <4>1 DEF TypeOK, Tx, Current
      <4> QED
        BY <2>2, <3>3, <4>2 DEF SealedWaits, PartsOf, CompleteSingle, DropRejected, Advance
    <3>4. CASE RecordRejection
      <4>1. Current \notin Sealed
        BY <2>1, <3>4 DEF SealedOutOfCall, RecordRejection
      <4> QED
        BY <2>2, <3>4, <4>1 DEF SealedWaits, PartsOf, RecordRejection
    <3>5. ASSUME UNCHANGED <<head, rejected>>,
                 landed' \subseteq landed \cup {p \in Parts : p[1] \in InCall},
                 InCall \cap Sealed = {}
          PROVE  SealedWaits'
      BY <2>2, <3>5 DEF SealedWaits, PartsOf
    <3>6. MayCall /\ mode # "idle" => InCall \cap Sealed = {}
      BY <2>1 DEF MayCall, InCall, SealedOutOfCall, Encryptable, TypeOK
    <3>7. CASE SendCreates \/ SendPatches \/ BatchFails \/ BatchRefused
               \/ SingleTransient \/ SingleAmbiguous \/ SinglePermanent
      <4>1. MayCall /\ mode # "idle"
        BY <3>7 DEF SendCreates, SendPatches, Call, BatchFails, BatchRefused,
                    SingleTransient, SingleAmbiguous, SinglePermanent, MayCall
      <4>2. UNCHANGED <<head, rejected>>
            /\ landed' \subseteq landed \cup {p \in Parts : p[1] \in InCall}
        BY <3>7 DEF SendCreates, SendPatches, Call, BatchFails, BatchRefused,
                    SingleTransient, SingleAmbiguous, SinglePermanent, PartlyLands
      <4> QED
        BY <3>5, <3>6, <4>1, <4>2
    <3>8. CASE Restart
      <4>1. UNCHANGED <<head, rejected>>
        BY <3>8 DEF Restart
      <4>2. CASE mode # "idle" /\ MayCall
        BY <3>5, <3>6, <3>8, <4>1, <4>2 DEF Restart, PartlyLands
      <4> QED
        BY <3>1, <3>8, <4>1, <4>2 DEF Restart
    <3> QED
      BY <3>1, <3>2, <3>3, <3>4, <3>7, <3>8
      DEF Next, vars, Commit, KeyAppears, KeyVanishes, CollectBatch, CannotEncrypt,
          QuarantineFails
  <2>5. SealedOutOfCall'
    <3>1. CASE mode' = "idle" \/ (mode' = "single" /\ next' = "creates")
      BY <2>1, <3>1 DEF SealedOutOfCall
    <3>2. CASE CollectBatch
      BY <2>1, <3>2 DEF CollectBatch, SealedOutOfCall, Encryptable, InCall, Current
    <3>3. CASE SendCreates \/ SendPatches \/ SingleAmbiguous \/ SinglePermanent
      <4>1. (MayCall /\ UNCHANGED <<head, mode, upto>>) \/ mode' = "idle"
        BY <3>3 DEF SendCreates, SendPatches, Call, SingleAmbiguous, SinglePermanent, GoIdle
      <4> QED
        BY <2>1, <3>1, <4>1 DEF SealedOutOfCall, MayCall, Encryptable, InCall, Current
    <3>4. CASE RecordRejection
      BY <2>1, <3>4 DEF RecordRejection, SealedOutOfCall, InCall, Current
    <3>5. CASE UNCHANGED <<head, passVars>>
      BY <2>1, <3>5 DEF SealedOutOfCall, InCall, Current, passVars
    <3> QED
      BY <3>1, <3>2, <3>3, <3>4, <3>5
      DEF Next, vars, Commit, KeyAppears, KeyVanishes, CannotEncrypt, CompleteBatch,
          CompleteSingle, DropRejected, Advance, BatchFails, BatchRefused,
          SingleTransient, QuarantineFails, Restart, GoIdle, GoSingle
  <2> QED
    BY <2>4, <2>5
<1> QED
  BY <1>1, <1>2, TypeCorrect, PTL DEF Spec
-----------------------------------------------------------------------------
(***************************************************************************)
(* OutboxImplemented: seen from outside, the orchestrator is an Outbox:    *)
(* collecting, retrying, isolating and forgetting are invisible, a call    *)
(* delivers only what is still queued, and a checkpoint settles only what  *)
(* was delivered or quarantined.                                           *)
(***************************************************************************)
THEOREM OutboxImplemented == Spec => ImplementsOutbox
<1> DEFINE delivered == {t \in 1 .. tail : HasLanded(t)}
<1>1. Init => Box!OutboxInit
  BY DEF Init, Box!OutboxInit
<1>2. TypeOK /\ PassInOrder /\ NothingLost /\ NothingLost' /\ [Next]_vars
      => [Box!OutboxNext]_(Box!outboxVars)
  <2> SUFFICES ASSUME TypeOK, PassInOrder, NothingLost, NothingLost', [Next]_vars
               PROVE  [Box!OutboxNext]_(Box!outboxVars)
    OBVIOUS
  <2>1. CASE UNCHANGED <<tail, head, landed, rejected>>
    BY <2>1 DEF Box!outboxVars, HasLanded
  <2>2. CASE Commit
    <3>1. tail' = tail + 1 /\ landed' = landed /\ tail < Last
          /\ UNCHANGED <<head, rejected>>
      BY <2>2 DEF Commit
    <3>2. 1 .. tail' = (1 .. tail) \cup {tail + 1}
      BY <3>1 DEF TypeOK
    <3>3. delivered' \in {delivered, delivered \cup {tail + 1}}
      BY <3>1, <3>2 DEF HasLanded
    <3> QED
      BY <3>1, <3>3 DEF Box!OutboxNext, Box!Commit
  <2>3. ASSUME UNCHANGED <<tail, head, rejected>>,
               landed \subseteq landed',
               landed' \subseteq landed \cup {p \in Parts : p[1] \in InCall},
               mode # "idle"
        PROVE  Box!Deliver
    <3>1. delivered \subseteq delivered'
      BY <2>3 DEF HasLanded
    <3>2. InCall \subseteq head + 1 .. tail
      BY <2>3, LastAssumption DEF InCall, Current, TypeOK, PassInOrder
    <3>3. \A t \in delivered' : t \in InCall \/ t \in delivered
      BY <2>3 DEF HasLanded, PartsOf
    <3> QED
      BY <2>3, <3>1, <3>2, <3>3 DEF Box!Deliver
  <2>4. CASE SendCreates \/ SendPatches \/ BatchFails \/ BatchRefused
             \/ SingleTransient \/ SingleAmbiguous \/ SinglePermanent
    <3>1. /\ UNCHANGED <<tail, head, rejected>>
          /\ landed \subseteq landed'
          /\ landed' \subseteq landed \cup {p \in Parts : p[1] \in InCall}
          /\ mode # "idle"
      BY <2>4 DEF SendCreates, SendPatches, Call, Same, BatchFails, BatchRefused,
                  SingleTransient, SingleAmbiguous, SinglePermanent, PartlyLands
    <3> QED
      BY <2>3, <3>1 DEF Box!OutboxNext
  <2>5. CASE Restart
    <3>1. /\ UNCHANGED <<tail, head, rejected>>
          /\ mode = "idle" => landed' = landed
          /\ landed \subseteq landed'
          /\ landed' \subseteq landed \cup {p \in Parts : p[1] \in InCall}
      BY <2>5 DEF Restart, PartlyLands
    <3> QED
      BY <2>1, <2>3, <3>1 DEF Box!OutboxNext
  <2>6. CASE RecordRejection
    <3>1. /\ rejected' = rejected \cup {head + 1}
          /\ UNCHANGED <<tail, head, landed>>
          /\ mode # "idle"
      BY <2>6 DEF RecordRejection, Same, Current
    <3>2. head < tail
      BY <3>1 DEF PassInOrder, Current, TypeOK
    <3>3. delivered' = delivered
      BY <3>1 DEF HasLanded
    <3> QED
      BY <3>1, <3>2, <3>3 DEF Box!OutboxNext, Box!Quarantine
  <2>7. CASE CompleteBatch \/ CompleteSingle \/ DropRejected
    <3>1. UNCHANGED <<tail, landed, rejected>> /\ head' \in head + 1 .. tail
      BY <2>7, LastAssumption
      DEF CompleteBatch, CompleteSingle, DropRejected, Advance, Same, Current,
          PassInOrder, TypeOK
    <3>2. delivered' = delivered
      BY <3>1 DEF HasLanded
    <3>3. head + 1 .. head' \subseteq 1 .. head' /\ head + 1 .. head' \subseteq 1 .. tail
      BY <3>1 DEF TypeOK
    <3>4. head + 1 .. head' \subseteq delivered \cup rejected
      BY <3>1, <3>3 DEF NothingLost, HasLanded
    <3> QED
      BY <3>1, <3>2, <3>4 DEF Box!OutboxNext, Box!Settle
  <2> QED
    BY <2>1, <2>2, <2>4, <2>5, <2>6, <2>7
    DEF Next, vars, KeyAppears, KeyVanishes, CollectBatch, CannotEncrypt, Same,
        QuarantineFails
<1> QED
  BY <1>1, <1>2, TypeCorrect, NothingLostHolds, PTL
  DEF Spec, ImplementsOutbox, Box!OutboxSpec
-----------------------------------------------------------------------------
(***************************************************************************)
(* Both ends of an upload: what holds of the orchestrator against any      *)
(* server, and of the server row under any callers, holds of the two as    *)
(* they are checked.                                                       *)
(***************************************************************************)
LEMMA DeviceInUpload == UploadSpec => Spec
<1>1. UploadInit => Init
  BY DEF UploadInit
<1>2. [UploadNext]_uploadVars => [Next]_vars
  BY DEF UploadNext, uploadVars
<1> QED
  BY <1>1, <1>2, PTL DEF UploadSpec, Spec

LEMMA ServerInUpload == UploadSpec => HistorySpec
<1>1. UploadInit => HistoryInit
  BY DEF UploadInit
<1>2. [UploadNext]_uploadVars => [HistoryNext]_historyVars
  BY DEF UploadNext, uploadVars
<1> QED
  BY <1>1, <1>2, PTL DEF UploadSpec, HistorySpec

\* No edit leaves the queue undelivered and unrecorded, in order and never
\* unencrypted, and no version of the server's row regresses or names two
\* contents.
THEOREM UploadKeepsItsPromises ==
  UploadSpec =>
    /\ []TypeOK /\ []NothingLost /\ []OnlyHeadIsCounted /\ []SealedWaits /\ ImplementsOutbox
    /\ []HistoryTypeOK /\ []VersionNamesContent /\ Monotone
BY DeviceInUpload, ServerInUpload, TypeCorrect, NothingLostHolds, OnlyHeadIsCountedHolds,
   SealedWaitsHolds, OutboxImplemented, ServerTypeCorrect, VersionsAreMonotone,
   VersionNamesContentHolds, PTL
=============================================================================
