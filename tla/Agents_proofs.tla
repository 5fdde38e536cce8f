---------------------------- MODULE Agents_proofs ----------------------------
(***************************************************************************)
(* For any number of commands and any bound on those at work: the state of *)
(* the bridge is well typed, a pending command is queued once and never    *)
(* beside a parked poll, the tab starts it at most once, and the bridge is *)
(* a RemoteCall.  With AgentDispatch_proofs: what holds of the daemon and  *)
(* of the bridge holds of the two together.                                *)
(***************************************************************************)
EXTENDS MC_Agents, AgentDispatch_proofs, SequenceTheorems, TLAPS

BridgeStep == [BridgeNext]_bridgeVars
-----------------------------------------------------------------------------
(***************************************************************************)
(* Sequences.                                                              *)
(***************************************************************************)
LEMMA RemoveAtType ==
  ASSUME NEW S, NEW s \in Seq(S), NEW i \in DOMAIN s
  PROVE  RemoveAt(s, i) \in Seq(S)
<1>1. Len(s) \in Nat /\ i \in 1 .. Len(s) /\ \A j \in 1 .. Len(s) : s[j] \in S
  BY LenProperties, ElementOfSeq
<1>2. SubSeq(s, 1, i - 1) \in Seq(S)
  <2>1. \A j \in 1 .. i - 1 : s[j] \in S
    BY <1>1
  <2> QED
    BY <1>1, <2>1, SubSeqProperties
<1>3. SubSeq(s, i + 1, Len(s)) \in Seq(S)
  <2>1. \A j \in i + 1 .. Len(s) : s[j] \in S
    BY <1>1
  <2> QED
    BY <1>1, <2>1, SubSeqProperties
<1> QED
  BY <1>2, <1>3, ConcatProperties DEF RemoveAt

LEMMA TailOfInjective ==
  ASSUME NEW S, NEW s \in Seq(S), s # <<>>, IsInjective(s)
  PROVE  /\ Head(s) \in ToSet(s) /\ Head(s) \in S
         /\ Tail(s) \in Seq(S) /\ IsInjective(Tail(s))
         /\ ToSet(Tail(s)) = ToSet(s) \ {Head(s)}
<1>1. /\ Len(s) \in Nat \ {0} /\ DOMAIN s = 1 .. Len(s)
      /\ Tail(s) \in Seq(S) /\ Len(Tail(s)) = Len(s) - 1
      /\ DOMAIN Tail(s) = 1 .. Len(s) - 1
      /\ Head(s) = s[1] /\ Head(s) \in S
      /\ \A i \in 1 .. Len(s) - 1 : Tail(s)[i] = s[i + 1]
  BY EmptySeq, LenProperties, HeadTailProperties
<1>2. IsInjective(Tail(s))
  BY <1>1 DEF IsInjective
<1>3. ToSet(Tail(s)) = ToSet(s) \ {Head(s)}
  <2>1. ASSUME NEW i \in DOMAIN Tail(s)
        PROVE  Tail(s)[i] \in ToSet(s) \ {Head(s)}
    <3>1. i + 1 \in DOMAIN s /\ 1 \in DOMAIN s /\ i + 1 # 1
      BY <1>1, <2>1
    <3> QED
      BY <1>1, <2>1, <3>1 DEF IsInjective, ToSet
  <2>2. ASSUME NEW i \in DOMAIN s, s[i] # Head(s)
        PROVE  s[i] \in ToSet(Tail(s))
    <3>1. i - 1 \in DOMAIN Tail(s) /\ Tail(s)[i - 1] = s[i]
      BY <1>1, <2>2
    <3> QED
      BY <3>1 DEF ToSet
  <2> QED
    BY <2>1, <2>2 DEF ToSet
<1> QED
  BY <1>1, <1>2, <1>3 DEF ToSet

LEMMA AppendToInjective ==
  ASSUME NEW S, NEW s \in Seq(S), IsInjective(s), NEW c \in S, c \notin ToSet(s)
  PROVE  /\ Append(s, c) \in Seq(S) /\ IsInjective(Append(s, c))
         /\ ToSet(Append(s, c)) = ToSet(s) \cup {c}
<1> DEFINE t == Append(s, c)
<1>1. /\ Len(s) \in Nat /\ DOMAIN s = 1 .. Len(s)
      /\ t \in Seq(S)
      /\ DOMAIN t = 1 .. Len(s) + 1
      /\ \A i \in 1 .. Len(s) : t[i] = s[i]
      /\ t[Len(s) + 1] = c
  BY LenProperties, AppendProperties
<1>2. \A i \in 1 .. Len(s) + 1 : i = Len(s) + 1 \/ i \in 1 .. Len(s)
  BY <1>1
<1>3. \A i \in 1 .. Len(s) : i \in 1 .. Len(s) + 1 /\ s[i] # c
  BY <1>1 DEF ToSet
<1>4. Len(s) + 1 \in 1 .. Len(s) + 1
  BY <1>1
<1> HIDE DEF t
<1>5. IsInjective(t)
  BY <1>1, <1>2, <1>3 DEF IsInjective
<1>6. ToSet(t) = ToSet(s) \cup {c}
  BY <1>1, <1>2, <1>3, <1>4 DEF ToSet
<1> QED
  BY <1>1, <1>5, <1>6 DEF t
-----------------------------------------------------------------------------
(***************************************************************************)
(* Types and the queue: a head that is taken is a pending command.         *)
(***************************************************************************)
LEMMA StartType ==
  ASSUME BridgeTypeOK, NEW c \in Command, Start(c)
  PROVE  /\ running' \subseteq Command
         /\ starts' \in [Command -> Nat]
         /\ loop' \in {"full", "register"}
<1>1. loop' \in {"full", "register"}
  BY Zenon DEF Start
<1>2. running \subseteq Command /\ starts \in [Command -> Nat]
  BY DEF BridgeTypeOK
<1> QED
  BY <1>1, <1>2 DEF Start

\* The connection of the newest poll is broken.
LEMMA BrokenType ==
  ASSUME NEW s \in Seq(BOOLEAN)
  PROVE  [s EXCEPT ![Len(s)] = FALSE] \in Seq(BOOLEAN)
<1>1. CASE Len(s) = 0
  <2>1. s \in [1 .. 0 -> BOOLEAN]
    BY <1>1, LenProperties
  <2>2. Len(s) \notin DOMAIN s
    BY <1>1, <2>1
  <2>3. [s EXCEPT ![Len(s)] = FALSE] = s
    BY <2>1, <2>2
  <2> QED
    BY <2>3
<1>2. CASE Len(s) # 0
  <2>1. Len(s) \in 1 .. Len(s)
    BY <1>2, LenProperties
  <2> QED
    BY <2>1, ExceptSeq
<1> QED
  BY <1>1, <1>2

LEMMA MishapType ==
  ASSUME BridgeTypeOK, Mishap
  PROVE  mishaps' \in Nat
<1>1. mishaps \in Nat
  BY DEF BridgeTypeOK
<1> QED
  BY <1>1 DEF Mishap

LEMMA QueueStep ==
  ASSUME BridgeTypeOK, NoneWaitsBesideAPoll, BridgeStep,
         \A c \in Command : caller[c] = "sent" => record[c] = "none"
  PROVE  BridgeTypeOK' /\ NoneWaitsBesideAPoll'
<1> DEFINE Goal == BridgeTypeOK' /\ NoneWaitsBesideAPoll'
<1> USE DEF serverVars, tabVars
<1>1. CASE UNCHANGED bridgeVars
  BY <1>1 DEF bridgeVars, BridgeTypeOK, NoneWaitsBesideAPoll
<1>2. CASE Register
  BY <1>2 DEF Register, BridgeTypeOK, NoneWaitsBesideAPoll
<1>3. CASE Unpark
  BY <1>3 DEF Unpark, BridgeTypeOK, NoneWaitsBesideAPoll
<1>4. CASE PollNext
  <2>1. CASE queue # <<>>
    <3>1. /\ queue \in Seq(Command) /\ IsInjective(queue)
          /\ ToSet(queue) = {c \in Command : record[c] = "pending"}
          /\ waiters = <<>>
      BY <2>1 DEF BridgeTypeOK, NoneWaitsBesideAPoll
    <3>2. /\ record' = [record EXCEPT ![Head(queue)] = "delivered"]
          /\ Start(Head(queue)) /\ queue' = Tail(queue)
          /\ quiet' = FALSE
          /\ UNCHANGED <<waiters, known, result, posting, caller, mishaps>>
      BY <1>4, <2>1 DEF PollNext, Take
    <3>3. /\ Head(queue) \in Command /\ Tail(queue) \in Seq(Command)
          /\ IsInjective(Tail(queue)) /\ ToSet(Tail(queue)) = ToSet(queue) \ {Head(queue)}
      BY <2>1, <3>1, TailOfInjective
    <3>4. BridgeTypeOK'
      BY <3>2, <3>3, StartType DEF BridgeTypeOK
    <3>5. {c \in Command : record'[c] = "pending"} =
            {c \in Command : record[c] = "pending"} \ {Head(queue)}
      BY <3>2, <3>3 DEF BridgeTypeOK
    <3> QED
      BY <3>1, <3>2, <3>3, <3>4, <3>5 DEF NoneWaitsBesideAPoll
  <2>2. CASE queue = <<>>
    <3>1. /\ waiters' = Append(waiters, TRUE) /\ loop' = "polling" /\ quiet' = FALSE
          /\ UNCHANGED <<queue, record, running, starts, known, result, posting, caller, mishaps>>
      BY <1>4, <2>2 DEF PollNext
    <3>2. waiters' \in Seq(BOOLEAN)
      BY <3>1, AppendProperties DEF BridgeTypeOK
    <3> QED
      BY <2>2, <3>1, <3>2 DEF BridgeTypeOK, NoneWaitsBesideAPoll
  <2> QED
    BY <2>1, <2>2
<1>5. CASE PollExpires
  <2>1. PICK i \in DOMAIN waiters :
          /\ waiters' = RemoveAt(waiters, i)
          /\ loop' = IF waiters[i] THEN "register" ELSE loop
          /\ UNCHANGED <<known, quiet, queue, record, result, posting, running, starts,
                         caller, mishaps>>
    BY <1>5 DEF PollExpires
  <2>2. waiters' \in Seq(BOOLEAN)
    BY <2>1, RemoveAtType DEF BridgeTypeOK
  <2>3. waiters # <<>>
    BY <2>1
  <2>4. loop' \in {"register", loop}
    BY <2>1, Zenon
  <2> QED
    BY <2>1, <2>2, <2>3, <2>4 DEF BridgeTypeOK, NoneWaitsBesideAPoll
<1>6. CASE PollBreaks
  <2>1. /\ waiters' = [waiters EXCEPT ![Len(waiters)] = FALSE] /\ loop' = "register"
        /\ mishaps' \in Nat
        /\ UNCHANGED <<known, quiet, queue, record, result, posting, running, starts, caller>>
    BY <1>6, MishapType DEF PollBreaks
  <2>2. waiters' \in Seq(BOOLEAN)
    BY <2>1, BrokenType DEF BridgeTypeOK
  <2>3. waiters = <<>> => waiters' = <<>>
    BY <2>1
  <2> QED
    BY <2>1, <2>2, <2>3 DEF BridgeTypeOK, NoneWaitsBesideAPoll
<1>7. CASE ClosePage
  <2>1. /\ waiters' = [i \in DOMAIN waiters |-> FALSE] /\ loop' = "closed" /\ running' = {}
        /\ mishaps' \in Nat
        /\ UNCHANGED <<known, quiet, queue, record, result, posting, starts, caller>>
    BY <1>7, MishapType DEF ClosePage
  <2>2. waiters' \in Seq(BOOLEAN) /\ (waiters = <<>> => waiters' = <<>>)
    <3>1. waiters \in Seq(BOOLEAN)
      BY DEF BridgeTypeOK
    <3>2. DOMAIN waiters = 1 .. Len(waiters) /\ Len(waiters) \in Nat
      BY <3>1, LenProperties
    <3>3. waiters' \in [1 .. Len(waiters) -> BOOLEAN]
      BY <2>1, <3>2
    <3>4. waiters' \in Seq(BOOLEAN)
      BY <3>2, <3>3, SeqDef
    <3>5. waiters = <<>> => waiters' = <<>>
      BY <2>1
    <3> QED
      BY <3>4, <3>5
  <2> QED
    BY <2>1, <2>2 DEF BridgeTypeOK, NoneWaitsBesideAPoll
<1>8. CASE FallSilent
  <2>1. /\ quiet' = TRUE /\ mishaps' \in Nat
        /\ UNCHANGED <<known, waiters, queue, record, result, posting, tabVars, caller>>
    BY <1>8, MishapType DEF FallSilent, BridgeTypeOK
  <2> QED
    BY <2>1 DEF BridgeTypeOK, NoneWaitsBesideAPoll
<1>9. CASE Drop
  <2>1. IsInjective(<<>>) /\ ToSet(<<>>) = {} /\ <<>> \in Seq(Command) /\ <<>> \in Seq(BOOLEAN)
    BY DEF IsInjective, ToSet
  <2> QED
    BY <1>9, <2>1 DEF Drop, BridgeTypeOK, NoneWaitsBesideAPoll
<1>10. ASSUME NEW c \in Command, Submit(c)  PROVE Goal
  BY <1>10 DEF Submit, BridgeTypeOK, NoneWaitsBesideAPoll
<1>11. ASSUME NEW c \in Command, Enqueue(c)  PROVE Goal
  <2>1. /\ caller' = [caller EXCEPT ![c] = "waiting"] /\ record[c] = "none"
        /\ UNCHANGED <<known, quiet, result, posting, mishaps>>
    BY <1>11 DEF Enqueue
  <2>2. /\ queue \in Seq(Command) /\ IsInjective(queue)
        /\ ToSet(queue) = {d \in Command : record[d] = "pending"}
        /\ queue # <<>> => waiters = <<>>
    BY DEF BridgeTypeOK, NoneWaitsBesideAPoll
  <2>3. CASE waiters = <<>>
    <3>1. /\ record' = [record EXCEPT ![c] = "pending"] /\ queue' = Append(queue, c)
          /\ UNCHANGED <<waiters, tabVars>>
      BY <1>11, <2>3 DEF Enqueue
    <3>2. c \notin ToSet(queue)
      BY <2>1, <2>2
    <3>3. /\ queue' \in Seq(Command) /\ IsInjective(queue')
          /\ ToSet(queue') = ToSet(queue) \cup {c}
      BY <2>2, <3>1, <3>2, AppendToInjective
    <3>4. BridgeTypeOK'
      BY <2>1, <3>1, <3>3 DEF BridgeTypeOK
    <3>5. {d \in Command : record'[d] = "pending"} =
            {d \in Command : record[d] = "pending"} \cup {c}
      BY <3>1 DEF BridgeTypeOK
    <3> QED
      BY <2>2, <2>3, <3>1, <3>3, <3>4, <3>5 DEF NoneWaitsBesideAPoll
  <2>4. CASE waiters # <<>>
    <3>1. /\ record' = [record EXCEPT ![c] = "delivered"] /\ waiters' = Tail(waiters)
          /\ Start(c) \/ UNCHANGED tabVars
          /\ queue' = queue
      BY <1>11, <2>4 DEF Enqueue
    <3>2. waiters' \in Seq(BOOLEAN)
      BY <2>4, <3>1, HeadTailProperties DEF BridgeTypeOK
    <3>3. BridgeTypeOK'
      BY <2>1, <3>1, <3>2, StartType DEF BridgeTypeOK
    <3>4. {d \in Command : record'[d] = "pending"} = {d \in Command : record[d] = "pending"}
      BY <2>1, <3>1 DEF BridgeTypeOK
    <3> QED
      BY <2>2, <2>4, <3>1, <3>3, <3>4 DEF NoneWaitsBesideAPoll
  <2> QED
    BY <2>3, <2>4
<1>12. ASSUME NEW c \in Command, Hears(c)  PROVE Goal
  BY <1>12 DEF Hears, BridgeTypeOK, NoneWaitsBesideAPoll
<1>13. ASSUME NEW c \in Command, GivesUp(c)  PROVE Goal
  BY <1>13 DEF GivesUp, BridgeTypeOK, NoneWaitsBesideAPoll
<1>14. ASSUME NEW c \in Command, PostResult(c)  PROVE Goal
  <2>1. \/ record[c] = "delivered" /\ record' = [record EXCEPT ![c] = "completed"]
           /\ posting' = posting \cup {c} /\ quiet' = FALSE
        \/ UNCHANGED <<record, posting, quiet>>
    BY <1>14 DEF PostResult
  <2>2. running' = running \ {c}
        /\ UNCHANGED <<known, waiters, queue, result, loop, starts, caller, mishaps>>
    BY <1>14 DEF PostResult
  <2>3. BridgeTypeOK'
    BY <2>1, <2>2 DEF BridgeTypeOK
  <2>4. {d \in Command : record'[d] = "pending"} = {d \in Command : record[d] = "pending"}
    BY <2>1 DEF BridgeTypeOK
  <2> QED
    BY <2>2, <2>3, <2>4 DEF NoneWaitsBesideAPoll
<1>15. ASSUME NEW c \in Command, PostFails(c)  PROVE Goal
  <2>1. mishaps' \in Nat
    BY <1>15, MishapType DEF PostFails
  <2> QED
    BY <1>15, <2>1 DEF PostFails, BridgeTypeOK, NoneWaitsBesideAPoll
<1>16. ASSUME NEW c \in Command, ResultRead(c)  PROVE Goal
  BY <1>16 DEF ResultRead, BridgeTypeOK, NoneWaitsBesideAPoll
<1>17. ASSUME NEW c \in Command, ResultLost(c)  PROVE Goal
  <2>1. mishaps' \in Nat
    BY <1>17, MishapType DEF ResultLost
  <2> QED
    BY <1>17, <2>1 DEF ResultLost, BridgeTypeOK, NoneWaitsBesideAPoll
<1>18. ASSUME NEW c \in Command, Reap(c)  PROVE Goal
  <2>1. /\ record[c] # "pending"
        /\ record' = [record EXCEPT ![c] = "none"] /\ result' = [result EXCEPT ![c] = "none"]
        /\ UNCHANGED <<known, quiet, waiters, queue, posting, loop, running, starts, caller>>
        /\ mishaps' \in Nat
    BY <1>18, MishapType DEF Reap, BridgeTypeOK
  <2>2. {d \in Command : record'[d] = "pending"} = {d \in Command : record[d] = "pending"}
    BY <2>1 DEF BridgeTypeOK
  <2>3. BridgeTypeOK'
    BY <2>1 DEF BridgeTypeOK
  <2> QED
    BY <2>1, <2>2, <2>3 DEF NoneWaitsBesideAPoll
<1> QED
  BY <1>1, <1>2, <1>3, <1>4, <1>5, <1>6, <1>7, <1>8, <1>9, <1>10, <1>11, <1>12, <1>13, <1>14,
     <1>15, <1>16, <1>17, <1>18 DEF BridgeStep, BridgeNext, LoopStep
-----------------------------------------------------------------------------
(***************************************************************************)
(* HandedOutOnce: whatever polls break, expire and are repeated, the tab   *)
(* starts a command at most once, and never one whose caller was told that *)
(* the client is gone.                                                     *)
(***************************************************************************)
HandedOutOnce ==
  \A c \in Command : starts[c] <= IF caller[c] = "failed" THEN 0 ELSE 1

(***************************************************************************)
(* AtMostOnce, the strengthening of HandedOutOnce: what was started once   *)
(* is never pending or failed again, and what its caller has yet to send,  *)
(* or has been told is not taken, was never started.                       *)
(***************************************************************************)
Unsent == {"new", "refused", "sent"}

OnceOf(c) ==
  /\ starts[c] <= 1
  /\ starts[c] # 0 => record[c] \notin {"pending", "failed"} /\ caller[c] \notin Unsent \cup {"failed"}
  /\ caller[c] \in Unsent => record[c] = "none"
  /\ caller[c] = "failed" => record[c] \in {"failed", "none"}

AtMostOnce == \A c \in Command : OnceOf(c)

\* Of one command nothing matters but what its own record, its caller and
\* its start do.
LEMMA OnceKept ==
  ASSUME NEW c \in Command, OnceOf(c), starts'[c] = starts[c],
         \/ record'[c] = record[c]
         \/ record[c] = "pending" /\ record'[c] = "failed"
         \/ record[c] \notin {"none", "pending", "failed"}
              /\ record'[c] \in {"delivered", "completed", "none"}
         \/ record[c] = "failed" /\ record'[c] = "none",
         \/ caller'[c] = caller[c]
         \/ caller[c] = "new" /\ caller'[c] \in {"sent", "refused"}
         \/ caller[c] = "waiting" /\ caller'[c] \notin Unsent \cup {"failed"}
         \/ caller[c] = "waiting" /\ caller'[c] = "failed" /\ record[c] = "failed"
              /\ record'[c] = record[c]
  PROVE  OnceOf(c)'
BY DEF OnceOf, Unsent

\* What a poll takes from the queue is a pending command.
LEMMA HeadIsPending ==
  ASSUME BridgeTypeOK, NoneWaitsBesideAPoll, queue # <<>>
  PROVE  Head(queue) \in Command /\ record[Head(queue)] = "pending"
<1>1. queue \in Seq(Command) /\ IsInjective(queue)
      /\ ToSet(queue) = {c \in Command : record[c] = "pending"}
  BY DEF BridgeTypeOK, NoneWaitsBesideAPoll
<1> QED
  BY <1>1, TailOfInjective

LEMMA OnceStep ==
  ASSUME BridgeTypeOK, NoneWaitsBesideAPoll, AtMostOnce, BridgeStep
  PROVE  AtMostOnce'
<1> USE DEF serverVars, tabVars
<1> DEFINE Same == UNCHANGED <<record, caller, starts>>
<1>1. ASSUME Same  PROVE AtMostOnce'
  BY <1>1, OnceKept DEF AtMostOnce
<1>2. CASE UNCHANGED bridgeVars
  BY <1>1, <1>2 DEF bridgeVars
<1>3. CASE Register \/ Unpark \/ PollExpires \/ PollBreaks \/ ClosePage \/ FallSilent
  BY <1>1, <1>3 DEF Register, Unpark, PollExpires, PollBreaks, ClosePage, FallSilent
<1>4. CASE PollNext
  <2>1. CASE queue = <<>>
    BY <1>1, <1>4, <2>1 DEF PollNext
  <2>2. CASE queue # <<>>
    <3>1. /\ record' = [record EXCEPT ![Head(queue)] = "delivered"]
          /\ starts' = [starts EXCEPT ![Head(queue)] = @ + 1]
          /\ caller' = caller
      BY <1>4, <2>2 DEF PollNext, Take, Start
    <3>2. Head(queue) \in Command /\ record[Head(queue)] = "pending"
      BY <2>2, HeadIsPending
    <3>3. starts \in [Command -> Nat] /\ DOMAIN record = Command
      BY DEF BridgeTypeOK
    <3>4. ASSUME NEW c \in Command, c # Head(queue)  PROVE OnceOf(c)'
      BY <3>1, <3>4, OnceKept DEF AtMostOnce
    <3>5. \A d \in Command : d = Head(queue) => OnceOf(d)'
      <4> DEFINE c == Head(queue)
      <4>1. starts[c] = 0 /\ caller[c] \notin Unsent \cup {"failed"}
        BY <3>2, <3>3 DEF AtMostOnce, OnceOf
      <4>2. starts'[c] = 1 /\ record'[c] = "delivered" /\ caller'[c] = caller[c]
        BY <3>1, <3>2, <3>3, <4>1
      <4> HIDE DEF c
      <4>4. starts'[c] <= 1 /\ starts'[c] # 0 /\ record'[c] \notin {"pending", "failed"}
            /\ caller'[c] \notin Unsent \cup {"failed"}
        BY <4>1, <4>2
      <4>5. \A d \in Command : d = c => OnceOf(d)'
        BY <4>4 DEF OnceOf
      <4> QED
        BY <4>5 DEF c
    <3> QED
      BY <3>4, <3>5 DEF AtMostOnce
  <2> QED
    BY <2>1, <2>2
<1>5. CASE Drop
  BY <1>5, OnceKept DEF Drop, AtMostOnce
<1>6. ASSUME NEW c \in Command, Submit(c) \/ Hears(c) \/ GivesUp(c)  PROVE AtMostOnce'
  <2>1. record' = record /\ starts' = starts
        /\ \A d \in Command \ {c} : caller'[d] = caller[d]
    <3>1. CASE Submit(c)
      BY <3>1 DEF Submit
    <3>2. CASE Hears(c)
      <4>1. record' = record /\ starts' = starts
            /\ \E v : caller' = [caller EXCEPT ![c] = v]
        BY <3>2, Zenon DEF Hears
      <4> QED
        BY <4>1
    <3>3. CASE GivesUp(c)
      <4>1. record' = record /\ starts' = starts
            /\ caller' = [caller EXCEPT ![c] = "timed out"]
        BY <3>3, Zenon DEF GivesUp
      <4> QED
        BY <4>1 DEF BridgeTypeOK
    <3> QED
      BY <1>6, <3>1, <3>2, <3>3
  <2>2. \/ caller[c] = "new" /\ caller'[c] \in {"sent", "refused"}
        \/ caller[c] = "waiting" /\ caller'[c] \notin Unsent \cup {"failed"}
        \/ caller[c] = "waiting" /\ caller'[c] = "failed" /\ record[c] = "failed"
    <3>0. caller \in [Command -> {"new", "refused", "sent", "waiting", "answered", "no value",
                                  "failed", "unknown", "timed out"}]
      BY DEF BridgeTypeOK
    <3>1. CASE Submit(c)
      BY <3>0, <3>1 DEF Submit
    <3>2. CASE Hears(c)
      BY <3>0, <3>2 DEF Hears, Unsent
    <3>3. CASE GivesUp(c)
      BY <3>0, <3>3 DEF GivesUp, Unsent
    <3> QED
      BY <1>6, <3>1, <3>2, <3>3
  <2> QED
    BY <2>1, <2>2, OnceKept DEF AtMostOnce
<1>7. ASSUME NEW c \in Command, Enqueue(c)  PROVE AtMostOnce'
  <2>1. /\ caller[c] = "sent" /\ caller' = [caller EXCEPT ![c] = "waiting"]
        /\ \/ record' = [record EXCEPT ![c] = "pending"] /\ starts' = starts
           \/ /\ record' = [record EXCEPT ![c] = "delivered"]
              /\ starts' = starts \/ starts' = [starts EXCEPT ![c] = @ + 1]
    BY <1>7 DEF Enqueue, Start
  <2>2. starts \in [Command -> Nat] /\ DOMAIN record = Command /\ DOMAIN caller = Command
    BY DEF BridgeTypeOK
  <2>3. starts[c] = 0
    BY <2>1, <2>2 DEF AtMostOnce, OnceOf, Unsent
  <2>4. ASSUME NEW d \in Command \ {c}  PROVE OnceOf(d)'
    <3>1. record'[d] = record[d] /\ caller'[d] = caller[d]
      BY <2>1, <2>2
    <3>2. starts'[d] = starts[d]
      BY <2>1, <2>2
    <3> QED
      BY <3>1, <3>2, OnceKept DEF AtMostOnce
  <2>5. /\ caller'[c] = "waiting"
        /\ \/ record'[c] = "pending" /\ starts'[c] = 0
           \/ record'[c] = "delivered" /\ starts'[c] \in {0, 1}
    BY <2>1, <2>2, <2>3
  <2>6. OnceOf(c)'
    BY <2>5 DEF OnceOf, Unsent
  <2> QED
    BY <2>4, <2>6 DEF AtMostOnce
<1>8. ASSUME NEW c \in Command, PostResult(c) \/ Reap(c)  PROVE AtMostOnce'
  <2>1. /\ caller' = caller /\ starts' = starts
        /\ \A d \in Command \ {c} : record'[d] = record[d]
        /\ \/ record'[c] = record[c]
           \/ record[c] \in {"delivered", "completed"} /\ record'[c] \in {"completed", "none"}
           \/ record[c] = "failed" /\ record'[c] = "none"
    BY <1>8 DEF PostResult, Reap, BridgeTypeOK
  <2> QED
    BY <2>1, OnceKept DEF AtMostOnce
<1>9. ASSUME NEW c \in Command, PostFails(c) \/ ResultRead(c) \/ ResultLost(c)
      PROVE  AtMostOnce'
  BY <1>1, <1>9 DEF PostFails, ResultRead, ResultLost
<1> QED
  BY <1>2, <1>3, <1>4, <1>5, <1>6, <1>7, <1>8, <1>9 DEF BridgeStep, BridgeNext, LoopStep

BridgeInv == BridgeTypeOK /\ NoneWaitsBesideAPoll /\ AtMostOnce

LEMMA BridgeInvKept == BridgeInv /\ [BridgeNext]_bridgeVars => BridgeInv'
<1> SUFFICES ASSUME BridgeInv, BridgeStep  PROVE BridgeInv'
  BY DEF BridgeStep
<1>1. \A c \in Command : caller[c] = "sent" => record[c] = "none"
  BY DEF BridgeInv, AtMostOnce, OnceOf, Unsent
<1>2. BridgeTypeOK' /\ NoneWaitsBesideAPoll'
  BY <1>1, QueueStep DEF BridgeInv
<1>3. AtMostOnce'
  BY OnceStep DEF BridgeInv
<1> QED
  BY <1>2, <1>3 DEF BridgeInv

LEMMA BridgeInvStarts == BridgeInit => BridgeInv
<1> SUFFICES ASSUME BridgeInit  PROVE BridgeInv
  OBVIOUS
<1>1. IsInjective(<<>>) /\ ToSet(<<>>) = {}
  BY DEF IsInjective, ToSet
<1>2. BridgeTypeOK
  <2>1. mishaps \in Nat
    BY BridgeAssumption DEF BridgeInit
  <2>2. <<>> \in Seq(Command) /\ <<>> \in Seq(BOOLEAN)
    BY EmptySeq
  <2> QED
    BY <2>1, <2>2 DEF BridgeInit, BridgeTypeOK
<1>3. NoneWaitsBesideAPoll
  BY <1>1 DEF BridgeInit, NoneWaitsBesideAPoll
<1>4. AtMostOnce
  BY DEF BridgeInit, AtMostOnce, OnceOf
<1> QED
  BY <1>2, <1>3, <1>4 DEF BridgeInv

LEMMA BridgeInvAlways == BridgeSpec => []BridgeInv
BY BridgeInvStarts, BridgeInvKept, PTL DEF BridgeSpec

\* The state of the bridge stays well typed.
THEOREM BridgeTyped == BridgeSpec => []BridgeTypeOK
BY BridgeInvAlways, PTL DEF BridgeInv

\* A pending command is queued once, and never beside a parked poll.
THEOREM QueueAndPollsAgree == BridgeSpec => []NoneWaitsBesideAPoll
BY BridgeInvAlways, PTL DEF BridgeInv

LEMMA OnceIsHandedOutOnce == BridgeInv => HandedOutOnce
<1> SUFFICES ASSUME BridgeInv, NEW c \in Command
             PROVE  starts[c] <= IF caller[c] = "failed" THEN 0 ELSE 1
  BY DEF HandedOutOnce
<1>1. OnceOf(c) /\ starts[c] \in Nat
  BY DEF BridgeInv, AtMostOnce, BridgeTypeOK
<1> QED
  BY <1>1 DEF OnceOf

\* The tab starts a command at most once, and none whose caller was told
\* that the client is gone.
THEOREM CommandsStartOnce == BridgeSpec => []HandedOutOnce
BY OnceIsHandedOutOnce, BridgeInvAlways, PTL
-----------------------------------------------------------------------------
(***************************************************************************)
(* The bridge as a RemoteCall.  Reported, what its inductive invariant     *)
(* lacks for it: only a command that was started is at work or has a       *)
(* result, and a result is kept beside a completed record.                 *)
(***************************************************************************)
ReportOf(c) ==
  /\ c \in running => starts[c] # 0
  /\ c \in posting => record[c] = "completed" /\ result[c] = "none"
  /\ record[c] = "completed" => starts[c] # 0
  /\ result[c] = "body" => record[c] = "completed"

Reported == \A c \in Command : ReportOf(c)

CallInv == BridgeInv /\ Reported

\* What one command's part of the state may do.
LEMMA ReportKept ==
  ASSUME NEW c \in Command, ReportOf(c), starts'[c] = starts[c],
         c \in running' => c \in running,
         c \in posting' => c \in posting,
         result'[c] = result[c],
         \/ record'[c] = record[c]
         \/ record[c] = "pending" /\ record'[c] = "failed"
  PROVE  ReportOf(c)'
BY DEF ReportOf

\* A command handed out: it was not started before.
LEMMA HandedOut ==
  ASSUME BridgeInv, Reported, NEW c \in Command, record[c] \in {"none", "pending"},
         running' \subseteq running \cup {c}, posting' = posting, result' = result,
         \/ record' = [record EXCEPT ![c] = "pending"] /\ starts' = starts /\ running' = running
         \/ /\ record' = [record EXCEPT ![c] = "delivered"]
            /\ \/ starts' = [starts EXCEPT ![c] = @ + 1]
               \/ starts' = starts /\ running' = running
  PROVE  Reported'
<1>1. record \in [Command -> {"none", "pending", "delivered", "completed", "failed"}]
      /\ starts \in [Command -> Nat]
  BY DEF BridgeInv, BridgeTypeOK
<1>2. ASSUME NEW d \in Command \ {c}  PROVE ReportOf(d)'
  <2>1. ReportOf(d)
    BY DEF Reported
  <2>2. starts'[d] = starts[d] /\ record'[d] = record[d]
    BY <1>1
  <2> QED
    BY <2>1, <2>2, ReportKept
<1>3. ReportOf(c)'
  <2>1. ReportOf(c)
    BY DEF Reported
  <2>2. c \notin posting /\ result[c] # "body"
    BY <2>1 DEF ReportOf
  <2>3. record'[c] \in {"pending", "delivered"} /\ (c \in running' => starts'[c] # 0)
    BY <1>1, <2>1 DEF ReportOf
  <2> QED
    BY <2>2, <2>3 DEF ReportOf
<1> QED
  BY <1>2, <1>3 DEF Reported

LEMMA ReportStep ==
  ASSUME BridgeInv, Reported, BridgeStep
  PROVE  Reported'
<1> USE DEF serverVars, tabVars
<1>0. BridgeTypeOK /\ NoneWaitsBesideAPoll /\ AtMostOnce
  BY DEF BridgeInv
<1>1. ASSUME running' \subseteq running, posting' \subseteq posting,
             UNCHANGED <<record, result, starts>>
      PROVE  Reported'
  BY <1>1, ReportKept DEF Reported
<1>2. CASE UNCHANGED bridgeVars
  BY <1>1, <1>2 DEF bridgeVars
<1>3. CASE Register \/ Unpark \/ PollExpires \/ PollBreaks \/ ClosePage \/ FallSilent
  BY <1>1, <1>3 DEF Register, Unpark, PollExpires, PollBreaks, ClosePage, FallSilent
<1>4. CASE PollNext
  <2>1. CASE queue = <<>>
    BY <1>1, <1>4, <2>1 DEF PollNext
  <2>2. CASE queue # <<>>
    <3>1. /\ record' = [record EXCEPT ![Head(queue)] = "delivered"]
          /\ starts' = [starts EXCEPT ![Head(queue)] = @ + 1]
          /\ running' = running \cup {Head(queue)} /\ posting' = posting /\ result' = result
      BY <1>4, <2>2 DEF PollNext, Take, Start
    <3>2. Head(queue) \in Command /\ record[Head(queue)] = "pending"
      BY <1>0, <2>2, HeadIsPending
    <3> QED
      BY <3>1, <3>2, HandedOut
  <2> QED
    BY <2>1, <2>2
<1>5. CASE Drop
  BY <1>5, ReportKept DEF Drop, Reported
<1>6. ASSUME NEW c \in Command, Submit(c) \/ Hears(c) \/ GivesUp(c)  PROVE Reported'
  BY <1>1, <1>6, Zenon DEF Submit, Hears, GivesUp
<1>7. ASSUME NEW c \in Command, Enqueue(c)  PROVE Reported'
  <2>1. caller[c] = "sent" /\ posting' = posting /\ result' = result
    BY <1>7 DEF Enqueue
  <2>2. \/ record' = [record EXCEPT ![c] = "pending"] /\ starts' = starts /\ running' = running
        \/ /\ record' = [record EXCEPT ![c] = "delivered"]
           /\ \/ starts' = [starts EXCEPT ![c] = @ + 1] /\ running' = running \cup {c}
              \/ starts' = starts /\ running' = running
    BY <1>7 DEF Enqueue, Start
  <2>3. record[c] = "none"
    BY <1>0, <2>1 DEF AtMostOnce, OnceOf, Unsent
  <2> QED
    BY <2>1, <2>2, <2>3, HandedOut
<1>8. ASSUME NEW c \in Command, PostResult(c)  PROVE Reported'
  <2>1. CASE record[c] # "delivered"
    BY <1>1, <1>8, <2>1 DEF PostResult
  <2>2. CASE record[c] = "delivered"
    <3>1. /\ c \in running /\ running' = running \ {c} /\ posting' = posting \cup {c}
          /\ record' = [record EXCEPT ![c] = "completed"] /\ UNCHANGED <<result, starts>>
      BY <1>8, <2>2 DEF PostResult
    <3>2. ASSUME NEW d \in Command \ {c}  PROVE ReportOf(d)'
      <4>1. ReportOf(d) /\ record'[d] = record[d]
        BY <1>0, <3>1 DEF Reported, BridgeTypeOK
      <4> QED
        BY <3>1, <4>1, ReportKept
    <3>3. ReportOf(c)'
      BY <1>0, <2>2, <3>1 DEF Reported, ReportOf, BridgeTypeOK
    <3> QED
      BY <3>2, <3>3 DEF Reported
  <2> QED
    BY <2>1, <2>2
<1>9. ASSUME NEW c \in Command, PostFails(c) \/ ResultLost(c)  PROVE Reported'
  BY <1>1, <1>9 DEF PostFails, ResultLost
<1>10. ASSUME NEW c \in Command, ResultRead(c)  PROVE Reported'
  <2>1. /\ c \in posting /\ posting' = posting \ {c} /\ result' = [result EXCEPT ![c] = "body"]
        /\ UNCHANGED <<record, starts, running>>
    BY <1>10 DEF ResultRead
  <2> QED
    BY <1>0, <2>1 DEF Reported, ReportOf, BridgeTypeOK
<1>11. ASSUME NEW c \in Command, Reap(c)  PROVE Reported'
  <2>1. /\ c \notin posting /\ posting' = posting
        /\ record' = [record EXCEPT ![c] = "none"] /\ result' = [result EXCEPT ![c] = "none"]
        /\ UNCHANGED <<starts, running>>
    BY <1>11 DEF Reap
  <2> QED
    BY <1>0, <2>1 DEF Reported, ReportOf, BridgeTypeOK
<1> QED
  BY <1>2, <1>3, <1>4, <1>5, <1>6, <1>7, <1>8, <1>9, <1>10, <1>11 DEF BridgeStep, BridgeNext, LoopStep

\* Where a command stands, by its record, its start and its caller.
LEMMA CallIs ==
  ASSUME BridgeInv, NEW c \in Command
  PROVE  /\ caller[c] \in Unsent => CallOf(c) = "out"
         /\ caller[c] \notin Unsent =>
              /\ starts[c] = 0 /\ record[c] = "pending" => CallOf(c) = "open"
              /\ starts[c] = 0 /\ record[c] # "pending" => CallOf(c) = "lost"
              /\ starts[c] # 0 /\ result[c] = "body" => CallOf(c) = "replied"
              /\ starts[c] # 0 /\ result[c] # "body" /\ record[c] = "none" => CallOf(c) = "over"
              /\ starts[c] # 0 /\ result[c] # "body" /\ record[c] # "none" => CallOf(c) = "started"
<1>1. starts[c] \in Nat
  BY DEF BridgeInv, BridgeTypeOK
<1> QED
  BY <1>1 DEF CallOf, Unsent

Calls == [c \in Command |-> CallOf(c)]
Hearings == [c \in Command |-> Heard(c)]

\* A command whose part of the state stays stands where it stood.
LEMMA CallStays ==
  ASSUME NEW c \in Command, caller'[c] = caller[c], starts'[c] = starts[c],
         record'[c] = record[c], result'[c] = result[c]
  PROVE  CallOf(c)' = CallOf(c) /\ Heard(c)' = Heard(c)
BY DEF CallOf, Heard

LEMMA HeardIs ==
  ASSUME NEW c \in Command, caller'[c] = caller[c]
  PROVE  Heard(c)' = Heard(c)
BY DEF Heard

\* A step that moves one command only.
LEMMA OneCallMoves ==
  ASSUME NEW c \in Command,
         \A d \in Command \ {c} :
           caller'[d] = caller[d] /\ starts'[d] = starts[d]
             /\ record'[d] = record[d] /\ result'[d] = result[d]
  PROVE  /\ Calls' = [Calls EXCEPT ![c] = CallOf(c)']
         /\ Hearings' = [Hearings EXCEPT ![c] = Heard(c)']
<1>1. ASSUME NEW d \in Command \ {c}
      PROVE  CallOf(d)' = CallOf(d) /\ Heard(d)' = Heard(d)
  BY CallStays
<1> QED
  BY <1>1 DEF Calls, Hearings

\* All that a step of RemoteCall asks of the command it moves.
LEMMA CallMoves ==
  ASSUME BridgeInv, NEW c \in Command,
         starts' = [starts EXCEPT ![c] = starts'[c]],
         Calls' = [Calls EXCEPT ![c] = CallOf(c)'],
         Hearings' = [Hearings EXCEPT ![c] = Heard(c)'],
         \/ /\ starts'[c] = starts[c] /\ CallOf(c)' = CallOf(c)
            /\ \/ Heard(c)' = Heard(c)
               \/ CallOf(c) = "out" /\ Heard(c) = "nothing" /\ Heard(c)' = "refused"
               \/ /\ CallOf(c) # "out" /\ Heard(c) = "nothing"
                  /\ \/ CallOf(c) = "replied" /\ Heard(c)' = "answered"
                     \/ CallOf(c) = "started" /\ Heard(c)' = "no value"
                     \/ CallOf(c) = "lost" /\ Heard(c)' = "failed"
                     \/ CallOf(c) \in {"lost", "over"} /\ Heard(c)' = "unknown"
                     \/ Heard(c)' = "timed out"
         \/ /\ Heard(c)' = Heard(c)
            /\ \/ /\ starts'[c] = starts[c]
                  /\ \/ CallOf(c) = "out" /\ Heard(c) = "nothing" /\ CallOf(c)' \in {"open", "lost"}
                     \/ CallOf(c) = "started" /\ CallOf(c)' = "replied"
                     \/ CallOf(c) \in {"started", "replied"} /\ CallOf(c)' = "over"
               \/ /\ CallOf(c) \in {"out", "open"} /\ Heard(c) # "refused"
                  /\ starts'[c] = starts[c] + 1 /\ CallOf(c)' = "started"
  PROVE  [Remote!CallNext]_(Remote!callVars)
<1>1. /\ Calls[c] = CallOf(c) /\ Calls \in [Command -> {CallOf(d) : d \in Command}]
      /\ Hearings[c] = Heard(c) /\ Hearings \in [Command -> {Heard(d) : d \in Command}]
  BY DEF Calls, Hearings
<1>2. starts \in [Command -> Nat]
  BY DEF BridgeInv, BridgeTypeOK
<1>3. /\ starts'[c] = starts[c] => starts' = starts
      /\ CallOf(c)' = CallOf(c) => Calls' = Calls
      /\ Heard(c)' = Heard(c) => Hearings' = Hearings
  <2>1. ASSUME NEW S, NEW f \in [Command -> S], NEW g, g = [f EXCEPT ![c] = f[c]]
        PROVE  g = f
    BY <2>1
  <2>2. starts'[c] = starts[c] => starts' = starts
    BY <1>2, <2>1
  <2>3. CallOf(c)' = CallOf(c) => Calls' = Calls
    BY <1>1, <2>1
  <2>4. Heard(c)' = Heard(c) => Hearings' = Hearings
    BY <1>1, <2>1
  <2> QED
    BY <2>2, <2>3, <2>4
<1>4. CASE starts' = starts /\ Calls' = Calls /\ Hearings' = Hearings
  BY <1>4 DEF Calls, Hearings, Remote!callVars
<1>5. CASE starts' = starts /\ Calls' = Calls /\ Calls[c] = "out" /\ Hearings[c] = "nothing"
             /\ Hearings' = [Hearings EXCEPT ![c] = "refused"]
  <2>1. Remote!Refuse(c)
    BY <1>5 DEF Remote!Refuse, Calls, Hearings
  <2> QED
    BY <2>1 DEF Remote!CallNext
<1>6. CASE starts' = starts /\ Calls' = Calls /\ Calls[c] # "out" /\ Hearings[c] = "nothing"
             /\ \/ Calls[c] = "replied" /\ Hearings' = [Hearings EXCEPT ![c] = "answered"]
                \/ Calls[c] = "started" /\ Hearings' = [Hearings EXCEPT ![c] = "no value"]
                \/ Calls[c] = "lost" /\ Hearings' = [Hearings EXCEPT ![c] = "failed"]
                \/ Calls[c] \in {"lost", "over"} /\ Hearings' = [Hearings EXCEPT ![c] = "unknown"]
                \/ Hearings' = [Hearings EXCEPT ![c] = "timed out"]
  <2>1. Remote!Tell(c)
    BY <1>6 DEF Remote!Tell, Calls, Hearings
  <2> QED
    BY <2>1 DEF Remote!CallNext
<1>7. CASE /\ starts' = starts /\ Hearings' = Hearings
           /\ \/ /\ Calls[c] = "out" /\ Hearings[c] = "nothing"
                 /\ Calls' = [Calls EXCEPT ![c] = "open"]
              \/ Calls[c] = "started" /\ Calls' = [Calls EXCEPT ![c] = "replied"]
              \/ Calls[c] \in {"started", "replied"} /\ Calls' = [Calls EXCEPT ![c] = "over"]
  <2>1. Remote!Accept(c) \/ Remote!Reply(c) \/ Remote!Forget(c)
    BY <1>7 DEF Remote!Accept, Remote!Reply, Remote!Forget, Calls, Hearings
  <2> QED
    BY <2>1 DEF Remote!CallNext
<1>8. CASE /\ starts' = starts /\ Hearings' = Hearings
           /\ Calls[c] = "out" /\ Hearings[c] = "nothing"
           /\ Calls' = [Calls EXCEPT ![c] = "lost"]
  <2>1. Calls' = [d \in Command |-> IF d \in {c} THEN "lost" ELSE Calls[d]]
    BY <1>1, <1>8
  <2>2. Remote!Lose({c})
    BY <1>8, <2>1 DEF Remote!Lose, Calls, Hearings
  <2> QED
    BY <2>2 DEF Remote!CallNext
<1>9. CASE /\ Hearings' = Hearings /\ Calls[c] \in {"out", "open"} /\ Hearings[c] # "refused"
           /\ starts' = [starts EXCEPT ![c] = @ + 1] /\ Calls' = [Calls EXCEPT ![c] = "started"]
  <2>1. Remote!StartCall(c)
    BY <1>9 DEF Remote!StartCall, Calls, Hearings
  <2> QED
    BY <2>1 DEF Remote!CallNext
<1>10. starts'[c] = starts[c] + 1 => starts' = [starts EXCEPT ![c] = @ + 1]
  OBVIOUS
<1> QED
  BY <1>1, <1>3, <1>4, <1>5, <1>6, <1>7, <1>8, <1>9, <1>10

\* The first start of a command.
LEMMA FirstStart ==
  ASSUME starts \in [Command -> Nat], NEW c \in Command, starts[c] = 0,
         starts' = [starts EXCEPT ![c] = @ + 1]
  PROVE  /\ starts'[c] = 1 /\ starts' = [starts EXCEPT ![c] = starts'[c]]
         /\ \A d \in Command \ {c} : starts'[d] = starts[d]
<1>1. starts'[c] = starts[c] + 1
  OBVIOUS
<1>2. \A d \in Command \ {c} : starts'[d] = starts[d]
  OBVIOUS
<1> QED
  BY <1>1, <1>2

\* Every step of the bridge is a step of RemoteCall or changes nothing there.
LEMMA CallStep ==
  ASSUME CallInv, BridgeStep
  PROVE  [Remote!CallNext]_(Remote!callVars)
<1> DEFINE Goal == [Remote!CallNext]_(Remote!callVars)
<1> USE DEF serverVars, tabVars
<1>0. BridgeInv /\ Reported /\ BridgeTypeOK /\ NoneWaitsBesideAPoll /\ AtMostOnce
  BY DEF CallInv, BridgeInv
<1>t. /\ caller \in [Command -> {"new", "refused", "sent", "waiting", "answered", "no value",
                                 "failed", "unknown", "timed out"}]
      /\ starts \in [Command -> Nat]
      /\ record \in [Command -> {"none", "pending", "delivered", "completed", "failed"}]
      /\ result \in [Command -> {"none", "body"}]
  BY <1>0 DEF BridgeTypeOK
<1>1. ASSUME UNCHANGED <<caller, starts, record, result>>  PROVE Goal
  BY <1>1 DEF CallOf, Heard, Remote!callVars
<1>2. CASE UNCHANGED bridgeVars
  BY <1>1, <1>2 DEF bridgeVars
<1>3. CASE Register \/ Unpark \/ PollExpires \/ PollBreaks \/ ClosePage \/ FallSilent
  BY <1>1, <1>3 DEF Register, Unpark, PollExpires, PollBreaks, ClosePage, FallSilent
<1>4. CASE PollNext
  <2>1. CASE queue = <<>>
    BY <1>1, <1>4, <2>1 DEF PollNext
  <2>2. CASE queue # <<>>
    <3>1. PICK c \in Command : c = Head(queue) /\ record[c] = "pending"
      BY <1>0, <2>2, HeadIsPending
    <3>2. /\ record' = [record EXCEPT ![c] = "delivered"]
          /\ starts' = [starts EXCEPT ![c] = @ + 1]
          /\ caller' = caller /\ result' = result
      BY <1>4, <2>2, <3>1 DEF PollNext, Take, Start
    <3>3. /\ starts[c] = 0 /\ caller[c] \notin Unsent /\ result[c] # "body"
          /\ CallOf(c) = "open" /\ Heard(c) # "refused"
      BY <1>0, <3>1, CallIs DEF AtMostOnce, OnceOf, Reported, ReportOf, Heard, Unsent
    <3>4. /\ starts'[c] = 1 /\ starts' = [starts EXCEPT ![c] = starts'[c]]
          /\ \A d \in Command \ {c} : starts'[d] = starts[d]
      BY <1>t, <3>2, <3>3, FirstStart
    <3>5. record'[c] = "delivered" /\ \A d \in Command \ {c} : record'[d] = record[d]
      BY <1>t, <3>2
    <3>6. CallOf(c)' = "started" /\ Heard(c)' = Heard(c)
      BY <3>2, <3>3, <3>4, <3>5 DEF CallOf, Heard, Unsent
    <3>7. Calls' = [Calls EXCEPT ![c] = CallOf(c)'] /\ Hearings' = [Hearings EXCEPT ![c] = Heard(c)']
      BY <3>2, <3>4, <3>5, OneCallMoves
    <3>8. starts'[c] = starts[c] + 1
      BY <3>3, <3>4
    <3> QED
      BY <1>0, <3>3, <3>4, <3>6, <3>7, <3>8, CallMoves
  <2> QED
    BY <2>1, <2>2
<1>5. CASE Drop
  <2> DEFINE C == {c \in Command : record[c] = "pending"}
  <2>1. /\ record' = [c \in Command |-> IF c \in C THEN "failed" ELSE record[c]]
        /\ UNCHANGED <<caller, starts, result>>
    BY <1>5 DEF Drop
  <2>2. ASSUME NEW c \in C
        PROVE  /\ CallOf(c) = "open" /\ CallOf(c)' = "lost" /\ Heard(c) # "refused"
    <3>1. starts[c] = 0 /\ caller[c] \notin Unsent /\ record[c] = "pending"
      BY <1>0 DEF AtMostOnce, OnceOf
    <3>2. record'[c] = "failed" /\ caller'[c] = caller[c] /\ starts'[c] = starts[c]
      BY <2>1
    <3> QED
      BY <1>0, <3>1, <3>2, CallIs DEF CallOf, Heard, Unsent
  <2>3. ASSUME NEW c \in Command \ C  PROVE CallOf(c)' = CallOf(c)
    BY <2>1, CallStays
  <2>4. Calls' = [c \in Command |-> IF c \in C THEN "lost" ELSE Calls[c]]
    BY <2>2, <2>3 DEF Calls
  <2>5. \A c \in C : Calls[c] = "open" /\ Hearings[c] # "refused"
    BY <2>2 DEF Calls, Hearings
  <2>6. Hearings' = Hearings
    BY <2>1 DEF Hearings, Heard
  <2>7. Remote!Lose(C)
    BY <2>1, <2>4, <2>5, <2>6 DEF Remote!Lose, Calls, Hearings
  <2> QED
    BY <2>7 DEF Remote!CallNext
<1>6. ASSUME NEW c \in Command, Submit(c) \/ Hears(c) \/ GivesUp(c)  PROVE Goal
  <2>1. record' = record /\ starts' = starts /\ result' = result
    BY <1>6, Zenon DEF Submit, Hears, GivesUp
  <2>2. PICK v : caller' = [caller EXCEPT ![c] = v]
    BY <1>6, Zenon DEF Submit, Hears, GivesUp
  <2>3. caller'[c] = v
    BY <1>t, <2>2
  <2>4. /\ \/ caller[c] = "new" /\ v = "refused"
           \/ caller[c] = "new" /\ v = "sent"
           \/ caller[c] = "waiting" /\ record[c] = "failed" /\ v = "failed"
           \/ caller[c] = "waiting" /\ record[c] = "none" /\ v = "unknown"
           \/ caller[c] = "waiting" /\ record[c] = "completed" /\ result[c] = "body" /\ v = "answered"
           \/ caller[c] = "waiting" /\ record[c] = "completed" /\ result[c] # "body" /\ v = "no value"
           \/ caller[c] = "waiting" /\ v = "timed out"
    <3>1. CASE Submit(c)
      BY <1>t, <2>3, <3>1 DEF Submit
    <3>2. CASE Hears(c)
      <4>1. /\ caller[c] = "waiting" /\ record[c] \in {"completed", "failed", "none"}
            /\ v = CASE record[c] = "failed" -> "failed"
                     [] record[c] = "none"   -> "unknown"
                     [] result[c] = "body"   -> "answered"
                     [] OTHER                -> "no value"
        BY <1>t, <2>3, <3>2 DEF Hears
      <4>2. record[c] \in {"failed", "none"} => result[c] # "body"
        BY <1>0 DEF Reported, ReportOf
      <4> QED
        BY <4>1, <4>2
    <3>3. CASE GivesUp(c)
      BY <1>t, <2>3, <3>3 DEF GivesUp
    <3> QED
      BY <1>6, <3>1, <3>2, <3>3
  <2>5. /\ Calls' = [Calls EXCEPT ![c] = CallOf(c)'] /\ Hearings' = [Hearings EXCEPT ![c] = Heard(c)']
    BY <2>1, <2>2, OneCallMoves
  <2>6. starts' = [starts EXCEPT ![c] = starts'[c]] /\ starts'[c] = starts[c]
    BY <1>t, <2>1
  <2>7. CallOf(c)' = CallOf(c)
    BY <2>1, <2>3, <2>4 DEF CallOf
  <2>8. \/ Heard(c)' = Heard(c)
        \/ CallOf(c) = "out" /\ Heard(c) = "nothing" /\ Heard(c)' = "refused"
        \/ /\ CallOf(c) # "out" /\ Heard(c) = "nothing"
           /\ \/ CallOf(c) = "replied" /\ Heard(c)' = "answered"
              \/ CallOf(c) = "started" /\ Heard(c)' = "no value"
              \/ CallOf(c) = "lost" /\ Heard(c)' = "failed"
              \/ CallOf(c) \in {"lost", "over"} /\ Heard(c)' = "unknown"
              \/ Heard(c)' = "timed out"
    <3>1. Heard(c) = (IF caller[c] \in {"new", "sent", "waiting"} THEN "nothing" ELSE caller[c])
          /\ Heard(c)' = (IF v \in {"new", "sent", "waiting"} THEN "nothing" ELSE v)
      BY <2>3 DEF Heard
    <3>2. caller[c] = "new" => CallOf(c) = "out"
      BY <1>0, CallIs DEF Unsent
    <3>3. ASSUME caller[c] = "waiting"
          PROVE  /\ CallOf(c) # "out"
                 /\ record[c] = "failed" => CallOf(c) = "lost"
                 /\ record[c] = "none" => CallOf(c) \in {"lost", "over"}
                 /\ record[c] = "completed" /\ result[c] = "body" => CallOf(c) = "replied"
                 /\ record[c] = "completed" /\ result[c] # "body" => CallOf(c) = "started"
      <4>1. caller[c] \notin Unsent
        BY <3>3 DEF Unsent
      <4>2. record[c] = "failed" => starts[c] = 0
        BY <1>0 DEF AtMostOnce, OnceOf
      <4>3. /\ record[c] = "completed" => starts[c] # 0
            /\ record[c] = "none" => result[c] # "body"
        BY <1>0 DEF Reported, ReportOf
      <4> QED
        BY <1>0, <1>t, <4>1, <4>2, <4>3, CallIs
    <3> QED
      BY <2>4, <3>1, <3>2, <3>3
  <2> QED
    BY <1>0, <2>5, <2>6, <2>7, <2>8, CallMoves
<1>7. ASSUME NEW c \in Command, Enqueue(c)  PROVE Goal
  <2>1. /\ caller[c] = "sent" /\ caller' = [caller EXCEPT ![c] = "waiting"] /\ result' = result
        /\ \/ record' = [record EXCEPT ![c] = "pending"] /\ starts' = starts
           \/ /\ record' = [record EXCEPT ![c] = "delivered"]
              /\ starts' = starts \/ starts' = [starts EXCEPT ![c] = @ + 1]
    BY <1>7 DEF Enqueue, Start
  <2>2. /\ starts[c] = 0 /\ record[c] = "none" /\ result[c] # "body"
        /\ CallOf(c) = "out" /\ Heard(c) = "nothing"
    BY <1>0, <2>1, CallIs DEF AtMostOnce, OnceOf, Unsent, Reported, ReportOf, Heard
  <2>3. caller'[c] = "waiting" /\ result'[c] # "body" /\ Heard(c)' = "nothing"
    BY <1>t, <2>1, <2>2 DEF Heard
  <2>4. /\ \/ record'[c] = "pending" /\ starts'[c] = 0
           \/ record'[c] = "delivered" /\ starts'[c] \in {0, 1}
        /\ starts' = [starts EXCEPT ![c] = starts'[c]]
        /\ \A d \in Command \ {c} : record'[d] = record[d] /\ starts'[d] = starts[d]
    <3>1. CASE starts' = starts
      BY <1>t, <2>1, <2>2, <3>1
    <3>2. CASE record' = [record EXCEPT ![c] = "delivered"] /\ starts' = [starts EXCEPT ![c] = @ + 1]
      BY <1>t, <2>2, <3>2, FirstStart
    <3> QED
      BY <2>1, <3>1, <3>2
  <2>5. \/ starts'[c] = starts[c] /\ CallOf(c)' \in {"open", "lost"}
        \/ starts'[c] = starts[c] + 1 /\ CallOf(c)' = "started"
    BY <2>2, <2>3, <2>4 DEF CallOf
  <2>6. /\ Calls' = [Calls EXCEPT ![c] = CallOf(c)'] /\ Hearings' = [Hearings EXCEPT ![c] = Heard(c)']
        /\ starts' = [starts EXCEPT ![c] = starts'[c]]
    BY <2>1, <2>4, OneCallMoves
  <2> QED
    BY <1>0, <2>2, <2>3, <2>5, <2>6, CallMoves
<1>8. ASSUME NEW c \in Command, PostResult(c)  PROVE Goal
  <2>1. CASE record[c] # "delivered"
    BY <1>1, <1>8, <2>1 DEF PostResult
  <2>2. CASE record[c] = "delivered"
    <3>1. /\ c \in running /\ record' = [record EXCEPT ![c] = "completed"]
          /\ UNCHANGED <<caller, starts, result>>
      BY <1>8, <2>2 DEF PostResult
    <3>2. starts[c] # 0 /\ result[c] # "body" /\ caller[c] \notin Unsent
      BY <1>0, <2>2, <3>1 DEF AtMostOnce, OnceOf, Reported, ReportOf
    <3>3. CallOf(c) = "started" /\ CallOf(c)' = "started" /\ Heard(c)' = Heard(c)
      BY <1>0, <1>t, <2>2, <3>1, <3>2, CallIs DEF CallOf, Heard, Unsent
    <3>4. /\ Calls' = [Calls EXCEPT ![c] = CallOf(c)'] /\ Hearings' = [Hearings EXCEPT ![c] = Heard(c)']
          /\ starts' = [starts EXCEPT ![c] = starts'[c]] /\ starts'[c] = starts[c]
      BY <1>t, <3>1, OneCallMoves
    <3> QED
      BY <1>0, <3>3, <3>4, CallMoves
  <2> QED
    BY <2>1, <2>2
<1>9. ASSUME NEW c \in Command, PostFails(c) \/ ResultLost(c)  PROVE Goal
  BY <1>1, <1>9 DEF PostFails, ResultLost
<1>10. ASSUME NEW c \in Command, ResultRead(c)  PROVE Goal
  <2>1. /\ c \in posting /\ result' = [result EXCEPT ![c] = "body"]
        /\ UNCHANGED <<caller, starts, record>>
    BY <1>10 DEF ResultRead
  <2>2. record[c] = "completed" /\ starts[c] # 0 /\ result[c] # "body" /\ caller[c] \notin Unsent
    BY <1>0, <2>1 DEF AtMostOnce, OnceOf, Reported, ReportOf
  <2>3. CallOf(c) = "started" /\ CallOf(c)' = "replied" /\ Heard(c)' = Heard(c)
    BY <1>0, <1>t, <2>1, <2>2, CallIs DEF CallOf, Heard, Unsent
  <2>4. /\ Calls' = [Calls EXCEPT ![c] = CallOf(c)'] /\ Hearings' = [Hearings EXCEPT ![c] = Heard(c)']
        /\ starts' = [starts EXCEPT ![c] = starts'[c]] /\ starts'[c] = starts[c]
    BY <1>t, <2>1, OneCallMoves
  <2> QED
    BY <1>0, <2>3, <2>4, CallMoves
<1>11. ASSUME NEW c \in Command, Reap(c)  PROVE Goal
  <2>1. /\ record[c] \in {"delivered", "completed", "failed"}
        /\ record' = [record EXCEPT ![c] = "none"] /\ result' = [result EXCEPT ![c] = "none"]
        /\ UNCHANGED <<caller, starts>>
    BY <1>11 DEF Reap
  <2>2. caller[c] \notin Unsent
    BY <1>0, <2>1 DEF AtMostOnce, OnceOf
  <2>3. CASE starts[c] = 0
    <3>1. CallOf(c) = "lost" /\ CallOf(c)' = "lost" /\ Heard(c)' = Heard(c)
      BY <1>0, <1>t, <2>1, <2>2, <2>3, CallIs DEF CallOf, Heard, Unsent
    <3>2. /\ Calls' = [Calls EXCEPT ![c] = CallOf(c)'] /\ Hearings' = [Hearings EXCEPT ![c] = Heard(c)']
          /\ starts' = [starts EXCEPT ![c] = starts'[c]] /\ starts'[c] = starts[c]
      BY <1>t, <2>1, OneCallMoves
    <3> QED
      BY <1>0, <3>1, <3>2, CallMoves
  <2>4. CASE starts[c] # 0
    <3>1. CallOf(c) \in {"started", "replied"} /\ CallOf(c)' = "over" /\ Heard(c)' = Heard(c)
      BY <1>0, <1>t, <2>1, <2>2, <2>4, CallIs DEF CallOf, Heard, Unsent
    <3>2. /\ Calls' = [Calls EXCEPT ![c] = CallOf(c)'] /\ Hearings' = [Hearings EXCEPT ![c] = Heard(c)']
          /\ starts' = [starts EXCEPT ![c] = starts'[c]] /\ starts'[c] = starts[c]
      BY <1>t, <2>1, OneCallMoves
    <3> QED
      BY <1>0, <3>1, <3>2, CallMoves
  <2> QED
    BY <2>3, <2>4
<1> QED
  BY <1>2, <1>3, <1>4, <1>5, <1>6, <1>7, <1>8, <1>9, <1>10, <1>11 DEF BridgeStep, BridgeNext, LoopStep

LEMMA BridgeStarts == BridgeInit => CallInv /\ Remote!CallInit
<1> SUFFICES ASSUME BridgeInit  PROVE CallInv /\ Remote!CallInit
  OBVIOUS
<1>1. BridgeInv
  BY BridgeInvStarts
<1>2. Reported
  BY DEF BridgeInit, Reported, ReportOf
<1>3. \A c \in Command : CallOf(c) = "out" /\ Heard(c) = "nothing"
  BY DEF BridgeInit, CallOf, Heard
<1>4. Remote!CallInit
  BY <1>3 DEF BridgeInit, Remote!CallInit
<1> QED
  BY <1>1, <1>2, <1>4 DEF CallInv

LEMMA CallInvKept == CallInv /\ [BridgeNext]_bridgeVars => CallInv'
<1> SUFFICES ASSUME CallInv, BridgeStep  PROVE CallInv'
  BY DEF BridgeStep
<1>1. BridgeInv'
  BY BridgeInvKept DEF CallInv, BridgeStep
<1>2. Reported'
  BY ReportStep DEF CallInv
<1> QED
  BY <1>1, <1>2 DEF CallInv

(***************************************************************************)
(* BridgeIsRemoteCall: whatever polls break, whatever tab or client is     *)
(* dropped and whatever record expires, what a command line is told of its *)
(* command is true, and final unless it gave up waiting (client.ts,        *)
(* waitForCommand; server.ts, setCommandResult and cleanup).               *)
(***************************************************************************)
THEOREM BridgeIsRemoteCall == BridgeSpec => ImplementsRemoteCall
<1>1. CallInv /\ [BridgeNext]_bridgeVars => [Remote!CallNext]_(Remote!callVars)
  BY CallStep DEF BridgeStep
<1> QED
  BY <1>1, BridgeStarts, CallInvKept, PTL DEF BridgeSpec, ImplementsRemoteCall, Remote!CallSpec

(***************************************************************************)
(* What a RemoteCall says is final: whoever has heard anything but a       *)
(* timeout is not waiting for a start.                                     *)
(***************************************************************************)
Told ==
  \A c \in Command :
    Heard(c) \notin {"nothing", "timed out"} =>
      CallOf(c) # "open" /\ (CallOf(c) = "out" => Heard(c) = "refused")

LEMMA ToldKept ==
  ASSUME Told, starts \in [Command -> Nat], [Remote!CallNext]_(Remote!callVars)
  PROVE  Told' /\ \A c \in Command : Heard(c) \notin {"nothing", "timed out"} => starts'[c] = starts[c]
<1> DEFINE Goal == Told' /\ \A c \in Command :
                     Heard(c) \notin {"nothing", "timed out"} => starts'[c] = starts[c]
<1>1. /\ \A c \in Command : Calls[c] = CallOf(c) /\ Hearings[c] = Heard(c)
      /\ DOMAIN Calls = Command /\ DOMAIN Hearings = Command
      /\ \A c \in Command : Calls'[c] = CallOf(c)' /\ Hearings'[c] = Heard(c)'
  BY DEF Calls, Hearings
<1>2. CASE UNCHANGED Remote!callVars
  BY <1>1, <1>2 DEF Told, Calls, Hearings, Remote!callVars
<1>3. ASSUME NEW C \in SUBSET Command, Remote!Lose(C)  PROVE Goal
  <2>1. /\ Calls' = [c \in Command |-> IF c \in C THEN "lost" ELSE Calls[c]]
        /\ starts' = starts /\ Hearings' = Hearings
    BY <1>3 DEF Remote!Lose, Calls, Hearings
  <2> QED
    BY <1>1, <2>1 DEF Told
<1>4. ASSUME NEW c \in Command, NEW v, NEW u,
             \A d \in Command : CallOf(d)' = IF d = c THEN v ELSE CallOf(d),
             \A d \in Command : Heard(d)' = IF d = c THEN u ELSE Heard(d),
             u \notin {"nothing", "timed out"} => v # "open" /\ (v = "out" => u = "refused")
      PROVE  Told'
  BY <1>4 DEF Told
<1>5. ASSUME NEW c \in Command, NEW v, Calls' = [Calls EXCEPT ![c] = v]
      PROVE  \A d \in Command : CallOf(d)' = IF d = c THEN v ELSE CallOf(d)
  <2>1. \A d \in Command : Calls'[d] = IF d = c THEN v ELSE Calls[d]
    BY <1>1, <1>5
  <2> QED
    BY <1>1, <2>1
<1>6. ASSUME NEW c \in Command, NEW u, Hearings' = [Hearings EXCEPT ![c] = u]
      PROVE  \A d \in Command : Heard(d)' = IF d = c THEN u ELSE Heard(d)
  <2>1. \A d \in Command : Hearings'[d] = IF d = c THEN u ELSE Hearings[d]
    BY <1>1, <1>6
  <2> QED
    BY <1>1, <2>1
<1>7. Calls' = Calls => \A d \in Command : CallOf(d)' = CallOf(d)
  BY <1>1
<1>8. Hearings' = Hearings => \A d \in Command : Heard(d)' = Heard(d)
  BY <1>1
<1>9. ASSUME NEW c \in Command, NEW v, Calls' = [Calls EXCEPT ![c] = v], Hearings' = Hearings,
             Heard(c) \notin {"nothing", "timed out"} => v # "open" /\ v # "out"
      PROVE  Told'
  <2>1. \A d \in Command : CallOf(d)' = IF d = c THEN v ELSE CallOf(d)
    BY <1>5, <1>9
  <2>2. \A d \in Command : Heard(d)' = Heard(d)
    BY <1>8, <1>9
  <2> QED
    BY <1>9, <2>1, <2>2 DEF Told
<1>10. ASSUME NEW c \in Command, Remote!Accept(c)  PROVE Goal
  <2>1. Calls' = [Calls EXCEPT ![c] = "open"] /\ Hearings' = Hearings /\ starts' = starts
        /\ Hearings[c] = "nothing"
    BY <1>10 DEF Remote!Accept, Calls, Hearings
  <2> QED
    BY <1>1, <1>9, <2>1
<1>11. ASSUME NEW c \in Command, NEW v \in {"replied", "over", "started"},
              Calls' = [Calls EXCEPT ![c] = v], Hearings' = Hearings
       PROVE  Told'
  BY <1>9, <1>11
<1>12. ASSUME NEW c \in Command, Remote!Reply(c) \/ Remote!Forget(c)  PROVE Goal
  <2>1. /\ starts' = starts /\ Hearings' = Hearings
        /\ Calls' = [Calls EXCEPT ![c] = "replied"] \/ Calls' = [Calls EXCEPT ![c] = "over"]
    BY <1>12 DEF Remote!Reply, Remote!Forget, Calls, Hearings
  <2> QED
    BY <1>11, <2>1
<1>13. ASSUME NEW c \in Command, Remote!StartCall(c)  PROVE Goal
  <2>1. /\ Calls' = [Calls EXCEPT ![c] = "started"] /\ Hearings' = Hearings
        /\ starts' = [starts EXCEPT ![c] = @ + 1]
        /\ Calls[c] \in {"out", "open"} /\ Hearings[c] # "refused"
    BY <1>13 DEF Remote!StartCall, Calls, Hearings
  <2>2. Heard(c) \in {"nothing", "timed out"}
    BY <1>1, <2>1 DEF Told
  <2>3. \A d \in Command \ {c} : starts'[d] = starts[d]
    BY <2>1
  <2>4. Told'
    BY <1>11, <2>1
  <2> QED
    BY <2>2, <2>3, <2>4
<1>14. ASSUME NEW c \in Command, NEW u, starts' = starts, Calls' = Calls,
              Hearings' = [Hearings EXCEPT ![c] = u],
              u \notin {"nothing", "timed out"} =>
                CallOf(c) # "open" /\ (CallOf(c) = "out" => u = "refused")
       PROVE  Goal
  <2>1. \A d \in Command : Heard(d)' = IF d = c THEN u ELSE Heard(d)
    BY <1>6, <1>14
  <2>2. \A d \in Command : CallOf(d)' = CallOf(d)
    BY <1>7, <1>14
  <2> QED
    BY <1>14, <2>1, <2>2 DEF Told
<1>15. ASSUME NEW c \in Command, Remote!Refuse(c)  PROVE Goal
  <2>1. Hearings' = [Hearings EXCEPT ![c] = "refused"] /\ starts' = starts /\ Calls' = Calls
        /\ Calls[c] = "out"
    BY <1>15 DEF Remote!Refuse, Calls, Hearings
  <2> QED
    BY <1>1, <1>14, <2>1
<1>16. ASSUME NEW c \in Command, Remote!Tell(c)  PROVE Goal
  <2>1. PICK u : /\ starts' = starts /\ Calls' = Calls /\ Calls[c] # "out"
                 /\ Hearings' = [Hearings EXCEPT ![c] = u]
                 /\ u # "timed out" => Calls[c] # "open"
    BY <1>16 DEF Remote!Tell, Calls, Hearings
  <2> QED
    BY <1>1, <1>14, <2>1
<1> QED
  BY <1>2, <1>3, <1>10, <1>12, <1>13, <1>15, <1>16 DEF Remote!CallNext

\* A command whose command line has heard anything but a timeout is not
\* started from then on, by whichever poll the tab makes (client.ts,
\* waitForCommand; server.ts, takePendingForClient).
THEOREM WhatIsToldIsFinal == BridgeSpec => Remote!ToldIsFinal
<1>1. BridgeInit => Told
  BY DEF BridgeInit, Told, CallOf, Heard
<1>2. CallInv /\ Told /\ [BridgeNext]_bridgeVars => Told' /\ [Remote!ToldStays]_(Remote!callVars)
  <2> SUFFICES ASSUME CallInv, Told, BridgeStep
               PROVE  Told' /\ [Remote!ToldStays]_(Remote!callVars)
    BY DEF BridgeStep
  <2>1. starts \in [Command -> Nat]
    BY DEF CallInv, BridgeInv, BridgeTypeOK
  <2>2. Told' /\ \A c \in Command : Heard(c) \notin {"nothing", "timed out"} => starts'[c] = starts[c]
    BY <2>1, CallStep, ToldKept
  <2>3. Remote!ToldStays
    BY <2>2 DEF Remote!ToldStays
  <2> QED
    BY <2>2, <2>3
<1> QED
  BY <1>1, <1>2, BridgeStarts, CallInvKept, PTL DEF BridgeSpec, Remote!ToldIsFinal

-----------------------------------------------------------------------------
(***************************************************************************)
(* The daemon and the bridge together.  A bridge that has nothing to do    *)
(* satisfies the invariant as well.                                        *)
(***************************************************************************)
LEMMA DaemonInAgents == AgentsSpec => DispatchSpec
<1>1. AgentsInit => DispatchInit
  BY DEF AgentsInit
<1>2. [AgentsNext]_agentsVars => [DispatchNext]_dispatchVars
  BY DEF AgentsNext, agentsVars
<1> QED
  BY <1>1, <1>2, PTL DEF AgentsSpec, DispatchSpec

LEMMA BridgeInAgents ==
  AgentsSpec => [][BridgeNext]_bridgeVars /\ []CallInv /\ ImplementsRemoteCall
<1>1. AgentsInit => CallInv /\ Remote!CallInit
  <2> SUFFICES ASSUME AgentsInit  PROVE CallInv /\ Remote!CallInit
    OBVIOUS
  <2>1. CASE BridgeInit
    BY <2>1, BridgeStarts
  <2>2. CASE ~BridgeInit
    <3>1. /\ loop = "closed"
          /\ known = FALSE /\ quiet = FALSE /\ waiters = <<>> /\ queue = <<>>
          /\ record = [c \in Command |-> "none"] /\ result = record
          /\ running = {} /\ posting = {}
          /\ caller = [c \in Command |-> "refused"]
          /\ starts = [c \in Command |-> 0] /\ mishaps = 0
      BY <2>2 DEF AgentsInit
    <3>2. IsInjective(<<>>) /\ ToSet(<<>>) = {} /\ <<>> \in Seq(Command) /\ <<>> \in Seq(BOOLEAN)
      BY DEF IsInjective, ToSet
    <3>3. BridgeTypeOK
      BY <3>1, <3>2 DEF BridgeTypeOK
    <3>4. NoneWaitsBesideAPoll
      BY <3>1, <3>2 DEF NoneWaitsBesideAPoll
    <3>5. AtMostOnce
      BY <3>1 DEF AtMostOnce, OnceOf
    <3>6. Reported
      BY <3>1 DEF Reported, ReportOf
    <3>7. \A c \in Command : CallOf(c) = "out" /\ Heard(c) = "refused"
      BY <3>1 DEF CallOf, Heard
    <3>8. Remote!CallInit
      BY <3>1, <3>7 DEF Remote!CallInit
    <3> QED
      BY <3>3, <3>4, <3>5, <3>6, <3>8 DEF CallInv, BridgeInv
  <2> QED
    BY <2>1, <2>2
<1>2. [AgentsNext]_agentsVars => [BridgeNext]_bridgeVars
  BY DEF AgentsNext, agentsVars
<1>3. CallInv /\ [BridgeNext]_bridgeVars => [Remote!CallNext]_(Remote!callVars)
  BY CallStep DEF BridgeStep
<1> QED
  BY <1>1, <1>2, <1>3, CallInvKept, PTL DEF AgentsSpec, ImplementsRemoteCall, Remote!CallSpec

\* The daemon and the bridge stay well typed side by side, whichever of them
\* has something to do.
THEOREM AgentsTyped == AgentsSpec => []AgentsTypeOK
<1>1. CallInv => BridgeTypeOK
  BY DEF CallInv, BridgeInv
<1>2. DispatchTypeOK /\ BridgeTypeOK => AgentsTypeOK
  BY DEF AgentsTypeOK
<1> QED
  BY <1>1, <1>2, DaemonInAgents, BridgeInAgents, DispatchTypes, PTL

\* What holds of the daemon and of the bridge alone holds of the two together,
\* as they are checked: budget, attempts, sessions and answers of the one, the
\* queue and the commands of the other.
THEOREM AgentsKeepTheirPromises ==
  AgentsSpec =>
    /\ []SpendIsBounded /\ []AttemptsAreBounded /\ []NoSharedSession
    /\ StopHitsItsAsk /\ AnswerStays /\ FinishedIsFinal
    /\ []HandedOutOnce /\ []NoneWaitsBesideAPoll /\ ImplementsRemoteCall
<1>1. CallInv => HandedOutOnce /\ NoneWaitsBesideAPoll
  BY OnceIsHandedOutOnce DEF CallInv, BridgeInv
<1> QED
  BY <1>1, DaemonInAgents, BridgeInAgents, SpendBounded, AttemptsBounded, SessionsUnshared,
     StopsHit, AnswersStay, FinishedStays, PTL
=============================================================================
