---------------------------- MODULE AgentBridge ----------------------------
(***************************************************************************)
(* The local bridge between command lines and a browser tab: a command is  *)
(* queued for the tab's client id, handed to a parked long-poll of the tab *)
(* or to its next one, run in the tab, and its result is posted back for   *)
(* the command line that polls for it.  The bridge keeps all in memory.    *)
(*                                                                         *)
(* One client; others share nothing with it.  What AgentDispatch takes for *)
(* a call that fails, having been carried out or not, is a command here.   *)
(***************************************************************************)
EXTENDS Naturals, Sequences, SequencesExt, FiniteSets

CONSTANTS
  Command,
  MaxInFlight,    \* maxConcurrentCommands
  Mishaps         \* bounds: how many broken connections, long silences and
                  \* refused bodies there may be at first

ASSUME BridgeAssumption == MaxInFlight \in Nat \ {0} /\ Mishaps \subseteq Nat

VARIABLES
  known,     \* the client is registered, with its tokens
  quiet,     \* nothing has been heard of it for clientTtlMs
  loop,      \* where the tab's poll loop is; "closed": the page is gone
  waiters,   \* Seq(BOOLEAN): parked polls, oldest first; is the socket alive
  queue,     \* Seq(Command): pendingByClient
  record,    \* [Command -> none, pending, delivered, completed, failed]
  result,    \* [Command -> none, body]: what the tab has reported
  running,   \* commands at work in the tab
  posting,   \* commands whose result is being read from the request
  caller,    \* [Command -> the command line that submits it]
  starts,    \* ghost: [Command -> how often the tab has started it]
  mishaps    \* what is left of the bound

serverVars == <<known, quiet, waiters, queue, record, result, posting>>
tabVars == <<loop, running, starts>>
bridgeVars == <<serverVars, tabVars, caller, mishaps>>

BridgeInit ==
  /\ known = FALSE /\ quiet = FALSE
  /\ loop = "register"
  /\ waiters = <<>> /\ queue = <<>>
  /\ record = [c \in Command |-> "none"] /\ result = [c \in Command |-> "none"]
  /\ running = {} /\ posting = {}
  /\ caller = [c \in Command |-> "new"]
  /\ starts = [c \in Command |-> 0]
  /\ mishaps \in Mishaps

Mishap == mishaps > 0 /\ mishaps' = mishaps - 1

\* cleanup runs ahead of every request: no request finds an expired client.
Expired == known /\ quiet
-----------------------------------------------------------------------------
(***************************************************************************)
(* Handing a command to the tab.                                           *)
(***************************************************************************)
\* The tab validates what it gets, starts it and goes on polling.  With
\* MaxInFlight at work it first registers once more and waits for a slot.
Start(c) ==
  /\ running' = running \cup {c}
  /\ starts' = [starts EXCEPT ![c] = @ + 1]
  /\ loop' = IF Cardinality(running') >= MaxInFlight THEN "full" ELSE "register"

\* takePendingForClient and the answer: a broken socket loses the command.
\* (What dropClient has failed has left the queue with it.)
Take(alive) ==
  /\ record' = [record EXCEPT ![Head(queue)] = "delivered"]
  /\ IF alive THEN Start(Head(queue)) ELSE UNCHANGED tabVars
  /\ queue' = Tail(queue)

\* Mutant: a command is queued for the next poll, parked or not.
EnqueueAsleep(c) ==
  /\ caller[c] = "sent"
  /\ caller' = [caller EXCEPT ![c] = "waiting"]
  /\ record' = [record EXCEPT ![c] = "pending"]
  /\ queue' = Append(queue, c)
  /\ UNCHANGED <<known, quiet, waiters, result, posting, tabVars, mishaps>>

\* enqueueCommand, once the body is read.  The client was looked up before
\* and may be gone by now.
Enqueue(c) ==
  /\ caller[c] = "sent"
  /\ caller' = [caller EXCEPT ![c] = "waiting"]
  /\ IF waiters = <<>>
     THEN /\ record' = [record EXCEPT ![c] = "pending"]
          /\ queue' = Append(queue, c)
          /\ UNCHANGED <<waiters, tabVars>>
     ELSE \* tryDeliverToClient: the queue is empty while a poll is parked.
          /\ record' = [record EXCEPT ![c] = "delivered"]
          /\ waiters' = Tail(waiters)
          /\ IF Head(waiters) THEN Start(c) ELSE UNCHANGED tabVars
          /\ UNCHANGED queue
  /\ UNCHANGED <<known, quiet, result, posting, mishaps>>
-----------------------------------------------------------------------------
(***************************************************************************)
(* The tab's loop: register, poll, run.                                    *)
(***************************************************************************)
Register ==
  /\ loop \in {"register", "full"} /\ ~Expired
  /\ known' = TRUE /\ quiet' = FALSE
  /\ loop' = IF loop = "full" THEN "parked for a slot" ELSE "poll"
  /\ UNCHANGED <<waiters, queue, record, result, posting, running, starts, caller, mishaps>>

\* A slot is free, or the park is over.
Unpark ==
  /\ loop = "parked for a slot"
  /\ loop' = "register"
  /\ UNCHANGED <<serverVars, running, starts, caller, mishaps>>

\* waitForNextCommand
PollNext ==
  /\ loop = "poll" /\ ~Expired
  /\ quiet' = FALSE
  /\ IF queue # <<>>
     THEN Take(TRUE) /\ UNCHANGED waiters
     ELSE /\ waiters' = Append(waiters, TRUE)
          /\ loop' = "polling"
          /\ UNCHANGED <<queue, record, running, starts>>
  /\ UNCHANGED <<known, result, posting, caller, mishaps>>

\* A parked poll expires: the tab gets null, if it still listens.
PollExpires ==
  \E i \in DOMAIN waiters :
    /\ waiters' = RemoveAt(waiters, i)
    /\ loop' = IF waiters[i] THEN "register" ELSE loop
    /\ UNCHANGED <<known, quiet, queue, record, result, posting, running, starts,
                   caller, mishaps>>

\* The connection of the parked poll breaks and the tab tries again; the
\* bridge sees the close later, with PollExpires at the latest.
PollBreaks ==
  /\ loop = "polling" /\ Mishap
  /\ waiters' = [waiters EXCEPT ![Len(waiters)] = FALSE]
  /\ loop' = "register"
  /\ UNCHANGED <<known, quiet, queue, record, result, posting, running, starts, caller>>

\* The page goes away, and with it what runs in it.
ClosePage ==
  /\ loop # "closed" /\ Mishap
  /\ loop' = "closed"
  /\ running' = {}
  /\ waiters' = [i \in DOMAIN waiters |-> FALSE]
  /\ UNCHANGED <<known, quiet, queue, record, result, posting, starts, caller>>

\* Mutant: a result is taken whatever has become of the record.
PostUnasked(c) ==
  /\ c \in running /\ ~Expired
  /\ running' = running \ {c}
  /\ record' = [record EXCEPT ![c] = "completed"]
  /\ posting' = posting \cup {c} /\ quiet' = FALSE
  /\ UNCHANGED <<known, waiters, queue, result, loop, starts, caller, mishaps>>

\* setCommandResult marks the record, if it is there, then reads the body.
PostResult(c) ==
  /\ c \in running /\ ~Expired
  /\ running' = running \ {c}
  /\ IF record[c] = "delivered"
     THEN /\ record' = [record EXCEPT ![c] = "completed"]
          /\ posting' = posting \cup {c}
          /\ quiet' = FALSE
     ELSE UNCHANGED <<record, posting, quiet>>
  /\ UNCHANGED <<known, waiters, queue, result, loop, starts, caller, mishaps>>

\* It does not reach the bridge: the tab only logs it.
PostFails(c) ==
  /\ c \in running /\ Mishap
  /\ running' = running \ {c}
  /\ UNCHANGED <<serverVars, loop, starts, caller>>

ResultRead(c) ==
  /\ c \in posting
  /\ posting' = posting \ {c}
  /\ result' = [result EXCEPT ![c] = "body"]
  /\ UNCHANGED <<known, quiet, waiters, queue, record, tabVars, caller, mishaps>>

\* The body is too large or the connection breaks: the record stays completed.
ResultLost(c) ==
  /\ c \in posting /\ Mishap
  /\ posting' = posting \ {c}
  /\ UNCHANGED <<known, quiet, waiters, queue, record, result, tabVars, caller>>
-----------------------------------------------------------------------------
(***************************************************************************)
(* The command line.                                                       *)
(***************************************************************************)
\* POST /runtime/commands up to the reading of the body.
Submit(c) ==
  /\ caller[c] = "new" /\ ~Expired
  /\ caller' = [caller EXCEPT ![c] = IF known THEN "sent" ELSE "refused"]
  /\ UNCHANGED <<serverVars, tabVars, mishaps>>

\* waitForCommand: a status poll finds the end.
Hears(c) ==
  /\ caller[c] = "waiting" /\ record[c] \in {"completed", "failed", "none"}
  /\ caller' = [caller EXCEPT ![c] =
       CASE record[c] = "failed"    -> "failed"
         [] record[c] = "none"      -> "unknown"
         [] result[c] = "body"      -> "answered"
         [] OTHER                   -> "no value"]
  /\ UNCHANGED <<serverVars, tabVars, mishaps>>

GivesUp(c) ==
  /\ caller[c] = "waiting"
  /\ caller' = [caller EXCEPT ![c] = "timed out"]
  /\ UNCHANGED <<serverVars, tabVars, mishaps>>
-----------------------------------------------------------------------------
(***************************************************************************)
(* Time.                                                                   *)
(***************************************************************************)
\* clientTtlMs without a sign of the client: its page is gone, or hangs.
FallSilent ==
  /\ known /\ ~quiet
  /\ IF loop = "closed" THEN UNCHANGED mishaps ELSE Mishap
  /\ quiet' = TRUE
  /\ UNCHANGED <<known, waiters, queue, record, result, posting, tabVars, caller>>

\* Mutant: the queue goes and its commands are forgotten.
DropForgetting ==
  /\ Expired
  /\ known' = FALSE
  /\ queue' = <<>> /\ waiters' = <<>>
  /\ loop' = IF loop = "polling" THEN "register" ELSE loop
  /\ quiet' = FALSE
  /\ UNCHANGED <<record, result, posting, running, starts, caller, mishaps>>

\* dropClient, by the cleanup of whichever request comes next.
Drop ==
  /\ Expired
  /\ known' = FALSE
  /\ record' = [c \in Command |-> IF record[c] = "pending" THEN "failed" ELSE record[c]]
  /\ queue' = <<>> /\ waiters' = <<>>
  /\ loop' = IF loop = "polling" THEN "register" ELSE loop
  /\ quiet' = FALSE
  /\ UNCHANGED <<result, posting, running, starts, caller, mishaps>>

\* inFlightCommandTtlMs: a delivered command is given up, its caller may
\* still wait.  A finished one goes commandTtlMs after nobody polls for it.
Reap(c) ==
  /\ \/ record[c] = "delivered" /\ Mishap
     \/ record[c] \in {"completed", "failed"} /\ caller[c] # "waiting" /\ UNCHANGED mishaps
  /\ c \notin posting
  /\ record' = [record EXCEPT ![c] = "none"]
  /\ result' = [result EXCEPT ![c] = "none"]
  /\ UNCHANGED <<known, quiet, waiters, queue, posting, tabVars, caller>>
-----------------------------------------------------------------------------
LoopStep == Register \/ Unpark \/ PollNext

BridgeNext ==
  \/ LoopStep \/ PollExpires \/ PollBreaks \/ ClosePage \/ FallSilent \/ Drop
  \/ \E c \in Command :
       \/ Submit(c) \/ Enqueue(c) \/ Hears(c) \/ GivesUp(c)
       \/ PostResult(c) \/ PostFails(c)
       \/ ResultRead(c) \/ ResultLost(c) \/ Reap(c)

\* An open page goes on polling; a closed one is silent, and the requests of
\* others keep coming.
BridgeFairness ==
  WF_bridgeVars(LoopStep \/ Drop \/ (loop = "closed" /\ FallSilent))

BridgeSpec == BridgeInit /\ [][BridgeNext]_bridgeVars /\ BridgeFairness
-----------------------------------------------------------------------------
BridgeTypeOK ==
  /\ known \in BOOLEAN /\ quiet \in BOOLEAN
  /\ loop \in {"register", "poll", "polling", "full", "parked for a slot", "closed"}
  /\ waiters \in Seq(BOOLEAN)
  /\ queue \in Seq(Command)
  /\ record \in [Command -> {"none", "pending", "delivered", "completed", "failed"}]
  /\ result \in [Command -> {"none", "body"}]
  /\ running \subseteq Command /\ posting \subseteq Command
  /\ caller \in [Command -> {"new", "refused", "sent", "waiting", "answered", "no value",
                             "failed", "unknown", "timed out"}]
  /\ starts \in [Command -> Nat]
  /\ mishaps \in Nat

(***************************************************************************)
(* NoneWaitsBesideAPoll: a pending command is in the queue, once, and none *)
(* is left there while a poll is parked: takePendingForClient, parkWaiter  *)
(* and tryDeliverToClient leave no moment in between.                      *)
(***************************************************************************)
NoneWaitsBesideAPoll ==
  /\ IsInjective(queue) /\ ToSet(queue) = {c \in Command : record[c] = "pending"}
  /\ queue # <<>> => waiters = <<>>

(***************************************************************************)
(* PendingEnds: a command pending for a registered client is handed out or *)
(* failed in the end, page open or closed: dropClient leaves no caller to  *)
(* hang.  (One queued after its client was dropped, in the time its body   *)
(* took, is left: see README.)                                             *)
(***************************************************************************)
PendingEnds ==
  \A c \in Command : known /\ record[c] = "pending" ~> record[c] # "pending"

(***************************************************************************)
(* Seen from the command lines: started once, or lost for good.            *)
(***************************************************************************)
CallOf(c) ==
  LET taken == caller[c] \notin {"new", "refused", "sent"}
      started == starts[c] > 0
  IN CASE ~taken                                          -> "out"
       [] taken /\ ~started /\ record[c] = "pending"      -> "open"
       [] taken /\ ~started /\ record[c] # "pending"      -> "lost"
       [] taken /\ started /\ result[c] = "body"          -> "replied"
       [] taken /\ started /\ result[c] # "body" /\ record[c] = "none" -> "over"
       [] OTHER                                           -> "started"

Heard(c) == IF caller[c] \in {"new", "sent", "waiting"} THEN "nothing" ELSE caller[c]

Remote == INSTANCE RemoteCall
  WITH call <- [c \in Command |-> CallOf(c)], runs <- starts,
       told <- [c \in Command |-> Heard(c)]

(***************************************************************************)
(* ImplementsRemoteCall: the bridge keeps the promise of RemoteCall.  Its  *)
(* polls break, its tab reloads, its records expire while results are on   *)
(* their way, and still a command line that is told of an end is told the  *)
(* truth: only a timeout leaves open whether its command will be started.  *)
(***************************************************************************)
ImplementsRemoteCall == Remote!CallSpec
=============================================================================
