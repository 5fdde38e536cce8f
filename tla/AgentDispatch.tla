--------------------------- MODULE AgentDispatch ---------------------------
(***************************************************************************)
(* The agent daemon.  Blocks that mention the agent are its tasks, and the *)
(* agent:* properties of a block are the task's only record: the user      *)
(* writes them (ask, stop), the daemon writes them (claim, session, done,  *)
(* error), and after a crash the next daemon has nothing else to go by.    *)
(*                                                                         *)
(* One tick at a time scans the tasks; each task it launches runs on its   *)
(* own, interleaved at every await with ticks and with other tasks.        *)
(***************************************************************************)
EXTENDS Naturals, FiniteSets

CONSTANTS
  Block,
  Above,          \* [Block -> Block \cup {NoBlock}]: the block it is nested in
  NoBlock,
  Ambient,        \* blocks of a watcher that delivers to a channel session
  MaxAttempts,    \* MAX_ATTEMPTS
  RunsPerHour,
  MaxConcurrent,
  Allowances      \* bounds: [asks, trouble, failures] there may be at first:
                  \* asks of each block, Stops and crashes, calls that fail

ASSUME DispatchAssumption ==
  /\ Above \in [Block -> Block \cup {NoBlock}]
  /\ NoBlock \notin Block /\ IsFiniteSet(Block)
  /\ Ambient \subseteq Block
  /\ MaxAttempts \in Nat \ {0} /\ RunsPerHour \in Nat /\ MaxConcurrent \in Nat

VARIABLES
  task,      \* [Block -> the agent:* properties]
  reply,     \* [Block -> none, partial, answer, note]: of the last attempt
  ambient,   \* blocks delivered to the channel session and not yet closed
  job,       \* [Block -> the run the daemon holds for it]
  tick,      \* [phase, flagged, view, left]: the tick in progress
  log,       \* launches within the hour, as the daemon remembers them
  minted,    \* sessions the agents have opened
  spawned, lost,   \* ghosts: agents started, records lost, this hour
  runs,      \* ghost: [Block -> agents started since the last ask]
  ask, stop, \* ghosts: [Block -> number of the last ask; the one last stopped]
  allowed    \* what is left of the allowance

ghosts == <<spawned, lost, runs, ask, stop>>
dispatchVars == <<task, reply, ambient, job, tick, log, minted, ghosts, allowed>>

NoJob == [pc |-> "none", attempts |-> 0, session |-> 0, holds |-> {}, stoppable |-> FALSE,
          aborted |-> FALSE, queued |-> {}, result |-> "none", delivered |-> FALSE]
NoTick == [phase |-> "idle", flagged |-> {}, view |-> [b \in {} |-> {}], left |-> {}]

DispatchInit ==
  /\ task = [b \in Block |->
       [status |-> "none", attempts |-> 0, old |-> FALSE, cancel |-> FALSE, session |-> 0]]
  /\ reply = [b \in Block |-> "none"]
  /\ ambient = {}
  /\ job = [b \in Block |-> NoJob]
  /\ tick = NoTick
  /\ log = 0 /\ minted = 0
  /\ spawned = 0 /\ lost = 0
  /\ runs = [b \in Block |-> 0]
  /\ ask = [b \in Block |-> 0] /\ stop = [b \in Block |-> 0]
  /\ allowed \in Allowances

Busy(b) == job[b].pc # "none"

\* Keys of live sessions in the daemon's running map.
Held == UNION {job[b].holds : b \in Block}

At(b, pc) == job[b].pc = pc
Goto(b, pc) == job' = [job EXCEPT ![b].pc = pc]
Leave(b) == job' = [job EXCEPT ![b] = NoJob]

Trouble ==
  /\ allowed.trouble > 0
  /\ allowed' = [allowed EXCEPT !.trouble = @ - 1]

\* A call to the bridge or the channel fails.
CallFails ==
  /\ allowed.failures > 0
  /\ allowed' = [allowed EXCEPT !.failures = @ - 1]

-----------------------------------------------------------------------------
(***************************************************************************)
(* The user and the channel session.                                       *)
(***************************************************************************)
\* Mutant: the flag of an earlier Stop survives the new ask.
AskKeepingCancel(b) ==
  /\ allowed.asks[b] > 0
  /\ task[b].status # "running"
  /\ allowed' = [allowed EXCEPT !.asks[b] = @ - 1]
  /\ task' = [task EXCEPT ![b] = [@ EXCEPT !.status = "asked", !.attempts = 0, !.old = FALSE]]
  /\ ask' = [ask EXCEPT ![b] = @ + 1]
  /\ runs' = [runs EXCEPT ![b] = 0]
  /\ UNCHANGED <<reply, ambient, job, tick, log, minted, spawned, lost, stop>>

\* askAgent: a task that is not in flight starts over, in the same session.
Ask(b) ==
  /\ allowed.asks[b] > 0
  /\ task[b].status # "running"
  /\ allowed' = [allowed EXCEPT !.asks[b] = @ - 1]
  /\ task' = [task EXCEPT ![b] = [@ EXCEPT !.status = "asked", !.attempts = 0,
                                            !.old = FALSE, !.cancel = FALSE]]
  /\ ask' = [ask EXCEPT ![b] = @ + 1]
  /\ runs' = [runs EXCEPT ![b] = 0]
  /\ UNCHANGED <<reply, ambient, job, tick, log, minted, spawned, lost, stop>>

\* cancelAgent: only a running task takes a Stop.
Stop(b) ==
  /\ task[b].status = "running" /\ ~task[b].cancel
  /\ Trouble
  /\ task' = [task EXCEPT ![b].cancel = TRUE]
  /\ stop' = [stop EXCEPT ![b] = ask[b]]
  /\ UNCHANGED <<reply, ambient, job, tick, log, minted, spawned, lost, runs, ask>>

\* The session the daemon delivered to closes the task, by its status alone.
SessionCloses(b) ==
  /\ b \in ambient
  /\ ambient' = ambient \ {b}
  /\ task' = [task EXCEPT ![b].status = "done"]
  /\ UNCHANGED <<reply, job, tick, log, minted, ghosts, allowed>>

\* It drops the event instead.
SessionDrops(b) ==
  /\ b \in ambient
  /\ ambient' = ambient \ {b}
  /\ UNCHANGED <<task, reply, job, tick, log, minted, ghosts, allowed>>

\* A claim reaches STALE_RUNNING_MS.  Runs are capped below it, so no agent
\* of the daemon is still at work on it.
GrowOld(b) ==
  /\ task[b].status = "running" /\ ~task[b].old /\ ~Busy(b)
  /\ task' = [task EXCEPT ![b].old = TRUE]
  /\ UNCHANGED <<reply, ambient, job, tick, log, minted, ghosts, allowed>>
-----------------------------------------------------------------------------
(***************************************************************************)
(* The tick.                                                               *)
(***************************************************************************)
\* Mutant: a crashed run is never taken up again.
DecideOnce(t) == IF t.status = "asked" THEN "pending" ELSE "processed"

\* Mutant: attempts are not counted.
DecideTirelessly(t) ==
  IF t.status = "asked" \/ (t.status = "running" /\ t.old) THEN "pending" ELSE "processed"

\* decidePending, baseline and quiet period passed.
Decide(t) ==
  IF t.status = "asked" THEN "pending"
  ELSE IF t.status = "running" /\ t.old
       THEN IF t.attempts >= MaxAttempts THEN "exhausted" ELSE "pending"
       ELSE "processed"

\* sweepCancellations reads the flags of the runs it could stop ...
Flagged == {b \in Block : job[b].stoppable /\ task[b].cancel}

SweepRead ==
  /\ tick.phase = "idle" /\ Flagged # {}
  /\ tick' = [NoTick EXCEPT !.phase = "sweep", !.flagged = Flagged]
  /\ UNCHANGED <<task, reply, ambient, job, log, minted, ghosts, allowed>>

\* ... and aborts those that are still there.
SweepAbort ==
  /\ tick.phase = "sweep"
  /\ tick' = [NoTick EXCEPT !.phase = "list"]
  /\ job' = [b \in Block |->
       IF b \in tick.flagged /\ job[b].stoppable
       THEN [job[b] EXCEPT !.aborted = TRUE, !.stoppable = FALSE] ELSE job[b]]
  /\ UNCHANGED <<task, reply, ambient, log, minted, ghosts, allowed>>

\* blockViews: one snapshot of all the tasks, to be gone through after it.
\* The scan passes over what it shows as processed.
List ==
  /\ tick.phase = "list" \/ (tick.phase = "idle" /\ Flagged = {})
  /\ LET view == [b \in Block |-> [verdict |-> Decide(task[b]),
                                   stop |-> task[b].cancel /\ task[b].status = "running"]]
         left == {b \in Block : view[b].verdict # "processed" \/ view[b].stop}
     IN tick' = IF left = {} THEN NoTick
                ELSE [phase |-> "scan", flagged |-> {}, left |-> left,
                      view |-> [b \in left |-> view[b]]]
  /\ UNCHANGED <<task, reply, ambient, job, log, minted, ghosts, allowed>>

Scanning(b) == tick.phase = "scan" /\ b \in tick.left

\* The scan is through with b.
Past(b) == tick' = IF tick.left = {b} THEN NoTick ELSE [tick EXCEPT !.left = @ \ {b}]

\* A flag on a running task of which the daemon holds no run.
Inert(b) == tick.view[b].stop /\ ~Busy(b)

\* Its removal is the one await of the scan.
StartClearing(b) ==
  /\ Scanning(b) /\ Inert(b)
  /\ tick' = [tick EXCEPT !.phase = "clear", !.flagged = {b}]
  /\ UNCHANGED <<task, reply, ambient, job, log, minted, ghosts, allowed>>

ClearInert(b) ==
  /\ tick.phase = "clear" /\ b \in tick.flagged
  /\ task' = [task EXCEPT ![b].cancel = FALSE]
  /\ tick' = IF tick.left = {b} THEN NoTick
             ELSE [tick EXCEPT !.phase = "scan", !.flagged = {}, !.left = @ \ {b}]
  /\ UNCHANGED <<reply, ambient, job, log, minted, ghosts, allowed>>

PassOver(b) ==
  /\ Scanning(b) /\ ~Inert(b)
  /\ Busy(b) \/ tick.view[b].verdict = "processed"
  /\ Past(b)
  /\ UNCHANGED <<task, reply, ambient, job, log, minted, ghosts, allowed>>

LaunchPark(b) ==
  /\ Scanning(b) /\ ~Inert(b) /\ ~Busy(b)
  /\ tick.view[b].verdict = "exhausted"
  /\ Goto(b, "park")
  /\ Past(b)
  /\ UNCHANGED <<task, reply, ambient, log, minted, ghosts, allowed>>

CapacityLeft == Cardinality({b \in Block : Busy(b)}) < MaxConcurrent
BudgetLeft == log < RunsPerHour

\* The launch is recorded before the task body runs.
Launch(b) ==
  /\ Scanning(b) /\ ~Inert(b) /\ ~Busy(b)
  /\ tick.view[b].verdict = "pending"
  /\ CapacityLeft /\ BudgetLeft
  /\ log' = log + 1
  /\ Goto(b, "read")
  /\ Past(b)
  /\ UNCHANGED <<task, reply, ambient, minted, ghosts, allowed>>

\* No slot or no budget: the rest of the scan is put off.
Defer(b) ==
  /\ Scanning(b) /\ ~Inert(b) /\ ~Busy(b)
  /\ tick.view[b].verdict = "pending"
  /\ ~(CapacityLeft /\ BudgetLeft)
  /\ tick' = NoTick
  /\ UNCHANGED <<task, reply, ambient, job, log, minted, ghosts, allowed>>

\* A read or a write of the tick fails.  The sweep's failure is caught there.
TickFails ==
  /\ tick.phase \in {"sweep", "list", "clear"}
  /\ CallFails
  /\ tick' = IF tick.phase = "sweep" THEN [NoTick EXCEPT !.phase = "list"] ELSE NoTick
  /\ UNCHANGED <<task, reply, ambient, job, log, minted, ghosts>>

TickStep ==
  \/ SweepRead \/ SweepAbort \/ List
  \/ \E b \in Block :
       \/ StartClearing(b) \/ ClearInert(b) \/ PassOver(b)
       \/ LaunchPark(b) \/ Launch(b) \/ Defer(b)
-----------------------------------------------------------------------------
(***************************************************************************)
(* A task launched: processMention up to the agent.                        *)
(***************************************************************************)
Refund == log' = IF log = 0 THEN 0 ELSE log - 1

\* Mutant: the tick's view is taken for good.
ReadTaskTrusting(b) ==
  /\ At(b, "read")
  /\ job' = [job EXCEPT ![b].pc = "thread", ![b].attempts = task[b].attempts,
                        ![b].session = task[b].session]
  /\ UNCHANGED <<task, reply, ambient, tick, log, minted, ghosts, allowed>>

\* getBlock: the decision is made again on a fresh read.
ReadTask(b) ==
  /\ At(b, "read")
  /\ IF Decide(task[b]) = "pending"
     THEN /\ job' = [job EXCEPT ![b].pc = "thread", ![b].attempts = task[b].attempts,
                                ![b].session = task[b].session]
          /\ UNCHANGED log
     ELSE Leave(b) /\ Refund
  /\ UNCHANGED <<task, reply, ambient, tick, minted, ghosts, allowed>>

\* ancestors: the session of the thread, which only one run may resume.
JoinThread(b) ==
  LET s == IF job[b].session # 0 THEN job[b].session
           ELSE IF Above[b] = NoBlock THEN 0 ELSE task[Above[b]].session
  IN /\ At(b, "thread")
     /\ IF s \in Held
        THEN Leave(b) /\ Refund
        ELSE /\ job' = [job EXCEPT ![b].pc = "claim", ![b].session = s,
                                   ![b].holds = IF s = 0 THEN {} ELSE {s}]
             /\ UNCHANGED log
     /\ UNCHANGED <<task, reply, ambient, tick, minted, ghosts, allowed>>

Claimed(b) ==
  [task EXCEPT ![b] = [@ EXCEPT !.status = "running", !.attempts = job[b].attempts + 1,
                                !.old = FALSE]]

\* Mutant: a task taken up again counts as new.
ClaimAfresh(b) ==
  /\ At(b, "claim")
  /\ task' = [task EXCEPT ![b] = [@ EXCEPT !.status = "running", !.attempts = 1, !.old = FALSE]]
  /\ reply' = [reply EXCEPT ![b] = "none"]
  /\ Goto(b, "verify")
  /\ UNCHANGED <<ambient, tick, log, minted, ghosts, allowed>>

\* setTaskProps: the claim, under a fresh reply key.
Claim(b) ==
  /\ At(b, "claim")
  /\ task' = Claimed(b)
  /\ reply' = [reply EXCEPT ![b] = "none"]
  /\ Goto(b, "verify")
  /\ UNCHANGED <<ambient, tick, log, minted, ghosts, allowed>>

\* The claim is read back.  With one daemon per client (the pidfile) only an
\* ask can have removed its stamp, which goes with the attempts.
VerifyClaim(b) ==
  /\ At(b, "verify")
  /\ IF task[b].attempts # 0
     THEN job' = [job EXCEPT ![b].pc = "spawn", ![b].stoppable = TRUE] /\ UNCHANGED log
     ELSE Leave(b) /\ Refund
  /\ UNCHANGED <<task, reply, ambient, tick, minted, ghosts, allowed>>

DeliverToChannel(b) ==
  /\ At(b, "spawn") /\ b \in Ambient
  /\ ambient' = ambient \cup {b}
  /\ spawned' = spawned + 1
  /\ runs' = [runs EXCEPT ![b] = @ + 1]
  /\ Leave(b)
  /\ UNCHANGED <<task, reply, tick, log, minted, lost, ask, stop, allowed>>

\* runTask: an aborted signal keeps the child from being spawned.
SpawnAgent(b) ==
  /\ At(b, "spawn") /\ b \notin Ambient
  /\ IF job[b].aborted
     THEN /\ job' = [job EXCEPT ![b].pc = "ended", ![b].result = "note"]
          /\ UNCHANGED <<spawned, runs>>
     ELSE /\ Goto(b, "agent")
          /\ spawned' = spawned + 1
          /\ runs' = [runs EXCEPT ![b] = @ + 1]
  /\ UNCHANGED <<task, reply, ambient, tick, log, minted, lost, ask, stop, allowed>>
-----------------------------------------------------------------------------
(***************************************************************************)
(* The agent at work.  What it tells is written through one chain.         *)
(***************************************************************************)
\* Mutant: only the sessions that were resumed are held.
SessionKnownUnheld(b) ==
  /\ At(b, "agent") /\ job[b].session = 0
  /\ minted' = minted + 1
  /\ job' = [job EXCEPT ![b].session = minted', ![b].queued = @ \cup {"session"}]
  /\ UNCHANGED <<task, reply, ambient, tick, log, ghosts, allowed>>

\* The session event of a fresh run: its key is held before it is written.
SessionKnown(b) ==
  /\ At(b, "agent") /\ job[b].session = 0
  /\ minted' = minted + 1
  /\ job' = [job EXCEPT ![b].session = minted', ![b].holds = @ \cup {minted'},
                        ![b].queued = @ \cup {"session"}]
  /\ UNCHANGED <<task, reply, ambient, tick, log, ghosts, allowed>>

TextArrives(b) ==
  /\ At(b, "agent") /\ "text" \notin job[b].queued /\ reply[b] = "none"
  /\ job' = [job EXCEPT ![b].queued = @ \cup {"text"}]
  /\ UNCHANGED <<task, reply, ambient, tick, log, minted, ghosts, allowed>>

WriteQueued(b) ==
  /\ \E w \in job[b].queued :
       /\ job' = [job EXCEPT ![b].queued = @ \ {w}]
       /\ task' = IF w = "session" THEN [task EXCEPT ![b].session = job[b].session] ELSE task
       /\ reply' = IF w = "text" THEN [reply EXCEPT ![b] = "partial"] ELSE reply
  /\ UNCHANGED <<ambient, tick, log, minted, ghosts, allowed>>

\* Written or not, a failed progress write is only logged.
QueuedWriteFails(b) ==
  /\ CallFails
  /\ \E w \in job[b].queued : job' = [job EXCEPT ![b].queued = @ \ {w}]
  /\ UNCHANGED <<task, reply, ambient, tick, log, minted, ghosts>>

\* The child exits: with an answer, even if a Stop came as it did, or without.
AgentEnds(b) ==
  /\ At(b, "agent")
  /\ \E r \in {"answer", "note"} :
       job' = [job EXCEPT ![b].pc = "ended", ![b].result = r]
  /\ UNCHANGED <<task, reply, ambient, tick, log, minted, ghosts, allowed>>

\* Mutant: the chain of progress writes is not waited for.
WriteReplyAtOnce(b) ==
  /\ At(b, "ended")
  /\ reply' = [reply EXCEPT ![b] = job[b].result]
  /\ job' = [job EXCEPT ![b].pc = "close", ![b].delivered = TRUE]
  /\ UNCHANGED <<task, ambient, tick, log, minted, ghosts, allowed>>

\* The terminal reply, after every progress write.
WriteReply(b) ==
  /\ At(b, "ended") /\ job[b].queued = {}
  /\ reply' = [reply EXCEPT ![b] = job[b].result]
  /\ job' = [job EXCEPT ![b].pc = "close", ![b].delivered = TRUE]
  /\ UNCHANGED <<task, ambient, tick, log, minted, ghosts, allowed>>

Closed(b, status) ==
  [task EXCEPT ![b] = [@ EXCEPT !.status = status, !.cancel = FALSE, !.old = FALSE,
                         !.session = IF job[b].session = 0 THEN task[b].session
                                     ELSE job[b].session]]

\* The terminal properties, and the finally of the run.
CloseTask(b) ==
  /\ At(b, "close")
  /\ task' = Closed(b, IF job[b].result = "answer" THEN "done" ELSE "error")
  /\ Leave(b)
  /\ UNCHANGED <<reply, ambient, tick, log, minted, ghosts, allowed>>
-----------------------------------------------------------------------------
(***************************************************************************)
(* Failures.  A call that fails may have been carried out all the same.    *)
(***************************************************************************)
\* Before the claim there is nothing to clean up, and no refund either.
FailsEarly(b) ==
  /\ At(b, "read") \/ At(b, "thread") \/ At(b, "park")
  /\ CallFails
  /\ Leave(b)
  /\ UNCHANGED <<task, reply, ambient, tick, log, minted, ghosts>>

ClaimFails(b) ==
  /\ At(b, "claim")
  /\ CallFails
  /\ task' \in {task, Claimed(b)}
  /\ Goto(b, "caught")
  /\ UNCHANGED <<reply, ambient, tick, log, minted, ghosts>>

\* getBlock, getSubtree, the channel or the spawn itself.
StartFails(b) ==
  /\ At(b, "verify") \/ At(b, "spawn")
  /\ CallFails
  /\ Goto(b, "caught")
  /\ UNCHANGED <<task, reply, ambient, tick, log, minted, ghosts>>

\* All the retries of the terminal reply.
ReplyFails(b) ==
  /\ At(b, "ended") /\ job[b].queued = {}
  /\ CallFails
  /\ reply' \in {reply, [reply EXCEPT ![b] = job[b].result]}
  /\ Goto(b, "caught")
  /\ UNCHANGED <<task, ambient, tick, log, minted, ghosts>>

CloseFails(b) ==
  /\ At(b, "close")
  /\ CallFails
  /\ task' \in {task, Closed(b, IF job[b].result = "answer" THEN "done" ELSE "error")}
  /\ Goto(b, "caught")
  /\ UNCHANGED <<reply, ambient, tick, log, minted, ghosts>>

\* Mutant: whatever ends without an answer gives its slot back.
NoteRefunding(b) ==
  /\ At(b, "caught") /\ job[b].queued = {}
  /\ reply' = IF job[b].delivered THEN reply ELSE [reply EXCEPT ![b] = "note"]
  /\ log' = IF log = 0 THEN 0 ELSE log - 1
  /\ Goto(b, "flip")
  /\ UNCHANGED <<task, ambient, tick, minted, ghosts, allowed>>

\* The infrastructure note, unless a terminal reply is there: best effort.
Note(b) ==
  /\ At(b, "caught") /\ job[b].queued = {}
  /\ IF job[b].delivered THEN UNCHANGED <<reply, allowed>>
     ELSE \/ reply' = [reply EXCEPT ![b] = "note"] /\ UNCHANGED allowed
          \/ CallFails /\ UNCHANGED reply
  /\ Goto(b, "flip")
  /\ UNCHANGED <<task, ambient, tick, log, minted, ghosts>>

\* status: error, best effort, and the finally of the run.
Flip(b) ==
  /\ At(b, "flip")
  /\ \/ /\ task' = [task EXCEPT ![b] = [@ EXCEPT !.status = "error", !.cancel = FALSE,
                                                 !.old = FALSE]]
        /\ UNCHANGED allowed
     \/ CallFails /\ UNCHANGED task
  /\ Leave(b)
  /\ UNCHANGED <<reply, ambient, tick, log, minted, ghosts>>

\* parkExhausted: decided again on a fresh read; a cancel flag stays.
Park(b) ==
  /\ At(b, "park")
  /\ task' = IF Decide(task[b]) = "exhausted"
             THEN [task EXCEPT ![b] = [@ EXCEPT !.status = "error", !.old = FALSE]] ELSE task
  /\ Leave(b)
  /\ UNCHANGED <<reply, ambient, tick, log, minted, ghosts, allowed>>

\* The daemon dies, its agents with it, and another starts.  It reads the
\* launches back from the state file, to which they are written without
\* waiting: the last ones may be missing.
Die ==
  /\ Trouble
  /\ job' = [b \in Block |-> NoJob]
  /\ tick' = NoTick
  /\ \E n \in 0 .. log : log' = n /\ lost' = lost + (log - n)
  /\ UNCHANGED <<task, reply, ambient, minted, spawned, runs, ask, stop>>

\* The hour is over.  (Taken when the budget is spent, and while no launch is
\* on its way to its agent, so that the ghost counts an agent in the hour of
\* its record.)
HourPasses ==
  /\ log = RunsPerHour
  /\ \A b \in Block : job[b].pc \notin {"read", "thread", "claim", "verify", "spawn"}
  /\ log' = 0 /\ spawned' = 0 /\ lost' = 0
  /\ UNCHANGED <<task, reply, ambient, job, tick, minted, runs, ask, stop, allowed>>

JobStep(b) ==
  \/ ReadTask(b) \/ JoinThread(b) \/ Claim(b) \/ VerifyClaim(b)
  \/ DeliverToChannel(b) \/ SpawnAgent(b) \/ AgentEnds(b) \/ WriteQueued(b)
  \/ WriteReply(b) \/ CloseTask(b) \/ Note(b) \/ Flip(b) \/ Park(b)

JobFails(b) ==
  \/ FailsEarly(b) \/ ClaimFails(b) \/ StartFails(b) \/ QueuedWriteFails(b)
  \/ ReplyFails(b) \/ CloseFails(b)

Outside(b) ==
  \/ Ask(b) \/ Stop(b) \/ SessionCloses(b) \/ SessionDrops(b) \/ GrowOld(b)
  \/ SessionKnown(b) \/ TextArrives(b)

\* Between its awaits the scan runs to completion.
DispatchNext ==
  \/ TickStep
  \/ /\ tick.phase # "scan"
     /\ \/ \E b \in Block : JobStep(b) \/ JobFails(b) \/ Outside(b)
        \/ TickFails \/ Die \/ HourPasses

TimePasses == HourPasses \/ \E b \in Block : GrowOld(b)

\* The daemon ticks for ever; at the awaits of its ticks what a job waits for
\* arrives, agents time out, claims age and hours pass.
DispatchFairness ==
  /\ WF_dispatchVars(TickStep)
  /\ \A b \in Block : WF_dispatchVars(JobStep(b))
  /\ WF_dispatchVars(TimePasses)

DispatchSpec == DispatchInit /\ [][DispatchNext]_dispatchVars /\ DispatchFairness
-----------------------------------------------------------------------------
Tasks == [status : {"none", "asked", "running", "done", "error"}, attempts : 0 .. MaxAttempts,
          old : BOOLEAN, cancel : BOOLEAN, session : 0 .. minted]
Pcs == {"none", "park", "read", "thread", "claim", "verify", "spawn", "agent", "ended",
        "close", "caught", "flip"}

Views == [verdict : {"pending", "exhausted", "processed"}, stop : BOOLEAN]

DispatchTypeOK ==
  /\ task \in [Block -> Tasks]
  /\ reply \in [Block -> {"none", "partial", "answer", "note"}]
  /\ ambient \subseteq Ambient
  /\ job \in [Block -> [pc : Pcs, attempts : 0 .. MaxAttempts, session : 0 .. minted,
                        holds : SUBSET (1 .. minted), stoppable : BOOLEAN,
                        aborted : BOOLEAN, queued : SUBSET {"session", "text"},
                        result : {"none", "answer", "note"}, delivered : BOOLEAN]]
  /\ tick.phase \in {"idle", "sweep", "list", "scan", "clear"}
  /\ tick.flagged \subseteq Block /\ tick.left \subseteq DOMAIN tick.view
  /\ tick.view \in UNION {[S -> Views] : S \in SUBSET Block}
  /\ log \in 0 .. RunsPerHour
  /\ spawned \in Nat /\ lost \in Nat /\ minted \in Nat

(***************************************************************************)
(* SpendIsBounded: in an hour no more agents start than runsPerHour, save  *)
(* for the records a crash caught on their way to the state file: refunds, *)
(* failures and restarts do not re-arm the budget.                         *)
(***************************************************************************)
SpendIsBounded == spawned <= RunsPerHour + lost

(***************************************************************************)
(* AttemptsAreBounded: one ask starts at most MAX_ATTEMPTS agents, however *)
(* often the daemon dies between a run and its answer.  (Those of a        *)
(* channel session may belong to an ask it has closed in the meantime.)    *)
(***************************************************************************)
AttemptsAreBounded == \A b \in Block \ Ambient : runs[b] <= MaxAttempts

(***************************************************************************)
(* NoSharedSession: two agents at work never speak in the same session,    *)
(* also when the one learned its session only after it had started.        *)
(***************************************************************************)
NoSharedSession ==
  \A b, c \in Block :
    b # c /\ At(b, "agent") /\ At(c, "agent") /\ job[b].session # 0
      => job[b].session # job[c].session

(***************************************************************************)
(* StopHitsItsAsk: an agent is stopped, or kept from starting, only for a  *)
(* Stop of the ask it answers; a flag left over from an earlier one stops  *)
(* nothing.                                                                *)
(***************************************************************************)
StopHitsItsAsk ==
  [][\A b \in Block \ Ambient :
       ~job[b].aborted /\ job'[b].aborted /\ (At(b, "spawn") \/ At(b, "agent"))
         => stop[b] = ask[b]]_dispatchVars

(***************************************************************************)
(* AnswerStays: once the terminal reply is known to be delivered, nothing  *)
(* of the same run replaces it: no late progress, no infrastructure note.  *)
(***************************************************************************)
AnswerStays == [][\A b \in Block : job[b].delivered => reply'[b] = reply[b]]_dispatchVars

(***************************************************************************)
(* FinishedIsFinal: a finished task runs again only when asked again, also *)
(* if it finished after the tick took its view of the tasks.  (A channel   *)
(* session may close a task between the last read and the claim.)          *)
(***************************************************************************)
FinishedIsFinal ==
  [][\A b \in Block \ Ambient :
       task[b].status \in {"done", "error"} => task'[b].status # "running"]_dispatchVars

(***************************************************************************)
(* AskSettles: what is asked ends answered or in error, through crashes,   *)
(* lost writes and sessions that never answer: there is always a time when *)
(* nothing asked is left open.                                             *)
(***************************************************************************)
AskSettles == []<>(\A b \in Block : task[b].status \notin {"asked", "running"})
=============================================================================
