----------------------- MODULE AgentDispatch_proofs ------------------------
(***************************************************************************)
(* For any blocks, nesting, watchers, attempts, budgets and concurrency,   *)
(* and however the daemon fails and dies: types, the bounds on spend and   *)
(* attempts, one agent per session, and what a Stop, an answer and the end *)
(* of a task do.                                                           *)
(***************************************************************************)
EXTENDS AgentDispatch, Integers, FiniteSetTheorems, TLAPS

Jobs == [pc : Pcs, attempts : 0 .. MaxAttempts, session : 0 .. minted,
         holds : SUBSET (1 .. minted), stoppable : BOOLEAN,
         aborted : BOOLEAN, queued : SUBSET {"session", "text"},
         result : {"none", "answer", "note"}, delivered : BOOLEAN]

Ticks == [phase : {"idle", "sweep", "list", "scan", "clear"}, flagged : SUBSET Block,
          view : UNION {[S -> Views] : S \in SUBSET Block}, left : SUBSET Block]

\* The types, the shape of a tick and the ranges of the ghosts included.
Shape ==
  /\ DispatchTypeOK
  /\ tick \in Ticks
  /\ runs \in [Block -> Nat] /\ ask \in [Block -> Nat] /\ stop \in [Block -> Nat]

(***************************************************************************)
(* The strengthening, per block b with properties t, run j and n agents    *)
(* started since its last ask.                                             *)
(*                                                                         *)
(* InOrder: an ask starts counting at 0; a run that has read the task is   *)
(* about to take an attempt there is; and, but for channel tasks, which    *)
(* others close, every agent started is one of the task's attempts, what a *)
(* run has read is still so when it claims, and no ask comes in between    *)
(* while an agent is on its way or at work.                                *)
(***************************************************************************)
AtWork == {"verify", "spawn", "agent", "ended", "close"}

InOrder(b, t, j, n) ==
  /\ t.status = "asked" => t.attempts = 0
  /\ j.pc \in {"thread", "claim"} => j.attempts < MaxAttempts
  /\ b \notin Ambient =>
       /\ n <= t.attempts
       /\ j.pc \in {"thread", "claim"} =>
            t.attempts = j.attempts /\ t.status \in {"asked", "running"}
       /\ j.pc \in {"verify", "spawn"} => n < t.attempts
       /\ j.pc \in AtWork => t.status = "running"

\* Keyed: the session of a run is among the keys it holds.
Keyed(j) ==
  j.pc \in {"claim", "verify", "spawn", "agent"} /\ j.session # 0 => j.session \in j.holds

\* Delivered: after the terminal reply there is no progress left to write.
Delivered(j) == j.delivered => j.pc \in {"close", "caught", "flip"} /\ j.queued = {}

\* Stopped: a cancel flag is of the ask a, and only a run that has claimed
\* can be stopped.
Stopped(t, j, a, s) ==
  /\ t.cancel => s = a
  /\ j.stoppable => j.pc \in {"spawn", "agent", "ended", "close", "caught", "flip"}

\* Swept: a run the sweep of the tick k has flagged has a Stop of the ask it answers,
\* as long as it is at work: it is not another run of the block.
Swept(k, b, j, a, s) ==
  k.phase = "sweep" /\ b \in k.flagged =>
    /\ j.pc \notin {"park", "read", "thread", "claim", "verify"}
    /\ b \notin Ambient /\ j.pc \in AtWork => s = a

\* Budgeted: every agent of the hour, and every launch on its way to one,
\* has its record in the log, unless a crash has lost it.
Underway == {b \in Block : job[b].pc \in {"read", "thread", "claim", "verify", "spawn"}}
Budgeted == spawned + Cardinality(Underway) <= log + lost

BlockInv(b) ==
  /\ InOrder(b, task[b], job[b], runs[b])
  /\ Keyed(job[b]) /\ Delivered(job[b])
  /\ Stopped(task[b], job[b], ask[b], stop[b])
  /\ Swept(tick, b, job[b], ask[b], stop[b])

\* HeldOnce: no two runs hold the same key.
HeldOnce == \A b, c \in Block : b # c => job[b].holds \cap job[c].holds = {}

DispatchInv == Shape /\ HeldOnce /\ Budgeted /\ \A b \in Block : BlockInv(b)
-----------------------------------------------------------------------------
(***************************************************************************)
(* A step of one block.                                                    *)
(***************************************************************************)
Weight(j) == IF j.pc \in {"read", "thread", "claim", "verify", "spawn"} THEN 1 ELSE 0

LEMMA UnderwayIs ==
  ASSUME NEW b \in Block, job \in [Block -> Jobs], NEW j, job' = [job EXCEPT ![b] = j]
  PROVE  /\ Cardinality(Underway) \in Nat /\ Cardinality(Underway') \in Nat
         /\ Cardinality(Underway') + Weight(job[b]) = Cardinality(Underway) + Weight(j)
<1> DEFINE rest == Underway \ {b}
<1>1. IsFiniteSet(Underway) /\ IsFiniteSet(Underway') /\ IsFiniteSet(rest)
  <2>1. IsFiniteSet(Block)
    BY DispatchAssumption
  <2>2. Underway \subseteq Block /\ Underway' \subseteq Block /\ rest \subseteq Block
    BY DEF Underway
  <2> QED
    BY <2>1, <2>2, FS_Subset
<1>2. Cardinality(Underway) \in Nat /\ Cardinality(Underway') \in Nat
      /\ Cardinality(rest) \in Nat
  BY <1>1, FS_CardinalityType
<1>3. /\ Underway = IF Weight(job[b]) = 1 THEN rest \cup {b} ELSE rest
      /\ Underway' = IF Weight(j) = 1 THEN rest \cup {b} ELSE rest
  BY DEF Underway, Weight
<1>4. b \notin rest /\ Cardinality(rest \cup {b}) = Cardinality(rest) + 1
  BY <1>1, FS_AddElement
<1>5. Weight(job[b]) \in {0, 1} /\ Weight(j) \in {0, 1}
  BY DEF Weight
<1> HIDE DEF rest
<1> QED
  BY <1>2, <1>3, <1>4, <1>5

\* Types grow with the sessions there are.
LEMMA TypesGrow ==
  ASSUME minted \in Nat, minted' \in Nat, minted' >= minted
  PROVE  Jobs \subseteq Jobs' /\ Tasks \subseteq Tasks'
<1>1. 0 .. minted \subseteq 0 .. minted' /\ 1 .. minted \subseteq 1 .. minted'
  OBVIOUS
<1>2. Jobs \subseteq Jobs'
  BY <1>1 DEF Jobs
<1>3. Tasks \subseteq Tasks'
  BY <1>1 DEF Tasks
<1> QED
  BY <1>2, <1>3

LEMMA BlockStep ==
  ASSUME DispatchInv, NEW b \in Block, NEW j, NEW t,
         minted' \in Nat, minted' >= minted,
         j \in Jobs', t \in Tasks',
         job' = [job EXCEPT ![b] = j], task' = [task EXCEPT ![b] = t],
         tick' \in Ticks, tick'.left \subseteq DOMAIN tick'.view,
         tick'.phase = "sweep" => tick' = tick,
         reply' \in [Block -> {"none", "partial", "answer", "note"}],
         ambient' \subseteq Ambient,
         log' \in 0 .. RunsPerHour, spawned' \in Nat, lost' = lost,
         spawned' + Weight(j) + log <= spawned + Weight(job[b]) + log',
         runs' \in [Block -> Nat], ask' \in [Block -> Nat], stop' \in [Block -> Nat],
         \A c \in Block \ {b} : runs'[c] = runs[c] /\ ask'[c] = ask[c] /\ stop'[c] = stop[c],
         \A c \in Block \ {b} : j.holds \cap job[c].holds = {},
         InOrder(b, t, j, runs'[b]), Keyed(j), Delivered(j),
         Stopped(t, j, ask'[b], stop'[b]),
         Swept(tick', b, j, ask'[b], stop'[b])
  PROVE  DispatchInv'
<1>1. /\ job \in [Block -> Jobs] /\ task \in [Block -> Tasks] /\ minted \in Nat
      /\ log \in Nat /\ spawned \in Nat /\ lost \in Nat
  BY DispatchAssumption DEF DispatchInv, Shape, DispatchTypeOK, Jobs
<1>2. Jobs \subseteq Jobs' /\ Tasks \subseteq Tasks'
  BY <1>1, TypesGrow
<1>3. /\ job'[b] = j /\ task'[b] = t
      /\ \A c \in Block \ {b} : job'[c] = job[c] /\ task'[c] = task[c]
  BY <1>1
<1>4. job' \in [Block -> Jobs'] /\ task' \in [Block -> Tasks']
  BY <1>1, <1>2
<1>5. Shape'
  BY <1>1, <1>4 DEF Shape, DispatchTypeOK, Jobs, Ticks
<1>6. HeldOnce'
  BY <1>3 DEF HeldOnce, DispatchInv
<1>7. Budgeted'
  <2>1. /\ Cardinality(Underway) \in Nat /\ Cardinality(Underway') \in Nat
        /\ Cardinality(Underway') + Weight(job[b]) = Cardinality(Underway) + Weight(j)
    BY <1>1, UnderwayIs
  <2>2. Weight(job[b]) \in Nat /\ Weight(j) \in Nat /\ log' \in Nat
    BY DispatchAssumption DEF Weight
  <2>3. spawned + Cardinality(Underway) <= log + lost
    BY DEF DispatchInv, Budgeted
  <2> QED
    BY <1>1, <2>1, <2>2, <2>3 DEF Budgeted
<1>8. ASSUME NEW c \in Block
      PROVE  BlockInv(c)'
  <2>1. Swept(tick, c, job[c], ask[c], stop[c]) /\ BlockInv(c)
    BY DEF DispatchInv, BlockInv
  <2>2. CASE c = b
      BY <1>3, <2>2 DEF BlockInv, InOrder, Keyed, Delivered, Stopped, Swept
  <2>3. CASE c # b
    <3>1. /\ job'[c] = job[c] /\ task'[c] = task[c]
          /\ runs'[c] = runs[c] /\ ask'[c] = ask[c] /\ stop'[c] = stop[c]
      BY <1>3, <2>3
    <3>2. Swept(tick', c, job[c], ask[c], stop[c])
      BY <2>1, <3>1 DEF Swept
    <3> QED
      BY <2>1, <3>1, <3>2 DEF BlockInv, InOrder, Keyed, Delivered, Stopped, Swept
  <2> QED
    BY <2>2, <2>3
<1> QED
  BY <1>5, <1>6, <1>7, <1>8 DEF DispatchInv

\* What the invariant says of a block.
LEMMA Facts ==
  ASSUME DispatchInv, NEW b \in Block
  PROVE  /\ job \in [Block -> Jobs] /\ task \in [Block -> Tasks]
         /\ job[b] \in Jobs /\ task[b] \in Tasks
         /\ tick \in Ticks /\ tick.left \subseteq DOMAIN tick.view
         /\ reply \in [Block -> {"none", "partial", "answer", "note"}]
         /\ ambient \subseteq Ambient
         /\ log \in 0 .. RunsPerHour /\ spawned \in Nat /\ lost \in Nat /\ minted \in Nat
         /\ runs \in [Block -> Nat] /\ ask \in [Block -> Nat] /\ stop \in [Block -> Nat]
         /\ InOrder(b, task[b], job[b], runs[b])
         /\ Keyed(job[b]) /\ Delivered(job[b])
         /\ Stopped(task[b], job[b], ask[b], stop[b])
         /\ Swept(tick, b, job[b], ask[b], stop[b])
         /\ \A c \in Block \ {b} : job[b].holds \cap job[c].holds = {}
<1>1. Shape /\ HeldOnce /\ BlockInv(b)
  BY DEF DispatchInv
<1>2. \A c \in Block \ {b} : job[b].holds \cap job[c].holds = {}
  BY <1>1 DEF HeldOnce
<1>3. job \in [Block -> Jobs] /\ task \in [Block -> Tasks]
  BY <1>1 DEF Shape, DispatchTypeOK, Jobs
<1> QED
  BY <1>1, <1>2, <1>3 DEF Shape, DispatchTypeOK, BlockInv

\* A step of the run or of the properties of one block, that starts no agent,
\* learns no session and is none of the tick.
LEMMA QuietStep ==
  ASSUME DispatchInv, NEW b \in Block, NEW j \in Jobs, NEW t \in Tasks,
         job' = [job EXCEPT ![b] = j], task' = [task EXCEPT ![b] = t],
         tick' = tick, minted' = minted, ghosts' = ghosts,
         reply' \in [Block -> {"none", "partial", "answer", "note"}],
         ambient' \subseteq Ambient, log' \in 0 .. RunsPerHour,
         Weight(j) + log <= Weight(job[b]) + log',
         j.holds \subseteq job[b].holds,
         InOrder(b, t, j, runs[b]), Keyed(j), Delivered(j),
         Stopped(t, j, ask[b], stop[b]), Swept(tick, b, j, ask[b], stop[b])
  PROVE  DispatchInv'
<1>1. /\ tick \in Ticks /\ tick.left \subseteq DOMAIN tick.view
      /\ log \in 0 .. RunsPerHour /\ spawned \in Nat /\ minted \in Nat
      /\ runs \in [Block -> Nat] /\ ask \in [Block -> Nat] /\ stop \in [Block -> Nat]
      /\ \A c \in Block \ {b} : job[b].holds \cap job[c].holds = {}
  BY Facts
<1>2. j \in Jobs' /\ t \in Tasks'
  BY DEF Jobs, Tasks
<1>3. /\ spawned' = spawned /\ lost' = lost /\ runs' = runs /\ ask' = ask /\ stop' = stop
  BY DEF ghosts
<1>4. \A c \in Block \ {b} : j.holds \cap job[c].holds = {}
  BY <1>1
<1>5. spawned' + Weight(j) + log <= spawned + Weight(job[b]) + log'
  <2>1. Weight(j) \in Nat /\ Weight(job[b]) \in Nat /\ log \in Nat /\ log' \in Nat
    BY <1>1, DispatchAssumption DEF Weight
  <2> QED
    BY <1>1, <1>3, <2>1
<1>6. minted' \in Nat /\ minted' >= minted
  BY <1>1
<1>7. tick' \in Ticks /\ tick'.left \subseteq DOMAIN tick'.view
  BY <1>1
<1>8. /\ runs' \in [Block -> Nat] /\ ask' \in [Block -> Nat] /\ stop' \in [Block -> Nat]
      /\ spawned' \in Nat
      /\ \A c \in Block \ {b} : runs'[c] = runs[c] /\ ask'[c] = ask[c] /\ stop'[c] = stop[c]
      /\ InOrder(b, t, j, runs'[b]) /\ Stopped(t, j, ask'[b], stop'[b])
      /\ Swept(tick', b, j, ask'[b], stop'[b])
  BY <1>1, <1>3
<1> QED
  BY <1>2, <1>3, <1>4, <1>5, <1>6, <1>7, <1>8, BlockStep
-----------------------------------------------------------------------------
(***************************************************************************)
(* The user and the channel session.                                       *)
(***************************************************************************)
LEMMA AskStep ==
  ASSUME DispatchInv, NEW b \in Block, Ask(b)
  PROVE  DispatchInv'
<1> DEFINE j == job[b]
           t == [task[b] EXCEPT !.status = "asked", !.attempts = 0,
                                !.old = FALSE, !.cancel = FALSE]
<1>1. /\ job \in [Block -> Jobs] /\ task \in [Block -> Tasks] /\ j \in Jobs /\ task[b] \in Tasks
      /\ runs \in [Block -> Nat] /\ ask \in [Block -> Nat] /\ stop \in [Block -> Nat]
      /\ log \in 0 .. RunsPerHour /\ spawned \in Nat
  BY Facts
<1>2. /\ task' = [task EXCEPT ![b] = t] /\ job' = job /\ job' = [job EXCEPT ![b] = j]
      /\ ask' = [ask EXCEPT ![b] = @ + 1] /\ runs' = [runs EXCEPT ![b] = 0] /\ stop' = stop
      /\ reply' = reply /\ ambient' = ambient /\ tick' = tick /\ log' = log
      /\ minted' = minted /\ spawned' = spawned /\ lost' = lost
      /\ task[b].status # "running"
  BY <1>1 DEF Ask
<1>3. t \in Tasks
  <2>1. 0 \in 0 .. MaxAttempts
    BY DispatchAssumption
  <2> QED
    BY <1>1, <2>1 DEF Tasks
<1>4. t.status = "asked" /\ t.attempts = 0 /\ t.cancel = FALSE
  BY <1>1 DEF Tasks
<1>5. j \in Jobs' /\ t \in Tasks'
  BY <1>1, <1>2, <1>3 DEF Jobs, Tasks
<1>6. runs' \in [Block -> Nat] /\ ask' \in [Block -> Nat] /\ stop' \in [Block -> Nat]
      /\ runs'[b] = 0
      /\ \A c \in Block \ {b} : runs'[c] = runs[c] /\ ask'[c] = ask[c] /\ stop'[c] = stop[c]
  BY <1>1, <1>2
<1>7. j.attempts \in Nat
  BY <1>1 DEF Jobs
<1>8. InOrder(b, t, j, runs'[b])
  <2>1. InOrder(b, task[b], j, runs[b])
    BY Facts
  <2> HIDE DEF t, j
  <2> QED
    BY <1>2, <1>4, <1>6, <1>7, <2>1 DEF InOrder, AtWork
<1>9. Stopped(t, j, ask'[b], stop'[b]) /\ Keyed(j) /\ Delivered(j)
  BY <1>4, Facts DEF Stopped
<1>10. Swept(tick', b, j, ask'[b], stop'[b])
  <2>1. Swept(tick, b, j, ask[b], stop[b]) /\ InOrder(b, task[b], j, runs[b])
    BY Facts
  <2> QED
    BY <1>2, <2>1 DEF Swept, InOrder
<1>11. spawned' + Weight(j) + log <= spawned + Weight(job[b]) + log'
  BY <1>1, <1>2, DispatchAssumption DEF Weight
<1>12. /\ minted' \in Nat /\ minted' >= minted /\ tick' \in Ticks
       /\ tick'.left \subseteq DOMAIN tick'.view /\ ambient' \subseteq Ambient
       /\ reply' \in [Block -> {"none", "partial", "answer", "note"}]
       /\ log' \in 0 .. RunsPerHour /\ spawned' \in Nat
       /\ \A c \in Block \ {b} : j.holds \cap job[c].holds = {}
  BY <1>2, Facts
<1> HIDE DEF t, j
<1> QED
  BY <1>2, <1>5, <1>6, <1>8, <1>9, <1>10, <1>11, <1>12, BlockStep

LEMMA StopStep ==
  ASSUME DispatchInv, NEW b \in Block, Stop(b)
  PROVE  DispatchInv'
<1> DEFINE j == job[b]
           t == [task[b] EXCEPT !.cancel = TRUE]
<1>1. /\ job \in [Block -> Jobs] /\ task \in [Block -> Tasks] /\ j \in Jobs /\ task[b] \in Tasks
      /\ runs \in [Block -> Nat] /\ ask \in [Block -> Nat] /\ stop \in [Block -> Nat]
      /\ log \in 0 .. RunsPerHour /\ spawned \in Nat
  BY Facts
<1>2. /\ task' = [task EXCEPT ![b] = t] /\ job' = job /\ job' = [job EXCEPT ![b] = j]
      /\ ask' = ask /\ runs' = runs /\ stop' = [stop EXCEPT ![b] = ask[b]]
      /\ reply' = reply /\ ambient' = ambient /\ tick' = tick /\ log' = log
      /\ minted' = minted /\ spawned' = spawned /\ lost' = lost
  BY <1>1 DEF Stop
<1>3. t \in Tasks
  BY <1>1 DEF Tasks
<1>4. t.status = task[b].status /\ t.attempts = task[b].attempts
  BY <1>1 DEF Tasks
<1>5. j \in Jobs' /\ t \in Tasks'
  BY <1>1, <1>2, <1>3 DEF Jobs, Tasks
<1>6. runs' \in [Block -> Nat] /\ ask' \in [Block -> Nat] /\ stop' \in [Block -> Nat]
      /\ stop'[b] = ask'[b]
      /\ \A c \in Block \ {b} : runs'[c] = runs[c] /\ ask'[c] = ask[c] /\ stop'[c] = stop[c]
  BY <1>1, <1>2
<1>8. InOrder(b, t, j, runs'[b])
  <2>1. InOrder(b, task[b], j, runs[b])
    BY Facts
  <2> HIDE DEF t, j
  <2> QED
    BY <1>2, <1>4, <2>1 DEF InOrder
<1>9. Stopped(t, j, ask'[b], stop'[b]) /\ Keyed(j) /\ Delivered(j)
  BY <1>6, Facts DEF Stopped
<1>10. Swept(tick', b, j, ask'[b], stop'[b])
  <2>1. Swept(tick, b, j, ask[b], stop[b])
    BY Facts
  <2> QED
    BY <1>2, <1>6, <2>1 DEF Swept
<1>11. spawned' + Weight(j) + log <= spawned + Weight(job[b]) + log'
  BY <1>1, <1>2, DispatchAssumption DEF Weight
<1>12. /\ minted' \in Nat /\ minted' >= minted /\ tick' \in Ticks
       /\ tick'.left \subseteq DOMAIN tick'.view /\ ambient' \subseteq Ambient
       /\ reply' \in [Block -> {"none", "partial", "answer", "note"}]
       /\ log' \in 0 .. RunsPerHour /\ spawned' \in Nat
       /\ \A c \in Block \ {b} : j.holds \cap job[c].holds = {}
  BY <1>2, Facts
<1> HIDE DEF t, j
<1> QED
  BY <1>2, <1>5, <1>6, <1>8, <1>9, <1>10, <1>11, <1>12, BlockStep

LEMMA SessionClosesStep ==
  ASSUME DispatchInv, NEW b \in Block, SessionCloses(b)
  PROVE  DispatchInv'
<1> DEFINE j == job[b]
           t == [task[b] EXCEPT !.status = "done"]
<1>1. /\ job \in [Block -> Jobs] /\ task \in [Block -> Tasks] /\ j \in Jobs /\ task[b] \in Tasks
      /\ log \in 0 .. RunsPerHour /\ ambient \subseteq Ambient
      /\ reply \in [Block -> {"none", "partial", "answer", "note"}]
      /\ Keyed(j) /\ Delivered(j) /\ InOrder(b, task[b], j, runs[b])
      /\ Stopped(task[b], j, ask[b], stop[b]) /\ Swept(tick, b, j, ask[b], stop[b])
  BY Facts
<1>2. /\ task' = [task EXCEPT ![b] = t] /\ job' = [job EXCEPT ![b] = j]
      /\ reply' = reply /\ ambient' \subseteq ambient /\ tick' = tick /\ log' = log
      /\ minted' = minted /\ ghosts' = ghosts /\ b \in Ambient
  BY <1>1 DEF SessionCloses
<1>3. t \in Tasks /\ t.status = "done" /\ t.cancel = task[b].cancel
  BY <1>1 DEF Tasks
<1>4. InOrder(b, t, j, runs[b])
  BY <1>1, <1>2, <1>3 DEF InOrder
<1>5. Stopped(t, j, ask[b], stop[b])
  BY <1>1, <1>3 DEF Stopped
<1>6. Weight(j) + log <= Weight(job[b]) + log'
  BY <1>1, <1>2, DispatchAssumption DEF Weight
<1> HIDE DEF t
<1> QED
  BY <1>1, <1>2, <1>3, <1>4, <1>5, <1>6, QuietStep

LEMMA SessionDropsStep ==
  ASSUME DispatchInv, NEW b \in Block, SessionDrops(b)
  PROVE  DispatchInv'
<1>1. /\ job \in [Block -> Jobs] /\ task \in [Block -> Tasks]
      /\ job[b] \in Jobs /\ task[b] \in Tasks /\ log \in 0 .. RunsPerHour
  BY Facts
<1>2. /\ task' = [task EXCEPT ![b] = task[b]] /\ job' = [job EXCEPT ![b] = job[b]]
      /\ reply' = reply /\ ambient' \subseteq ambient /\ tick' = tick /\ log' = log
      /\ minted' = minted /\ ghosts' = ghosts
  BY <1>1 DEF SessionDrops
<1>3. Weight(job[b]) + log <= Weight(job[b]) + log'
  BY <1>1, <1>2, DispatchAssumption DEF Weight
<1> QED
  BY <1>1, <1>2, <1>3, Facts, QuietStep

LEMMA GrowOldStep ==
  ASSUME DispatchInv, NEW b \in Block, GrowOld(b)
  PROVE  DispatchInv'
<1> DEFINE j == job[b]
           t == [task[b] EXCEPT !.old = TRUE]
<1>1. /\ job \in [Block -> Jobs] /\ task \in [Block -> Tasks] /\ j \in Jobs /\ task[b] \in Tasks
      /\ log \in 0 .. RunsPerHour /\ ambient \subseteq Ambient
      /\ reply \in [Block -> {"none", "partial", "answer", "note"}]
      /\ Keyed(j) /\ Delivered(j) /\ InOrder(b, task[b], j, runs[b])
      /\ Stopped(task[b], j, ask[b], stop[b]) /\ Swept(tick, b, j, ask[b], stop[b])
  BY Facts
<1>2. /\ task' = [task EXCEPT ![b] = t] /\ job' = [job EXCEPT ![b] = j]
      /\ reply' = reply /\ ambient' = ambient /\ tick' = tick /\ log' = log
      /\ minted' = minted /\ ghosts' = ghosts
  BY <1>1 DEF GrowOld
<1>3. /\ t \in Tasks /\ t.status = task[b].status /\ t.cancel = task[b].cancel
      /\ t.attempts = task[b].attempts
  BY <1>1 DEF Tasks
<1>4. InOrder(b, t, j, runs[b])
  BY <1>1, <1>3 DEF InOrder
<1>5. Stopped(t, j, ask[b], stop[b])
  BY <1>1, <1>3 DEF Stopped
<1>6. Weight(j) + log <= Weight(job[b]) + log'
  BY <1>1, <1>2, DispatchAssumption DEF Weight
<1> HIDE DEF t
<1> QED
  BY <1>1, <1>2, <1>3, <1>4, <1>5, <1>6, QuietStep
-----------------------------------------------------------------------------
(***************************************************************************)
(* A task launched.                                                        *)
(***************************************************************************)
\* The run of b is over.
LEMMA LeaveStep ==
  ASSUME DispatchInv, NEW b \in Block, Leave(b), NEW t \in Tasks,
         task' = [task EXCEPT ![b] = t],
         tick' = tick, minted' = minted, ghosts' = ghosts,
         reply' \in [Block -> {"none", "partial", "answer", "note"}],
         ambient' = ambient, log' \in 0 .. RunsPerHour,
         log <= Weight(job[b]) + log',
         t.status = "asked" => t.attempts = 0,
         b \notin Ambient => runs[b] <= t.attempts,
         t.cancel => task[b].cancel
  PROVE  DispatchInv'
<1>1. /\ log \in 0 .. RunsPerHour /\ ambient \subseteq Ambient
      /\ Stopped(task[b], job[b], ask[b], stop[b])
  BY Facts
<1>2. NoJob \in Jobs /\ NoJob.pc = "none" /\ NoJob.holds = {} /\ ~NoJob.delivered
      /\ ~NoJob.stoppable
  <2>1. 0 \in 0 .. MaxAttempts /\ 0 \in 0 .. minted
    BY DispatchAssumption, Facts
  <2> QED
    BY <2>1 DEF NoJob, Jobs, Pcs
<1>3. job' = [job EXCEPT ![b] = NoJob]
  BY DEF Leave
<1>4. InOrder(b, t, NoJob, runs[b])
  BY <1>2 DEF InOrder, AtWork
<1>5. /\ Keyed(NoJob) /\ Delivered(NoJob) /\ Stopped(t, NoJob, ask[b], stop[b])
      /\ Swept(tick, b, NoJob, ask[b], stop[b])
  BY <1>1, <1>2 DEF Keyed, Delivered, Stopped, Swept, AtWork
<1>6. Weight(NoJob) + log <= Weight(job[b]) + log'
  BY <1>1, <1>2, DispatchAssumption DEF Weight
<1> QED
  BY <1>1, <1>2, <1>3, <1>4, <1>5, <1>6, QuietStep

\* It is over before its agent: with its record returned or not.
LEMMA EarlyLeaveStep ==
  ASSUME DispatchInv, NEW b \in Block, Leave(b), Refund \/ log' = log,
         Weight(job[b]) = 1 \/ log' = log,
         UNCHANGED <<task, reply, ambient, tick, minted, ghosts>>
  PROVE  DispatchInv'
<1>1. /\ task \in [Block -> Tasks] /\ task[b] \in Tasks /\ log \in 0 .. RunsPerHour
      /\ reply \in [Block -> {"none", "partial", "answer", "note"}]
      /\ InOrder(b, task[b], job[b], runs[b])
  BY Facts
<1>2. log' \in 0 .. RunsPerHour /\ log <= Weight(job[b]) + log'
  BY <1>1, DispatchAssumption DEF Refund, Weight
<1>3. task' = [task EXCEPT ![b] = task[b]]
  BY <1>1
<1>4. /\ task[b].status = "asked" => task[b].attempts = 0
      /\ b \notin Ambient => runs[b] <= task[b].attempts
  BY <1>1 DEF InOrder
<1> QED
  BY <1>1, <1>2, <1>3, <1>4, LeaveStep

LEMMA ReadTaskStep ==
  ASSUME DispatchInv, NEW b \in Block, ReadTask(b)
  PROVE  DispatchInv'
<1>1. CASE Decide(task[b]) = "pending"
  <2> DEFINE j == [job[b] EXCEPT !.pc = "thread", !.attempts = task[b].attempts,
                                 !.session = task[b].session]
             t == task[b]
  <2>1. /\ job \in [Block -> Jobs] /\ task \in [Block -> Tasks] /\ t \in Tasks
        /\ job[b] \in Jobs /\ log \in 0 .. RunsPerHour /\ ambient \subseteq Ambient
        /\ reply \in [Block -> {"none", "partial", "answer", "note"}]
        /\ Delivered(job[b]) /\ InOrder(b, t, job[b], runs[b])
        /\ Stopped(t, job[b], ask[b], stop[b]) /\ Swept(tick, b, job[b], ask[b], stop[b])
    BY Facts
  <2>2. /\ task' = [task EXCEPT ![b] = t] /\ job' = [job EXCEPT ![b] = j]
        /\ reply' = reply /\ ambient' = ambient /\ tick' = tick /\ log' = log
        /\ minted' = minted /\ ghosts' = ghosts /\ job[b].pc = "read"
    BY <1>1, <2>1 DEF ReadTask, At
  <2>3. DOMAIN job[b] = {"pc", "attempts", "session", "holds", "stoppable", "aborted",
                         "queued", "result", "delivered"}
    BY <2>1 DEF Jobs
  <2>4. /\ j.pc = "thread" /\ j.attempts = t.attempts /\ j.holds = job[b].holds
        /\ j.delivered = job[b].delivered /\ j.stoppable = job[b].stoppable
    BY <2>3
  <2>5. j \in Jobs
    BY <2>1 DEF Jobs, Tasks, Pcs
  <2>6. t.attempts < MaxAttempts /\ t.status \in {"asked", "running"}
    <3>1. t.attempts \in Nat /\ (t.status = "asked" => t.attempts = 0)
      BY <2>1, DispatchAssumption DEF Tasks, InOrder
    <3> QED
      BY <1>1, <3>1, DispatchAssumption DEF Decide
  <2>7. InOrder(b, t, j, runs[b])
    BY <2>1, <2>4, <2>6 DEF InOrder, AtWork
  <2>8. /\ Keyed(j) /\ Delivered(j) /\ Stopped(t, j, ask[b], stop[b])
        /\ Swept(tick, b, j, ask[b], stop[b])
    BY <2>1, <2>2, <2>4 DEF Keyed, Delivered, Stopped, Swept, AtWork
  <2>9. Weight(j) + log <= Weight(job[b]) + log'
    BY <2>1, <2>2, <2>4, DispatchAssumption DEF Weight
  <2> HIDE DEF t, j
  <2> QED
    BY <2>1, <2>2, <2>4, <2>5, <2>7, <2>8, <2>9, QuietStep
<1>2. CASE Decide(task[b]) # "pending"
  <2>1. Leave(b) /\ Refund /\ Weight(job[b]) = 1
        /\ UNCHANGED <<task, reply, ambient, tick, minted, ghosts>>
    BY <1>2 DEF ReadTask, At, Weight
  <2> QED
    BY <2>1, EarlyLeaveStep
<1> QED
  BY <1>1, <1>2

LEMMA JoinThreadStep ==
  ASSUME DispatchInv, NEW b \in Block, JoinThread(b)
  PROVE  DispatchInv'
<1> DEFINE s == IF job[b].session # 0 THEN job[b].session
                ELSE IF Above[b] = NoBlock THEN 0 ELSE task[Above[b]].session
<1>1. CASE s \in Held
  <2>1. Leave(b) /\ Refund /\ Weight(job[b]) = 1
        /\ UNCHANGED <<task, reply, ambient, tick, minted, ghosts>>
    BY <1>1 DEF JoinThread, At, Weight
  <2> QED
    BY <2>1, EarlyLeaveStep
<1>2. CASE s \notin Held
  <2> DEFINE j == [job[b] EXCEPT !.pc = "claim", !.session = s,
                                 !.holds = IF s = 0 THEN {} ELSE {s}]
             t == task[b]
  <2>1. /\ job \in [Block -> Jobs] /\ task \in [Block -> Tasks] /\ t \in Tasks
        /\ job[b] \in Jobs /\ log \in 0 .. RunsPerHour /\ ambient \subseteq Ambient
        /\ reply \in [Block -> {"none", "partial", "answer", "note"}]
        /\ tick \in Ticks /\ tick.left \subseteq DOMAIN tick.view
        /\ minted \in Nat /\ spawned \in Nat
        /\ runs \in [Block -> Nat] /\ ask \in [Block -> Nat] /\ stop \in [Block -> Nat]
        /\ Delivered(job[b]) /\ InOrder(b, t, job[b], runs[b])
        /\ Stopped(t, job[b], ask[b], stop[b]) /\ Swept(tick, b, job[b], ask[b], stop[b])
    BY Facts
  <2>2. /\ task' = [task EXCEPT ![b] = t] /\ job' = [job EXCEPT ![b] = j]
        /\ reply' = reply /\ ambient' = ambient /\ tick' = tick /\ log' = log
        /\ minted' = minted /\ spawned' = spawned /\ lost' = lost
        /\ runs' = runs /\ ask' = ask /\ stop' = stop /\ job[b].pc = "thread"
    BY <1>2, <2>1 DEF JoinThread, At, ghosts
  <2>3. DOMAIN job[b] = {"pc", "attempts", "session", "holds", "stoppable", "aborted",
                         "queued", "result", "delivered"}
    BY <2>1 DEF Jobs
  <2>4. s \in 0 .. minted
    <3>1. job[b].session \in 0 .. minted
      BY <2>1 DEF Jobs
    <3>2. Above[b] # NoBlock => task[Above[b]] \in Tasks
      BY <2>1, DispatchAssumption
    <3> QED
      BY <2>1, <3>1, <3>2 DEF Tasks
  <2> HIDE DEF s
  <2>5. /\ j.pc = "claim" /\ j.attempts = job[b].attempts /\ j.session = s
        /\ j.holds = (IF s = 0 THEN {} ELSE {s})
        /\ j.delivered = job[b].delivered /\ j.stoppable = job[b].stoppable
    BY <2>3
  <2>6. j \in Jobs
    <3>1. (IF s = 0 THEN {} ELSE {s}) \in SUBSET (1 .. minted)
      BY <2>1, <2>4
    <3> QED
      BY <2>1, <2>4, <3>1 DEF Jobs, Pcs
  <2>7. InOrder(b, t, j, runs'[b])
    BY <2>1, <2>2, <2>5 DEF InOrder, AtWork
  <2>8. /\ Keyed(j) /\ Delivered(j) /\ Stopped(t, j, ask'[b], stop'[b])
        /\ Swept(tick', b, j, ask'[b], stop'[b])
    BY <2>1, <2>2, <2>5 DEF Keyed, Delivered, Stopped, Swept, AtWork
  <2>9. spawned' + Weight(j) + log <= spawned + Weight(job[b]) + log'
    BY <2>1, <2>2, <2>5, DispatchAssumption DEF Weight
  <2>10. \A c \in Block \ {b} : j.holds \cap job[c].holds = {}
    BY <1>2, <2>5 DEF Held
  <2>11. j \in Jobs' /\ t \in Tasks'
    BY <2>1, <2>2, <2>6 DEF Jobs, Tasks
  <2>12. /\ minted' \in Nat /\ minted' >= minted /\ tick' \in Ticks
         /\ tick'.left \subseteq DOMAIN tick'.view /\ ambient' \subseteq Ambient
         /\ reply' \in [Block -> {"none", "partial", "answer", "note"}]
         /\ log' \in 0 .. RunsPerHour /\ spawned' \in Nat
         /\ runs' \in [Block -> Nat] /\ ask' \in [Block -> Nat] /\ stop' \in [Block -> Nat]
         /\ \A c \in Block \ {b} : runs'[c] = runs[c] /\ ask'[c] = ask[c] /\ stop'[c] = stop[c]
    BY <2>1, <2>2
  <2> HIDE DEF t, j
  <2> QED
    BY <2>2, <2>7, <2>8, <2>9, <2>10, <2>11, <2>12, BlockStep
<1> QED
  BY <1>1, <1>2

\* The claim that b's run makes.
LEMMA ClaimedTask ==
  ASSUME DispatchInv, NEW b \in Block, job[b].pc = "claim"
  PROVE  \E t \in Tasks : /\ Claimed(b) = [task EXCEPT ![b] = t]
                          /\ t.status = "running" /\ t.cancel = task[b].cancel
                          /\ t.attempts = job[b].attempts + 1
<1> DEFINE t == [task[b] EXCEPT !.status = "running", !.attempts = job[b].attempts + 1,
                                !.old = FALSE]
<1>1. /\ task \in [Block -> Tasks] /\ task[b] \in Tasks /\ job[b] \in Jobs
      /\ InOrder(b, task[b], job[b], runs[b])
  BY Facts
<1>2. job[b].attempts + 1 \in 0 .. MaxAttempts
  <2>1. job[b].attempts \in Nat /\ job[b].attempts < MaxAttempts
    BY <1>1, DispatchAssumption DEF Jobs, InOrder
  <2> QED
    BY <2>1, DispatchAssumption
<1>3. t \in Tasks
  BY <1>1, <1>2 DEF Tasks
<1>4. t.status = "running" /\ t.cancel = task[b].cancel /\ t.attempts = job[b].attempts + 1
  BY <1>1 DEF Tasks
<1>5. Claimed(b) = [task EXCEPT ![b] = t]
  BY <1>1 DEF Claimed
<1> HIDE DEF t
<1> QED
  BY <1>3, <1>4, <1>5

LEMMA ClaimStep ==
  ASSUME DispatchInv, NEW b \in Block, Claim(b)
  PROVE  DispatchInv'
<1> DEFINE j == [job[b] EXCEPT !.pc = "verify"]
<1>1. /\ job \in [Block -> Jobs] /\ task[b] \in Tasks /\ job[b] \in Jobs
      /\ log \in 0 .. RunsPerHour /\ ambient \subseteq Ambient /\ runs[b] \in Nat
      /\ reply \in [Block -> {"none", "partial", "answer", "note"}]
      /\ Keyed(job[b]) /\ Delivered(job[b]) /\ InOrder(b, task[b], job[b], runs[b])
      /\ Stopped(task[b], job[b], ask[b], stop[b])
      /\ Swept(tick, b, job[b], ask[b], stop[b])
  BY Facts
<1>2. /\ task' = Claimed(b) /\ job' = [job EXCEPT ![b] = j] /\ job[b].pc = "claim"
      /\ reply' = [reply EXCEPT ![b] = "none"] /\ ambient' = ambient /\ tick' = tick
      /\ log' = log /\ minted' = minted /\ ghosts' = ghosts
  BY <1>1 DEF Claim, At, Goto
<1>3. PICK t \in Tasks : /\ Claimed(b) = [task EXCEPT ![b] = t]
                         /\ t.status = "running" /\ t.cancel = task[b].cancel
                         /\ t.attempts = job[b].attempts + 1
  BY <1>2, ClaimedTask
<1>4. /\ j \in Jobs /\ j.pc = "verify" /\ j.holds = job[b].holds /\ j.session = job[b].session
      /\ j.delivered = job[b].delivered /\ j.stoppable = job[b].stoppable
  BY <1>1 DEF Jobs, Pcs
<1>5. job[b].attempts \in Nat /\ task[b].attempts \in Nat
  BY <1>1 DEF Jobs, Tasks
<1> HIDE DEF j
<1>6. InOrder(b, t, j, runs[b])
  BY <1>1, <1>2, <1>3, <1>4, <1>5 DEF InOrder, AtWork
<1>7. /\ Keyed(j) /\ Delivered(j) /\ Stopped(t, j, ask[b], stop[b])
      /\ Swept(tick, b, j, ask[b], stop[b])
  BY <1>1, <1>2, <1>3, <1>4 DEF Keyed, Delivered, Stopped, Swept
<1>8. Weight(j) + log <= Weight(job[b]) + log'
  BY <1>1, <1>2, <1>4, DispatchAssumption DEF Weight
<1>9. reply' \in [Block -> {"none", "partial", "answer", "note"}]
  BY <1>1, <1>2
<1> QED
  BY <1>1, <1>2, <1>3, <1>4, <1>6, <1>7, <1>8, <1>9, QuietStep

LEMMA VerifyClaimStep ==
  ASSUME DispatchInv, NEW b \in Block, VerifyClaim(b)
  PROVE  DispatchInv'
<1>1. CASE task[b].attempts # 0
  <2> DEFINE j == [job[b] EXCEPT !.pc = "spawn", !.stoppable = TRUE]
             t == task[b]
  <2>1. /\ job \in [Block -> Jobs] /\ task \in [Block -> Tasks] /\ t \in Tasks
        /\ job[b] \in Jobs /\ log \in 0 .. RunsPerHour /\ ambient \subseteq Ambient
        /\ reply \in [Block -> {"none", "partial", "answer", "note"}]
        /\ Keyed(job[b]) /\ Delivered(job[b]) /\ InOrder(b, t, job[b], runs[b])
        /\ Stopped(t, job[b], ask[b], stop[b]) /\ Swept(tick, b, job[b], ask[b], stop[b])
    BY Facts
  <2>2. /\ task' = [task EXCEPT ![b] = t] /\ job' = [job EXCEPT ![b] = j]
        /\ reply' = reply /\ ambient' = ambient /\ tick' = tick /\ log' = log
        /\ minted' = minted /\ ghosts' = ghosts /\ job[b].pc = "verify"
    BY <1>1, <2>1 DEF VerifyClaim, At
  <2>3. /\ j \in Jobs /\ j.pc = "spawn" /\ j.holds = job[b].holds
        /\ j.session = job[b].session /\ j.delivered = job[b].delivered
    BY <2>1 DEF Jobs, Pcs
  <2> HIDE DEF j
  <2>4. InOrder(b, t, j, runs[b])
    BY <2>1, <2>2, <2>3 DEF InOrder, AtWork
  <2>5. /\ Keyed(j) /\ Delivered(j) /\ Stopped(t, j, ask[b], stop[b])
        /\ Swept(tick, b, j, ask[b], stop[b])
    BY <2>1, <2>2, <2>3 DEF Keyed, Delivered, Stopped, Swept
  <2>6. Weight(j) + log <= Weight(job[b]) + log'
    BY <2>1, <2>2, <2>3, DispatchAssumption DEF Weight
  <2> HIDE DEF t
  <2> QED
    BY <2>1, <2>2, <2>3, <2>4, <2>5, <2>6, QuietStep
<1>2. CASE task[b].attempts = 0
  <2>1. Leave(b) /\ Refund /\ Weight(job[b]) = 1
        /\ UNCHANGED <<task, reply, ambient, tick, minted, ghosts>>
    BY <1>2 DEF VerifyClaim, At, Weight
  <2> QED
    BY <2>1, EarlyLeaveStep
<1> QED
  BY <1>1, <1>2

LEMMA DeliverToChannelStep ==
  ASSUME DispatchInv, NEW b \in Block, DeliverToChannel(b)
  PROVE  DispatchInv'
<1> DEFINE t == task[b]
<1>1. /\ job \in [Block -> Jobs] /\ task \in [Block -> Tasks] /\ t \in Tasks
      /\ log \in 0 .. RunsPerHour /\ ambient \subseteq Ambient
      /\ reply \in [Block -> {"none", "partial", "answer", "note"}]
      /\ tick \in Ticks /\ tick.left \subseteq DOMAIN tick.view
      /\ minted \in Nat /\ spawned \in Nat
      /\ runs \in [Block -> Nat] /\ ask \in [Block -> Nat] /\ stop \in [Block -> Nat]
      /\ InOrder(b, t, job[b], runs[b]) /\ Stopped(t, job[b], ask[b], stop[b])
  BY Facts
<1>2. /\ task' = [task EXCEPT ![b] = t] /\ job' = [job EXCEPT ![b] = NoJob]
      /\ reply' = reply /\ ambient' = ambient \cup {b} /\ tick' = tick /\ log' = log
      /\ minted' = minted /\ spawned' = spawned + 1 /\ lost' = lost
      /\ runs' = [runs EXCEPT ![b] = @ + 1] /\ ask' = ask /\ stop' = stop
      /\ job[b].pc = "spawn" /\ b \in Ambient
  BY <1>1 DEF DeliverToChannel, Leave, At
<1>3. NoJob \in Jobs /\ NoJob.pc = "none" /\ NoJob.holds = {} /\ ~NoJob.delivered
      /\ ~NoJob.stoppable
  <2>1. 0 \in 0 .. MaxAttempts /\ 0 \in 0 .. minted
    BY <1>1, DispatchAssumption
  <2> QED
    BY <2>1 DEF NoJob, Jobs, Pcs
<1>4. InOrder(b, t, NoJob, runs'[b])
  BY <1>1, <1>2, <1>3 DEF InOrder, AtWork
<1>5. /\ Keyed(NoJob) /\ Delivered(NoJob) /\ Stopped(t, NoJob, ask'[b], stop'[b])
      /\ Swept(tick', b, NoJob, ask'[b], stop'[b])
  BY <1>1, <1>2, <1>3 DEF Keyed, Delivered, Stopped, Swept, AtWork
<1>6. spawned' + Weight(NoJob) + log <= spawned + Weight(job[b]) + log'
  BY <1>1, <1>2, <1>3, DispatchAssumption DEF Weight
<1>7. NoJob \in Jobs' /\ t \in Tasks'
  BY <1>1, <1>2, <1>3 DEF Jobs, Tasks
<1>8. /\ minted' \in Nat /\ minted' >= minted /\ tick' \in Ticks
      /\ tick'.left \subseteq DOMAIN tick'.view /\ ambient' \subseteq Ambient
      /\ reply' \in [Block -> {"none", "partial", "answer", "note"}]
      /\ log' \in 0 .. RunsPerHour /\ spawned' \in Nat
      /\ runs' \in [Block -> Nat] /\ ask' \in [Block -> Nat] /\ stop' \in [Block -> Nat]
      /\ \A c \in Block \ {b} : runs'[c] = runs[c] /\ ask'[c] = ask[c] /\ stop'[c] = stop[c]
      /\ \A c \in Block \ {b} : NoJob.holds \cap job[c].holds = {}
  BY <1>1, <1>2, <1>3
<1> HIDE DEF t
<1> QED
  BY <1>2, <1>4, <1>5, <1>6, <1>7, <1>8, BlockStep

LEMMA SpawnAgentStep ==
  ASSUME DispatchInv, NEW b \in Block, SpawnAgent(b)
  PROVE  DispatchInv'
<1> DEFINE t == task[b]
<1>1. /\ job \in [Block -> Jobs] /\ task \in [Block -> Tasks] /\ t \in Tasks
      /\ job[b] \in Jobs /\ log \in 0 .. RunsPerHour /\ ambient \subseteq Ambient
      /\ reply \in [Block -> {"none", "partial", "answer", "note"}]
      /\ tick \in Ticks /\ tick.left \subseteq DOMAIN tick.view
      /\ minted \in Nat /\ spawned \in Nat
      /\ runs \in [Block -> Nat] /\ ask \in [Block -> Nat] /\ stop \in [Block -> Nat]
      /\ Keyed(job[b]) /\ Delivered(job[b]) /\ InOrder(b, t, job[b], runs[b])
      /\ Stopped(t, job[b], ask[b], stop[b]) /\ Swept(tick, b, job[b], ask[b], stop[b])
      /\ \A c \in Block \ {b} : job[b].holds \cap job[c].holds = {}
  BY Facts
<1>2. /\ task' = [task EXCEPT ![b] = t] /\ job[b].pc = "spawn" /\ b \notin Ambient
      /\ reply' = reply /\ ambient' = ambient /\ tick' = tick /\ log' = log
      /\ minted' = minted /\ lost' = lost /\ ask' = ask /\ stop' = stop
  BY <1>1 DEF SpawnAgent, At
<1>3. CASE job[b].aborted
  <2> DEFINE j == [job[b] EXCEPT !.pc = "ended", !.result = "note"]
  <2>1. job' = [job EXCEPT ![b] = j] /\ spawned' = spawned /\ runs' = runs
    BY <1>1, <1>3 DEF SpawnAgent
  <2>2. /\ j \in Jobs /\ j.pc = "ended" /\ j.holds = job[b].holds
        /\ j.delivered = job[b].delivered /\ j.stoppable = job[b].stoppable
    BY <1>1 DEF Jobs, Pcs
  <2> HIDE DEF j
  <2>3. runs[b] < t.attempts => runs[b] <= t.attempts
    BY <1>1, DispatchAssumption DEF Tasks
  <2>4. InOrder(b, t, j, runs[b])
    BY <1>1, <1>2, <2>2, <2>3 DEF InOrder, AtWork
  <2>5. /\ Keyed(j) /\ Delivered(j) /\ Stopped(t, j, ask[b], stop[b])
        /\ Swept(tick, b, j, ask[b], stop[b])
    BY <1>1, <1>2, <2>2 DEF Keyed, Delivered, Stopped, Swept, AtWork
  <2>6. Weight(j) + log <= Weight(job[b]) + log'
    BY <1>1, <1>2, <2>2, DispatchAssumption DEF Weight
  <2>7. ghosts' = ghosts
    BY <1>2, <2>1 DEF ghosts
  <2> HIDE DEF t
  <2> QED
    BY <1>1, <1>2, <2>1, <2>2, <2>4, <2>5, <2>6, <2>7, QuietStep
<1>4. CASE ~job[b].aborted
  <2> DEFINE j == [job[b] EXCEPT !.pc = "agent"]
  <2>1. /\ job' = [job EXCEPT ![b] = j] /\ spawned' = spawned + 1
        /\ runs' = [runs EXCEPT ![b] = @ + 1]
    BY <1>1, <1>4 DEF SpawnAgent, Goto
  <2>2. /\ j \in Jobs /\ j.pc = "agent" /\ j.holds = job[b].holds
        /\ j.session = job[b].session /\ j.delivered = job[b].delivered
        /\ j.stoppable = job[b].stoppable
    BY <1>1 DEF Jobs, Pcs
  <2> HIDE DEF j
  <2>3. /\ runs[b] < t.attempts => runs[b] + 1 <= t.attempts
        /\ runs'[b] = runs[b] + 1
    BY <1>1, <2>1, DispatchAssumption DEF Tasks
  <2>4. InOrder(b, t, j, runs'[b])
    BY <1>1, <1>2, <2>2, <2>3 DEF InOrder, AtWork
  <2>5. /\ Keyed(j) /\ Delivered(j) /\ Stopped(t, j, ask'[b], stop'[b])
        /\ Swept(tick', b, j, ask'[b], stop'[b])
    BY <1>1, <1>2, <2>2 DEF Keyed, Delivered, Stopped, Swept, AtWork
  <2>6. spawned' + Weight(j) + log <= spawned + Weight(job[b]) + log'
    BY <1>1, <1>2, <2>1, <2>2, DispatchAssumption DEF Weight
  <2>7. j \in Jobs' /\ t \in Tasks'
    BY <1>1, <1>2, <2>2 DEF Jobs, Tasks
  <2>8. /\ minted' \in Nat /\ minted' >= minted /\ tick' \in Ticks
        /\ tick'.left \subseteq DOMAIN tick'.view /\ ambient' \subseteq Ambient
        /\ reply' \in [Block -> {"none", "partial", "answer", "note"}]
        /\ log' \in 0 .. RunsPerHour /\ spawned' \in Nat
        /\ runs' \in [Block -> Nat] /\ ask' \in [Block -> Nat] /\ stop' \in [Block -> Nat]
        /\ \A c \in Block \ {b} : runs'[c] = runs[c] /\ ask'[c] = ask[c] /\ stop'[c] = stop[c]
        /\ \A c \in Block \ {b} : j.holds \cap job[c].holds = {}
    BY <1>1, <1>2, <2>1, <2>2
  <2> HIDE DEF t
  <2> QED
    BY <1>2, <2>1, <2>4, <2>5, <2>6, <2>7, <2>8, BlockStep
<1> QED
  BY <1>3, <1>4
-----------------------------------------------------------------------------
(***************************************************************************)
(* The agent at work.                                                      *)
(***************************************************************************)
\* Progress is queued, or taken from the queue.
LEMMA ProgressStep ==
  ASSUME DispatchInv, NEW b \in Block, NEW q \in SUBSET {"session", "text"}, NEW t \in Tasks,
         job' = [job EXCEPT ![b] = [job[b] EXCEPT !.queued = q]],
         job[b].delivered => q = {},
         task' = [task EXCEPT ![b] = t],
         t.status = task[b].status, t.attempts = task[b].attempts, t.cancel = task[b].cancel,
         reply' \in [Block -> {"none", "partial", "answer", "note"}],
         ambient' = ambient, tick' = tick, log' = log, minted' = minted, ghosts' = ghosts
  PROVE  DispatchInv'
<1> DEFINE j == [job[b] EXCEPT !.queued = q]
<1>1. /\ job[b] \in Jobs /\ log \in 0 .. RunsPerHour /\ ambient \subseteq Ambient
      /\ Keyed(job[b]) /\ Delivered(job[b]) /\ InOrder(b, task[b], job[b], runs[b])
      /\ Stopped(task[b], job[b], ask[b], stop[b])
      /\ Swept(tick, b, job[b], ask[b], stop[b])
  BY Facts
<1>2. job' = [job EXCEPT ![b] = j]
  OBVIOUS
<1>3. DOMAIN job[b] = {"pc", "attempts", "session", "holds", "stoppable", "aborted",
                       "queued", "result", "delivered"}
  BY <1>1 DEF Jobs
<1>4. /\ j.pc = job[b].pc /\ j.holds = job[b].holds /\ j.session = job[b].session
      /\ j.delivered = job[b].delivered /\ j.stoppable = job[b].stoppable /\ j.queued = q
      /\ j.attempts = job[b].attempts
  BY <1>3
<1>5. j \in Jobs
  BY <1>1 DEF Jobs
<1> HIDE DEF j
<1>6. InOrder(b, t, j, runs[b])
  BY <1>1, <1>4 DEF InOrder
<1>7. /\ Keyed(j) /\ Delivered(j) /\ Stopped(t, j, ask[b], stop[b])
      /\ Swept(tick, b, j, ask[b], stop[b])
  BY <1>1, <1>4 DEF Keyed, Delivered, Stopped, Swept
<1>8. Weight(j) + log <= Weight(job[b]) + log'
  BY <1>1, <1>4, DispatchAssumption DEF Weight
<1> QED
  BY <1>1, <1>2, <1>4, <1>5, <1>6, <1>7, <1>8, QuietStep

LEMMA TextArrivesStep ==
  ASSUME DispatchInv, NEW b \in Block, TextArrives(b)
  PROVE  DispatchInv'
<1> DEFINE q == job[b].queued \cup {"text"}
<1>1. /\ job \in [Block -> Jobs] /\ task \in [Block -> Tasks]
      /\ job[b] \in Jobs /\ task[b] \in Tasks /\ Delivered(job[b])
      /\ reply \in [Block -> {"none", "partial", "answer", "note"}]
  BY Facts
<1>2. /\ job' = [job EXCEPT ![b] = [job[b] EXCEPT !.queued = q]]
      /\ task' = [task EXCEPT ![b] = task[b]] /\ job[b].pc = "agent"
      /\ reply' = reply /\ ambient' = ambient /\ tick' = tick /\ log' = log
      /\ minted' = minted /\ ghosts' = ghosts
  BY <1>1 DEF TextArrives, At
<1>3. q \in SUBSET {"session", "text"}
  BY <1>1 DEF Jobs
<1>4. job[b].delivered => q = {}
  BY <1>1, <1>2 DEF Delivered
<1> HIDE DEF q
<1> QED
  BY <1>1, <1>2, <1>3, <1>4, ProgressStep

LEMMA WriteQueuedStep ==
  ASSUME DispatchInv, NEW b \in Block, WriteQueued(b)
  PROVE  DispatchInv'
<1>1. /\ job \in [Block -> Jobs] /\ task \in [Block -> Tasks]
      /\ job[b] \in Jobs /\ task[b] \in Tasks /\ Delivered(job[b])
      /\ reply \in [Block -> {"none", "partial", "answer", "note"}]
  BY Facts
<1>2. PICK w \in job[b].queued :
        /\ job' = [job EXCEPT ![b].queued = @ \ {w}]
        /\ task' = IF w = "session" THEN [task EXCEPT ![b].session = job[b].session] ELSE task
        /\ reply' = IF w = "text" THEN [reply EXCEPT ![b] = "partial"] ELSE reply
  BY DEF WriteQueued
<1>3. /\ ambient' = ambient /\ tick' = tick /\ log' = log
      /\ minted' = minted /\ ghosts' = ghosts
  BY DEF WriteQueued
<1> DEFINE q == job[b].queued \ {w}
           t == IF w = "session" THEN [task[b] EXCEPT !.session = job[b].session] ELSE task[b]
<1>4. /\ job' = [job EXCEPT ![b] = [job[b] EXCEPT !.queued = q]]
      /\ task' = [task EXCEPT ![b] = t]
      /\ reply' \in [Block -> {"none", "partial", "answer", "note"}]
  BY <1>1, <1>2
<1>5. q \in SUBSET {"session", "text"}
  BY <1>1 DEF Jobs
<1>6. job[b].delivered => q = {}
  BY <1>1 DEF Delivered
<1>7. /\ t \in Tasks /\ t.status = task[b].status /\ t.attempts = task[b].attempts
      /\ t.cancel = task[b].cancel
  <2>1. job[b].session \in 0 .. minted
    BY <1>1 DEF Jobs
  <2> QED
    BY <1>1, <2>1 DEF Tasks
<1> HIDE DEF q, t
<1> QED
  BY <1>3, <1>4, <1>5, <1>6, <1>7, ProgressStep

LEMMA QueuedWriteFailsStep ==
  ASSUME DispatchInv, NEW b \in Block, QueuedWriteFails(b)
  PROVE  DispatchInv'
<1>1. /\ job \in [Block -> Jobs] /\ task \in [Block -> Tasks]
      /\ job[b] \in Jobs /\ task[b] \in Tasks /\ Delivered(job[b])
      /\ reply \in [Block -> {"none", "partial", "answer", "note"}]
  BY Facts
<1>2. PICK w \in job[b].queued : job' = [job EXCEPT ![b].queued = @ \ {w}]
  BY DEF QueuedWriteFails
<1> DEFINE q == job[b].queued \ {w}
<1>3. /\ job' = [job EXCEPT ![b] = [job[b] EXCEPT !.queued = q]]
      /\ task' = [task EXCEPT ![b] = task[b]]
      /\ reply' = reply /\ ambient' = ambient /\ tick' = tick /\ log' = log
      /\ minted' = minted /\ ghosts' = ghosts
  BY <1>1, <1>2 DEF QueuedWriteFails
<1>4. q \in SUBSET {"session", "text"}
  BY <1>1 DEF Jobs
<1>5. job[b].delivered => q = {}
  BY <1>1 DEF Delivered
<1> HIDE DEF q
<1> QED
  BY <1>1, <1>3, <1>4, <1>5, ProgressStep

\* A fresh key is nobody's.
LEMMA SessionKnownStep ==
  ASSUME DispatchInv, NEW b \in Block, SessionKnown(b)
  PROVE  DispatchInv'
<1> DEFINE s == minted + 1
           j == [job[b] EXCEPT !.session = s, !.holds = @ \cup {s},
                               !.queued = @ \cup {"session"}]
           t == task[b]
<1>1. /\ job \in [Block -> Jobs] /\ task \in [Block -> Tasks] /\ t \in Tasks
      /\ job[b] \in Jobs /\ log \in 0 .. RunsPerHour /\ ambient \subseteq Ambient
      /\ reply \in [Block -> {"none", "partial", "answer", "note"}]
      /\ tick \in Ticks /\ tick.left \subseteq DOMAIN tick.view
      /\ minted \in Nat /\ spawned \in Nat
      /\ runs \in [Block -> Nat] /\ ask \in [Block -> Nat] /\ stop \in [Block -> Nat]
      /\ Delivered(job[b]) /\ InOrder(b, t, job[b], runs[b])
      /\ Stopped(t, job[b], ask[b], stop[b]) /\ Swept(tick, b, job[b], ask[b], stop[b])
      /\ \A c \in Block \ {b} : job[b].holds \cap job[c].holds = {}
  BY Facts
<1>2. /\ task' = [task EXCEPT ![b] = t] /\ job' = [job EXCEPT ![b] = j]
      /\ reply' = reply /\ ambient' = ambient /\ tick' = tick /\ log' = log
      /\ minted' = s /\ spawned' = spawned /\ lost' = lost
      /\ runs' = runs /\ ask' = ask /\ stop' = stop /\ job[b].pc = "agent"
  BY <1>1 DEF SessionKnown, At, ghosts
<1>3. DOMAIN job[b] = {"pc", "attempts", "session", "holds", "stoppable", "aborted",
                       "queued", "result", "delivered"}
  BY <1>1 DEF Jobs
<1>4. s \in Nat /\ s > minted /\ s \in 0 .. s /\ s \in 1 .. s
  BY <1>1
<1>5. Jobs \subseteq Jobs' /\ Tasks \subseteq Tasks'
  BY <1>1, <1>2, <1>4, TypesGrow
<1>6. /\ s \in 0 .. minted' /\ job[b].holds \cup {s} \in SUBSET (1 .. minted')
      /\ job[b].queued \cup {"session"} \in SUBSET {"session", "text"}
  <2>1. /\ job[b].holds \in SUBSET (1 .. minted')
        /\ job[b].queued \in SUBSET {"session", "text"}
    <3>1. job[b] \in Jobs'
      BY <1>1, <1>5
    <3> QED
      BY <3>1 DEF Jobs
  <2> QED
    BY <1>2, <1>4, <2>1
<1>7. \A c \in Block \ {b} : (job[b].holds \cup {s}) \cap job[c].holds = {}
  <2>1. \A c \in Block : s \notin job[c].holds
    <3>1. \A c \in Block : job[c].holds \subseteq 1 .. minted
      BY <1>1 DEF Jobs
    <3>2. s \notin 1 .. minted
      BY <1>1
    <3> QED
      BY <3>1, <3>2
  <2> QED
    BY <1>1, <2>1
<1> HIDE DEF s
<1>8. /\ j.pc = job[b].pc /\ j.holds = job[b].holds \cup {s} /\ j.session = s
      /\ j.delivered = job[b].delivered /\ j.stoppable = job[b].stoppable
      /\ j.attempts = job[b].attempts
  BY <1>3
<1>9. j \in Jobs'
  <2>1. job[b] \in Jobs'
    BY <1>1, <1>5
  <2> QED
    BY <1>6, <2>1 DEF Jobs
<1>10. t \in Tasks'
  BY <1>1, <1>5
<1> HIDE DEF j
<1>11. InOrder(b, t, j, runs'[b])
  BY <1>1, <1>2, <1>8 DEF InOrder
<1>12. /\ Keyed(j) /\ Delivered(j) /\ Stopped(t, j, ask'[b], stop'[b])
       /\ Swept(tick', b, j, ask'[b], stop'[b])
  BY <1>1, <1>2, <1>8 DEF Keyed, Delivered, Stopped, Swept
<1>13. spawned' + Weight(j) + log <= spawned + Weight(job[b]) + log'
  BY <1>1, <1>2, <1>8, DispatchAssumption DEF Weight
<1>14. /\ minted' \in Nat /\ minted' >= minted /\ tick' \in Ticks
       /\ tick'.left \subseteq DOMAIN tick'.view /\ ambient' \subseteq Ambient
       /\ reply' \in [Block -> {"none", "partial", "answer", "note"}]
       /\ log' \in 0 .. RunsPerHour /\ spawned' \in Nat
       /\ runs' \in [Block -> Nat] /\ ask' \in [Block -> Nat] /\ stop' \in [Block -> Nat]
       /\ \A c \in Block \ {b} : runs'[c] = runs[c] /\ ask'[c] = ask[c] /\ stop'[c] = stop[c]
       /\ \A c \in Block \ {b} : j.holds \cap job[c].holds = {}
  BY <1>1, <1>2, <1>4, <1>7, <1>8
<1> HIDE DEF t
<1> QED
  BY <1>2, <1>9, <1>10, <1>11, <1>12, <1>13, <1>14, BlockStep

\* The run ends: what it has queued is written yet.
LEMMA AgentEndsStep ==
  ASSUME DispatchInv, NEW b \in Block, AgentEnds(b)
  PROVE  DispatchInv'
<1> DEFINE t == task[b]
<1>1. /\ job \in [Block -> Jobs] /\ task \in [Block -> Tasks] /\ t \in Tasks
      /\ job[b] \in Jobs /\ log \in 0 .. RunsPerHour /\ ambient \subseteq Ambient
      /\ reply \in [Block -> {"none", "partial", "answer", "note"}]
      /\ Delivered(job[b]) /\ InOrder(b, t, job[b], runs[b])
      /\ Stopped(t, job[b], ask[b], stop[b]) /\ Swept(tick, b, job[b], ask[b], stop[b])
  BY Facts
<1>2. PICK r \in {"answer", "note"} : job' = [job EXCEPT ![b].pc = "ended", ![b].result = r]
  BY DEF AgentEnds
<1> DEFINE j == [job[b] EXCEPT !.pc = "ended", !.result = r]
<1>3. /\ task' = [task EXCEPT ![b] = t] /\ job' = [job EXCEPT ![b] = j]
      /\ reply' = reply /\ ambient' = ambient /\ tick' = tick /\ log' = log
      /\ minted' = minted /\ ghosts' = ghosts /\ job[b].pc = "agent"
  BY <1>1, <1>2 DEF AgentEnds, At
<1>4. /\ j \in Jobs /\ j.pc = "ended" /\ j.holds = job[b].holds
      /\ j.delivered = job[b].delivered /\ j.stoppable = job[b].stoppable
  BY <1>1 DEF Jobs, Pcs
<1> HIDE DEF j
<1>5. InOrder(b, t, j, runs[b])
  BY <1>1, <1>3, <1>4 DEF InOrder, AtWork
<1>6. /\ Keyed(j) /\ Delivered(j) /\ Stopped(t, j, ask[b], stop[b])
      /\ Swept(tick, b, j, ask[b], stop[b])
  BY <1>1, <1>3, <1>4 DEF Keyed, Delivered, Stopped, Swept, AtWork
<1>7. Weight(j) + log <= Weight(job[b]) + log'
  BY <1>1, <1>3, <1>4, DispatchAssumption DEF Weight
<1> HIDE DEF t
<1> QED
  BY <1>1, <1>3, <1>4, <1>5, <1>6, <1>7, QuietStep

LEMMA WriteReplyStep ==
  ASSUME DispatchInv, NEW b \in Block, WriteReply(b)
  PROVE  DispatchInv'
<1> DEFINE t == task[b]
           j == [job[b] EXCEPT !.pc = "close", !.delivered = TRUE]
<1>1. /\ job \in [Block -> Jobs] /\ task \in [Block -> Tasks] /\ t \in Tasks
      /\ job[b] \in Jobs /\ log \in 0 .. RunsPerHour /\ ambient \subseteq Ambient
      /\ reply \in [Block -> {"none", "partial", "answer", "note"}]
      /\ InOrder(b, t, job[b], runs[b])
      /\ Stopped(t, job[b], ask[b], stop[b]) /\ Swept(tick, b, job[b], ask[b], stop[b])
  BY Facts
<1>2. /\ task' = [task EXCEPT ![b] = t] /\ job' = [job EXCEPT ![b] = j]
      /\ reply' = [reply EXCEPT ![b] = job[b].result]
      /\ ambient' = ambient /\ tick' = tick /\ log' = log
      /\ minted' = minted /\ ghosts' = ghosts /\ job[b].pc = "ended" /\ job[b].queued = {}
  BY <1>1 DEF WriteReply, At
<1>3. reply' \in [Block -> {"none", "partial", "answer", "note"}]
  BY <1>1, <1>2 DEF Jobs
<1>4. DOMAIN job[b] = {"pc", "attempts", "session", "holds", "stoppable", "aborted",
                       "queued", "result", "delivered"}
  BY <1>1 DEF Jobs
<1>5. /\ j.pc = "close" /\ j.holds = job[b].holds /\ j.queued = job[b].queued
      /\ j.stoppable = job[b].stoppable
  BY <1>4
<1>6. j \in Jobs
  BY <1>1 DEF Jobs, Pcs
<1> HIDE DEF j
<1>7. InOrder(b, t, j, runs[b])
  BY <1>1, <1>2, <1>5 DEF InOrder, AtWork
<1>8. /\ Keyed(j) /\ Delivered(j) /\ Stopped(t, j, ask[b], stop[b])
      /\ Swept(tick, b, j, ask[b], stop[b])
  BY <1>1, <1>2, <1>5 DEF Keyed, Delivered, Stopped, Swept, AtWork
<1>9. Weight(j) + log <= Weight(job[b]) + log'
  BY <1>1, <1>2, <1>5, DispatchAssumption DEF Weight
<1> HIDE DEF t
<1> QED
  BY <1>1, <1>2, <1>3, <1>5, <1>6, <1>7, <1>8, <1>9, QuietStep
-----------------------------------------------------------------------------
(***************************************************************************)
(* The end of a run, and its failures.                                     *)
(***************************************************************************)
\* The terminal properties that b's run writes.
LEMMA ClosedTask ==
  ASSUME DispatchInv, NEW b \in Block, NEW status \in {"done", "error"}
  PROVE  \E t \in Tasks : /\ Closed(b, status) = [task EXCEPT ![b] = t]
                          /\ t.status = status /\ ~t.cancel
                          /\ t.attempts = task[b].attempts
<1> DEFINE s == IF job[b].session = 0 THEN task[b].session ELSE job[b].session
           t == [task[b] EXCEPT !.status = status, !.cancel = FALSE, !.old = FALSE,
                                !.session = s]
<1>1. /\ task \in [Block -> Tasks] /\ task[b] \in Tasks /\ job[b] \in Jobs
  BY Facts
<1>2. s \in 0 .. minted
  BY <1>1 DEF Jobs, Tasks
<1>3. Closed(b, status) = [task EXCEPT ![b] = t]
  <2>1. CASE job[b].session = 0
    BY <1>1, <2>1 DEF Closed, Tasks
  <2>2. CASE job[b].session # 0
    BY <1>1, <2>2 DEF Closed
  <2> QED
    BY <2>1, <2>2
<1> HIDE DEF s
<1>4. t \in Tasks
  BY <1>1, <1>2 DEF Tasks
<1>5. t.status = status /\ ~t.cancel /\ t.attempts = task[b].attempts
  BY <1>1 DEF Tasks
<1> HIDE DEF t
<1> QED
  BY <1>3, <1>4, <1>5

LEMMA CloseTaskStep ==
  ASSUME DispatchInv, NEW b \in Block, CloseTask(b)
  PROVE  DispatchInv'
<1> DEFINE status == IF job[b].result = "answer" THEN "done" ELSE "error"
<1>1. /\ log \in 0 .. RunsPerHour /\ task[b] \in Tasks /\ job[b] \in Jobs
      /\ reply \in [Block -> {"none", "partial", "answer", "note"}]
      /\ InOrder(b, task[b], job[b], runs[b])
  BY Facts
<1>2. PICK t \in Tasks : /\ Closed(b, status) = [task EXCEPT ![b] = t]
                         /\ t.status = status /\ ~t.cancel
                         /\ t.attempts = task[b].attempts
  BY ClosedTask
<1>3. /\ task' = [task EXCEPT ![b] = t] /\ Leave(b)
      /\ UNCHANGED <<reply, ambient, tick, log, minted, ghosts>>
  BY <1>2 DEF CloseTask
<1>4. log <= Weight(job[b]) + log'
  BY <1>1, <1>3, DispatchAssumption DEF Weight
<1>5. b \notin Ambient => runs[b] <= t.attempts
  BY <1>1, <1>2 DEF InOrder
<1> QED
  BY <1>1, <1>2, <1>3, <1>4, <1>5, LeaveStep

LEMMA FailsEarlyStep ==
  ASSUME DispatchInv, NEW b \in Block, FailsEarly(b)
  PROVE  DispatchInv'
<1>1. Leave(b) /\ UNCHANGED <<task, reply, ambient, tick, log, minted, ghosts>>
  BY DEF FailsEarly
<1> QED
  BY <1>1, EarlyLeaveStep

LEMMA FlipStep ==
  ASSUME DispatchInv, NEW b \in Block, Flip(b)
  PROVE  DispatchInv'
<1> DEFINE e == [task[b] EXCEPT !.status = "error", !.cancel = FALSE, !.old = FALSE]
<1>1. /\ log \in 0 .. RunsPerHour /\ task[b] \in Tasks /\ task \in [Block -> Tasks]
      /\ reply \in [Block -> {"none", "partial", "answer", "note"}]
      /\ InOrder(b, task[b], job[b], runs[b])
  BY Facts
<1>2. /\ task' = [task EXCEPT ![b] = e] \/ task' = [task EXCEPT ![b] = task[b]]
      /\ Leave(b)
      /\ UNCHANGED <<reply, ambient, tick, log, minted, ghosts>>
  BY <1>1 DEF Flip
<1>3. e \in Tasks /\ e.status = "error" /\ ~e.cancel /\ e.attempts = task[b].attempts
  BY <1>1 DEF Tasks
<1>4. log <= Weight(job[b]) + log'
  BY <1>1, <1>2, DispatchAssumption DEF Weight
<1>5. /\ task[b].status = "asked" => task[b].attempts = 0
      /\ b \notin Ambient => runs[b] <= task[b].attempts
  BY <1>1 DEF InOrder
<1> HIDE DEF e
<1>6. CASE task' = [task EXCEPT ![b] = e]
  BY <1>1, <1>2, <1>3, <1>4, <1>5, <1>6, LeaveStep
<1>7. CASE task' = [task EXCEPT ![b] = task[b]]
  BY <1>1, <1>2, <1>4, <1>5, <1>7, LeaveStep
<1> QED
  BY <1>2, <1>6, <1>7

LEMMA ParkStep ==
  ASSUME DispatchInv, NEW b \in Block, Park(b)
  PROVE  DispatchInv'
<1> DEFINE e == [task[b] EXCEPT !.status = "error", !.old = FALSE]
<1>1. /\ log \in 0 .. RunsPerHour /\ task[b] \in Tasks /\ task \in [Block -> Tasks]
      /\ reply \in [Block -> {"none", "partial", "answer", "note"}]
      /\ InOrder(b, task[b], job[b], runs[b])
  BY Facts
<1>2. /\ task' = [task EXCEPT ![b] = e] \/ task' = [task EXCEPT ![b] = task[b]]
      /\ Leave(b)
      /\ UNCHANGED <<reply, ambient, tick, log, minted, ghosts>>
  BY <1>1 DEF Park
<1>3. /\ e \in Tasks /\ e.status = "error" /\ e.cancel = task[b].cancel
      /\ e.attempts = task[b].attempts
  BY <1>1 DEF Tasks
<1>4. log <= Weight(job[b]) + log'
  BY <1>1, <1>2, DispatchAssumption DEF Weight
<1>5. /\ task[b].status = "asked" => task[b].attempts = 0
      /\ b \notin Ambient => runs[b] <= task[b].attempts
  BY <1>1 DEF InOrder
<1> HIDE DEF e
<1>6. CASE task' = [task EXCEPT ![b] = e]
  BY <1>1, <1>2, <1>3, <1>4, <1>5, <1>6, LeaveStep
<1>7. CASE task' = [task EXCEPT ![b] = task[b]]
  BY <1>1, <1>2, <1>4, <1>5, <1>7, LeaveStep
<1> QED
  BY <1>2, <1>6, <1>7

\* The run ends in the catch of processMention, or comes out of it.
LEMMA CaughtStep ==
  ASSUME DispatchInv, NEW b \in Block, NEW p \in {"caught", "flip"}, Goto(b, p),
         NEW t \in Tasks, task' = [task EXCEPT ![b] = t],
         reply' \in [Block -> {"none", "partial", "answer", "note"}],
         ambient' = ambient, tick' = tick, log' = log, minted' = minted, ghosts' = ghosts,
         t.status = "asked" => t.attempts = 0,
         b \notin Ambient => runs[b] <= t.attempts,
         t.cancel => task[b].cancel
  PROVE  DispatchInv'
<1> DEFINE j == [job[b] EXCEPT !.pc = p]
<1>1. /\ job \in [Block -> Jobs] /\ job[b] \in Jobs
      /\ log \in 0 .. RunsPerHour /\ ambient \subseteq Ambient
      /\ Delivered(job[b]) /\ Stopped(task[b], job[b], ask[b], stop[b])
  BY Facts
<1>2. job' = [job EXCEPT ![b] = j]
  BY <1>1 DEF Goto
<1>3. /\ j \in Jobs /\ j.pc = p /\ j.holds = job[b].holds /\ j.queued = job[b].queued
      /\ j.delivered = job[b].delivered
  BY <1>1 DEF Jobs, Pcs
<1> HIDE DEF j
<1>4. InOrder(b, t, j, runs[b])
  BY <1>3 DEF InOrder, AtWork
<1>5. /\ Keyed(j) /\ Delivered(j) /\ Stopped(t, j, ask[b], stop[b])
      /\ Swept(tick, b, j, ask[b], stop[b])
  BY <1>1, <1>3 DEF Keyed, Delivered, Stopped, Swept, AtWork
<1>6. Weight(j) + log <= Weight(job[b]) + log'
  BY <1>1, <1>3, DispatchAssumption DEF Weight
<1> QED
  BY <1>1, <1>2, <1>3, <1>4, <1>5, <1>6, QuietStep

\* ... with the task as it was.
LEMMA CaughtIdleStep ==
  ASSUME DispatchInv, NEW b \in Block, NEW p \in {"caught", "flip"}, Goto(b, p),
         task' = task, reply' \in [Block -> {"none", "partial", "answer", "note"}],
         ambient' = ambient, tick' = tick, log' = log, minted' = minted, ghosts' = ghosts
  PROVE  DispatchInv'
<1>1. task[b] \in Tasks /\ task \in [Block -> Tasks] /\ InOrder(b, task[b], job[b], runs[b])
  BY Facts
<1>2. task' = [task EXCEPT ![b] = task[b]]
  BY <1>1
<1>3. /\ task[b].status = "asked" => task[b].attempts = 0
      /\ b \notin Ambient => runs[b] <= task[b].attempts
  BY <1>1 DEF InOrder
<1> QED
  BY <1>1, <1>2, <1>3, CaughtStep

LEMMA ClaimFailsStep ==
  ASSUME DispatchInv, NEW b \in Block, ClaimFails(b)
  PROVE  DispatchInv'
<1>1. /\ Goto(b, "caught") /\ reply' = reply /\ ambient' = ambient /\ tick' = tick
      /\ log' = log /\ minted' = minted /\ ghosts' = ghosts /\ job[b].pc = "claim"
      /\ task' = task \/ task' = Claimed(b)
  BY DEF ClaimFails, At
<1>2. /\ reply \in [Block -> {"none", "partial", "answer", "note"}]
      /\ task[b] \in Tasks /\ job[b] \in Jobs /\ runs[b] \in Nat
      /\ InOrder(b, task[b], job[b], runs[b])
  BY Facts
<1>3. CASE task' = task
  BY <1>1, <1>2, <1>3, CaughtIdleStep
<1>4. CASE task' = Claimed(b)
  <2>1. PICK t \in Tasks : /\ Claimed(b) = [task EXCEPT ![b] = t]
                           /\ t.status = "running" /\ t.cancel = task[b].cancel
                           /\ t.attempts = job[b].attempts + 1
    BY <1>1, ClaimedTask
  <2>2. b \notin Ambient => runs[b] <= t.attempts
    <3>1. b \notin Ambient => runs[b] <= job[b].attempts
      BY <1>1, <1>2 DEF InOrder
    <3>2. job[b].attempts \in Nat
      BY <1>2 DEF Jobs
    <3> QED
      BY <1>2, <2>1, <3>1, <3>2
  <2> QED
    BY <1>1, <1>2, <1>4, <2>1, <2>2, CaughtStep
<1> QED
  BY <1>1, <1>3, <1>4

LEMMA StartFailsStep ==
  ASSUME DispatchInv, NEW b \in Block, StartFails(b)
  PROVE  DispatchInv'
<1>1. /\ Goto(b, "caught") /\ task' = task /\ reply' = reply /\ ambient' = ambient
      /\ tick' = tick /\ log' = log /\ minted' = minted /\ ghosts' = ghosts
  BY DEF StartFails
<1>2. reply \in [Block -> {"none", "partial", "answer", "note"}]
  BY Facts
<1> QED
  BY <1>1, <1>2, CaughtIdleStep

LEMMA ReplyFailsStep ==
  ASSUME DispatchInv, NEW b \in Block, ReplyFails(b)
  PROVE  DispatchInv'
<1>1. /\ Goto(b, "caught") /\ task' = task /\ ambient' = ambient
      /\ tick' = tick /\ log' = log /\ minted' = minted /\ ghosts' = ghosts
      /\ reply' \in {reply, [reply EXCEPT ![b] = job[b].result]}
  BY DEF ReplyFails
<1>2. reply \in [Block -> {"none", "partial", "answer", "note"}] /\ job[b] \in Jobs
  BY Facts
<1>3. reply' \in [Block -> {"none", "partial", "answer", "note"}]
  BY <1>1, <1>2 DEF Jobs
<1> QED
  BY <1>1, <1>3, CaughtIdleStep

LEMMA CloseFailsStep ==
  ASSUME DispatchInv, NEW b \in Block, CloseFails(b)
  PROVE  DispatchInv'
<1> DEFINE status == IF job[b].result = "answer" THEN "done" ELSE "error"
<1>1. /\ Goto(b, "caught") /\ reply' = reply /\ ambient' = ambient /\ tick' = tick
      /\ log' = log /\ minted' = minted /\ ghosts' = ghosts
      /\ task' = task \/ task' = Closed(b, status)
  BY DEF CloseFails
<1>2. /\ reply \in [Block -> {"none", "partial", "answer", "note"}]
      /\ InOrder(b, task[b], job[b], runs[b])
  BY Facts
<1>3. CASE task' = task
  BY <1>1, <1>2, <1>3, CaughtIdleStep
<1>4. CASE task' = Closed(b, status)
  <2>1. PICK t \in Tasks : /\ Closed(b, status) = [task EXCEPT ![b] = t]
                           /\ t.status = status /\ ~t.cancel
                           /\ t.attempts = task[b].attempts
    BY ClosedTask
  <2>2. b \notin Ambient => runs[b] <= t.attempts
    BY <1>2, <2>1 DEF InOrder
  <2> QED
    BY <1>1, <1>2, <1>4, <2>1, <2>2, CaughtStep
<1> QED
  BY <1>1, <1>3, <1>4

LEMMA NoteStep ==
  ASSUME DispatchInv, NEW b \in Block, Note(b)
  PROVE  DispatchInv'
<1>1. /\ Goto(b, "flip") /\ task' = task /\ ambient' = ambient
      /\ tick' = tick /\ log' = log /\ minted' = minted /\ ghosts' = ghosts
      /\ reply' \in {reply, [reply EXCEPT ![b] = "note"]}
  BY DEF Note
<1>2. reply \in [Block -> {"none", "partial", "answer", "note"}]
  BY Facts
<1>3. reply' \in [Block -> {"none", "partial", "answer", "note"}]
  BY <1>1, <1>2
<1> QED
  BY <1>1, <1>3, CaughtIdleStep
-----------------------------------------------------------------------------
(***************************************************************************)
(* The tick.                                                               *)
(***************************************************************************)
LEMMA NoTickTyped ==
  /\ NoTick \in Ticks /\ NoTick.left \subseteq DOMAIN NoTick.view
  /\ NoTick.phase = "idle" /\ NoTick.left = {} /\ NoTick.flagged = {}
<1> DEFINE none == [b \in {} |-> {}]
<1>1. none \in [{} -> Views] /\ {} \in SUBSET Block
  OBVIOUS
<1>2. none \in UNION {[S -> Views] : S \in SUBSET Block}
  BY <1>1
<1> HIDE DEF none
<1>3. NoTick = [phase |-> "idle", flagged |-> {}, view |-> none, left |-> {}]
  BY DEF NoTick, none
<1> QED
  BY <1>2, <1>3 DEF Ticks

LEMMA TickOnly ==
  ASSUME DispatchInv, UNCHANGED <<task, reply, ambient, job, log, minted, ghosts>>,
         tick' \in Ticks, tick'.left \subseteq DOMAIN tick'.view,
         \A b \in Block : Swept(tick', b, job[b], ask[b], stop[b])
  PROVE  DispatchInv'
<1>1. Shape /\ HeldOnce /\ Budgeted /\ \A b \in Block : BlockInv(b)
  BY DEF DispatchInv
<1>2. /\ task' = task /\ reply' = reply /\ ambient' = ambient /\ job' = job
      /\ log' = log /\ minted' = minted /\ spawned' = spawned /\ lost' = lost
      /\ runs' = runs /\ ask' = ask /\ stop' = stop
  BY DEF ghosts
<1>3. Shape'
  BY <1>1, <1>2 DEF Shape, DispatchTypeOK, Ticks, Tasks
<1>4. HeldOnce' /\ Budgeted'
  BY <1>1, <1>2 DEF HeldOnce, Budgeted, Underway
<1>5. \A b \in Block : BlockInv(b)'
  BY <1>1, <1>2 DEF BlockInv, InOrder, Keyed, Delivered, Stopped, Swept
<1> QED
  BY <1>3, <1>4, <1>5 DEF DispatchInv

\* ... to one that is not about to abort anything.
LEMMA CalmTick ==
  ASSUME DispatchInv, UNCHANGED <<task, reply, ambient, job, log, minted, ghosts>>,
         tick' \in Ticks, tick'.left \subseteq DOMAIN tick'.view, tick'.phase # "sweep"
  PROVE  DispatchInv'
BY TickOnly DEF Swept

\* The sweep flags only what has a Stop, and could be stopped.
LEMMA SweepReadStep ==
  ASSUME DispatchInv, SweepRead
  PROVE  DispatchInv'
<1>1. tick' = [NoTick EXCEPT !.phase = "sweep", !.flagged = Flagged]
      /\ UNCHANGED <<task, reply, ambient, job, log, minted, ghosts>>
  BY DEF SweepRead
<1>2. /\ tick' \in Ticks /\ tick'.left \subseteq DOMAIN tick'.view
      /\ tick'.phase = "sweep" /\ tick'.flagged = Flagged
  <2>1. DOMAIN NoTick = {"phase", "flagged", "view", "left"} /\ Flagged \in SUBSET Block
    BY DEF NoTick, Flagged
  <2> QED
    BY <1>1, <2>1, NoTickTyped DEF Ticks
<1>3. ASSUME NEW b \in Block PROVE Swept(tick', b, job[b], ask[b], stop[b])
  <2>1. Stopped(task[b], job[b], ask[b], stop[b])
    BY Facts
  <2> QED
    BY <1>2, <2>1 DEF Swept, Stopped, Flagged
<1> QED
  BY <1>1, <1>2, <1>3, TickOnly

LEMMA SweepAbortStep ==
  ASSUME DispatchInv, SweepAbort
  PROVE  DispatchInv'
<1>1. Shape /\ HeldOnce /\ Budgeted /\ \A b \in Block : BlockInv(b)
  BY DEF DispatchInv
<1>2. /\ task' = task /\ reply' = reply /\ ambient' = ambient
      /\ log' = log /\ minted' = minted /\ spawned' = spawned /\ lost' = lost
      /\ runs' = runs /\ ask' = ask /\ stop' = stop
      /\ tick' = [NoTick EXCEPT !.phase = "list"]
      /\ job' = [b \in Block |->
           IF b \in tick.flagged /\ job[b].stoppable
           THEN [job[b] EXCEPT !.aborted = TRUE, !.stoppable = FALSE] ELSE job[b]]
  BY DEF SweepAbort, ghosts
<1>3. tick' \in Ticks /\ tick'.left \subseteq DOMAIN tick'.view /\ tick'.phase = "list"
  <2>1. DOMAIN NoTick = {"phase", "flagged", "view", "left"}
    BY DEF NoTick
  <2> QED
    BY <1>2, <2>1, NoTickTyped DEF Ticks
<1>4. job \in [Block -> Jobs]
  BY <1>1 DEF Shape, DispatchTypeOK, Jobs
<1>5. ASSUME NEW b \in Block
      PROVE  /\ job'[b] \in Jobs /\ job'[b].pc = job[b].pc /\ job'[b].holds = job[b].holds
             /\ job'[b].session = job[b].session /\ job'[b].attempts = job[b].attempts
             /\ job'[b].delivered = job[b].delivered /\ job'[b].queued = job[b].queued
             /\ job'[b].stoppable => job[b].stoppable
  <2> DEFINE j == [job[b] EXCEPT !.aborted = TRUE, !.stoppable = FALSE]
  <2>1. job[b] \in Jobs
    BY <1>4
  <2>2. DOMAIN job[b] = {"pc", "attempts", "session", "holds", "stoppable", "aborted",
                         "queued", "result", "delivered"}
    BY <2>1 DEF Jobs
  <2>3. /\ j.pc = job[b].pc /\ j.holds = job[b].holds /\ j.session = job[b].session
        /\ j.attempts = job[b].attempts /\ j.delivered = job[b].delivered
        /\ j.queued = job[b].queued /\ ~j.stoppable
    BY <2>2
  <2>4. j \in Jobs
    BY <2>1 DEF Jobs
  <2>5. job'[b] = j \/ job'[b] = job[b]
    BY <1>2
  <2> HIDE DEF j
  <2> QED
    BY <2>1, <2>3, <2>4, <2>5
<1>6. job' \in [Block -> Jobs]
  <2>1. job' = [b \in Block |-> job'[b]]
    BY <1>2
  <2> QED
    BY <1>5, <2>1
<1>7. Shape'
  BY <1>1, <1>2, <1>3, <1>6 DEF Shape, DispatchTypeOK, Ticks, Tasks, Jobs
<1>8. HeldOnce'
  BY <1>1, <1>5 DEF HeldOnce
<1>9. Budgeted'
  <2>1. Underway' = Underway
    BY <1>5 DEF Underway
  <2> QED
    BY <1>1, <1>2, <2>1 DEF Budgeted
<1>10. ASSUME NEW b \in Block PROVE BlockInv(b)'
  <2>1. BlockInv(b)
    BY <1>1
  <2>2. /\ task'[b] = task[b] /\ runs'[b] = runs[b] /\ ask'[b] = ask[b] /\ stop'[b] = stop[b]
    BY <1>2
  <2> QED
    BY <1>3, <1>5, <2>1, <2>2 DEF BlockInv, InOrder, Keyed, Delivered, Stopped, Swept
<1> QED
  BY <1>7, <1>8, <1>9, <1>10 DEF DispatchInv

LEMMA ListStep ==
  ASSUME DispatchInv, List
  PROVE  DispatchInv'
<1> DEFINE view == [b \in Block |-> [verdict |-> Decide(task[b]),
                                     stop |-> task[b].cancel /\ task[b].status = "running"]]
           left == {b \in Block : view[b].verdict # "processed" \/ view[b].stop}
           seen == [b \in left |-> view[b]]
<1>1. /\ UNCHANGED <<task, reply, ambient, job, log, minted, ghosts>>
      /\ tick' = IF left = {} THEN NoTick
                 ELSE [phase |-> "scan", flagged |-> {}, left |-> left, view |-> seen]
  BY DEF List
<1>2. \A b \in Block : view[b] \in Views
  <2>1. task \in [Block -> Tasks]
    BY DEF DispatchInv, Shape, DispatchTypeOK
  <2>2. \A b \in Block : Decide(task[b]) \in {"pending", "exhausted", "processed"}
    BY DEF Decide
  <2>3. \A b \in Block : (task[b].cancel /\ task[b].status = "running") \in BOOLEAN
    OBVIOUS
  <2> QED
    BY <2>2, <2>3 DEF Views
<1>3. left \subseteq Block
  OBVIOUS
<1> HIDE DEF view
<1>4. seen \in [left -> Views]
  BY <1>2
<1>5. seen \in UNION {[S -> Views] : S \in SUBSET Block} /\ DOMAIN seen = left
  BY <1>3, <1>4
<1> HIDE DEF seen, left
<1>6. tick' \in Ticks /\ tick'.left \subseteq DOMAIN tick'.view /\ tick'.phase # "sweep"
  BY <1>1, <1>3, <1>5, NoTickTyped DEF Ticks
<1> QED
  BY <1>1, <1>6, CalmTick

\* The tick after the scan has gone past b.
LEMMA PastTyped ==
  ASSUME DispatchInv, NEW b \in Block, tick.phase = "scan", Past(b)
  PROVE  tick' \in Ticks /\ tick'.left \subseteq DOMAIN tick'.view /\ tick'.phase # "sweep"
<1> DEFINE k == [tick EXCEPT !.left = @ \ {b}]
<1>1. tick \in Ticks /\ tick.left \subseteq DOMAIN tick.view
  BY Facts
<1>2. DOMAIN tick = {"phase", "flagged", "view", "left"}
  BY <1>1 DEF Ticks
<1>3. k.left = tick.left \ {b} /\ k.view = tick.view /\ k.phase = "scan"
  BY <1>2
<1>4. k \in Ticks
  BY <1>1 DEF Ticks
<1>5. tick' = NoTick \/ tick' = k
  BY DEF Past
<1> HIDE DEF k
<1> QED
  BY <1>1, <1>3, <1>4, <1>5, NoTickTyped

LEMMA PassOverStep ==
  ASSUME DispatchInv, NEW b \in Block, PassOver(b)
  PROVE  DispatchInv'
<1>1. /\ tick.phase = "scan" /\ Past(b)
      /\ UNCHANGED <<task, reply, ambient, job, log, minted, ghosts>>
  BY DEF PassOver, Scanning
<1> QED
  BY <1>1, PastTyped, CalmTick

LEMMA StartClearingStep ==
  ASSUME DispatchInv, NEW b \in Block, StartClearing(b)
  PROVE  DispatchInv'
<1>1. /\ tick' = [tick EXCEPT !.phase = "clear", !.flagged = {b}]
      /\ UNCHANGED <<task, reply, ambient, job, log, minted, ghosts>>
  BY DEF StartClearing
<1>2. tick \in Ticks /\ tick.left \subseteq DOMAIN tick.view
  BY Facts
<1>3. DOMAIN tick = {"phase", "flagged", "view", "left"}
  BY <1>2 DEF Ticks
<1>4. tick'.left = tick.left /\ tick'.view = tick.view /\ tick'.phase = "clear"
  BY <1>1, <1>3
<1>5. tick' \in Ticks
  BY <1>1, <1>2 DEF Ticks
<1> QED
  BY <1>1, <1>2, <1>4, <1>5, CalmTick

LEMMA DeferStep ==
  ASSUME DispatchInv, NEW b \in Block, Defer(b)
  PROVE  DispatchInv'
<1>1. tick' = NoTick /\ UNCHANGED <<task, reply, ambient, job, log, minted, ghosts>>
  BY DEF Defer
<1> QED
  BY <1>1, NoTickTyped, CalmTick

LEMMA TickFailsStep ==
  ASSUME DispatchInv, TickFails
  PROVE  DispatchInv'
<1>1. /\ tick' = NoTick \/ tick' = [NoTick EXCEPT !.phase = "list"]
      /\ UNCHANGED <<task, reply, ambient, job, log, minted, ghosts>>
  BY DEF TickFails
<1>2. tick' \in Ticks /\ tick'.left \subseteq DOMAIN tick'.view /\ tick'.phase # "sweep"
  <2>1. DOMAIN NoTick = {"phase", "flagged", "view", "left"}
    BY DEF NoTick
  <2> QED
    BY <1>1, <2>1, NoTickTyped DEF Ticks
<1> QED
  BY <1>1, <1>2, CalmTick

\* A step of the scan that starts a run of b, or clears its flag.
LEMMA ScanStep ==
  ASSUME DispatchInv, NEW b \in Block, NEW j \in Jobs, NEW t \in Tasks,
         job' = [job EXCEPT ![b] = j], task' = [task EXCEPT ![b] = t],
         tick' \in Ticks, tick'.left \subseteq DOMAIN tick'.view, tick'.phase # "sweep",
         UNCHANGED <<reply, ambient, minted, ghosts>>, log' \in 0 .. RunsPerHour,
         Weight(j) + log <= Weight(job[b]) + log',
         j.holds \subseteq job[b].holds,
         InOrder(b, t, j, runs[b]), Keyed(j), Delivered(j), Stopped(t, j, ask[b], stop[b])
  PROVE  DispatchInv'
<1>1. /\ log \in 0 .. RunsPerHour /\ spawned \in Nat /\ minted \in Nat /\ ambient \subseteq Ambient
      /\ reply \in [Block -> {"none", "partial", "answer", "note"}]
      /\ runs \in [Block -> Nat] /\ ask \in [Block -> Nat] /\ stop \in [Block -> Nat]
      /\ \A c \in Block \ {b} : job[b].holds \cap job[c].holds = {}
  BY Facts
<1>2. j \in Jobs' /\ t \in Tasks'
  BY DEF Jobs, Tasks
<1>3. /\ spawned' = spawned /\ lost' = lost /\ runs' = runs /\ ask' = ask /\ stop' = stop
      /\ reply' = reply /\ ambient' = ambient /\ minted' = minted
  BY DEF ghosts
<1>4. \A c \in Block \ {b} : j.holds \cap job[c].holds = {}
  BY <1>1
<1>5. spawned' + Weight(j) + log <= spawned + Weight(job[b]) + log'
  <2>1. Weight(j) \in Nat /\ Weight(job[b]) \in Nat /\ log \in Nat /\ log' \in Nat
    BY <1>1, DispatchAssumption DEF Weight
  <2> QED
    BY <1>1, <1>3, <2>1
<1>6. minted' \in Nat /\ minted' >= minted /\ ambient' \subseteq Ambient
      /\ reply' \in [Block -> {"none", "partial", "answer", "note"}]
  BY <1>1, <1>3
<1>7. /\ runs' \in [Block -> Nat] /\ ask' \in [Block -> Nat] /\ stop' \in [Block -> Nat]
      /\ spawned' \in Nat
      /\ \A c \in Block \ {b} : runs'[c] = runs[c] /\ ask'[c] = ask[c] /\ stop'[c] = stop[c]
      /\ InOrder(b, t, j, runs'[b]) /\ Stopped(t, j, ask'[b], stop'[b])
  BY <1>1, <1>3
<1>8. Swept(tick', b, j, ask'[b], stop'[b])
  BY DEF Swept
<1> QED
  BY <1>2, <1>3, <1>4, <1>5, <1>6, <1>7, <1>8, BlockStep

LEMMA ClearInertStep ==
  ASSUME DispatchInv, NEW b \in Block, ClearInert(b)
  PROVE  DispatchInv'
<1> DEFINE t == [task[b] EXCEPT !.cancel = FALSE]
           j == job[b]
           k == [tick EXCEPT !.phase = "scan", !.flagged = {}, !.left = @ \ {b}]
<1>1. /\ job \in [Block -> Jobs] /\ task \in [Block -> Tasks] /\ j \in Jobs /\ task[b] \in Tasks
      /\ log \in 0 .. RunsPerHour /\ tick \in Ticks /\ tick.left \subseteq DOMAIN tick.view
      /\ InOrder(b, task[b], j, runs[b]) /\ Keyed(j) /\ Delivered(j)
      /\ Stopped(task[b], j, ask[b], stop[b])
  BY Facts
<1>2. /\ task' = [task EXCEPT ![b] = t] /\ job' = [job EXCEPT ![b] = j]
      /\ UNCHANGED <<reply, ambient, log, minted, ghosts>>
      /\ tick' = NoTick \/ tick' = k
  BY <1>1 DEF ClearInert
<1>3. /\ t \in Tasks /\ t.status = task[b].status /\ t.attempts = task[b].attempts /\ ~t.cancel
  BY <1>1 DEF Tasks
<1>4. DOMAIN tick = {"phase", "flagged", "view", "left"}
  BY <1>1 DEF Ticks
<1>5. k.left = tick.left \ {b} /\ k.view = tick.view /\ k.phase = "scan"
  BY <1>4
<1>6. k \in Ticks
  BY <1>1 DEF Ticks
<1> HIDE DEF k, t
<1>7. tick' \in Ticks /\ tick'.left \subseteq DOMAIN tick'.view /\ tick'.phase # "sweep"
  BY <1>1, <1>2, <1>5, <1>6, NoTickTyped
<1>8. InOrder(b, t, j, runs[b]) /\ Stopped(t, j, ask[b], stop[b])
  BY <1>1, <1>3 DEF InOrder, Stopped
<1>9. Weight(j) + log <= Weight(job[b]) + log'
  BY <1>1, <1>2, DispatchAssumption DEF Weight
<1> QED
  BY <1>1, <1>2, <1>3, <1>7, <1>8, <1>9, ScanStep

\* What a launch makes of the run of b.
LEMMA Launched ==
  ASSUME DispatchInv, NEW b \in Block, ~Busy(b), NEW p \in {"park", "read"}, Goto(b, p)
  PROVE  \E j \in Jobs :
           /\ job' = [job EXCEPT ![b] = j]
           /\ Weight(job[b]) = 0 /\ Weight(j) = (IF p = "read" THEN 1 ELSE 0)
           /\ j.holds = job[b].holds
           /\ InOrder(b, task[b], j, runs[b]) /\ Keyed(j) /\ Delivered(j)
           /\ Stopped(task[b], j, ask[b], stop[b])
<1> DEFINE j == [job[b] EXCEPT !.pc = p]
<1>1. /\ job \in [Block -> Jobs] /\ job[b] \in Jobs
      /\ InOrder(b, task[b], job[b], runs[b]) /\ Delivered(job[b])
      /\ Stopped(task[b], job[b], ask[b], stop[b]) /\ job[b].pc = "none"
  BY Facts DEF Busy
<1>2. job' = [job EXCEPT ![b] = j]
  BY <1>1 DEF Goto
<1>3. DOMAIN job[b] = {"pc", "attempts", "session", "holds", "stoppable", "aborted",
                       "queued", "result", "delivered"}
  BY <1>1 DEF Jobs
<1>4. /\ j.pc = p /\ j.holds = job[b].holds /\ j.delivered = job[b].delivered
      /\ j.stoppable = job[b].stoppable
  BY <1>3
<1>5. j \in Jobs
  BY <1>1 DEF Jobs, Pcs
<1> HIDE DEF j
<1>6. Weight(job[b]) = 0 /\ Weight(j) = (IF p = "read" THEN 1 ELSE 0)
  BY <1>1, <1>4 DEF Weight
<1>7. InOrder(b, task[b], j, runs[b])
  BY <1>1, <1>4 DEF InOrder, AtWork
<1>8. Keyed(j) /\ Delivered(j) /\ Stopped(task[b], j, ask[b], stop[b])
  BY <1>1, <1>4 DEF Keyed, Delivered, Stopped
<1> QED
  BY <1>2, <1>4, <1>5, <1>6, <1>7, <1>8

LEMMA LaunchParkStep ==
  ASSUME DispatchInv, NEW b \in Block, LaunchPark(b)
  PROVE  DispatchInv'
<1>1. /\ tick.phase = "scan" /\ Past(b) /\ Goto(b, "park") /\ ~Busy(b)
      /\ UNCHANGED <<task, reply, ambient, log, minted, ghosts>>
  BY DEF LaunchPark, Scanning
<1>2. tick' \in Ticks /\ tick'.left \subseteq DOMAIN tick'.view /\ tick'.phase # "sweep"
  BY <1>1, PastTyped
<1>3. PICK j \in Jobs :
        /\ job' = [job EXCEPT ![b] = j]
        /\ Weight(job[b]) = 0 /\ Weight(j) = 0 /\ j.holds = job[b].holds
        /\ InOrder(b, task[b], j, runs[b]) /\ Keyed(j) /\ Delivered(j)
        /\ Stopped(task[b], j, ask[b], stop[b])
  BY <1>1, Launched
<1>4. /\ task' = [task EXCEPT ![b] = task[b]] /\ task[b] \in Tasks
      /\ log' \in 0 .. RunsPerHour
  BY <1>1, Facts
<1>5. Weight(j) + log <= Weight(job[b]) + log'
  BY <1>1, <1>3, <1>4, DispatchAssumption
<1> QED
  BY <1>1, <1>2, <1>3, <1>4, <1>5, ScanStep

LEMMA LaunchStep ==
  ASSUME DispatchInv, NEW b \in Block, Launch(b)
  PROVE  DispatchInv'
<1>1. /\ tick.phase = "scan" /\ Past(b) /\ Goto(b, "read") /\ ~Busy(b)
      /\ log' = log + 1 /\ log < RunsPerHour
      /\ UNCHANGED <<task, reply, ambient, minted, ghosts>>
  BY DEF Launch, Scanning, BudgetLeft
<1>2. tick' \in Ticks /\ tick'.left \subseteq DOMAIN tick'.view /\ tick'.phase # "sweep"
  BY <1>1, PastTyped
<1>3. PICK j \in Jobs :
        /\ job' = [job EXCEPT ![b] = j]
        /\ Weight(job[b]) = 0 /\ Weight(j) = 1 /\ j.holds = job[b].holds
        /\ InOrder(b, task[b], j, runs[b]) /\ Keyed(j) /\ Delivered(j)
        /\ Stopped(task[b], j, ask[b], stop[b])
  BY <1>1, Launched
<1>4. /\ task' = [task EXCEPT ![b] = task[b]] /\ task[b] \in Tasks
      /\ log \in 0 .. RunsPerHour
  BY <1>1, Facts
<1>5. log' \in 0 .. RunsPerHour /\ Weight(j) + log <= Weight(job[b]) + log'
  BY <1>1, <1>3, <1>4, DispatchAssumption
<1> QED
  BY <1>1, <1>2, <1>3, <1>4, <1>5, ScanStep
-----------------------------------------------------------------------------
(***************************************************************************)
(* The daemon dies; the hour passes.                                       *)
(***************************************************************************)
LEMMA DieStep ==
  ASSUME DispatchInv, Die
  PROVE  DispatchInv'
<1>1. Shape /\ HeldOnce /\ Budgeted /\ \A b \in Block : BlockInv(b)
  BY DEF DispatchInv
<1>2. /\ task' = task /\ reply' = reply /\ ambient' = ambient
      /\ minted' = minted /\ spawned' = spawned
      /\ runs' = runs /\ ask' = ask /\ stop' = stop
      /\ tick' = NoTick /\ job' = [b \in Block |-> NoJob]
  BY DEF Die
<1>3. PICK n \in 0 .. log : log' = n /\ lost' = lost + (log - n)
  BY DEF Die
<1>4. log \in 0 .. RunsPerHour /\ spawned \in Nat /\ lost \in Nat /\ minted \in Nat
  BY <1>1 DEF Shape, DispatchTypeOK
<1>5. /\ log' \in 0 .. RunsPerHour /\ lost' \in Nat /\ log' + lost' = log + lost
  BY <1>3, <1>4, DispatchAssumption
<1>6. NoJob \in Jobs /\ NoJob.pc = "none" /\ NoJob.holds = {} /\ ~NoJob.delivered
      /\ ~NoJob.stoppable
  <2>1. 0 \in 0 .. MaxAttempts /\ 0 \in 0 .. minted
    BY <1>4, DispatchAssumption
  <2> QED
    BY <2>1 DEF NoJob, Jobs, Pcs
<1>7. \A b \in Block : job'[b] = NoJob
  BY <1>2
<1>8. job' \in [Block -> Jobs]
  BY <1>2, <1>6
<1>9. Shape'
  BY <1>1, <1>2, <1>5, <1>8, NoTickTyped DEF Shape, DispatchTypeOK, Ticks, Tasks, Jobs
<1>10. HeldOnce'
  BY <1>6, <1>7 DEF HeldOnce
<1>11. Budgeted'
  <2>1. Underway' = {}
    BY <1>6, <1>7 DEF Underway
  <2>2. Cardinality(Underway') = 0
    BY <2>1, FS_EmptySet
  <2>3. Cardinality(Underway) \in Nat
    BY FS_Subset, FS_CardinalityType, DispatchAssumption DEF Underway
  <2>4. spawned + Cardinality(Underway) <= log + lost
    BY <1>1 DEF Budgeted
  <2>5. spawned' <= log' + lost' /\ spawned' + 0 = spawned'
    <3>1. log \in Nat /\ log' \in Nat
      BY <1>4, <1>5, DispatchAssumption
    <3>2. PICK k \in Nat : spawned + k <= log + lost
      BY <2>3, <2>4
    <3>3. spawned <= log + lost
      BY <1>4, <3>1, <3>2
    <3>4. spawned' = spawned /\ log' + lost' = log + lost
      BY <1>2, <1>5
    <3> QED
      BY <1>4, <3>3, <3>4
  <2> QED
    BY <2>2, <2>5 DEF Budgeted
<1>12. ASSUME NEW b \in Block PROVE BlockInv(b)'
  <2>1. BlockInv(b)
    BY <1>1
  <2>2. /\ task'[b] = task[b] /\ runs'[b] = runs[b] /\ ask'[b] = ask[b] /\ stop'[b] = stop[b]
        /\ job'[b] = NoJob /\ tick'.phase = "idle"
    BY <1>2, <1>7, NoTickTyped
  <2> QED
    BY <1>6, <2>1, <2>2
       DEF BlockInv, InOrder, Keyed, Delivered, Stopped, Swept, AtWork
<1> QED
  BY <1>9, <1>10, <1>11, <1>12 DEF DispatchInv

LEMMA HourPassesStep ==
  ASSUME DispatchInv, HourPasses
  PROVE  DispatchInv'
<1>1. Shape /\ HeldOnce /\ Budgeted /\ \A b \in Block : BlockInv(b)
  BY DEF DispatchInv
<1>2. /\ task' = task /\ reply' = reply /\ ambient' = ambient /\ job' = job
      /\ minted' = minted /\ runs' = runs /\ ask' = ask /\ stop' = stop /\ tick' = tick
      /\ log' = 0 /\ spawned' = 0 /\ lost' = 0
  BY DEF HourPasses
<1>3. 0 \in 0 .. RunsPerHour
  BY DispatchAssumption
<1>4. Shape'
  BY <1>1, <1>2, <1>3 DEF Shape, DispatchTypeOK, Ticks, Tasks
<1>5. Budgeted'
  <2>1. Underway' = {}
    BY DEF HourPasses, Underway
  <2>2. Cardinality(Underway') = 0
    BY <2>1, FS_EmptySet
  <2> QED
    BY <1>2, <2>2 DEF Budgeted
<1>6. HeldOnce' /\ \A b \in Block : BlockInv(b)'
  BY <1>1, <1>2 DEF HeldOnce, BlockInv, InOrder, Keyed, Delivered, Stopped, Swept
<1> QED
  BY <1>4, <1>5, <1>6 DEF DispatchInv

LEMMA StutterStep ==
  ASSUME DispatchInv, UNCHANGED dispatchVars
  PROVE  DispatchInv'
<1>1. tick' = tick /\ UNCHANGED <<task, reply, ambient, job, log, minted, ghosts>>
  BY DEF dispatchVars
<1>2. tick \in Ticks /\ tick.left \subseteq DOMAIN tick.view
      /\ \A b \in Block : Swept(tick, b, job[b], ask[b], stop[b])
  BY DEF DispatchInv, Shape, DispatchTypeOK, BlockInv
<1> QED
  BY <1>1, <1>2, TickOnly
-----------------------------------------------------------------------------
LEMMA Begins == DispatchInit => DispatchInv
<1> SUFFICES ASSUME DispatchInit PROVE DispatchInv
  OBVIOUS
<1> DEFINE fresh == [status |-> "none", attempts |-> 0, old |-> FALSE, cancel |-> FALSE,
                     session |-> 0]
<1>1. /\ task = [b \in Block |-> fresh] /\ reply = [b \in Block |-> "none"] /\ ambient = {}
      /\ job = [b \in Block |-> NoJob] /\ tick = NoTick /\ log = 0 /\ minted = 0
      /\ spawned = 0 /\ lost = 0 /\ runs = [b \in Block |-> 0]
      /\ ask = [b \in Block |-> 0] /\ stop = [b \in Block |-> 0]
  BY DEF DispatchInit
<1>2. 0 \in 0 .. MaxAttempts /\ 0 \in 0 .. minted /\ 0 \in 0 .. RunsPerHour
  BY <1>1, DispatchAssumption
<1>3. fresh \in Tasks /\ fresh.status = "none" /\ fresh.attempts = 0 /\ ~fresh.cancel
  BY <1>2 DEF Tasks
<1>4. NoJob \in Jobs /\ NoJob.pc = "none" /\ NoJob.holds = {} /\ ~NoJob.delivered
      /\ ~NoJob.stoppable
  BY <1>2 DEF NoJob, Jobs, Pcs
<1> HIDE DEF fresh
<1>5. \A b \in Block : /\ job[b] = NoJob /\ task[b] = fresh /\ runs[b] = 0
                       /\ tick.phase = "idle"
  BY <1>1, NoTickTyped
<1>6. Shape
  <2>1. task \in [Block -> Tasks] /\ job \in [Block -> Jobs]
    BY <1>1, <1>3, <1>4
  <2> QED
    BY <1>1, <1>2, <2>1, NoTickTyped DEF Shape, DispatchTypeOK, Ticks, Jobs
<1>7. HeldOnce
  BY <1>4, <1>5 DEF HeldOnce
<1>8. Budgeted
  <2>1. Underway = {}
    BY <1>4, <1>5 DEF Underway
  <2>2. Cardinality(Underway) = 0
    BY <2>1, FS_EmptySet
  <2> QED
    BY <1>1, <2>2 DEF Budgeted
<1>9. \A b \in Block : BlockInv(b)
  BY <1>3, <1>4, <1>5 DEF BlockInv, InOrder, Keyed, Delivered, Stopped, Swept, AtWork
<1> QED
  BY <1>6, <1>7, <1>8, <1>9 DEF DispatchInv

LEMMA Inductive == DispatchInv /\ [DispatchNext]_dispatchVars => DispatchInv'
<1> SUFFICES ASSUME DispatchInv, [DispatchNext]_dispatchVars PROVE DispatchInv'
  OBVIOUS
<1>1. CASE TickStep
  <2>1. CASE SweepRead
    BY <2>1, SweepReadStep
  <2>2. CASE SweepAbort
    BY <2>2, SweepAbortStep
  <2>3. CASE List
    BY <2>3, ListStep
  <2>4. ASSUME NEW b \in Block,
               \/ StartClearing(b) \/ ClearInert(b) \/ PassOver(b)
               \/ LaunchPark(b) \/ Launch(b) \/ Defer(b)
        PROVE  DispatchInv'
    BY <2>4, StartClearingStep, ClearInertStep, PassOverStep, LaunchParkStep, LaunchStep,
       DeferStep
  <2> QED
    BY <1>1, <2>1, <2>2, <2>3, <2>4 DEF TickStep
<1>2. ASSUME NEW b \in Block, JobStep(b) PROVE DispatchInv'
  BY <1>2, ReadTaskStep, JoinThreadStep, ClaimStep, VerifyClaimStep, DeliverToChannelStep,
     SpawnAgentStep, AgentEndsStep, WriteQueuedStep, WriteReplyStep, CloseTaskStep,
     NoteStep, FlipStep, ParkStep DEF JobStep
<1>3. ASSUME NEW b \in Block, JobFails(b) PROVE DispatchInv'
  BY <1>3, FailsEarlyStep, ClaimFailsStep, StartFailsStep, QueuedWriteFailsStep,
     ReplyFailsStep, CloseFailsStep DEF JobFails
<1>4. ASSUME NEW b \in Block, Outside(b) PROVE DispatchInv'
  BY <1>4, AskStep, StopStep, SessionClosesStep, SessionDropsStep, GrowOldStep,
     SessionKnownStep, TextArrivesStep DEF Outside
<1>5. CASE TickFails
  BY <1>5, TickFailsStep
<1>6. CASE Die
  BY <1>6, DieStep
<1>7. CASE HourPasses
  BY <1>7, HourPassesStep
<1>8. CASE UNCHANGED dispatchVars
  BY <1>8, StutterStep
<1> QED
  BY <1>1, <1>2, <1>3, <1>4, <1>5, <1>6, <1>7, <1>8 DEF DispatchNext

LEMMA DispatchInvHolds == DispatchSpec => []DispatchInv
BY Begins, Inductive, PTL DEF DispatchSpec
-----------------------------------------------------------------------------
(***************************************************************************)
(* The state of tasks, runs and tick is what their types say, for any      *)
(* number of agents and sessions.                                          *)
(***************************************************************************)
THEOREM DispatchTypes == DispatchSpec => []DispatchTypeOK
<1>1. DispatchInv => DispatchTypeOK
  BY DEF DispatchInv, Shape
<1> QED
  BY <1>1, DispatchInvHolds, PTL

(***************************************************************************)
(* However runs are refunded, fail, are stopped or die with the daemon, in *)
(* an hour no more agents start than runsPerHour, save for the records a   *)
(* crash has lost.                                                         *)
(***************************************************************************)
THEOREM SpendBounded == DispatchSpec => []SpendIsBounded
<1>1. DispatchInv => SpendIsBounded
  <2> SUFFICES ASSUME DispatchInv PROVE SpendIsBounded
    OBVIOUS
  <2> DEFINE n == Cardinality(Underway)
  <2>1. log \in 0 .. RunsPerHour /\ spawned \in Nat /\ lost \in Nat
    BY DEF DispatchInv, Shape, DispatchTypeOK
  <2>2. n \in Nat
    BY FS_Subset, FS_CardinalityType, DispatchAssumption DEF Underway
  <2>3. spawned + n <= log + lost
    BY DEF DispatchInv, Budgeted
  <2> HIDE DEF n
  <2> QED
    BY <2>1, <2>2, <2>3, DispatchAssumption DEF SpendIsBounded
<1> QED
  BY <1>1, DispatchInvHolds, PTL

(***************************************************************************)
(* One ask starts at most MAX_ATTEMPTS agents: every agent started is one  *)
(* of the attempts the task itself records, whatever crashes in between.   *)
(***************************************************************************)
THEOREM AttemptsBounded == DispatchSpec => []AttemptsAreBounded
<1>1. DispatchInv => AttemptsAreBounded
  <2> SUFFICES ASSUME DispatchInv, NEW b \in Block, b \notin Ambient
               PROVE  runs[b] <= MaxAttempts
    BY DEF AttemptsAreBounded
  <2>1. task[b] \in Tasks /\ runs[b] \in Nat /\ InOrder(b, task[b], job[b], runs[b])
    BY Facts
  <2>2. task[b].attempts \in 0 .. MaxAttempts /\ runs[b] <= task[b].attempts
    BY <2>1 DEF Tasks, InOrder
  <2> QED
    BY <2>1, <2>2, DispatchAssumption
<1> QED
  BY <1>1, DispatchInvHolds, PTL

(***************************************************************************)
(* No two agents at work speak in the same session: each holds the key of  *)
(* its session from before it writes it down, and no key is held twice.    *)
(***************************************************************************)
THEOREM SessionsUnshared == DispatchSpec => []NoSharedSession
<1>1. DispatchInv => NoSharedSession
  <2> SUFFICES ASSUME DispatchInv, NEW b \in Block, NEW c \in Block, b # c,
                      job[b].pc = "agent", job[c].pc = "agent", job[b].session # 0,
                      job[b].session = job[c].session
               PROVE  FALSE
    BY DEF NoSharedSession, At
  <2>1. Keyed(job[b]) /\ Keyed(job[c]) /\ HeldOnce
    BY Facts DEF DispatchInv
  <2>2. job[b].session \in job[b].holds \cap job[c].holds
    BY <2>1 DEF Keyed
  <2> QED
    BY <2>1, <2>2 DEF HeldOnce
<1> QED
  BY <1>1, DispatchInvHolds, PTL
-----------------------------------------------------------------------------
(***************************************************************************)
(* What a step may do to the run, the reply and the status of a block.     *)
(***************************************************************************)
\* Only the sweep aborts a run.
LEMMA OnlySweepAborts ==
  ASSUME DispatchInv, DispatchNext, ~SweepAbort, NEW c \in Block, job'[c].aborted
  PROVE  job[c].aborted
<1>1. job \in [Block -> Jobs] /\ job[c] \in Jobs
  BY Facts
<1>2. DOMAIN job[c] = {"pc", "attempts", "session", "holds", "stoppable", "aborted",
                       "queued", "result", "delivered"}
  BY <1>1 DEF Jobs
<1>3. ~NoJob.aborted
  BY DEF NoJob
<1>4. CASE job' = job
  BY <1>4
<1>5. ASSUME NEW b \in Block, Leave(b) PROVE job[c].aborted
  BY <1>1, <1>3, <1>5 DEF Leave
<1>6. ASSUME NEW b \in Block, NEW p, Goto(b, p) PROVE job[c].aborted
  BY <1>1, <1>2, <1>6 DEF Goto
<1>7. CASE TickStep
  <2>1. ASSUME NEW b \in Block,
               \/ StartClearing(b) \/ ClearInert(b) \/ PassOver(b) \/ Defer(b)
        PROVE  job' = job
    BY <2>1 DEF StartClearing, ClearInert, PassOver, Defer
  <2>2. ASSUME NEW b \in Block, LaunchPark(b) \/ Launch(b)
        PROVE  job[c].aborted
    BY <1>6, <2>2 DEF LaunchPark, Launch
  <2>3. SweepRead \/ List => job' = job
    BY DEF SweepRead, List
  <2> QED
    BY <1>4, <1>7, <2>1, <2>2, <2>3 DEF TickStep
<1>8. ASSUME NEW b \in Block, JobStep(b) PROVE job[c].aborted
  <2>1. CASE ReadTask(b)
    <3>1. CASE Leave(b)
      BY <1>5, <3>1
    <3>2. CASE job' = [job EXCEPT ![b].pc = "thread", ![b].attempts = task[b].attempts,
                                  ![b].session = task[b].session]
      BY <1>1, <1>2, <3>2
    <3> QED
      BY <2>1, <3>1, <3>2 DEF ReadTask
  <2>2. CASE JoinThread(b)
    <3>1. Leave(b) \/ \E s : job' = [job EXCEPT ![b].pc = "claim", ![b].session = s,
                                                ![b].holds = IF s = 0 THEN {} ELSE {s}]
      BY <2>2 DEF JoinThread
    <3>2. ASSUME NEW s, job' = [job EXCEPT ![b].pc = "claim", ![b].session = s,
                                           ![b].holds = IF s = 0 THEN {} ELSE {s}]
          PROVE  job[c].aborted
      BY <1>1, <1>2, <3>2
    <3> QED
      BY <1>5, <3>1, <3>2
  <2>3. CASE VerifyClaim(b)
    <3>1. CASE Leave(b)
      BY <1>5, <3>1
    <3>2. CASE job' = [job EXCEPT ![b].pc = "spawn", ![b].stoppable = TRUE]
      BY <1>1, <1>2, <3>2
    <3> QED
      BY <2>3, <3>1, <3>2 DEF VerifyClaim
  <2>4. CASE SpawnAgent(b)
    <3>1. CASE Goto(b, "agent")
      BY <1>6, <3>1
    <3>2. CASE job' = [job EXCEPT ![b].pc = "ended", ![b].result = "note"]
      BY <1>1, <1>2, <3>2
    <3> QED
      BY <2>4, <3>1, <3>2 DEF SpawnAgent
  <2>5. CASE AgentEnds(b)
    BY <1>1, <1>2, <2>5 DEF AgentEnds
  <2>6. CASE WriteQueued(b)
    BY <1>1, <1>2, <2>6 DEF WriteQueued
  <2>7. CASE WriteReply(b)
    BY <1>1, <1>2, <2>7 DEF WriteReply
  <2>8. CASE Claim(b) \/ Note(b)
    BY <1>6, <2>8 DEF Claim, Note
  <2>9. CASE DeliverToChannel(b) \/ CloseTask(b) \/ Flip(b) \/ Park(b)
    BY <1>5, <2>9 DEF DeliverToChannel, CloseTask, Flip, Park
  <2> QED
    BY <1>8, <2>1, <2>2, <2>3, <2>4, <2>5, <2>6, <2>7, <2>8, <2>9 DEF JobStep
<1>9. ASSUME NEW b \in Block, JobFails(b) PROVE job[c].aborted
  <2>1. CASE QueuedWriteFails(b)
    BY <1>1, <1>2, <2>1 DEF QueuedWriteFails
  <2>2. CASE FailsEarly(b)
    BY <1>5, <2>2 DEF FailsEarly
  <2>3. CASE ClaimFails(b) \/ StartFails(b) \/ ReplyFails(b) \/ CloseFails(b)
    BY <1>6, <2>3 DEF ClaimFails, StartFails, ReplyFails, CloseFails
  <2> QED
    BY <1>9, <2>1, <2>2, <2>3 DEF JobFails
<1>10. ASSUME NEW b \in Block, Outside(b) PROVE job[c].aborted
  <2>1. CASE SessionKnown(b)
    BY <1>1, <1>2, <2>1 DEF SessionKnown
  <2>2. CASE TextArrives(b)
    BY <1>1, <1>2, <2>2 DEF TextArrives
  <2>3. CASE Ask(b) \/ Stop(b) \/ SessionCloses(b) \/ SessionDrops(b) \/ GrowOld(b)
    BY <1>4, <2>3 DEF Ask, Stop, SessionCloses, SessionDrops, GrowOld
  <2> QED
    BY <1>10, <2>1, <2>2, <2>3 DEF Outside
<1>11. TickFails \/ HourPasses => job' = job
  BY DEF TickFails, HourPasses
<1>12. Die => ~job'[c].aborted
  BY <1>3 DEF Die
<1> QED
  BY <1>4, <1>7, <1>8, <1>9, <1>10, <1>11, <1>12 DEF DispatchNext

(***************************************************************************)
(* A run is stopped only for a Stop of the ask it answers: between the     *)
(* read of the flags and the abort, the run the sweep has flagged may end, *)
(* but no other of the same block takes its place.                         *)
(***************************************************************************)
THEOREM StopsHit == DispatchSpec => StopHitsItsAsk
<1> DEFINE Hits == \A b \in Block \ Ambient :
       ~job[b].aborted /\ job'[b].aborted /\ (At(b, "spawn") \/ At(b, "agent"))
         => stop[b] = ask[b]
<1>1. DispatchInv /\ [DispatchNext]_dispatchVars => [Hits]_dispatchVars
  <2> SUFFICES ASSUME DispatchInv, DispatchNext, NEW b \in Block, b \notin Ambient,
                      ~job[b].aborted, job'[b].aborted, At(b, "spawn") \/ At(b, "agent")
               PROVE  stop[b] = ask[b]
    OBVIOUS
  <2>1. SweepAbort
    BY OnlySweepAborts
  <2>2. tick.phase = "sweep" /\ b \in tick.flagged
    BY <2>1 DEF SweepAbort
  <2>3. Swept(tick, b, job[b], ask[b], stop[b])
    BY Facts
  <2> QED
    BY <2>2, <2>3 DEF Swept, AtWork, At
<1>2. DispatchSpec => [][Hits]_dispatchVars
  BY <1>1, DispatchInvHolds, PTL DEF DispatchSpec
<1> QED
  BY <1>2 DEF StopHitsItsAsk

(***************************************************************************)
(* Once its terminal reply is known to be delivered, a run leaves it as it *)
(* is: its progress is written before, and its catch writes no note.       *)
(***************************************************************************)
THEOREM AnswersStay == DispatchSpec => AnswerStays
<1> DEFINE Stays == \A b \in Block : job[b].delivered => reply'[b] = reply[b]
<1>1. DispatchInv /\ [DispatchNext]_dispatchVars => [Stays]_dispatchVars
  <2> SUFFICES ASSUME DispatchInv, DispatchNext, NEW c \in Block, job[c].delivered
               PROVE  reply'[c] = reply[c]
    OBVIOUS
  <2>1. /\ reply \in [Block -> {"none", "partial", "answer", "note"}]
        /\ job[c].pc \in {"close", "caught", "flip"} /\ job[c].queued = {}
    BY Facts DEF Delivered
  <2>2. CASE reply' = reply
    BY <2>2
  <2>3. ASSUME NEW b \in Block, b # c, NEW r, reply' = [reply EXCEPT ![b] = r]
        PROVE  reply'[c] = reply[c]
    BY <2>1, <2>3
  <2>4. TickStep => reply' = reply
    BY DEF TickStep, SweepRead, SweepAbort, List, StartClearing, ClearInert, PassOver,
           LaunchPark, Launch, Defer
  <2>5. ASSUME NEW b \in Block, JobStep(b) PROVE reply'[c] = reply[c]
    <3>1. CASE Claim(b)
      <4>1. b # c /\ reply' = [reply EXCEPT ![b] = "none"]
        BY <2>1, <3>1 DEF Claim, At
      <4> QED
        BY <2>3, <4>1
    <3>2. CASE WriteReply(b)
      <4>1. b # c /\ reply' = [reply EXCEPT ![b] = job[b].result]
        BY <2>1, <3>2 DEF WriteReply, At
      <4> QED
        BY <2>3, <4>1
    <3>3. CASE WriteQueued(b)
      <4>1. b # c /\ (reply' = reply \/ reply' = [reply EXCEPT ![b] = "partial"])
        BY <2>1, <3>3 DEF WriteQueued
      <4> QED
        BY <2>2, <2>3, <4>1
    <3>4. CASE Note(b)
      <4>1. reply' = reply \/ (b # c /\ reply' = [reply EXCEPT ![b] = "note"])
        BY <3>4 DEF Note
      <4> QED
        BY <2>2, <2>3, <4>1
    <3>5. CASE \/ ReadTask(b) \/ JoinThread(b) \/ VerifyClaim(b) \/ DeliverToChannel(b)
               \/ SpawnAgent(b) \/ AgentEnds(b) \/ CloseTask(b) \/ Flip(b) \/ Park(b)
      BY <2>2, <3>5 DEF ReadTask, JoinThread, VerifyClaim, DeliverToChannel, SpawnAgent, AgentEnds,
             CloseTask, Flip, Park
    <3> QED
      BY <2>5, <3>1, <3>2, <3>3, <3>4, <3>5 DEF JobStep
  <2>6. ASSUME NEW b \in Block, JobFails(b) PROVE reply'[c] = reply[c]
    <3>1. CASE ReplyFails(b)
      <4>1. b # c /\ (reply' = reply \/ reply' = [reply EXCEPT ![b] = job[b].result])
        BY <2>1, <3>1 DEF ReplyFails, At
      <4> QED
        BY <2>2, <2>3, <4>1
    <3>2. CASE \/ FailsEarly(b) \/ ClaimFails(b) \/ StartFails(b) \/ QueuedWriteFails(b)
               \/ CloseFails(b)
      BY <2>2, <3>2 DEF FailsEarly, ClaimFails, StartFails, QueuedWriteFails, CloseFails
    <3> QED
      BY <2>6, <3>1, <3>2 DEF JobFails
  <2>7. ASSUME NEW b \in Block, Outside(b) PROVE reply' = reply
    BY <2>7 DEF Outside, Ask, Stop, SessionCloses, SessionDrops, GrowOld, SessionKnown,
                TextArrives
  <2>8. TickFails \/ Die \/ HourPasses => reply' = reply
    BY DEF TickFails, Die, HourPasses
  <2> QED
    BY <2>2, <2>4, <2>5, <2>6, <2>7, <2>8 DEF DispatchNext
<1>2. DispatchSpec => [][Stays]_dispatchVars
  BY <1>1, DispatchInvHolds, PTL DEF DispatchSpec
<1> QED
  BY <1>2 DEF AnswerStays

(***************************************************************************)
(* A finished task runs again only when asked again: what a run has read   *)
(* of its task is still so when it claims it.                              *)
(***************************************************************************)
THEOREM FinishedStays == DispatchSpec => FinishedIsFinal
<1> DEFINE Final == \A b \in Block \ Ambient :
       task[b].status \in {"done", "error"} => task'[b].status # "running"
<1>1. DispatchInv /\ [DispatchNext]_dispatchVars => [Final]_dispatchVars
  <2> SUFFICES ASSUME DispatchInv, DispatchNext, NEW c \in Block, c \notin Ambient,
                      task[c].status \in {"done", "error"}
               PROVE  task'[c].status # "running"
    OBVIOUS
  <2>1. /\ task \in [Block -> Tasks] /\ task[c] \in Tasks
        /\ job[c].pc # "claim"
    BY Facts DEF InOrder
  <2>2. CASE task' = task
    BY <2>2
  <2>3. ASSUME NEW b \in Block, NEW t, task' = [task EXCEPT ![b] = t],
               b = c => t.status # "running"
        PROVE  task'[c].status # "running"
    BY <2>1, <2>3
  <2>4. ASSUME NEW b \in Block
        PROVE  task[b] \in Tasks /\ (b = c => task[b].status # "running")
               /\ DOMAIN task[b] = {"status", "attempts", "old", "cancel", "session"}
    BY <2>1 DEF Tasks
  <2>5. TickStep => task'[c].status # "running"
    <3>1. ASSUME NEW b \in Block, ClearInert(b) PROVE task'[c].status # "running"
      <4>1. task' = [task EXCEPT ![b] = [task[b] EXCEPT !.cancel = FALSE]]
        BY <2>1, <3>1 DEF ClearInert
      <4>2. b = c => [task[b] EXCEPT !.cancel = FALSE].status # "running"
        BY <2>4
      <4> QED
        BY <2>3, <4>1, <4>2
    <3>2. SweepRead \/ SweepAbort \/ List => task' = task
      BY DEF SweepRead, SweepAbort, List
    <3>3. ASSUME NEW b \in Block,
                 \/ StartClearing(b) \/ PassOver(b) \/ LaunchPark(b) \/ Launch(b) \/ Defer(b)
          PROVE  task' = task
      BY <3>3 DEF StartClearing, PassOver, LaunchPark, Launch, Defer
    <3> QED
      BY <2>2, <3>1, <3>2, <3>3 DEF TickStep
  <2>6. ASSUME NEW b \in Block, b # c, NEW t, task' = [task EXCEPT ![b] = t]
        PROVE  task'[c].status # "running"
    BY <2>3, <2>6
  <2>7. ASSUME NEW b \in Block, task' = Claimed(b), job[b].pc = "claim"
        PROVE  task'[c].status # "running"
    <3>1. b # c
      BY <2>1, <2>7
    <3> QED
      BY <2>6, <2>7, <3>1 DEF Claimed
  <2>8. ASSUME NEW b \in Block, NEW status \in {"done", "error"}, task' = Closed(b, status)
        PROVE  task'[c].status # "running"
    <3>1. PICK t \in Tasks : Closed(b, status) = [task EXCEPT ![b] = t] /\ t.status = status
      BY ClosedTask
    <3>2. b = c => t.status # "running"
      BY <3>1
    <3> QED
      BY <2>3, <2>8, <3>1, <3>2
  <2>9. ASSUME NEW b \in Block, JobStep(b) PROVE task'[c].status # "running"
    <3>1. CASE Claim(b)
      BY <2>7, <3>1 DEF Claim, At
    <3>2. CASE WriteQueued(b)
      <4>1. CASE task' = task
        BY <2>2, <4>1
      <4>2. CASE task' = [task EXCEPT ![b].session = job[b].session]
        <5>1. task' = [task EXCEPT ![b] = [task[b] EXCEPT !.session = job[b].session]]
          BY <2>1, <4>2
        <5>2. b = c => [task[b] EXCEPT !.session = job[b].session].status # "running"
          BY <2>4
        <5> QED
          BY <2>3, <5>1, <5>2
      <4> QED
        BY <3>2, <4>1, <4>2 DEF WriteQueued
    <3>3. CASE CloseTask(b)
      BY <2>8, <3>3 DEF CloseTask
    <3>4. CASE Flip(b)
      <4>1. \/ task' = task
            \/ task' = [task EXCEPT ![b] = [task[b] EXCEPT !.status = "error",
                                              !.cancel = FALSE, !.old = FALSE]]
        BY <2>1, <3>4 DEF Flip
      <4>2. [task[b] EXCEPT !.status = "error", !.cancel = FALSE, !.old = FALSE].status
              # "running"
        BY <2>4
      <4> QED
        BY <2>2, <2>3, <4>1, <4>2
    <3>5. CASE Park(b)
      <4>1. \/ task' = task
            \/ task' = [task EXCEPT ![b] = [task[b] EXCEPT !.status = "error", !.old = FALSE]]
        BY <2>1, <3>5 DEF Park
      <4>2. [task[b] EXCEPT !.status = "error", !.old = FALSE].status # "running"
        BY <2>4
      <4> QED
        BY <2>2, <2>3, <4>1, <4>2
    <3>6. CASE \/ ReadTask(b) \/ JoinThread(b) \/ VerifyClaim(b) \/ DeliverToChannel(b)
               \/ SpawnAgent(b) \/ AgentEnds(b) \/ WriteReply(b) \/ Note(b)
      BY <2>2, <3>6 DEF ReadTask, JoinThread, VerifyClaim, DeliverToChannel, SpawnAgent, AgentEnds,
             WriteReply, Note
    <3> QED
      BY <2>9, <3>1, <3>2, <3>3, <3>4, <3>5, <3>6 DEF JobStep
  <2>10. ASSUME NEW b \in Block, JobFails(b) PROVE task'[c].status # "running"
    <3>1. CASE ClaimFails(b)
      BY <2>2, <2>7, <3>1 DEF ClaimFails, At
    <3>2. CASE CloseFails(b)
      BY <2>2, <2>8, <3>2 DEF CloseFails
    <3>3. CASE FailsEarly(b) \/ StartFails(b) \/ QueuedWriteFails(b) \/ ReplyFails(b)
      BY <2>2, <3>3 DEF FailsEarly, StartFails, QueuedWriteFails, ReplyFails
    <3> QED
      BY <2>10, <3>1, <3>2, <3>3 DEF JobFails
  <2>11. ASSUME NEW b \in Block, Outside(b) PROVE task'[c].status # "running"
    <3>1. CASE Ask(b)
      <4>1. task' = [task EXCEPT ![b] = [task[b] EXCEPT !.status = "asked", !.attempts = 0,
                                                        !.old = FALSE, !.cancel = FALSE]]
        BY <2>1, <3>1 DEF Ask
      <4>2. [task[b] EXCEPT !.status = "asked", !.attempts = 0, !.old = FALSE,
                            !.cancel = FALSE].status # "running"
        BY <2>4
      <4> QED
        BY <2>3, <4>1, <4>2
    <3>2. CASE Stop(b)
      <4>1. task' = [task EXCEPT ![b] = [task[b] EXCEPT !.cancel = TRUE]] /\ b # c
        BY <2>1, <2>4, <3>2 DEF Stop
      <4> QED
        BY <2>6, <4>1
    <3>3. CASE SessionCloses(b)
      <4>1. task' = [task EXCEPT ![b] = [task[b] EXCEPT !.status = "done"]]
        BY <2>1, <3>3 DEF SessionCloses
      <4>2. [task[b] EXCEPT !.status = "done"].status # "running"
        BY <2>4
      <4> QED
        BY <2>3, <4>1, <4>2
    <3>4. CASE GrowOld(b)
      <4>1. task' = [task EXCEPT ![b] = [task[b] EXCEPT !.old = TRUE]] /\ b # c
        BY <2>1, <2>4, <3>4 DEF GrowOld
      <4> QED
        BY <2>6, <4>1
    <3>5. SessionDrops(b) \/ SessionKnown(b) \/ TextArrives(b) => task' = task
      BY DEF SessionDrops, SessionKnown, TextArrives
    <3> QED
      BY <2>2, <2>11, <3>1, <3>2, <3>3, <3>4, <3>5 DEF Outside
  <2>12. TickFails \/ Die \/ HourPasses => task' = task
    BY DEF TickFails, Die, HourPasses
  <2> QED
    BY <2>2, <2>5, <2>9, <2>10, <2>11, <2>12 DEF DispatchNext
<1>2. DispatchSpec => [][Final]_dispatchVars
  BY <1>1, DispatchInvHolds, PTL DEF DispatchSpec
<1> QED
  BY <1>2 DEF FinishedIsFinal
=============================================================================
