----------------------------- MODULE RemoteCall -----------------------------
(***************************************************************************)
(* What the bridge promises to command lines: a command is started once or *)
(* is lost, never both, and what its command line is told is true and, but *)
(* for a timeout, final.                                                   *)
(***************************************************************************)
EXTENDS Naturals

CONSTANT Command

VARIABLES call,  \* [Command -> out, open, started, replied, over, lost]
          runs,  \* [Command -> how often it was started]
          told   \* [Command -> what its command line has heard]

callVars == <<call, runs, told>>

\* Some command lines find no tab at all.
CallInit ==
  /\ call = [c \in Command |-> "out"]
  /\ runs = [c \in Command |-> 0]
  /\ told \in [Command -> {"nothing", "refused"}]

Refuse(c) ==
  /\ call[c] = "out" /\ told[c] = "nothing"
  /\ told' = [told EXCEPT ![c] = "refused"]
  /\ UNCHANGED <<call, runs>>

\* Taken and kept until the tab asks for it.
Accept(c) ==
  /\ call[c] = "out" /\ told[c] = "nothing"
  /\ call' = [call EXCEPT ![c] = "open"]
  /\ UNCHANGED <<runs, told>>

StartCall(c) ==
  /\ call[c] \in {"out", "open"} /\ told[c] # "refused"
  /\ call' = [call EXCEPT ![c] = "started"]
  /\ runs' = [runs EXCEPT ![c] = @ + 1]
  /\ UNCHANGED told

\* They will never be started: the tab is gone, or did not get what it was sent.
Lose(C) ==
  /\ \A c \in C : call[c] \in {"out", "open"} /\ told[c] # "refused"
  /\ call' = [c \in Command |-> IF c \in C THEN "lost" ELSE call[c]]
  /\ UNCHANGED <<runs, told>>

Reply(c) ==
  /\ call[c] = "started"
  /\ call' = [call EXCEPT ![c] = "replied"]
  /\ UNCHANGED <<runs, told>>

\* A reply is kept for a while, and waited for for a while.
Forget(c) ==
  /\ call[c] \in {"started", "replied"}
  /\ call' = [call EXCEPT ![c] = "over"]
  /\ UNCHANGED <<runs, told>>

\* Only after a timeout a command may yet be started.
Tell(c) ==
  /\ call[c] # "out" /\ told[c] = "nothing"
  /\ \/ call[c] = "replied"          /\ told' = [told EXCEPT ![c] = "answered"]
     \/ call[c] = "started"          /\ told' = [told EXCEPT ![c] = "no value"]
     \/ call[c] = "lost"             /\ told' = [told EXCEPT ![c] = "failed"]
     \/ call[c] \in {"lost", "over"} /\ told' = [told EXCEPT ![c] = "unknown"]
     \/ told' = [told EXCEPT ![c] = "timed out"]
  /\ UNCHANGED <<call, runs>>

CallNext ==
  \/ \E c \in Command :
       \/ Refuse(c) \/ Accept(c) \/ StartCall(c) \/ Reply(c) \/ Forget(c) \/ Tell(c)
  \/ \E C \in SUBSET Command : Lose(C)

CallSpec == CallInit /\ [][CallNext]_callVars
-----------------------------------------------------------------------------
(***************************************************************************)
(* ToldIsFinal: a command whose command line has heard anything but a      *)
(* timeout is not started from then on: to send it again is safe exactly   *)
(* where the answer says that it was not carried out.                      *)
(***************************************************************************)
ToldStays == \A c \in Command : told[c] \notin {"nothing", "timed out"} => runs'[c] = runs[c]

ToldIsFinal == [][ToldStays]_callVars
=============================================================================
