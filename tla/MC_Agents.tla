------------------------------ MODULE MC_Agents ------------------------------
(***************************************************************************)
(* The daemon and the bridge, side by side: in each initial state one of   *)
(* them has something to do.                                               *)
(*                                                                         *)
(* inner is nested in outer and shares its session; channel is handed to a *)
(* channel session.                                                        *)
(***************************************************************************)
EXTENDS AgentDispatch, AgentBridge, TLC

CONSTANTS outer, inner, channel

Nesting == (outer :> NoBlock @@ inner :> outer @@ channel :> NoBlock)

Day(n1, n2, n3, t, f) ==
  [asks |-> (outer :> n1 @@ inner :> n2 @@ channel :> n3), trouble |-> t, failures |-> f]
NoDay == Day(0, 0, 0, 0, 0)
Days == {NoDay, Day(2, 0, 0, 3, 0), Day(2, 0, 0, 1, 1), Day(1, 0, 0, 1, 2), Day(1, 1, 0, 0, 0),
         Day(1, 0, 1, 1, 0), Day(0, 0, 2, 1, 1)}

agentsVars == <<dispatchVars, bridgeVars>>

\* A bridge with nothing to do has no page and no command lines.
AgentsInit ==
  /\ DispatchInit
  /\ \/ allowed = NoDay /\ BridgeInit
     \/ /\ allowed # NoDay
        /\ loop = "closed"
        /\ known = FALSE /\ quiet = FALSE /\ waiters = <<>> /\ queue = <<>>
        /\ record = [c \in Command |-> "none"] /\ result = record
        /\ running = {} /\ posting = {}
        /\ caller = [c \in Command |-> "refused"]
        /\ starts = [c \in Command |-> 0] /\ mishaps = 0

AgentsNext ==
  \/ DispatchNext /\ UNCHANGED bridgeVars
  \/ BridgeNext /\ UNCHANGED dispatchVars

AgentsSpec ==
  AgentsInit /\ [][AgentsNext]_agentsVars /\ DispatchFairness /\ BridgeFairness

\* The state of the daemon and of the bridge is well typed.
AgentsTypeOK == DispatchTypeOK /\ BridgeTypeOK
=============================================================================
