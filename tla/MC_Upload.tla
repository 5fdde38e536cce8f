------------------------------ MODULE MC_Upload ------------------------------
(***************************************************************************)
(* Both ends of an upload, each against anything the other may do.  The    *)
(* device: up to four transactions, one creates, one patches an encrypted  *)
(* block, one does both (encrypted), one has nothing left to send.  The    *)
(* server: one row under any sequence of calls.                            *)
(***************************************************************************)
EXTENDS UploadQueue, ServerRowHistory

VARIABLE end   \* which end this behaviour is about

uploadVars == <<vars, historyVars, end>>

UploadInit == Init /\ HistoryInit /\ end \in {"device", "server"}

UploadNext ==
  \/ end = "device" /\ Next /\ UNCHANGED <<historyVars, end>>
  \/ end = "server" /\ HistoryNext /\ UNCHANGED <<vars, end>>

UploadSpec == UploadInit /\ [][UploadNext]_uploadVars /\ UploadFairness
=============================================================================
