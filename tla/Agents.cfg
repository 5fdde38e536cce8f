CONSTANTS
  outer = outer  inner = inner  channel = channel
  Block = {outer, inner, channel}
  NoBlock = NoBlock
  Above <- Nesting
  Ambient = {channel}
  MaxAttempts = 2
  RunsPerHour = 2
  MaxConcurrent = 2
  Allowances <- Days
  Command = {c1, c2}
  MaxInFlight = 2
  Mishaps = {3}
SPECIFICATION AgentsSpec
INVARIANTS AgentsTypeOK SpendIsBounded AttemptsAreBounded NoSharedSession NoneWaitsBesideAPoll
PROPERTIES StopHitsItsAsk AnswerStays FinishedIsFinal AskSettles PendingEnds ImplementsRemoteCall
CHECK_DEADLOCK FALSE
