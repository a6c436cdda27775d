\* Every kind of message, a server that may answer anything at any time.
SPECIFICATION FairSpec
CONSTANTS
  open = open held = held denied = denied a = a b = b c = c
  NoId = NoId NoTool = NoTool
  Tools <- MCTools DenyList <- MCDeny ApproveList <- MCApprove Ids <- MCTwoIds
  ClientMessages <- MCEveryKind
  Auditing = TRUE HasApprover = TRUE AppendMayFail = TRUE
  NoiseKinds = {"other", "oversize", "response"}
  MaxPendingCalls = 1 MaxPendingBytes = 3 MaxMessages = 2 MaxNoise = 1
INVARIANTS PolicyEnforced OneFate RecordedOnce
PROPERTIES EveryMessageSettled AnswersComplete
CHECK_DEADLOCK FALSE
