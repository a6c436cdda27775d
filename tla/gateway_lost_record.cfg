\* A client that stops reading while an answer is on its way.
SPECIFICATION Spec
CONSTANTS
  open = open held = held denied = denied a = a b = b c = c
  NoId = NoId NoTool = NoTool
  Tools <- MCTools DenyList <- MCDeny ApproveList <- MCApprove Ids <- MCIds
  ClientMessages <- MCOneId
  Auditing = TRUE HasApprover = TRUE AppendMayFail = FALSE NoiseKinds = {}
  MaxPendingCalls = 2 MaxPendingBytes = 4 MaxMessages = 2 MaxNoise = 0
INVARIANT ArrivedAnswerRecorded
CHECK_DEADLOCK FALSE
