\* Ids reused across calls and requests, answers in any order, each given once.
SPECIFICATION Spec
CONSTANTS
  open = open held = held denied = denied a = a b = b c = c
  NoId = NoId NoTool = NoTool
  Tools <- MCTools DenyList <- MCDeny ApproveList <- MCApprove Ids <- MCIds
  ClientMessages <- MCReuse
  Auditing = TRUE HasApprover = TRUE AppendMayFail = FALSE NoiseKinds = {"request"}
  MaxPendingCalls = 2 MaxPendingBytes = 4 MaxMessages = 3 MaxNoise = 1
INVARIANTS ReservationHeld Attribution RefusalRecordIsTrue TableAccounts
PROPERTY ImplementsLedger
CHECK_DEADLOCK FALSE
