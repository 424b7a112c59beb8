CONSTANTS
  Freqs = {f1, f2}
  ValidFreqs = {f1}
  BootFreq = f1
  NoFreq = UNDEFINED
  MsgQueueLen = 2
  PrepTries = 2
  BootResults = {TRUE}
  TimerStarts = {TRUE}
  StackGarbage = {"NULL"}
  CalPeriodic = TRUE
  TimerSlices = TRUE
  McCtrlUpd = TRUE
  McMayAckLate = TRUE
  HostSerialises = TRUE
  AppGuards = TRUE
  MaxLoss = 1
SPECIFICATION Spec
INVARIANTS
  PendingIsQuiet
  ReplyIsThere
  AckIsArmedOnce
  ClockIsKnown
  MasterIsGranted
PROPERTIES
  RequestsWithdrawn
  LockIsKept
CHECK_DEADLOCK FALSE
