CONSTANTS
  Freqs = {f1, f2}
  ValidFreqs = {f1, f2}
  BootFreq = f1
  NoFreq = UNDEFINED
  MsgQueueLen = 3
  PrepTries = 3
  BootResults = {TRUE, FALSE}
  TimerStarts = {TRUE, FALSE}
  StackGarbage = {"NULL", "main"}
  CalPeriodic = TRUE
  TimerSlices = FALSE
  McCtrlUpd = FALSE
  McMayAckLate = FALSE
  HostSerialises = TRUE
  AppGuards = FALSE
  MaxLoss = 0
SPECIFICATION FairSpec
INVARIANTS
  TypeOK
  UpdateIsSafe
  SwitchIsPrepared
  QueueHasRoom
PROPERTIES
  RunningVcoUntouched
  CallReturns
  SwitchEnds
  UpdateEnds
  MasterEnds
  ImplementsSwitch
