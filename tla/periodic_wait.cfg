CONSTANTS
  Freqs = {f1, f2}
  ValidFreqs = {f1, f2}
  BootFreq = f1
  NoFreq = UNDEFINED
  MsgQueueLen = 16
  PrepTries = 3
  BootResults = {TRUE}
  TimerStarts = {TRUE}
  StackGarbage = {"NULL"}
  CalPeriodic = TRUE
  TimerSlices = FALSE
  McCtrlUpd = FALSE
  McMayAckLate = FALSE
  HostSerialises = TRUE
  AppGuards = TRUE
  MaxLoss = 0
SPECIFICATION FairSpec
PROPERTY PeriodicReturns
