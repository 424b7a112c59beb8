CONSTANTS
  NMax = 3
  PMax = 3
  TripPoints <- Trips
  TableZq <- FirstPair
  SaMax = 3
  SaBits = 1
  SaChannels = 2
  SaBytes = 1
  SaBands <- Offsets
  TableSa = 2
  FifoDepth = 2
  Freqs = {f1, f2}
  NoFreq = UNDEFINED
  BootFreq = f1
  NoCode <- Unwritten
  BootOptions <- Options
  RunOptions = {{"ZQCAL_CAL", "TRAIN"}}
  RunBoots = 1
  MaxBoots = 2
  MrwLens <- Lens
  TrainResults = {TRUE, FALSE}
  TrainLoopback = {TRUE}
SPECIFICATION FairSpec
INVARIANTS
  TypeOK
  CodesAreExact
  FailuresAreReal
  ComparatorOff
  SaCodeInBand
  SaShadowHolds
  ReleasedClean
  BusIsReturned
  SwitchSendsPrepared
  InUseConfigured
PROPERTIES
  InUseUntouched
  RunningVcoKept
  PadsLeaveLoopback
  DeviceImplementsSwitch
  BootEnds
  CodesHeal
CHECK_DEADLOCK FALSE
