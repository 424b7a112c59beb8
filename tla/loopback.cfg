CONSTANTS
  NMax = 3
  PMax = 3
  TripPoints <- Trips
  TableZq <- FirstPair
  SaMax = 3
  SaBits = 1
  SaChannels = 2
  SaBytes = 1
  SaBands <- Offsets
  TableSa = 2
  FifoDepth = 2
  Freqs = {f1, f2}
  NoFreq = UNDEFINED
  BootFreq = f1
  NoCode <- Unwritten
  BootOptions <- Options
  RunOptions = {{"ZQCAL_CAL", "TRAIN"}}
  RunBoots = 1
  MaxBoots = 2
  MrwLens <- Lens
  TrainResults = {TRUE, FALSE}
  TrainLoopback = {TRUE}
SPECIFICATION FairSpec
PROPERTIES
  LoopbackIsReset
CHECK_DEADLOCK FALSE
