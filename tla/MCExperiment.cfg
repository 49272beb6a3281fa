\* One run of the program for every experiment, configuration, device state
\* and enclave outcome, with indirect targets (the default).
CONSTANTS
  TestTypes = {0, 1, 2, 3, 4, 5, 6, 7, 8, 9, 10, 11, 12, 13, 14}
  NoSgxModes = {TRUE, FALSE}
  IndirectModes = {TRUE}
  DeviceStates = {"present", "absent", "unopenable"}
  EnclaveResults = {TRUE, FALSE}
  TrainingRounds = 2
  LbrCount = 8
  VictimInputs = {0}
  ShadowInputs = {0, 1}
  EaxAtCall = {0, 1, 2}
  Cycles = {10, 20}
  VictimSrcs <- MCVictimSrcs
  AlignBits = 9
  AddrBits = 16
  Page = 64
  MmapResults <- MCMmap
  NULL = NULL
  BtbEntries = 4
SPECIFICATION Spec
INVARIANTS TypeOK FirstShadowRunUncached PollutionWithinMappings SlideRunsReturn
PROPERTIES ImplementsProtocol
\* The program ends: after finish_attack, or at an abort.
CHECK_DEADLOCK FALSE
