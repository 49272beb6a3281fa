\* Direct mode: does the jne shadow follow shadow_input?
CONSTANTS
  AlignBits = 9
  AddrBits = 16
  Page = 64
  NULL = NULL
  MmapResults <- MCMmap
  Srcs <- MCSrcs
  Offsets <- MCVictimOffsets
  Setups = {"jne"}
  IndirectModes = {FALSE}
  ShadowInputs = {0, 1}
  EaxAtCall = {0, 1, 2}
SPECIFICATION Spec
INVARIANT ShadowFollowsInput
\* A setup ends with finalize() or an abort; nothing follows in this model.
CHECK_DEADLOCK FALSE
