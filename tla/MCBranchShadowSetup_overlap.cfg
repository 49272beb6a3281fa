\* Victim distances at the limits the setup functions accept: the layout still holds, or the process aborts.
CONSTANTS
  AlignBits = 9
  AddrBits = 16
  Page = 64
  NULL = NULL
  MmapResults <- MCMmap
  Srcs <- MCSrcs
  Offsets <- MCEdgeOffsets
  Setups = {"jmp", "jmpRev", "jne"}
  IndirectModes = {TRUE, FALSE}
  ShadowInputs = {0, 1}
  EaxAtCall = {0, 1, 2}
SPECIFICATION Spec
INVARIANT LayoutDisjoint
\* A setup ends with finalize() or an abort; nothing follows in this model.
CHECK_DEADLOCK FALSE
