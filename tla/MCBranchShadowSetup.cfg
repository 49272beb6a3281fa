\* The shadows of the victim branches, in both modes, for every input.
CONSTANTS
  AlignBits = 9
  AddrBits = 16
  Page = 64
  NULL = NULL
  MmapResults <- MCMmap
  Srcs <- MCSrcs
  Offsets <- MCVictimOffsets
  Setups = {"jmp", "jmpRev", "jne"}
  IndirectModes = {TRUE, FALSE}
  ShadowInputs = {0, 1}
  EaxAtCall = {0, 1, 2}
SPECIFICATION Spec
INVARIANTS TypeOK LayoutDisjoint AnchorAliasesVictim ShadowMirrorsVictim IndirectFollowsInput
\* A setup ends with finalize() or an abort; nothing follows in this model.
CHECK_DEADLOCK FALSE
