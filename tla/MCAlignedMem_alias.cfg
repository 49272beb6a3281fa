\* Does the entry of a successful allocate() alias the target?
CONSTANTS
  AlignBits = 4
  AddrBits = 10
  Page = 8
  NULL = NULL
  Targets <- MCTargets
  Contents <- MCContents
  MmapResults <- MCMmapValid
SPECIFICATION Spec
INVARIANT EntryAliasesTarget
\* The object is destroyed after unallocate(): its life ends there.
CHECK_DEADLOCK FALSE
