---------------------------- MODULE MCAlignedMem ----------------------------
(* AlignedMem on a 10-bit address space with 4 alignment bits: every low-  *)
(* bit pattern of the target against mapping bases whose own low bits are *)
(* zero and non-zero.                                                      *)
EXTENDS AlignedMem

MCTargets == 256 .. 256 + 2^AlignBits - 1
MCContents == {1, 9}
MCMmapValid == {64, 72, 79}
=============================================================================
