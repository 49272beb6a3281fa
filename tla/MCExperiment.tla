--------------------------- MODULE MCExperiment ----------------------------
(* Experiment with two training rounds, an 8-entry LBR and a BTB of four   *)
(* entries, on the 16-bit address space of MCBranchShadowSetup.            *)
EXTENDS Experiment

\* get_vic_src(): residues at the bottom and the middle of the 512-byte
\* period, so target - 128 does and does not borrow from the upper bits.
MCVictimSrcs == {4096 + 1, 4096 + 300}

\* Page-aligned mmap bases with zero and non-zero low bits.
MCMmap == {32768, 32960}
=============================================================================
