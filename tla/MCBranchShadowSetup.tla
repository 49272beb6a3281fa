------------------------ MODULE MCBranchShadowSetup ------------------------
(* BranchShadowSetup on a 16-bit address space with 9 alignment bits.      *)
(* Victim branches sit at low-bit residues spread over the whole 512-byte  *)
(* period, its edges included; mmap returns page-aligned bases whose own   *)
(* low bits are zero or not.                                               *)
EXTENDS BranchShadowSetup

\* Victim branch addresses: 4096 plus residues modulo 2^AlignBits.
MCSrcs == {4096 + r : r \in {0, 1, 7, 120, 300, 389, 400, 480, 505, 511}}

\* The victims' dst - src: the jne victim of victim_shared.c (19) and
\* forward and backward branches that leave room for the shadow's blocks.
MCVictimOffsets == {19, 40, -24, -40}

\* Distances at the limits of what the setup functions accept.
MCEdgeOffsets == {3, -8, 120, 150, -120, 25000}

MCMmap == {32768, 32960, 33216}
=============================================================================
