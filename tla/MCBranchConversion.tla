------------------------- MODULE MCBranchConversion -------------------------
(* Every function of MCN blocks over the given terminator kinds, run       *)
(* through the pass; loops are executed to 5 bodies.                       *)
EXTENDS BranchConversion

MCN == 3
MCTraceBound == 5
MCStepBound == 20
====
