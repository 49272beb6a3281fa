---------------------------- MODULE MCLbrDevice ----------------------------
(* Model values for LbrDevice: two CPUs, one bound to a kthread (0) and one *)
(* where the experiment process may run (3), a 2-entry ring of 2-byte       *)
(* records, two branch addresses.                                           *)
EXTENDS LbrDevice

MCCpus == {0, 3}
MCCpusBeyond == {0, 4}
MCBranches == {1, 2}
====
