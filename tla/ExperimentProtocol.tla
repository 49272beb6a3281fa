------------------------- MODULE ExperimentProtocol -------------------------
(***************************************************************************)
(* What one experiment of BranchShadow promises, with the LBR, the caches  *)
(* and the shadow's code abstracted away: after the setup, the training    *)
(* side runs TrainingRuns times, the victim runs once more in the          *)
(* variants that mess with the predictor, the shadow runs once to be       *)
(* measured, and the statistics receive at most one sample, which is what  *)
(* that measured run observed at the shadow's branch (nothing when it did  *)
(* not take it).  The program may abort during the setup or when it       *)
(* collects the result.                                                    *)
(***************************************************************************)
EXTENDS Naturals, Sequences

CONSTANTS
  TrainingRuns,   \* runs of the training side
  Obs,            \* what a run taking the measured branch may observe
  NULL

VARIABLES
  variant,    \* [trains : {"shadow", "victim"}, middle : BOOLEAN]
  phase,
  history,    \* the runs so far, oldest first
  observed,   \* what the measured run observed, NULL for nothing
  sample      \* the sample added to the statistics, NULL for none

pvars == <<variant, phase, history, observed, sample>>

Init ==
  /\ variant \in [trains : {"shadow", "victim"}, middle : BOOLEAN]
  /\ phase = "setup" /\ history = <<>> /\ observed = NULL /\ sample = NULL

\* The setup failed: abort before any run.
AbortSetup ==
  /\ phase = "setup"
  /\ phase' = "abort"
  /\ UNCHANGED <<variant, history, observed, sample>>

Start ==
  /\ phase = "setup"
  /\ phase' = "train"
  /\ UNCHANGED <<variant, history, observed, sample>>

Train ==
  /\ phase = "train"
  /\ history' = Append(history, variant.trains)
  /\ phase' = IF Len(history') < TrainingRuns THEN "train"
              ELSE IF variant.middle THEN "middle" ELSE "measure"
  /\ UNCHANGED <<variant, observed, sample>>

Middle ==
  /\ phase = "middle"
  /\ history' = Append(history, "victim")
  /\ phase' = "measure"
  /\ UNCHANGED <<variant, observed, sample>>

Measure ==
  /\ phase = "measure"
  /\ history' = Append(history, "shadow")
  /\ observed' \in Obs \cup {NULL}
  /\ phase' = "measured"
  /\ UNCHANGED <<variant, sample>>

Collect ==
  /\ phase = "measured"
  /\ \/ phase' = "done" /\ sample' = observed
     \/ phase' = "abort" /\ UNCHANGED sample
  /\ UNCHANGED <<variant, history, observed>>

Next == AbortSetup \/ Start \/ Train \/ Middle \/ Measure \/ Collect

Spec == Init /\ [][Next]_pvars
=============================================================================
