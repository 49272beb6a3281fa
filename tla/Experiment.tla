----------------------------- MODULE Experiment -----------------------------
(***************************************************************************)
(* One run of the shadow_code program (main.cpp): configuration checks,    *)
(* BranchShadow::prepare_lbr, prepare_enclave, sanity_check_victims, then  *)
(* the experiment test_type selects, t1 .. t13 of BranchShadow.cpp:        *)
(* prepare_attack, a setup_* function, BpuUtils::mess_btb, run_training,   *)
(* the complementary run and finish_attack (LBR dump, read_lbr, free the   *)
(* indirect pointers, LbrStats::add_from_lbr_data).                        *)
(*                                                                         *)
(* The shadow's layout is BranchShadowSetup's subject; here a setup is its *)
(* effect on the indirect cells, and a run of the shadow or the victim is  *)
(* the taken branches the LBR records: the call into it, its branch (the   *)
(* shadow's at m_shadow_src, "anchor"; the victim's, "victim", whose full  *)
(* address differs from the anchor's), and the return.  The LBR is the     *)
(* sequence of its last LbrCount entries, oldest first: what read_lbr      *)
(* reads back when one process uses the device (LbrDevice's               *)
(* ReadReturnsSnapshot).                                                    *)
(***************************************************************************)
EXTENDS Integers, SequencesExt

CONSTANTS
  TestTypes,        \* test_type values given on the command line
  NoSgxModes,       \* values of the -n flag
  IndirectModes,    \* m_use_indirect_targets (TRUE unless --no_indirect)
  DeviceStates,     \* the LBR device: "present", "absent", "unopenable"
  EnclaveResults,   \* what initialize_enclave / exfiltrate_addresses return
  TrainingRounds,   \* m_training_rounds (main sets 100)
  LbrCount,         \* entries of the LBR (lbr_count)
  VictimInputs, ShadowInputs,
  EaxAtCall,        \* what %eax may hold when execute_ptr calls the shadow
  Cycles,           \* cycle counts an LBR entry may carry
  VictimSrcs,       \* get_vic_src(): the address mess_btb aliases
  AlignBits, AddrBits, Page, MmapResults, NULL, BtbEntries

ASSUME /\ TestTypes \subseteq Int
       /\ DeviceStates \subseteq {"present", "absent", "unopenable"}
       /\ TrainingRounds \in Nat /\ LbrCount \in Nat \ {0}

Stats == INSTANCE LbrStats
BU == INSTANCE BpuUtils

VARIABLES
  pc,          \* the step the program is at
  test, noSgx, indirect, device, victimInput, shadowInput,
  fdOk,        \* m_lbr_fd refers to the open device
  cells,       \* each indirect pointer's cells: "none" (direct mode),
               \* "cached", "flushed", "freed"
  btb,         \* what mess_btb left behind, NULL before it runs
  i,           \* run_training's loop counter
  history,     \* ghost: the runs of the shadow ("shadow") or the victim
               \* ("victim") so far, oldest first
  lbr,         \* the LBR, oldest entry first
  stats,       \* m_stats
  firstLoad,   \* ghost: the cells as the first shadow run loaded them
  measured     \* ghost: the run finish_attack measures

vars == <<pc, test, noSgx, indirect, device, victimInput, shadowInput, fdOk,
          cells, btb, i, history, lbr, stats, firstLoad, measured>>

\* The experiments as a table: which setup_* builds the shadow, which side
\* run_training runs, whether victim_ret runs between training and the
\* measured shadow run, and the shift t10 applies to shadow_input.
Variant ==
  LET V(s, t, m, d) == [setup |-> s, trains |-> t, middle |-> m, shift |-> d]
  IN <<V("jne", "victim", FALSE, 0), V("jne", "victim", FALSE, 0),
       V("jne", "victim", FALSE, 0), V("jne", "victim", FALSE, 0),
       V("jne", "shadow", TRUE, 0),  V("jne", "shadow", FALSE, 0),
       V("jmp", "shadow", TRUE, 0),  V("jmp", "shadow", TRUE, 0),
       V("jmp", "victim", FALSE, 0), V("jne", "victim", FALSE, 1),
       V("jmpRev", "shadow", TRUE, 0), V("jmp", "victim", FALSE, 0),
       V("jmp", "victim", FALSE, 0)>>

Entry(from, run, mispred, c) == [from |-> from, run |-> run, mispred |-> mispred, cycles |-> c]
Other(run) == Entry("other", run, FALSE, 0)

\* The LBR after the CPU records the taken branches es: the oldest drop out.
Record(es) == SubSeq(lbr \o es, Len(es) + 1, Len(lbr) + Len(es))

Goto(l) == pc' = l
Abort == pc' = "abort"

Init ==
  /\ pc = "main"
  /\ test \in TestTypes /\ noSgx \in NoSgxModes /\ indirect \in IndirectModes
  /\ device \in DeviceStates
  /\ victimInput \in VictimInputs /\ shadowInput \in ShadowInputs
  /\ fdOk = FALSE /\ cells = [c \in {"input", "target"} |-> "none"] /\ btb = NULL /\ i = 0 /\ history = <<>>
  /\ lbr = [n \in 1 .. LbrCount |-> Other(0)]
  /\ stats = Stats!StatsEmpty
  /\ firstLoad = NULL /\ measured = 0

Config == <<test, noSgx, indirect, device, victimInput, shadowInput>>
Ghosts == <<history, firstLoad, measured>>

runs == Len(history)

\* main: with -n only tests 1 and 2 are allowed, else abort.
MainChecks ==
  /\ pc = "main"
  /\ IF noSgx /\ test \notin {1, 2} THEN Abort ELSE Goto("lbr")
  /\ UNCHANGED <<Config, fdOk, cells, btb, i, lbr, stats, Ghosts>>

\* LbrReader::device_file_exists: stat() finds the device file.
DeviceFileExists == device # "absent"

\* LbrReader::open_device: false without the file or when open() fails.
OpenDevice == device = "present"

\* prepare_lbr: open the device if its file exists, abort if that fails,
\* only warn when the file is missing; then prepare_enclave unless -n.
PrepareLbr ==
  /\ pc = "lbr"
  /\ fdOk' = OpenDevice
  /\ IF DeviceFileExists /\ ~OpenDevice THEN Abort ELSE Goto(IF noSgx THEN "sanity" ELSE "enclave")
  /\ UNCHANGED <<Config, cells, btb, i, lbr, stats, Ghosts>>

\* prepare_enclave: abort unless the enclave initialises and reports the
\* victim addresses.
PrepareEnclave ==
  /\ pc = "enclave"
  /\ \E ok \in EnclaveResults : IF ok THEN Goto("sanity") ELSE Abort
  /\ UNCHANGED <<Config, fdOk, cells, btb, i, lbr, stats, Ghosts>>

\* sanity_check_victims: victim_jne and victim_ret return 1 for even and
\* 2 for odd inputs, so the asserts hold.  Then main's switch runs the
\* experiment t<test_type>; its default case aborts.
SanityCheckVictims ==
  /\ pc = "sanity"
  /\ IF test \in DOMAIN Variant THEN Goto("prepare") ELSE Abort
  /\ UNCHANGED <<Config, fdOk, cells, btb, i, lbr, stats, Ghosts>>

\* prepare_attack: in indirect mode get_indirect_pointer allocates, writes
\* and flushes the two cells.  t10 shifts the input first.
PrepareAttack ==
  /\ pc = "prepare"
  /\ shadowInput' = shadowInput + Variant[test].shift
  /\ cells' = IF indirect THEN [input |-> "flushed", target |-> "flushed"] ELSE cells
  /\ Goto("setup")
  /\ UNCHANGED <<test, noSgx, indirect, device, victimInput, fdOk, btb, i, lbr, stats, Ghosts>>

\* The cell a setup's SegSetPosInReg uses: the input (jne, into %r14) or the
\* target (jmp, into %r13).
UsedCell == IF Variant[test].setup = "jne" THEN "input" ELSE "target"

\* A cell operation: an access loads the cell into the cache, a flush
\* (flush_indirect_pointer's clflush) evicts it.
CellOp(c, op) == [c EXCEPT ![op.cell] = IF op.access THEN "cached" ELSE "flushed"]

Access(x) == [cell |-> x, access |-> TRUE]
Flush(x)  == [cell |-> x, access |-> FALSE]

\* Mutant: the flushes placed before m_shadow->finalize().
SetupCellsFlushFirst(c) ==
  FoldLeft(CellOp, c, <<Flush("target"), Flush("input"), Access(UsedCell)>>)

\* The cell operations of setup_*, in code order: finalize() makes
\* SegSetPosInReg write the target's position into the target cell (jmp)
\* and read the cell it uses for the code and the debug log; then
\* flush_indirect_pointer on the target pointer and on the input pointer.
SetupCells(c) ==
  FoldLeft(CellOp, c, <<Access(UsedCell), Flush("target"), Flush("input")>>)

\* setup_jne_shadow / setup_jmp_shadow / setup_jmp_shadow_rev.
Setup ==
  /\ pc = "setup"
  /\ cells' = IF indirect THEN SetupCells(cells) ELSE cells
  /\ Goto("mess")
  /\ UNCHANGED <<Config, fdOk, btb, i, lbr, stats, Ghosts>>

\* BpuUtils::mess_btb(get_vic_src()): thousands of slide jumps and 310
\* calls of the repeated function fill the LBR; an allocation reported as
\* failed aborts, and a slide that does not return hangs the process in
\* enter_the_slide ("hang", where no step is enabled).
MessBtbOf == {BU!MessBtb(t, r1, r2) : t \in VictimSrcs, r1, r2 \in MmapResults}

MessBtb ==
  /\ pc = "mess"
  /\ \E b \in MessBtbOf :
       /\ btb' = b
       /\ IF ~(b.seq.ok /\ b.rep.ok) THEN Abort
          ELSE IF \A k \in 1 .. 2 : b.seq.runs[k].ret THEN Goto("train")
          ELSE Goto("hang")
  /\ lbr' = [n \in 1 .. LbrCount |-> Other(0)]
  /\ UNCHANGED <<Config, fdOk, cells, i, stats, Ghosts>>

\* A jmp shadow always takes its branch; a jne shadow takes it for an odd
\* value: shadow_input through its cell in indirect mode, and in direct
\* mode whatever %eax held, as execute_ptr never loads input (Shadow.h:86).
AnchorTaken(eax) ==
  Variant[test].setup # "jne" \/ (IF indirect THEN shadowInput ELSE eax) % 2 = 1

\* Shadow::execute_ptr: what the LBR records of one run of the shadow.
ShadowRun(eax, mispred, c) ==
  LET r == runs + 1
  IN <<Other(r)>> \o (IF AnchorTaken(eax) THEN <<Entry("anchor", r, mispred, c)>> ELSE <<>>)
       \o <<Other(r)>>

\* victim_jne / victim_ret, or the ecall of an enclave victim.
VictimRun == <<Other(runs + 1), Entry("victim", runs + 1, FALSE, 0), Other(runs + 1)>>

\* One run of the shadow: its loads cache the cell it uses.
RunShadow ==
  /\ \E eax \in (IF indirect THEN {0} ELSE EaxAtCall), m \in BOOLEAN, c \in Cycles :
       lbr' = Record(ShadowRun(eax, m, c))
  /\ cells' = IF indirect THEN [cells EXCEPT ![UsedCell] = "cached"] ELSE cells
  /\ firstLoad' = IF firstLoad = NULL THEN cells ELSE firstLoad
  /\ history' = Append(history, "shadow")

RunVictim ==
  /\ lbr' = Record(VictimRun)
  /\ history' = Append(history, "victim")
  /\ UNCHANGED <<cells, firstLoad>>

\* Mutant: the loop of run_training written with <=.
TrainingRunsLe == TrainingRounds + 2

\* run_training(x) with DO_MULTIPLE_TRAINING_ROUNDS: x in a loop of
\* m_training_rounds iterations, then once more.
TrainingRuns == TrainingRounds + 1

TrainStep ==
  /\ pc = "train"
  /\ IF Variant[test].trains = "shadow" THEN RunShadow ELSE RunVictim
  /\ i' = i + 1
  /\ IF i + 1 < TrainingRuns THEN UNCHANGED pc
     ELSE Goto(IF Variant[test].middle THEN "middle" ELSE "measure")
  /\ UNCHANGED <<Config, fdOk, btb, stats, measured>>

\* victim_ret(victim_input) between training and the measured run.
MiddleVictim ==
  /\ pc = "middle"
  /\ RunVictim
  /\ Goto("measure")
  /\ UNCHANGED <<Config, fdOk, btb, i, stats, measured>>

\* The run finish_attack measures: every experiment ends with
\* `retval = Shadow::execute_ptr(entry, shadow_input)`.
MeasuredRun ==
  /\ pc = "measure"
  /\ RunShadow
  /\ measured' = runs + 1
  /\ Goto("finish")
  /\ UNCHANGED <<Config, fdOk, btb, i, stats>>

\* finish_attack: the dump ioctl, read_lbr (false without the device, which
\* leaves m_lbr_data NULL), the indirect pointers freed, then
\* add_from_lbr_data(get_data_ptr(), m_shadow_src), whose assert aborts
\* when m_lbr_data is NULL.
FinishAttack ==
  /\ pc = "finish"
  /\ cells' = IF indirect THEN [input |-> "freed", target |-> "freed"] ELSE cells
  /\ IF fdOk
     THEN /\ stats' = Stats!AddFromLbrData(stats, lbr, "anchor")
          /\ Goto("done")
     ELSE /\ Abort
          /\ UNCHANGED stats
  /\ UNCHANGED <<Config, fdOk, btb, i, history, lbr, firstLoad, measured>>

Next ==
  \/ MainChecks \/ PrepareLbr \/ PrepareEnclave \/ SanityCheckVictims
  \/ PrepareAttack \/ Setup \/ MessBtb \/ TrainStep \/ MiddleVictim
  \/ MeasuredRun \/ FinishAttack

\* No fairness: every property checked of the program is a safety property.
Spec == Init /\ [][Next]_vars

-----------------------------------------------------------------------------
CellStates == {"cached", "flushed", "freed"}
EntryRec == [from : {"other", "anchor", "victim"}, run : Nat, mispred : BOOLEAN, cycles : Nat]

\* Every variable holds a value of its type.
TypeOK ==
  /\ pc \in {"main", "lbr", "enclave", "sanity", "prepare", "setup", "mess", "train",
             "middle", "measure", "finish", "done", "abort", "hang"}
  /\ cells \in [{"input", "target"} -> {"none"} \cup CellStates]
  /\ lbr \in [1 .. LbrCount -> EntryRec]
  /\ i \in 0 .. TrainingRounds + 1 /\ fdOk \in BOOLEAN
  /\ stats.count \in 0 .. 1 /\ measured \in 0 .. runs

\* Without the measurement channel no experiment runs: an absent LBR
\* device aborts at setup (spec 7), before the setup writes a shadow, the
\* BTB is polluted or any training run executes.  prepare_lbr
\* (BranchShadow.cpp:72) only warns when the device file is missing.
NoRunWithoutDevice == (pc \in {"mess", "train", "middle", "measure", "finish", "done"}) => fdOk

\* What run k observed at the shadow's branch, in the LBR copy: its
\* entry from m_shadow_src as [hit, cycles], NULL when it took none.
Observed(k) ==
  LET j == SelectInSeq(lbr, LAMBDA e : e.run = k /\ e.from = "anchor")
  IN IF k = 0 \/ j = 0 THEN NULL ELSE [hit |-> lbr[j].mispred, cycles |-> lbr[j].cycles]

\* The refinement mapping: the program's steps before mess_btb returns are
\* the protocol's setup, finish_attack is its collection, and the sample
\* is what m_stats holds.
Phase ==
  CASE pc \in {"main", "lbr", "enclave", "sanity", "prepare", "setup", "mess", "hang"} -> "setup"
    [] pc = "finish" -> "measured"
    [] OTHER -> pc

Protocol == INSTANCE ExperimentProtocol
  WITH TrainingRuns <- TrainingRuns,
       Obs <- [hit : BOOLEAN, cycles : Cycles],
       variant <- LET v == IF test \in DOMAIN Variant THEN Variant[test] ELSE Variant[1]
                  IN [trains |-> v.trains, middle |-> v.middle],
       phase <- Phase,
       observed <- Observed(measured),
       sample <- IF stats.count = 0 THEN NULL
                 ELSE [hit |-> stats.hits.vals[1] = 1, cycles |-> stats.cycles.vals[1]]

\* Every experiment runs as the protocol says: the training side
\* m_training_rounds + 1 times, victim_ret once in the variants that have
\* it, the shadow last; and the sample add_from_lbr_data takes from the
\* LBR is what that last run observed, not an entry of a training run of
\* the shadow that is still in the LBR.
ImplementsProtocol == Protocol!Spec

\* The first run of the shadow after the setup loads its indirect cells
\* from memory: finalize() touches them after get_indirect_pointer's
\* flush, so the flush at the end of setup_* must come last.
FirstShadowRunUncached ==
  (indirect /\ firstLoad # NULL) => firstLoad = [input |-> "flushed", target |-> "flushed"]

\* mess_btb writes only inside its two mappings: the slide of
\* 6 * entries bytes plus its retq, and func_size = 22 bytes copied into a
\* mapping asked for strlen(func) = 11.
PollutionWithinMappings ==
  btb # NULL =>
    /\ BU!WithinMapping(btb.seq.mem, btb.seq.written)
    /\ BU!WithinMapping(btb.rep.mem, btb.rep.written)

\* Entered at offset 0 and at offset 1, the slide takes the three jumps of
\* each of its blocks and returns through its retq.
SlideRunsReturn ==
  btb # NULL => \A k \in 1 .. 2 : btb.seq.runs[k] = [ret |-> TRUE, jumps |-> 3 * (BtbEntries - 1)]
=============================================================================
