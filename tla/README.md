# TLA+ models of the SGX branch-shadowing experiment code

These modules model `src/shadow_code/untrusted/`, the user-space side of a
branch-shadowing experiment. It synthesises a *shadow* copy of a victim
branch at an address that aliases the victim's in the branch target buffer,
trains one of the two, runs the other, and reads the CPU's Last Branch Record
(LBR) through a kernel device to see whether the prediction leaked.

## 1. The system (inventory)

| Part | Source | State it keeps | Operations |
|---|---|---|---|
| Pointers | `mem/Pointers.{h,cpp}` | none (pure) / the two heap cells of an indirect pointer | `get_mask`, `apply_mask`, `apply_rmask`, `set_masked_base`, `get_diff`, `add_offset`; `get_indirect_pointer`, `set/get_indirect_pointer_value`, `flush_indirect_pointer`, `free_indirect_pointer` |
| AlignedMem | `mem/AlignedMem.cpp` | `target_entry`, `size`, `mem`, `entry` | constructor, `allocate` (mmap RWX, derive entry), `unallocate`, `as_ptr` |
| Segments | `shadow/ShadowSegment.cpp`, `shadow/Seg*.{h,cpp}` | `m_size`, `m_pos`, jump target, immediate, indirect cell, register, the encoded bytes | constructors/`make`, `set_pos`, `set_end`, `apply_base`, `apply_offset`, `finalize` (encodes displacements; `SegSetPosInReg` also writes its cell) |
| Shadow | `shadow/Shadow.{h,cpp}` | `m_segments`, `m_loose_segments`, `m_entry_segment`, `m_finalized`, `m_mem` | `add_entry`, `add_segment`, `place_segment`, `finalize`, `get_size`, `fill_with_nops`, `execute_ptr` |
| BranchShadow | `BranchShadow.cpp` | `m_src`, `m_dst`, `m_shadow`, `m_shadow_src`, the two indirect pointers, `m_stats` | `prepare_attack`, `setup_jmp_shadow`, `setup_jmp_shadow_rev`, `setup_jne_shadow`, `run_training`, `finish_attack`, experiments `t1`..`t13`, `sanity_check_victims` |
| LBR reading and statistics | `misc/LbrReader.cpp`, `misc/lbr_tools.h`, `misc/LbrStats.cpp`, `misc/MiniStatistics.cpp` | the 32-entry LBR copy, counts, sums, sample lists | `dump_lbr`, `read_lbr`, `add_from_lbr_data`, `add_measurement`, `mean`, `stddev` (never called) |
| BTB pollution | `misc/BpuUtils.cpp` | two short-lived RWX mappings | `mess_btb`, `do_sequential_jumps`, `do_repeated_jumps` |
| LBR device | `module_lbr_chardev/module/lbr_dumper.c`, `lbr_tools.c` | global `lbr_data` and `lbr_data_index`, per-CPU LBR MSRs | `init`, `ioctl` (disable, dump, re-enable via kthreads on CPUs 0-3), `read`, `exit` |
| Victims | `shared/victim_shared.c`, `victim.c` | none | `victim_jne`, `victim_ret`, address scans over their code |
| Program driver | `main.cpp` | test type, inputs, flags | configuration checks, `prepare_lbr`, `prepare_enclave`, `sanity_check_victims`, the switch over `t1`..`t13` |
| Branch conversion pass | `llvm/lib/Target/X86/X86BranchConversion.cpp` | `takenBlocks` (the lanes), `processedMBBs`, the machine function's blocks | `runOnMachineFunction`, `replaceNoBranchBlock`, `replaceIndirectJump`, `replaceUnconditionalJump`, `replaceConditionalBranch`, `CreateNewBBonTrampoline`, `addBBtoBlockLane`, `updateLane` |
| Out of scope | `misc/Enclave.cpp`, `trusted/`, `Logger`, `util`, `test/Test.cpp` | | SGX calls, logging, a duplicate self test |

How the parts interact: an experiment calls `prepare_attack` (a new `Shadow`;
in indirect mode two indirect pointers holding `shadow_input` and 0), one of
the `setup_*` functions (segments are built and handed to the `Shadow` in
code order, then `finalize` allocates an `AlignedMem` and writes the code),
`mess_btb`, the training loop, the complementary run, and `finish_attack`
(ioctl to the device, `read_lbr`, free the pointers, scan the LBR for
`m_shadow_src`, add the sample to `LbrStats`).

The user-space program is single threaded (spec section 5). What makes it
hard is arithmetic on addresses, not interleaving:
- a layout that must keep the victim's low address bits through relocation;
- relative jumps whose displacements must fit their fields;
- a mapping that must cover the code;
- registers whose contents at a call are not set by the code.

The kernel device does have concurrency: unsynchronised globals, and kthreads
that re-enable the LBR asynchronously.

The LLVM pass is separate from the experiment: a defence against branch
shadowing. It rewrites every block of a function so that the block ends by
loading `%r15` with a trampoline's address and falling into a new *fake*
block `jmp *%r15`. A conditional branch becomes `lea zF, %r15; lea z, %r13;
cmov %r13, %r15`. A trampoline whose destination lies further on is a
*lane*, and it is routed through the fake jump of every block in between.
So each path executes the fake jumps in layout order, whichever way its
branches went. What is hard here is the bookkeeping of the lanes across
blocks, not arithmetic or concurrency.

## 2. Modules

| Module | Models | State / actions |
|---|---|---|
| `Pointers` | `Pointers.h/.cpp` mask arithmetic | operators only; addresses are naturals below `2^AddrBits` |
| `ShadowSegment` | `ShadowSegment` and the `Seg*` variants | a segment is a record of its constructor arguments; `Encode` is each variant's `finalize()` reduced to the field it computes (a byte, `LongDispBits` bits, an immediate, a cell address) |
| `AlignedMem` | `AlignedMem` | operators `Construct`, `Allocate`, `Unallocate` on a record, plus a component spec (`AllocateStep`, `UnallocateStep`) that runs one object against every mmap result |
| `Shadow` | `Shadow` | variables `seg`, `pos`, `segments`, `loose`, `entry`, `finalized`, `mem`, `code`, `cells`, `fatal`. Actions are `AddEntry`, `AddSegment`, `AddSegmentFails`, `Finalize` and `FinalizeFails`. Each is the whole method: `Finalize` appends the loose segments, allocates, relocates, encodes, writes the cells and sets `m_finalized` in one step. A failing `assert`/`abort` sets `fatal` to its message, and the process takes no further step. |
| `ShadowExec` | `execute_ptr` and the `s_hex` of every segment | a recursive interpreter `Run` over the finalized layout: `%eax`, `%r13`, `%r14`, the indirect cells, nop fill between segments |
| `BranchShadowSetup` | `prepare_attack` + the three `setup_*` functions | extends `Shadow` with `src`, `dst`, `setup`, `indirect`, `shadowInput`, `pc`, `shadowSrc`. `Init` is `prepare_attack` plus segment construction; `CallAddEntry`, `CallAddSegment` and `CallFinalize` step through the call sequence the source issues for the victim's direction (`JmpScript`, `JneScript`). |
| `LbrDevice` | the kernel module `lbr_dumper.c`, `lbr_tools.c` and `read_lbr` of `lbr_tools.h` | per-CPU LBR ring, `tos` and enable bit, the global `lbr_data` and `lbr_data_index`, pending kthreads, and clients doing `ioctl` then `read` byte by byte (`IoctlDisable`, `IoctlDump`, `IoctlReturn`, `ReadEnter`, `ReadLoad`, `ReadStore`, `KthreadRun`, `EndFunction`, `BranchTaken`) |
| `LbrStats` | `LbrStats.cpp`, `MiniStatistics.cpp` | operators `MiniAdd`, `AddMeasurement`, `MatchIndex` (the newest record from `src_address`), `AddFromLbrData`, used by `Experiment` |
| `BpuUtils` | `BpuUtils.cpp` | operators: `SequentialJumps` builds the slide bytes with `SlidePass` for offsets 0 and 1 and executes them with the recursive interpreter `Exec`; `RepeatedJumps` sizes the mapping with `StrLen(Func)` and copies `FuncSize` bytes; `MessBtb` does both around `target - 128` and `target` |
| `Experiment` | `main.cpp` and the experiment half of `BranchShadow.cpp` | `pc` steps through `MainChecks`, `PrepareLbr`, `PrepareEnclave`, `SanityCheckVictims`, `PrepareAttack`, `Setup`, `MessBtb`, `TrainStep` (`m_training_rounds + 1` times), `MiddleVictim` (t5, t7, t8, t11), `MeasuredRun`, `FinishAttack`. `Variant` is the table of t1..t13; a test type outside it aborts in main's `default:` case. The LBR copy is a sequence of records, oldest first; `cells` is each indirect pointer's cache state; `stats` is `m_stats`; `history` is a ghost of the runs so far. A slide that does not return leaves `pc = "hang"`, where no step is enabled |
| `ExperimentProtocol` | what one experiment promises, abstractly | `variant`, `phase`, `history`, `observed`, `sample`; `AbortSetup`, `Start`, `Train`, `Middle`, `Measure`, `Collect`. `Experiment` is shown to implement it through the instance `Protocol`: every step before `mess_btb` returns maps to `"setup"`, `finish` to `"measured"`, `observed` is what the measured run's LBR entry from the shadow branch says, and `sample` is what `m_stats` holds |
| `BranchConversion` | `X86BranchConversion.cpp` | One behaviour is one run of the pass over one input function `fn` of `N` blocks. `fn` is a terminator per block: none (`fall`), `ret`, `jmp`, `jcc`, `je`+`jmp` (`jccjmp`), an indirect jump, or an empty block. Variables: `code` (block id to instructions), `layout`, `cur` (`iMBB`), `lanes` (`takenBlocks`), `processed`, `nextId` and `finished`. `ProcessBlock` is one iteration of the while loop: the fake block, the lane loop `LaneLoop`, a new taken lane if none was kept, and then the switch on the last instruction (`Dispatch`) into `ReplaceCond`, `ReplaceUncond`, `ReplaceIndirect` or `ReplaceNoBranch`. It includes the je+jmp split. `Finish` is the entry jump pushed to the front. Each helper threads a record of what the iteration changes. `Exec` is an interpreter for the input and the converted code: bodies, `lea`, `cmov`, `jcc`, `jmp` and `jmp *%r15`. |
| `MCAlignedMem`, `MCBranchShadowSetup`, `MCLbrDevice`, `MCExperiment`, `MCBranchConversion` | model values for TLC | |

How the state maps to the code:
- `pos[s]` is `s->m_pos`, with `NULL` for nullptr.
- `segments` and `loose` are the two `std::list`s.
- `code[s]` is the field of `m_hex` that `finalize()` computes.
- `cells[c]` is the value stored in the inner cell `c` of an indirect pointer.
- A failing `assert()` or `abort()` is an explicit outcome: `AddSegmentFails`, `FinalizeFails`.

## 3. Runs

| Run | Expect | What it shows |
|---|---|---|
| `aligned_mem_alias` | violation | `EntryAliasesTarget`: the entry's low bits are the target's minus one when the base's low bits are larger (`AlignedMem.cpp:45` adds `mask`, not `2^b`). |
| `setup_victims` | pass | Victim distances, all setups, both modes, every input and `mmap` base. Checks: `TypeOK`; disjoint layout; the shadow branch and destination alias the victim's; execution mirrors the victim's branch for any `%eax` (`ShadowMirrorsVictim`); in indirect mode the jne shadow follows `shadow_input` (`IndirectFollowsInput`). |
| `setup_direct` | violation | In direct mode it does not: `execute_ptr` never loads `input` into `%eax` (`Shadow.h:86`). |
| `setup_edges` | pass | Distances 3, -8, 120, 150, -120 and 25000. Every setup either aborts on a placement or jump assert, or finalizes with the victim aliased. This run fires `AddSegmentFails` and `FinalizeFails`. |
| `setup_overlap` | violation | `LayoutDisjoint` at `dst - src = 3`: the positioned `if_seg` overlaps the 4-byte `jmpq *0(%r13)` and no assert catches it. |
| `lbrdev` | pass | One client on a CPU the kthreads cover reads back the LBR as the ioctl froze it, oldest first (`ReadReturnsSnapshot`). Its CPU records again after every ioctl (`RecordingResumes`, under weak fairness of the kthreads). |
| `lbrdev_race` | violation | With two clients on one CPU, an enable kthread or the shared `lbr_data_index` tears a dump. |
| `lbrdev_cpu4` | violation | A client on CPU 4 disables its LBR with the ioctl and never gets it back. Kthreads exist only for CPUs 0-3, so the LBR of CPU 4 is never enabled at all, neither at load nor after an ioctl. |
| `experiment` | pass | All thirteen experiments, with and without `-n`, every device state and enclave outcome. Also test types 0 and 14, which abort in main's `default:` case. Checks: `TypeOK`; `Experiment` implements `ExperimentProtocol` (`ImplementsProtocol`): the training side runs `m_training_rounds + 1` times, `victim_ret` runs once more where the variant has it, and the sample `add_from_lbr_data` adds is what the measured run observed, not an entry of a training run still in the LBR; the first shadow run finds both indirect cells flushed, although `finalize()` reads and writes them after `get_indirect_pointer` flushed them (`FirstShadowRunUncached`: `Setup` applies the cell accesses and flushes in code order, so the check depends on that order); `mess_btb` writes only inside its two mappings (`PollutionWithinMappings`); the slide returns from both entry offsets after `3 * (entries - 1)` jumps (`SlideRunsReturn`). |
| `branch_conversion` | pass | Every 3-block function whose blocks fall through, return, jump, branch, branch then jump, or jump indirectly, with every choice of targets (self-loops and backward jumps included): 6400 functions. Checks: `TypeOK`; for every outcome of the conditions the converted function executes the same bodies as the input and ends the same way (`TraceEquivalence`); in a function whose jumps all go forward, every path enters the fake blocks in layout order and skips none (`FakeJumpsInLayoutOrder`). |
| `experiment_nodevice` | violation | `NoRunWithoutDevice` with the device file missing. `prepare_lbr` only warns, and the program sets up the shadow, pollutes the BTB and runs every training and measured run. It aborts only in `finish_attack`, when `get_data_ptr`'s assert finds no LBR data. Spec section 7 says a missing branch-record device aborts the run at setup. |
| `branch_conversion_empty` | violation | `TraceEquivalence` with empty blocks allowed. For `fall; empty; ret`, the trampoline after block 1 gets `jmp 2` and then `jmp 3`. The empty block falls into its fake `jmp *%r15`, and `%r15` still holds that trampoline, so execution cycles forever after one body. (TLC may report the same cycle on a function whose third block ends in `jmp 1` instead of `ret`.) The cause is the `continue` at `X86BranchConversion.cpp:271`, which leaves the taken lane where it was. |

Every property of a passing run has a mutant in `PROJECT.json` that TLC finds violating it. Each mutant is a plausible slip in the modelled code:
- a truncation dropped;
- a rounding turned;
- the `jne_offset` forgotten;
- the cells written before relocation;
- the two indirect pointers swapped;
- `read_lbr` starting its output at slot 0;
- kthreads for three CPUs;
- `run_training`'s loop written with `<=`;
- the LBR scan keeping the first match (breaks the refinement);
- the slide loop written with `<=`;
- the setup's flushes placed before `finalize()`;
- `getFallThrough` read after the fake block is inserted (it is then no successor, so the fall-through is lost);
- the entry's wrap correction dropped;
- `replaceConditionalBranch` with its two `lea` targets swapped, or with `addBBtoBlockLane`'s arguments swapped;
- a skip lane's trampoline jumping straight to the next trampoline instead of through the fake block.

### Bounds and why they are enough

- `AlignBits = 9` (`lbr_entry_bits` is 32 in `config.h`) and `AddrBits = 16`.
  The layout arithmetic depends only on an address's residue modulo `2^b`
  and on the distances between segments. A 512-byte period still holds
  every shadow (the largest is about 300 bytes) plus slack.
- `Page = 64`, far below the real 4096. A smaller page gives `mmap` less
  rounding slack, so a write the checks find inside a 64-byte-rounded
  mapping is inside the real one too. The converse does not hold: an
  overrun found at `Page = 64` need not exist at 4096, so no run reports one.
- The victim addresses are `4096 + r`. The residues `r` cover both ends of
  the period (0, 1, 505, 511) and its middle.
- The `mmap` bases have low bits 0, 192 and 448, so the entry both does and
  does not wrap in `allocate()`.
- The victim offsets are 19 (the jne victim of `victim_shared.c`: jne 2 +
  4 nops + movl 7 + jmp 2 + 4 nops) and ±24, ±40. The edge offsets sit just
  inside and outside each assert.
- `EaxAtCall = {0, 1, 2}` covers zero, odd and even non-zero garbage.
- `ShadowExec!MaxSteps = 24`. Every shadow returns within 12 segments.
- Rel32 displacements are given `AddrBits` bits (`LongDispBits`). Every jump
  stays inside one layout, far below `2^31`, so the width never matters.

- `Experiment`: `TrainingRounds = 2` (main sets 100), so the LBR holds runs of training, the middle victim and the measured run. `LbrCount = 8` holds less than all runs: the oldest training runs drop out, as they do from the 32-entry LBR after 101 runs. `BtbEntries = 4` (8192 in `BpuUtils.h`) gives a slide of 3 blocks per offset: the loop structure, both offsets and the overlap of their writes, without 49152 bytes. `ShadowInputs = {0, 1}` covers a jne shadow that takes and one that does not take its branch. `IndirectModes = {TRUE}`: direct mode is `setup_direct`'s subject.
- `BranchConversion`: `N = 3` blocks. Together with the split of a `je`+`jmp` block, this gives up to six input blocks (three split off) and several lanes alive at once. Within those limits a lane meets another at a block, passes a block, and is erased as a duplicate or as dead. Targets range over all blocks, so self-loops, backward jumps and jumps to the next block all occur. The interpreter runs to `TraceBound = 5` bodies, so a loop of one or two blocks goes round at least twice. It reports `stuck` after `StepBound = 20` instructions without a body. The longest stretch the correct output executes between two bodies is 15 instructions (the run fails with `StepBound = 14` and passes with 16). The bound also keeps TLC's recursion within its stack.
- `LbrDevice`: `LbrCount = 2`, `RecBytes = 2` and two rounds are enough for a dump to be read across a kthread wake-up and an index reset.

### Fairness

`LbrDevice`: `RecordingResumes` assumes weak fairness of `KthreadRun`. A kthread that was woken and is bound to an online CPU is eventually scheduled by the kernel. Clients get no fairness, because a process may stop at any point.

`Experiment` and `ExperimentProtocol` have no fairness. Every property checked of them is a safety property. The program is one thread with at most one step enabled in each state, and its only way not to end is a slide that never returns (`pc = "hang"`), which `SlideRunsReturn` rules out.

### Deadlock

`CHECK_DEADLOCK FALSE` is set because the modelled code ends:
- a setup ends with `finalize()` or an abort;
- an `AlignedMem` object ends after `unallocate()`;
- the program ends after `finish_attack` or at an `abort()` (and a slide that never returns, `"hang"`, has no next step; `SlideRunsReturn` rules it out);
- the device's client stops after its rounds;
- the branch conversion pass ends after `Finish`.

## 4. Not modelled

- `MAP_FAILED`: `AlignedMem` models `mmap`'s failure value, but no run includes it. The nullptr check at `AlignedMem.cpp:35` lets it through (listed as a hazard).
- Direct mode in `Experiment`: there a jne shadow branches on garbage `%eax`, so a training run can leave the newest anchor entry and `ImplementsProtocol` cannot hold. `setup_direct` shows the root cause.
- `read_lbr`'s missing `return true` (`LbrReader.cpp:89`): every path that reads the dump falls off the end of the function. `finish_attack` ignores the result, so a build that returns any value goes on the same way. But falling off a non-void function is undefined, and an optimising build may treat the path as unreachable. The model takes the first reading.
- Cache and predictor effects: the model records which cells are flushed and which branches the LBR logs. Timing and prediction outcomes (`mispred`, `cycles`) are free choices.
- `MiniStatistics::mean()` and `stddev()`: nothing in the program calls them.
- `print_lbr_data`, `print_config`, `Logger`, `util`: output only.
- SGX enclave calls and the trusted side: SDK I/O. An enclave victim is a victim run, and `initialize_enclave` is a free result.
- Victim address scans (`get_victim_*_src/dst`): byte searches over the compiled victims for patterns such as `0x75` or `c3 90`. What they find depends on the bytes the compiler emits, which the source does not fix, so the addresses are inputs.
- The device testers (`tester/*.c`): clients like the ones `LbrDevice` models.
- `test/Test.cpp`: duplicates the setups.
- In the LLVM pass:
  - `addDummyInstructions` only pads skip trampolines, and it is off by default (`x86-bc-dummy-instr`).
  - The successor lists the pass adds (`addSuccessor`) are CFG bookkeeping that the emitted code never reads. The input's successors are modelled (`Succs`), because `getFallThrough` returns the next block only when it is a successor.
  - The `cmov` is built with `R11` as its defined operand and `%r15`, `%r13` as uses (`X86BranchConversion.cpp:484`). The model has it write `%r15`, the register the object encoder takes from the tied first use. Textual assembly would name `%r11` instead, and the fake block's `jmp *%r15` would then not see the condition.
  - The `DISABLE_BRANCH_CONVERSION` build and the `DONT_DISABLE_INDIRECT_JUMP_INSTRUMENTATION` branch are not compiled by default.
  - The debug dumps only print.
  - Calls inside blocks are part of the opaque body.
