-------------------------- MODULE BranchConversion --------------------------
(***************************************************************************)
(* src/llvm/lib/Target/X86/X86BranchConversion.cpp: the machine-function  *)
(* pass that removes conditional branches.  Every block ends by loading    *)
(* %r15 with a trampoline block's address and falling into a new "fake"    *)
(* block, `jmp *%r15`.  A conditional branch becomes two LEAs and a cmov.  *)
(* Trampolines are pushed to the front of the function.  The pass threads  *)
(* "lanes" (struct blockLane) through the blocks in layout order: a lane   *)
(* is a trampoline still to be completed, and the block it must reach.     *)
(* At each later block, a lane for another destination is routed through   *)
(* that block's fake jump.  So every path executes the fake jumps in       *)
(* layout order, whichever way its conditions go.                          *)
(*                                                                         *)
(* One behaviour is one run of runOnMachineFunction over one function:     *)
(* ProcessBlock is an iteration of its while loop, and Finish is the code   *)
(* after it.  Block bodies are the opaque instruction Body(k); only the    *)
(* terminators and the instructions the pass inserts are modelled.         *)
(* The successors the pass adds (addSuccessor) are CFG bookkeeping that   *)
(* the emitted code does not read; the input's successors (Succs) are      *)
(* read by getFallThrough.  The debug dumps only print.                    *)
(***************************************************************************)
EXTENDS Naturals, SequencesExt

CONSTANTS
  N,          \* blocks of the input function, in layout order 1 .. N
  Kinds,      \* terminator kinds the input blocks may have
  NULL

\* An input block: a body and its terminator, with targets d and e.
\* "fall" has no terminator, "empty" is a block with no instruction.
\* Targets a terminator does not have are fixed at 1.
Term == {t \in [kind : Kinds, d : 1 .. N, e : 1 .. N] :
           /\ t.kind \in {"fall", "ret", "empty"} => t.d = 1
           /\ t.kind # "jccjmp" => t.e = 1}

\* Terminators LLVM leaves on a last block: it cannot fall through.
Functions ==
  {f \in [1 .. N -> Term] : f[N].kind \notin {"fall", "jcc", "empty"}}

\* Instructions.  "jcc" carries the block whose condition it tests, as
\* does the cmov that replaces it.
Body(k)    == [op |-> "body", k |-> k]
Ret        == [op |-> "ret"]
Jmp(b)     == [op |-> "jmp", to |-> b]          \* JMP_4 to a block
Jcc(b, k)  == [op |-> "jcc", to |-> b, k |-> k]
IJmp(b)    == [op |-> "ijmp", to |-> b]         \* jmp *reg, reg holding b
Lea(r, b)  == [op |-> "lea", reg |-> r, to |-> b]
Cmov(k)    == [op |-> "cmov", k |-> k]
JmpR15     == [op |-> "jmpr15"]                 \* JMP64r %r15

\* The instructions of input block k.
Source(f, k) ==
  LET t == f[k]
  IN CASE t.kind = "empty"  -> <<>>
       [] t.kind = "fall"   -> <<Body(k)>>
       [] t.kind = "ret"    -> <<Body(k), Ret>>
       [] t.kind = "jmp"    -> <<Body(k), Jmp(t.d)>>
       [] t.kind = "jcc"    -> <<Body(k), Jcc(t.d, k)>>
       [] t.kind = "jccjmp" -> <<Body(k), Jcc(t.d, k), Jmp(t.e)>>
       [] t.kind = "ijmp"   -> <<Body(k), IJmp(t.d)>>

VARIABLES
  fn,          \* the input function
  code,        \* block id -> its instructions
  layout,      \* the blocks of MF in order
  cur,         \* the block iMBB points at, NULL at MF.end()
  lanes,       \* takenBlocks: the lanes, in list order
  processed,   \* processedMBBs
  nextId,      \* the id CreateMachineBasicBlock returns next
  finished     \* the entry jump is in place

vars == <<fn, code, layout, cur, lanes, processed, nextId, finished>>

Init ==
  /\ fn \in Functions
  /\ code = [k \in 1 .. N |-> Source(fn, k)]
  /\ layout = [k \in 1 .. N |-> k]
  /\ cur = 1
  \* "Inset a default startup blockLane"
  /\ lanes = <<[cur |-> NULL, dest |-> NULL, taken |-> TRUE]>>
  /\ processed = {} /\ nextId = N + 1 /\ finished = FALSE

-----------------------------------------------------------------------------
(* One iteration works on a record s of what it changes: code, layout,     *)
(* next (the next block id), lanes and taken (takenLane's index, 0 for     *)
(* nullptr).                                                               *)

Emit(s, b, ins) == [s EXCEPT !.code[b] = s.code[b] \o ins]

\* MF.CreateMachineBasicBlock() placed at layout position i.
NewBlock(s, i, ins) ==
  [s EXCEPT !.code = s.code @@ (s.next :> ins),
            !.layout = InsertAt(s.layout, i, s.next),
            !.next = s.next + 1]

\* CreateNewBBonTrampoline: a block pushed to the front of MF, holding a
\* jump to destOnCode unless that is nullptr; the new block is s.next - 1.
Trampoline(s, dest) ==
  NewBlock(s, 1, IF dest = NULL THEN <<>> ELSE <<Jmp(dest)>>)

Made(s) == s.next - 1

\* addBBtoBlockLane: a lane at the back of the list.
AddLane(s, c, d, t) ==
  [s EXCEPT !.lanes = Append(s.lanes, [cur |-> c, dest |-> d, taken |-> t])]

\* updateLane(takenLane, a, b, c).
UpdateLane(s, a, b, c) ==
  IF s.taken = 0 THEN s
  ELSE [s EXCEPT !.lanes[s.taken] = [cur |-> a, dest |-> b, taken |-> c]]

\* takenBlocks->erase(laneIterator).
EraseLane(s, i) == [s EXCEPT !.lanes = RemoveAt(s.lanes, i)]

\* Mutant of RouteSkipLane: the trampoline jumps to the next trampoline
\* directly instead of through the fake block.
RouteSkipLaneDirect(s, i, fake) ==
  LET t == Trampoline(s, NULL)
      u == Emit(t, s.lanes[i].cur, <<Jmp(Made(t))>>)
  IN [u EXCEPT !.lanes[i].cur = Made(t)]

\* A skip lane at block b: its trampoline loads the address of a new
\* trampoline into %r15 and jumps to b's fake block, and the lane goes on
\* from the new trampoline.
RouteSkipLane(s, i, fake) ==
  LET t == Trampoline(s, NULL)
      u == Emit(t, s.lanes[i].cur, <<Lea("r15", Made(t)), Jmp(fake)>>)
  IN [u EXCEPT !.lanes[i].cur = Made(t)]

\* The lane loop at the top of an iteration for block b with fake block
\* fake (NULL when none was made).  A lane that is taken, or whose
\* destination is b, gets `jmp b` in its trampoline; the first such lane
\* is kept as takenLane, later ones are erased.  A lane for another
\* destination is a skip lane.  A lane with no trampoline is dead and is
\* erased.  Erasing the first lane decrements begin(), which std::list
\* turns into its end node, so the loop goes on with the next lane.
\* Without a fake block the skip lane is left alone (the assert is
\* compiled out and `if (fakeBlock != nullptr)` skips it).
RECURSIVE LaneLoop(_, _, _, _)
LaneLoop(s, i, b, fake) ==
  IF i > Len(s.lanes) THEN s
  ELSE LET l == s.lanes[i] IN
    IF l.taken \/ l.dest = b
    THEN LET s1 == IF l.cur # NULL THEN Emit(s, l.cur, <<Jmp(b)>>) ELSE s
         IN IF s1.taken = 0 THEN LaneLoop([s1 EXCEPT !.taken = i], i + 1, b, fake)
            ELSE LaneLoop(EraseLane(s1, i), i, b, fake)
    ELSE IF l.cur # NULL
    THEN LaneLoop(IF fake # NULL THEN RouteSkipLane(s, i, fake) ELSE s,
                  i + 1, b, fake)
    ELSE LaneLoop(EraseLane(s, i), i, b, fake)

\* The code of b with its last instruction replaced by ins.
ReplaceLast(s, b, ins) == [s EXCEPT !.code[b] = Front(s.code[b]) \o ins]

\* replaceNoBranchBlock: with a fall-through, a trampoline becomes the
\* taken lane and its address is loaded after the last instruction.
ReplaceNoBranch(s, b, ft) ==
  IF ft # NULL
  THEN LET t == Trampoline(s, NULL)
       IN Emit(UpdateLane(t, Made(t), NULL, TRUE), b, <<Lea("r15", Made(t))>>)
  ELSE UpdateLane(s, NULL, NULL, FALSE)

\* replaceIndirectJump: the instrumentation is compiled out
\* (DONT_DISABLE_INDIRECT_JUMP_INSTRUMENTATION is not defined); the lane
\* is invalidated and the jump left in place.
ReplaceIndirect(s) == UpdateLane(s, NULL, NULL, FALSE)

\* replaceUnconditionalJump: to a processed block (a backward jump) the
\* trampoline jumps there directly and the lane ends; otherwise the lane
\* now heads for the target.  The jmp becomes a load of %r15.
ReplaceUncond(s, b, d, done) ==
  LET t == Trampoline(s, IF d \in done THEN d ELSE NULL)
      u == IF d \in done THEN UpdateLane(t, NULL, NULL, FALSE)
           ELSE UpdateLane(t, Made(t), d, FALSE)
  IN ReplaceLast(u, b, <<Lea("r15", Made(t))>>)

\* Mutants of ReplaceCond: the two LEA targets swapped; the arguments of
\* addBBtoBlockLane swapped.
ReplaceCondSwapped(s, b, d, k, done) ==
  LET tF == Trampoline(s, NULL)
      zF == Made(tF)
      t  == IF d \in done THEN Trampoline(tF, d) ELSE Trampoline(tF, NULL)
      z  == Made(t)
      u  == IF d \in done THEN t ELSE AddLane(t, z, d, FALSE)
  IN UpdateLane(ReplaceLast(u, b, <<Lea("r15", z), Lea("r13", zF), Cmov(k)>>),
                zF, NULL, TRUE)

ReplaceCondLaneArgs(s, b, d, k, done) ==
  LET tF == Trampoline(s, NULL)
      zF == Made(tF)
      t  == IF d \in done THEN Trampoline(tF, d) ELSE Trampoline(tF, NULL)
      z  == Made(t)
      u  == IF d \in done THEN t ELSE AddLane(t, d, z, FALSE)
  IN UpdateLane(ReplaceLast(u, b, <<Lea("r15", zF), Lea("r13", z), Cmov(k)>>),
                zF, NULL, TRUE)

\* replaceConditionalBranch: trampolines for the fall-through (zF) and the
\* target (z; a new lane when the target is ahead).  The jcc becomes
\* lea zF into %r15, lea z into %r13 and a cmov on the jcc's condition.
\* The taken lane continues through zF.
ReplaceCond(s, b, d, k, done) ==
  LET tF == Trampoline(s, NULL)
      zF == Made(tF)
      t  == IF d \in done THEN Trampoline(tF, d) ELSE Trampoline(tF, NULL)
      z  == Made(t)
      u  == IF d \in done THEN t ELSE AddLane(t, z, d, FALSE)
  IN UpdateLane(ReplaceLast(u, b, <<Lea("r15", zF), Lea("r13", z), Cmov(k)>>),
                zF, NULL, TRUE)

\* Position of block b in layout lay.
Pos(lay, b) == CHOOSE i \in DOMAIN lay : lay[i] = b

\* The CFG successors of input block k.
Succs(f, k) ==
  LET t == f[k]
  IN CASE t.kind \in {"fall", "empty"} -> {k + 1}
       [] t.kind = "ret"                -> {}
       [] t.kind = "jcc"                -> {t.d, k + 1}
       [] t.kind = "jccjmp"             -> {t.d, t.e}
       [] OTHER                         -> {t.d}

\* Mutant: the fall-through read once the fake block (here 0, a new block
\* no input block has as successor) is inserted after b.
GetFallThroughAfterFake(lay, b) ==
  LET l2 == InsertAt(lay, Pos(lay, b) + 1, 0)
      p  == Pos(l2, b)
  IN IF p < Len(l2) /\ l2[p + 1] \in Succs(fn, b) THEN l2[p + 1] ELSE NULL

\* MBB.getFallThrough(): the block after b in layout lay when it is a
\* successor of b (isSuccessor), else NULL.  Only asked of input blocks
\* that end without a branch.
GetFallThrough(lay, b) ==
  LET p == Pos(lay, b)
  IN IF p < Len(lay) /\ lay[p + 1] \in Succs(fn, b) THEN lay[p + 1] ELSE NULL

\* Layout position just before block nx (the end when nx is NULL).
Before(lay, nx) == IF nx = NULL THEN Len(lay) + 1 ELSE Pos(lay, nx)

\* The last instruction of b is an unconditional jmp after a jcc.
IsSplit(ins) ==
  Len(ins) > 1 /\ Last(ins).op = "jmp" /\ ins[Len(ins) - 1].op = "jcc"

\* The switch on the last instruction.  The split case puts the jmp in a
\* new block inserted before iMBB and handles the jcc left in b.  A block
\* without a branch gets originalFallThrough, ft.
Dispatch(s, b, nx, ft, done) ==
  LET ins == s.code[b]
      l   == Last(ins)
  IN CASE IsSplit(ins) ->
            LET sp == NewBlock(s, Before(s.layout, nx), <<l>>)
                jc == ins[Len(ins) - 1]
            IN ReplaceCond(ReplaceLast(sp, b, <<>>), b, jc.to, jc.k, done)
       [] l.op = "jmp"  -> ReplaceUncond(s, b, l.to, done)
       [] l.op = "ijmp" -> ReplaceIndirect(s)
       [] l.op = "jcc"  -> ReplaceCond(s, b, l.to, l.k, done)
       [] OTHER         -> ReplaceNoBranch(s, b, ft)

\* One iteration of the while loop of runOnMachineFunction on block cur.
ProcessBlock ==
  /\ cur # NULL
  /\ LET b    == cur
         p    == Pos(layout, b)
         nx   == IF p < Len(layout) THEN layout[p + 1] ELSE NULL
         done == processed \cup {b}
         \* originalFallThrough, taken before the fake block is inserted
         ft   == GetFallThrough(layout, b)
         \* no fake block only after a last block that returns
         hasFake == ~(nx = NULL /\ code[b] # <<>> /\ Last(code[b]) = Ret)
         s0   == [code |-> code, layout |-> layout, next |-> nextId,
                  lanes |-> lanes, taken |-> 0]
         s1   == IF hasFake THEN NewBlock(s0, p + 1, <<JmpR15>>) ELSE s0
         s2   == LaneLoop(s1, 1, b, IF hasFake THEN nextId ELSE NULL)
         s3   == IF s2.taken # 0 THEN s2
                 ELSE [AddLane(s2, NULL, NULL, TRUE)
                         EXCEPT !.taken = Len(s2.lanes) + 1]
         \* an empty block: a warning and `continue`
         s4   == IF code[b] = <<>> THEN s3 ELSE Dispatch(s3, b, nx, ft, done)
     IN /\ code' = s4.code
        /\ layout' = s4.layout
        /\ nextId' = s4.next
        /\ lanes' = s4.lanes
        /\ processed' = done
        \* iMBB-- after a split makes the new block the next one
        /\ cur' = IF code[b] # <<>> /\ IsSplit(code[b]) THEN s3.next ELSE nx
  /\ UNCHANGED <<fn, finished>>

\* After the loop: a new first block jumps to the original entry block.
Finish ==
  /\ cur = NULL /\ ~finished
  /\ code' = code @@ (nextId :> <<Jmp(1)>>)
  /\ layout' = <<nextId>> \o layout
  /\ nextId' = nextId + 1
  /\ finished' = TRUE
  /\ UNCHANGED <<fn, cur, lanes, processed>>

Next == ProcessBlock \/ Finish

Spec == Init /\ [][Next]_vars /\ WF_vars(Next)

-----------------------------------------------------------------------------
(* Executing a function.  cond[k] is the outcome of block k's condition;   *)
(* a cmov or jcc of block k tests it.  Execution stops at a ret, after     *)
(* TraceBound bodies ("limit", for loops), after StepBound instructions    *)
(* without a body ("stuck", a loop that executes none), on falling off     *)
(* the last block, or on a jump through an unset %r15 ("wild").  The      *)
(* result records the bodies executed and the fake blocks entered.         *)

CONSTANTS TraceBound, StepBound

RECURSIVE Exec(_, _, _, _, _, _, _, _)
Exec(P, b, i, r15, r13, trace, fakes, steps) ==
  LET Stop(e) == [trace |-> trace, fakes |-> fakes, end |-> e]
      Goto(d, r, q, f) == Exec(P, d, 1, r, q, trace, f, steps + 1)
      Step(r, q) == Exec(P, b, i + 1, r, q, trace, fakes, steps + 1)
  IN IF steps >= StepBound THEN Stop("stuck")
     ELSE IF i > Len(P.code[b])
     THEN LET p == Pos(P.lay, b)
          IN IF p = Len(P.lay) THEN Stop("falloff")
             ELSE Exec(P, P.lay[p + 1], 1, r15, r13, trace, fakes, steps)
     ELSE LET x == P.code[b][i] IN
       CASE x.op = "body" ->
              IF Len(trace) + 1 = TraceBound
              THEN [trace |-> Append(trace, x.k), fakes |-> fakes, end |-> "limit"]
              ELSE Exec(P, b, i + 1, r15, r13, Append(trace, x.k), fakes, 0)
         [] x.op = "ret"    -> Stop("ret")
         [] x.op = "jmp"    -> Goto(x.to, r15, r13, fakes)
         [] x.op = "ijmp"   -> Goto(x.to, r15, r13, fakes)
         [] x.op = "jcc"    -> IF P.cond[x.k] THEN Goto(x.to, r15, r13, fakes)
                               ELSE Step(r15, r13)
         [] x.op = "lea"    -> IF x.reg = "r15" THEN Step(x.to, r13) ELSE Step(r15, x.to)
         [] x.op = "cmov"   -> Step(IF P.cond[x.k] THEN r13 ELSE r15, r13)
         [] x.op = "jmpr15" -> IF r15 = NULL THEN Stop("wild")
                               ELSE Goto(r15, r15, r13, Append(fakes, b))

\* Running a program from the first block of its layout.
Run(c, lay, cond) ==
  Exec([code |-> c, lay |-> lay, cond |-> cond], lay[1], 1, NULL, NULL, <<>>, <<>>, 0)

\* The input function, as compiled without the pass.
Original(cond) == Run([k \in 1 .. N |-> Source(fn, k)], [k \in 1 .. N |-> k], cond)

Converted(cond) == Run(code, layout, cond)

Conds == [1 .. N -> BOOLEAN]

\* The fake blocks, in layout order.
FakesInLayout == SelectSeq(layout, LAMBDA x : code[x] = <<JmpR15>>)

\* Every jump of the input function goes forward and none is indirect.
ForwardOnly ==
  \A k \in 1 .. N : /\ fn[k].kind # "ijmp"
                    /\ fn[k].kind \in {"jmp", "jcc", "jccjmp"} => fn[k].d > k
                    /\ fn[k].kind = "jccjmp" => fn[k].e > k

-----------------------------------------------------------------------------
Ids == 1 .. N * 12

TypeOK ==
  /\ fn \in Functions
  /\ layout \in Seq(Ids)
  /\ DOMAIN code \subseteq Ids
  /\ cur \in Ids \cup {NULL}
  /\ lanes \in Seq([cur : Ids \cup {NULL}, dest : (1 .. N) \cup {NULL},
                    taken : BOOLEAN])
  /\ processed \subseteq Ids
  /\ finished \in BOOLEAN

\* The converted function computes what the input function computes: for
\* every outcome of its conditions, it executes the same bodies in the
\* same order and ends the same way (returns, or loops on).
TraceEquivalence ==
  finished =>
    \A cond \in Conds :
      LET o == Original(cond)
          c == Converted(cond)
      IN o.trace = c.trace /\ o.end = c.end

\* The point of the pass: in a function whose jumps all go forward, every
\* path enters the fake `jmp *%r15` blocks in layout order and skips none;
\* which way a branch went shows only in where the path returns.
FakeJumpsInLayoutOrder ==
  finished /\ ForwardOnly =>
    \A cond \in Conds : IsPrefix(Converted(cond).fakes, FakesInLayout)
====
