----------------------------- MODULE ShadowExec -----------------------------
(***************************************************************************)
(* What the CPU does with a finalized shadow when Shadow::execute_ptr      *)
(* calls its entry: each segment's s_hex (Seg*.h) as one instruction, with *)
(* the field its finalize() wrote; bytes between segments are the nops of  *)
(* fill_with_nops.  Only %eax, %r13, %r14 and the indirect cells matter.   *)
(* A layout L is [seg, pos, code, cells, order] as Shadow keeps them.      *)
(***************************************************************************)
EXTENDS Integers, FiniteSetsExt, SequencesExt

CONSTANTS NULL, AddrBits

LOCAL Segment == INSTANCE ShadowSegment

\* Bound on executed segments; every shadow returns within 12.
MaxSteps == 24

\* Outcomes of one instruction: continue at pc, return with %eax, or a
\* fault (a jump through a register that holds no cell address).
Go(pc, eax, regs) == [done |-> FALSE, ok |-> TRUE, pc |-> pc, eax |-> eax, regs |-> regs]
Ret(eax, regs) == [done |-> TRUE, ok |-> TRUE, pc |-> NULL, eax |-> eax, regs |-> regs]
Fault(eax, regs) == [done |-> TRUE, ok |-> FALSE, pc |-> NULL, eax |-> eax, regs |-> regs]

\* One segment s executed with %eax = eax and registers regs.
Exec(L, s, eax, regs) ==
  LET d == L.seg[s]
      f == L.pos[s] + d.size          \* fall-through address
      c == L.code[s]
      IsCell(r) == r \in DOMAIN L.cells
  IN CASE d.kind = "SegRetq" -> Ret(eax, regs)                   \* nops; retq
       [] d.kind = "SegNop" -> Go(f, eax, regs)
       [] d.kind = "SegEaxWrite" -> Go(f, c, regs)               \* mov $val,%eax
       [] d.kind = "SegEaxAndOne" -> Go(f, eax % 2, regs)        \* and $1,%eax
       [] d.kind = "SegEaxAndOneIndir" ->                        \* mov (%r14),%eax; and $1
            IF IsCell(regs[14]) THEN Go(f, L.cells[regs[14]] % 2, regs) ELSE Fault(eax, regs)
       [] d.kind = "SegSetPosInReg" -> Go(f, eax, [regs EXCEPT ![d.reg] = c])  \* movabs
       [] d.kind = "SegJump" -> Go(f + Segment!Signed(c, 8), eax, regs)
       [] d.kind = "SegLongJump" -> Go(f + Segment!Signed(c, Segment!LongDispBits), eax, regs)
       [] d.kind = "SegJneEaxZero" ->                            \* test %eax,%eax; jne
            Go(IF eax # 0 THEN f + Segment!Signed(c, 8) ELSE f, eax, regs)
       [] d.kind = "SegJumpR13" ->                               \* jmpq *0(%r13)
            IF IsCell(regs[13]) THEN Go(L.cells[regs[13]], eax, regs) ELSE Fault(eax, regs)

\* Run from address a until retq, a fault, a jump into the middle of a
\* segment or out of the code, or MaxSteps segments.  The result says
\* whether it returned, with which %eax, and where the segment anchor
\* (the shadow branch) sent control, NULL if it was not executed.
RECURSIVE Run(_, _, _, _, _, _, _)
Run(L, a, eax, regs, anchor, branch, fuel) ==
  LET laid == ToSet(L.order)
      here == {s \in laid : L.pos[s] = a}
      inside == {s \in laid : L.pos[s] < a /\ a < L.pos[s] + L.seg[s].size}
      later == {L.pos[s] : s \in {t \in laid : L.pos[t] > a}}
      stop(ok) == [ok |-> ok, eax |-> eax, branch |-> branch]
  IN IF fuel = 0 \/ inside # {} THEN stop(FALSE)
     ELSE IF here = {} THEN
       \* fill_with_nops covers [first pos, last end): slide to the next segment
       IF L.pos[L.order[1]] <= a /\ later # {}
       THEN Run(L, Min(later), eax, regs, anchor, branch, fuel)
       ELSE stop(FALSE)
     ELSE LET s == CHOOSE x \in here : TRUE
              r == Exec(L, s, eax, regs)
              br == IF s = anchor THEN r.pc ELSE branch
          IN IF r.done THEN [ok |-> r.ok, eax |-> r.eax, branch |-> br]
             ELSE Run(L, r.pc, r.eax, r.regs, anchor, br, fuel - 1)

=============================================================================
