-------------------------- MODULE BranchShadowSetup --------------------------
(***************************************************************************)
(* How src/shadow_code/untrusted/BranchShadow.cpp builds a shadow branch   *)
(* for a victim branch at src with destination dst: prepare_attack()       *)
(* creates the Shadow and, in indirect mode, the two indirect pointers;    *)
(* setup_jmp_shadow(), setup_jmp_shadow_rev() or setup_jne_shadow()        *)
(* constructs the segments and issues a fixed sequence of add_entry /      *)
(* add_segment calls, chosen by whether the victim branch is forward, and  *)
(* then finalize(); m_shadow_src records where the shadow branch landed.   *)
(* The program is single-threaded: what varies is the victim's addresses, *)
(* the setup, the mode, the input and what mmap returns.                   *)
(***************************************************************************)
EXTENDS Shadow

CONSTANTS
  Srcs,           \* addresses of victim branches
  Offsets,        \* dst - src of the victim branches
  Setups,         \* subset of {"jmp", "jmpRev", "jne"}
  IndirectModes,  \* values of m_use_indirect_targets
  ShadowInputs,   \* shadow_input passed to prepare_attack
  EaxAtCall       \* values %eax may hold when execute_ptr calls the entry

VARIABLES
  src, dst,       \* m_src, m_dst
  setup,          \* which setup_* function runs
  indirect,       \* m_use_indirect_targets
  shadowInput,    \* shadow_input
  pc,             \* index of the next call of the setup function
  shadowSrc       \* m_shadow_src, NULL until set

setupVars == <<src, dst, setup, indirect, shadowInput, pc, shadowSrc>>
vars == <<shadowVars, setupVars>>

\* The inner cells of m_indirect_shadow_input and m_indirect_target_ptr:
\* two heap addresses returned by malloc, away from victim and shadow.
InputCell == 1024
TargetCell == 1032

\* prepare_attack: get_indirect_pointer(shadow_input), get_indirect_pointer(0).
\* Mutant: the two indirect pointers given each other's initial value.
IndirectCellsSwapped(ind, x) ==
  IF ind THEN [c \in {InputCell, TargetCell} |-> IF c = TargetCell THEN x ELSE 0]
  ELSE <<>>
IndirectCells(ind, x) ==
  IF ind THEN [c \in {InputCell, TargetCell} |-> IF c = InputCell THEN x ELSE 0]
  ELSE <<>>

\* The segments setup_jmp_shadow (rev = FALSE) and setup_jmp_shadow_rev
\* (rev = TRUE) construct: the victim's destination carries the else
\* segment or the if segment, and the shadow branch jumps to it.
JmpSegments(s, d, ind, rev) ==
  LET taken == IF rev THEN "if_seg" ELSE "else_seg" IN
  [if_seg |-> Segment!SegEaxWrite(IF rev THEN d ELSE NULL, 1),
   else_seg |-> Segment!SegEaxWrite(IF rev THEN NULL ELSE d, 2),
   end_if_seg |-> Segment!SegRetq(NULL, 120),
   end_else_seg |-> Segment!SegRetq(NULL, 120),
   src_seg |-> IF ind THEN Segment!SegJumpR13(s) ELSE Segment!SegJump(s, taken),
   entry_seg |-> IF ind THEN Segment!SegSetPosInReg(NULL, taken, TargetCell, 13)
                 ELSE Segment!SegNop(1),
   jump_end_if |-> Segment!SegLongJump(NULL, "end_if_seg"),
   jump_end_else |-> Segment!SegLongJump(NULL, "end_else_seg")]

\* The segments setup_jne_shadow constructs; the jumps closing the if and
\* else blocks are short forward, long backward, and a backward victim
\* gets a short jump from the fall-through of the jne back to the if block.
JneSegments(s, d, ind) ==
  LET Close(t) == IF s < d THEN Segment!SegJump(NULL, t) ELSE Segment!SegLongJump(NULL, t)
      common ==
        [if_seg |-> Segment!SegEaxWrite(NULL, 1),
         else_seg |-> Segment!SegEaxWrite(d, 2),
         end_if_seg |-> Segment!SegRetq(NULL, 120),
         end_else_seg |-> Segment!SegRetq(NULL, 120),
         entry_seg |-> IF ind THEN Segment!SegSetPosInReg(NULL, NULL, InputCell, 14)
                       ELSE Segment!SegNop(1),
         pretest_seg |-> IF ind THEN Segment!SegEaxAndOneIndir ELSE Segment!SegEaxAndOne,
         src_seg |-> Segment!SegJneEaxZero(s, "else_seg"),
         jump_src |-> Segment!SegLongJump(NULL, "src_seg"),
         jump_end_if |-> Close("end_if_seg"),
         jump_end_else |-> Close("end_else_seg")]
  IN IF s < d THEN common
     ELSE common @@ [jump_if |-> Segment!SegJump(NULL, "if_seg")]

Segments(st, s, d, ind) ==
  IF st = "jne" THEN JneSegments(s, d, ind) ELSE JmpSegments(s, d, ind, st = "jmpRev")

\* The calls each setup function makes, in order, by victim direction.
E(x) == [call |-> "add_entry", seg |-> x]
A(x) == [call |-> "add_segment", seg |-> x]

JmpScript(forward) ==
  IF forward
  THEN <<E("entry_seg"), A("src_seg"), A("if_seg"), A("jump_end_if"),
         A("else_seg"), A("jump_end_else"), A("end_if_seg"), A("end_else_seg")>>
  ELSE <<A("if_seg"), A("jump_end_if"), A("else_seg"), A("jump_end_else"),
         E("entry_seg"), A("src_seg"), A("end_if_seg"), A("end_else_seg")>>

JneScript(forward) ==
  IF forward
  THEN <<E("entry_seg"), A("pretest_seg"), A("jump_src"), A("src_seg"),
         A("if_seg"), A("jump_end_if"), A("else_seg"), A("jump_end_else"),
         A("end_if_seg"), A("end_else_seg")>>
  ELSE <<E("entry_seg"), A("pretest_seg"), A("jump_src"), A("if_seg"),
         A("jump_end_if"), A("else_seg"), A("jump_end_else"), A("src_seg"),
         A("jump_if"), A("end_if_seg"), A("end_else_seg")>>

Script == IF setup = "jne" THEN JneScript(src < dst) ELSE JmpScript(src < dst)

\* m_shadow_src: the position of the shadow branch instruction, which for
\* the jne sits jne_offset bytes into its segment.
\* Mutant: m_shadow_src read as the segment's position for the jne too.
ShadowBranchAtSegment(p) == p["src_seg"]
ShadowBranchAt(p) ==
  IF setup = "jne" THEN Ptr!AddOffset(p["src_seg"], Segment!JneOffset) ELSE p["src_seg"]

-----------------------------------------------------------------------------

\* prepare_attack(src, dst, shadow_input) followed by the construction of
\* the segments at the top of the setup function.
Init ==
  \E s \in Srcs, o \in Offsets, st \in Setups, ind \in IndirectModes, x \in ShadowInputs :
    /\ src = s /\ dst = s + o
    /\ setup = st /\ indirect = ind /\ shadowInput = x
    /\ pc = 1 /\ shadowSrc = NULL
    /\ Construct(Segments(st, s, s + o, ind), IndirectCells(ind, x))
    /\ fatal = NULL

CallAddEntry ==
  /\ pc <= Len(Script) /\ Script[pc].call = "add_entry"
  /\ AddEntry(Script[pc].seg)
  /\ pc' = pc + 1
  /\ UNCHANGED <<src, dst, setup, indirect, shadowInput, shadowSrc>>

CallAddSegment ==
  /\ pc <= Len(Script) /\ Script[pc].call = "add_segment"
  /\ \/ AddSegment(Script[pc].seg)
     \/ AddSegmentFails(Script[pc].seg)
  /\ pc' = pc + 1
  /\ UNCHANGED <<src, dst, setup, indirect, shadowInput, shadowSrc>>

\* finalize(), then m_shadow_src is read from the relocated shadow branch.
CallFinalize ==
  /\ pc = Len(Script) + 1
  /\ \/ Finalize /\ shadowSrc' = ShadowBranchAt(pos')
     \/ FinalizeFails /\ UNCHANGED shadowSrc
  /\ pc' = pc + 1
  /\ UNCHANGED <<src, dst, setup, indirect, shadowInput>>

Next == CallAddEntry \/ CallAddSegment \/ CallFinalize

Spec == Init /\ [][Next]_vars

-----------------------------------------------------------------------------
(* Properties                                                              *)

Addr == 0 .. 2^AddrBits - 1
Ids == DOMAIN seg

TypeOK ==
  /\ pos \in [Ids -> Int \cup {NULL}]
  /\ segments \in Seq(Ids) /\ loose \in Seq(Ids)
  /\ entry \in Ids \cup {NULL}
  /\ finalized \in BOOLEAN
  /\ code \in [Ids -> Addr \cup {NULL}]
  /\ cells \in [DOMAIN cells -> Int]
  /\ fatal \in STRING \cup {NULL}
  /\ pc \in 1 .. Len(Script) + 2
  /\ shadowSrc \in Addr \cup {NULL}

\* The segment that stands for the victim's destination.
DstSeg == IF setup = "jmpRev" THEN "if_seg" ELSE "else_seg"

\* place_segment spreads the loose segments in the gap before a positioned
\* one and finalize appends the rest: at every point, and after relocation,
\* the placed segments follow one another without overlapping, so no
\* memcpy of finalize overwrites another segment's code.
LayoutDisjoint ==
  \A i \in 1 .. Len(segments) - 1 : End(segments[i]) <= pos[segments[i + 1]]

\* The point of the shadow: once finalize() has relocated the code,
\* m_shadow_src has the low lbr_entry_bits bits of the victim branch and the
\* segment standing for the victim's destination those of dst, so the two
\* branches share a BTB entry and the LBR matches them.
AnchorAliasesVictim ==
  finalized =>
    /\ Ptr!ApplyMask(shadowSrc, Mask) = Ptr!ApplyMask(src, Mask)
    /\ Ptr!ApplyMask(pos[DstSeg], Mask) = Ptr!ApplyMask(dst, Mask)

X == INSTANCE ShadowExec

\* The finalized shadow as the CPU sees it.
Image == [seg |-> seg, pos |-> pos, code |-> code, cells |-> cells, order |-> segments]

\* Shadow::execute_ptr(get_entry_ptr(), input): the asm names input only
\* as a "g" operand and takes %eax as output, so %eax at the call is
\* whatever the register held; %r13 and %r14 are clobbered scratch.
RunShadow(eax) ==
  X!Run(Image, pos[entry], eax, [r \in {13, 14} |-> NULL], "src_seg", NULL, X!MaxSteps)

\* victim_jne (victim_shared.c): an odd number takes the jne and returns 2.
VictimJne(n) == IF n % 2 = 1 THEN 2 ELSE 1

OtherSeg == IF DstSeg = "if_seg" THEN "else_seg" ELSE "if_seg"

\* Running the finalized shadow, whatever %eax holds, returns normally; its
\* branch at m_shadow_src goes to the segment aliasing the victim's dst
\* (a jmp shadow always, a jne shadow when taken) or falls through; and
\* the value returned is the one written on the path the branch chose.
ShadowMirrorsVictim ==
  finalized =>
    \A e \in EaxAtCall :
      LET r == RunShadow(e) IN
      /\ r.ok
      /\ r.branch \in IF setup = "jne" THEN {pos[DstSeg], End("src_seg")} ELSE {pos[DstSeg]}
      /\ r.eax = IF r.branch = pos[DstSeg] THEN seg[DstSeg].val ELSE seg[OtherSeg].val

\* Shadow::execute(shadow_input) on a jne shadow takes the direction the
\* victim takes for that input: the training and probing of the t*
\* experiments rely on it.
ShadowFollowsInput ==
  (finalized /\ setup = "jne") =>
    \A e \in EaxAtCall : RunShadow(e).eax = VictimJne(shadowInput)

\* In indirect mode, where SegEaxAndOneIndir loads shadow_input through
\* the cell m_indirect_shadow_input, the jne shadow follows the input
\* whatever %eax held at the call.
IndirectFollowsInput == indirect => ShadowFollowsInput

=============================================================================
