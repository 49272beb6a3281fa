------------------------------ MODULE BpuUtils ------------------------------
(***************************************************************************)
(* src/shadow_code/untrusted/misc/BpuUtils.cpp: mess_btb pollutes the      *)
(* branch predictor around the victim's branch before training.            *)
(*  - do_sequential_jumps writes a slide of short jumps into an AlignedMem *)
(*    whose entry aliases target - 128, and calls it at offsets 0 and 1.   *)
(*  - do_repeated_jumps copies a 22-byte function into an AlignedMem       *)
(*    aliasing the target and calls it 310 times.                          *)
(* Both run to completion on the calling thread, so each is an operator    *)
(* that returns what the call leaves behind: the mapping, the bytes        *)
(* written relative to its entry, and how executing them ends.  Bytes are  *)
(* naturals below 256; memory mmap did not write holds 0.                  *)
(***************************************************************************)
EXTENDS Integers, SequencesExt

CONSTANTS
  AlignBits,     \* lbr_entry_bits
  AddrBits,      \* width of uintptr_t
  Page,          \* mmap granularity
  MmapResults,   \* the addresses mmap may return
  NULL,          \* nullptr
  BtbEntries     \* ASSUMED_BTB_ENTRY_COUNT (8192 in BpuUtils.h)

ASSUME BtbEntries \in Nat /\ BtbEntries >= 2

LOCAL P == INSTANCE Pointers
AM == INSTANCE AlignedMem
        WITH am <- NULL, content <- 0, ok <- NULL, Targets <- {}, Contents <- {}

JmpRel8 == 235      \* 0xeb, jmp rel8
Retq == 195         \* 0xc3

\* The displacement byte of a rel8 jump, sign-extended.
Rel8(b) == IF b >= 128 THEN b - 256 ELSE b

\* Mutant: the third jump written as the comment's "jmp -2", byte 0xfe.
SlidePatternFe == <<JmpRel8, 2, JmpRel8, 2, JmpRel8, 254>>

\* jump_slide[i + 0 .. i + 5]: jmp +2; jmp +2; jmp with 0xfc = -4, which
\* lands on the middle jump, whose +2 leads to i + 6.
SlidePattern == <<JmpRel8, 2, JmpRel8, 2, JmpRel8, 252>>

\* jump_size = entries * 6; the mapping is asked for jump_size + 20 bytes.
JumpSize == BtbEntries * 6
SlideSize == JumpSize + 20

\* One iteration of the slide loop: the pattern at i .. i+5, retq at i+6.
Block(i) == [j \in i .. i + 6 |-> IF j = i + 6 THEN Retq ELSE SlidePattern[j - i + 1]]

\* Bytes w stored over the image b (an image grows where a write lands
\* outside what it held).
Store(b, w) == [p \in DOMAIN b \cup DOMAIN w |-> IF p \in DOMAIN w THEN w[p] ELSE b[p]]

\* Mutant: the loop condition written i <= jump_size - 6.
StartsLe(offset) ==
  SetToSortSeq({i \in offset .. JumpSize : i <= JumpSize - 6 /\ (i - offset) % 6 = 0},
               LAMBDA x, y : x < y)

\* The values of i the loop `for (i = offset; i < jump_size - 6; i += 6)`
\* takes, in order.
Starts(offset) ==
  SetToSortSeq({i \in offset .. JumpSize : i < JumpSize - 6 /\ (i - offset) % 6 = 0},
               LAMBDA x, y : x < y)

\* Mutant: the slide written only for the first offset.
SlidePassOnce(b, offset) ==
  IF offset = 0 THEN FoldLeft(LAMBDA img, i : Store(img, Block(i)), b, Starts(offset)) ELSE b

\* The image after the inner loop for one offset.
SlidePass(b, offset) == FoldLeft(LAMBDA img, i : Store(img, Block(i)), b, Starts(offset))

\* Offsets the loop writes, relative to jump_slide.
Written(offset) == UNION {DOMAIN Block(Starts(offset)[n]) : n \in DOMAIN Starts(offset)}

\* enter_the_slide(entry): `call *entry`, then the CPU decodes from pc:
\* a rel8 jmp moves pc, retq returns to the caller; anything else (the zero
\* bytes of fresh memory, or leaving the image) does not return.  fuel
\* bounds the number of jumps, so a jump onto itself ends as a hang.
RECURSIVE Exec(_, _, _, _)
Exec(b, pc, jumps, fuel) ==
  IF pc \notin DOMAIN b \/ fuel = 0 THEN [ret |-> FALSE, jumps |-> jumps]
  ELSE IF b[pc] = Retq THEN [ret |-> TRUE, jumps |-> jumps]
  ELSE IF b[pc] = JmpRel8 /\ pc + 1 \in DOMAIN b
       THEN Exec(b, pc + 2 + Rel8(b[pc + 1]), jumps + 1, fuel - 1)
       ELSE [ret |-> FALSE, jumps |-> jumps]

\* do_sequential_jumps(entries, target) with mmap returning r: allocate
\* (abort when it reports failure), write and enter the slide at offset 0,
\* rewrite it from offset 1 and enter there, unallocate.
SequentialJumps(target, r) ==
  LET m == AM!Allocate(AM!Construct(target, SlideSize), r)
      img0 == SlidePass([p \in 0 .. SlideSize - 1 |-> 0], 0)
      img1 == SlidePass(img0, 1)
      fuel == 3 * BtbEntries + 1
  IN [ok      |-> AM!AllocateResult(r),
      mem     |-> m,
      written |-> Written(0) \cup Written(1),
      runs    |-> <<Exec(img0, 0, 0, fuel), Exec(img1, 1, 0, fuel)>>]

\* The bytes of `func` in do_repeated_jumps: and $1,%eax; test; jne 7;
\* mov $1,%rcx; mov $2,%rcx; retq.  func_size is 22.
Func == <<131, 224, 1, 133, 192, 117, 7, 72, 199, 193, 1, 0, 0, 0,
          72, 199, 193, 2, 0, 0, 0, 195>>
FuncSize == 22

\* strlen: the bytes before the first zero (the mov's immediate has one).
StrLen(s) == LET z == SelectInSeq(s, LAMBDA x : x = 0) IN IF z = 0 THEN Len(s) ELSE z - 1

\* do_repeated_jumps(target): AlignedMem(target, strlen(func)), allocate,
\* memcpy(entry, func, func_size), the calls, unallocate.
RepeatedJumps(target, r) ==
  LET m == AM!Allocate(AM!Construct(target, StrLen(Func)), r)
  IN [ok |-> AM!AllocateResult(r), mem |-> m, written |-> 0 .. FuncSize - 1]

\* A write of the offsets w from m's entry stays inside m's mapping.
WithinMapping(m, w) == \A p \in w : AM!Covers(m, m.entry + p, m.entry + p + 1)

\* mess_btb(target): the slide aliases target - 128, the repeated jumps the
\* target itself; r1 and r2 are what the two mmap calls return.
MessBtb(target, r1, r2) ==
  [seq |-> SequentialJumps(P!AddOffset(target, -128), r1),
   rep |-> RepeatedJumps(target, r2)]
=============================================================================
