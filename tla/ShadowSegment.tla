--------------------------- MODULE ShadowSegment ---------------------------
(***************************************************************************)
(* The segment objects of src/shadow_code/untrusted/shadow/: ShadowSegment *)
(* and its variants.  A segment is the record of what its constructor      *)
(* fixes (variant, m_size, jump target, immediate, cell, register) and the *)
(* initial m_pos; the current m_pos is kept by the Shadow that owns it.    *)
(* The machine code a variant's finalize() writes is abstracted to the one *)
(* field it computes: the jump displacement or the immediate.              *)
(***************************************************************************)
LOCAL INSTANCE Integers

CONSTANTS
  NULL,          \* nullptr: a floating segment, a missing target
  AddrBits       \* width of uintptr_t (see Pointers)

LOCAL P == INSTANCE Pointers

\* The variants and the size of their s_hex (Seg*.h).
HexSize == [SegNop |-> 1, SegRetq |-> 1, SegEaxWrite |-> 5, SegJump |-> 2,
            SegLongJump |-> 5, SegJneEaxZero |-> 4, SegJumpR13 |-> 4,
            SegSetPosInReg |-> 10, SegEaxAndOne |-> 3, SegEaxAndOneIndir |-> 6]

Kinds == DOMAIN HexSize

\* Offset of the jne instruction inside SegJneEaxZero (jne_offset).
JneOffset == 2

LOCAL Mk(kind, size, pos, target, val, cell, reg) ==
  [kind |-> kind, size |-> size, pos |-> pos, target |-> target,
   val |-> val, cell |-> cell, reg |-> reg]

\* The variant constructors and make() functions.
SegNop(n) == Mk("SegNop", HexSize.SegNop * n, NULL, NULL, NULL, NULL, NULL)
SegRetq(pos, nops) == Mk("SegRetq", HexSize.SegRetq + nops, pos, NULL, NULL, NULL, NULL)
SegEaxWrite(pos, v) == Mk("SegEaxWrite", HexSize.SegEaxWrite, pos, NULL, v, NULL, NULL)
SegJump(pos, t) == Mk("SegJump", HexSize.SegJump, pos, t, NULL, NULL, NULL)
SegLongJump(pos, t) == Mk("SegLongJump", HexSize.SegLongJump, pos, t, NULL, NULL, NULL)
\* Mutant: the jne segment placed at the victim's address itself.
SegJneEaxZeroNoOffset(pos, t) ==
  Mk("SegJneEaxZero", HexSize.SegJneEaxZero, pos, t, NULL, NULL, NULL)
SegJneEaxZero(pos, t) ==
  Mk("SegJneEaxZero", HexSize.SegJneEaxZero,
     IF pos = NULL THEN NULL ELSE P!AddOffset(pos, -JneOffset), t, NULL, NULL, NULL)
SegJumpR13(pos) == Mk("SegJumpR13", HexSize.SegJumpR13, pos, NULL, NULL, NULL, NULL)
SegSetPosInReg(pos, t, cell, reg) ==
  Mk("SegSetPosInReg", HexSize.SegSetPosInReg, pos, t, NULL, cell, reg)
SegEaxAndOne == Mk("SegEaxAndOne", HexSize.SegEaxAndOne, NULL, NULL, NULL, NULL, NULL)
SegEaxAndOneIndir ==
  Mk("SegEaxAndOneIndir", HexSize.SegEaxAndOneIndir, NULL, NULL, NULL, NULL, NULL)

\* ShadowSegment::has_pos
HasPos(p) == p # NULL

\* ShadowSegment::get_end
GetEnd(p, size) == p + size

\* ShadowSegment::set_pos(ptr, offset)
SetPos(ptr, off) == ptr + off

\* ShadowSegment::set_end(ptr, offset): the segment ends at ptr + offset
SetEnd(ptr, size, off) == ptr - size + off

\* ShadowSegment::apply_base: the new m_pos keeps the low bits of the old
\* one and takes the high bits of ptr; the caller applies the difference.
ApplyBase(p, ptr, mask) == P!SetMaskedBase(p, ptr, mask)

\* ShadowSegment::apply_offset
ApplyOffset(p, off) == p + off

\* SegLongJump keeps the low four bytes of the displacement.  Every jump
\* stays inside one shadow's layout, far below 2^31, so the model gives
\* that field the width of its address space instead of 32 bits.
LongDispBits == AddrBits

\* The (char) and 4-byte truncations of a displacement, and the sign
\* extension the CPU applies when it decodes them.
Truncate(x, bits) == x % (2^bits)
Signed(b, bits) == IF b >= 2^(bits - 1) THEN b - 2^bits ELSE b

\* The displacement of a relative jump: Pointers::get_diff(target, end).
JumpDiff(targetPos, p, size) == P!GetDiff(targetPos, GetEnd(p, size))

\* SegJump::finalize asserts the displacement fits a rel8 (it excludes -128).
JumpInRange(d) == d > -128 /\ d < 128

\* The field a variant's finalize() computes, given its own position and
\* that of its jump target: SegJump and SegJneEaxZero store the low byte of
\* the displacement, SegLongJump its low four bytes, SegEaxWrite its
\* immediate, SegSetPosInReg the address of the inner cell it loads.
\* Mutant: displacements stored without truncation to their field.
EncodeUntruncated(s, p, targetPos) ==
  CASE s.kind \in {"SegJump", "SegJneEaxZero", "SegLongJump"} -> JumpDiff(targetPos, p, s.size)
    [] s.kind = "SegEaxWrite" -> s.val
    [] s.kind = "SegSetPosInReg" -> s.cell
    [] OTHER -> NULL

Encode(s, p, targetPos) ==
  CASE s.kind \in {"SegJump", "SegJneEaxZero"} ->
         Truncate(JumpDiff(targetPos, p, s.size), 8)
    [] s.kind = "SegLongJump" -> Truncate(JumpDiff(targetPos, p, s.size), LongDispBits)
    [] s.kind = "SegEaxWrite" -> s.val
    [] s.kind = "SegSetPosInReg" -> s.cell
    [] OTHER -> NULL

=============================================================================
