------------------------------ MODULE Pointers ------------------------------
(***************************************************************************)
(* Address arithmetic of src/shadow_code/untrusted/mem/Pointers.{h,cpp}.   *)
(* Addresses are naturals below 2^AddrBits (uintptr_t of a smaller         *)
(* machine).  A mask is always 2^b - 1, so "& mask" is the remainder       *)
(* modulo 2^b, "& ~mask" is what is left of the address when that          *)
(* remainder is removed, and the "|" of the two disjoint halves is their   *)
(* sum.                                                                    *)
(***************************************************************************)
LOCAL INSTANCE Integers

CONSTANT AddrBits        \* width of uintptr_t in the model

ASSUME AddrBits \in Nat \ {0}

\* Arithmetic on uintptr_t / intptr_t wraps modulo 2^AddrBits.
Wrap(x) == x % (2^AddrBits)

\* Pointers::get_mask: (1UL << bits) - 1UL
GetMask(bits) == 2^bits - 1

\* Pointers::apply_mask: ptr & mask
ApplyMask(p, mask) == p % (mask + 1)

\* Pointers::apply_rmask: ptr & ~mask
ApplyRMask(p, mask) == p - (p % (mask + 1))

\* Pointers::set_masked_base: (ptr & mask) | (base & ~mask)
SetMaskedBase(p, base, mask) == ApplyMask(p, mask) + ApplyRMask(base, mask)

\* Pointers::get_diff: (intptr_t)a - (intptr_t)b, a signed difference
GetDiff(a, b) == a - b

\* Pointers::add_offset: (intptr_t)ptr + offset
AddOffset(p, off) == Wrap(p + off)

=============================================================================
