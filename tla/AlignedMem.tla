----------------------------- MODULE AlignedMem -----------------------------
(***************************************************************************)
(* src/shadow_code/untrusted/mem/AlignedMem.{h,cpp}: an RWX mapping whose *)
(* "entry" pointer should have the same low align_bits bits as a target    *)
(* address, so that code placed at entry aliases the target in the BTB.    *)
(* The object is the record am; the operators below are its methods and    *)
(* are reused by Shadow.  The component specification at the end runs one *)
(* object through allocate() and unallocate() against every result mmap    *)
(* may return.                                                             *)
(***************************************************************************)
EXTENDS Integers

CONSTANTS
  AlignBits,     \* align_bits
  AddrBits,      \* width of uintptr_t
  Page,          \* mmap granularity: a mapping covers its size rounded up
  MmapResults,   \* the addresses mmap may return, MAP_FAILED included
  NULL,          \* nullptr
  Targets,       \* target_entry values a caller may pass
  Contents       \* content sizes a caller may pass

ASSUME /\ AlignBits \in Nat /\ AlignBits < AddrBits
       /\ Page \in Nat \ {0}

LOCAL P == INSTANCE Pointers

\* MAP_FAILED, (void *) -1.
MapFailed == 2^AddrBits - 1

\* The constructor AlignedMem(entry, size, align_bits): the mapping gets
\* 2^align_bits bytes more than the content, room to slide the entry.
Construct(target, n) ==
  [target |-> target, size |-> P!Wrap(2^AlignBits + n), mem |-> NULL, entry |-> NULL]

\* Mutant: the entry with no correction when it falls below the base.
EntryForNoWrap(base, target) ==
  P!ApplyRMask(base, P!GetMask(AlignBits)) + P!ApplyMask(target, P!GetMask(AlignBits))

\* The entry allocate() derives from the mapping's base: the base with its
\* low bits replaced by the target's, moved up when that falls below the base.
EntryFor(base, target) ==
  LET mask == P!GetMask(AlignBits)
      e == P!ApplyRMask(base, mask) + P!ApplyMask(target, mask)
  IN IF e < base THEN P!Wrap(e + mask) ELSE e

\* AlignedMem::allocate with mmap returning r: the object after the call.
Allocate(a, r) ==
  IF r = 0 THEN [a EXCEPT !.mem = NULL]
  ELSE [a EXCEPT !.mem = r, !.entry = EntryFor(r, a.target)]

\* ... and its return value: false only when mmap returned nullptr.
AllocateResult(r) == r # 0

\* AlignedMem::unallocate: idempotent munmap.
Unallocate(a) ==
  IF a.mem # NULL THEN [a EXCEPT !.mem = NULL, !.size = 0] ELSE a

\* The bytes the kernel really maps: size rounded up to the page, none at
\* all when mmap failed.
MappedLo(a) == a.mem
MappedHi(a) ==
  IF a.mem \in {NULL, MapFailed} THEN a.mem
  ELSE a.mem + ((a.size + Page - 1) \div Page) * Page

\* [lo, hi) lies inside the mapping.
Covers(a, lo, hi) == MappedLo(a) <= lo /\ hi <= MappedHi(a)

-----------------------------------------------------------------------------
(* Component specification: one caller constructs the object for a target  *)
(* and a content size, allocates it once and may unallocate it.            *)

VARIABLES
  am,        \* the AlignedMem object
  content,   \* the content size the caller will write at entry
  ok         \* what allocate() returned, NULL before the call

amVars == <<am, content, ok>>

Init ==
  \E t \in Targets, n \in Contents :
    /\ am = Construct(t, n)
    /\ content = n
    /\ ok = NULL

\* allocate(): asserts it is the first call.
AllocateStep ==
  /\ am.mem = NULL /\ ok = NULL
  /\ \E r \in MmapResults :
       /\ am' = Allocate(am, r)
       /\ ok' = AllocateResult(r)
  /\ UNCHANGED content

UnallocateStep ==
  /\ ok # NULL /\ am.mem # NULL
  /\ am' = Unallocate(am)
  /\ UNCHANGED <<content, ok>>

Next == AllocateStep \/ UnallocateStep

Spec == Init /\ [][Next]_amVars

\* The entry allocate() returns has the target's low align_bits bits, the
\* aliasing the whole shadow-branch technique rests on.
EntryAliasesTarget ==
  (ok = TRUE /\ am.mem # NULL) =>
    P!ApplyMask(am.entry, P!GetMask(AlignBits))
      = P!ApplyMask(am.target, P!GetMask(AlignBits))

=============================================================================
