------------------------------- MODULE Shadow -------------------------------
(***************************************************************************)
(* The layout engine of src/shadow_code/untrusted/shadow/Shadow.cpp.  A    *)
(* Shadow collects segments in code order.  A segment with a position is   *)
(* placed at once, together with the floating ("loose") segments before    *)
(* it, which are spread evenly in the gap behind it; finalize() appends    *)
(* the loose segments left over, allocates aligned memory, relocates every *)
(* segment into it keeping the low address bits, encodes the jumps and     *)
(* writes the code.  A failing assert() or abort() ends the process: the   *)
(* model records its message in "fatal" and the Shadow takes no step more. *)
(***************************************************************************)
EXTENDS Integers, SequencesExt

CONSTANTS
  AlignBits,     \* m_align_bits (lbr_entry_bits at every call site)
  AddrBits,      \* width of uintptr_t
  Page,          \* mmap granularity
  MmapResults,   \* the addresses mmap may return
  NULL           \* nullptr

VARIABLES
  seg,        \* segment id -> the constructed segment (ShadowSegment record)
  pos,        \* segment id -> its m_pos, NULL while floating
  segments,   \* m_segments: the placed segments, in code order
  loose,      \* m_loose_segments
  entry,      \* m_entry_segment
  finalized,  \* m_finalized
  mem,        \* m_mem: the AlignedMem record, NULL before finalize()
  code,       \* segment id -> the field its finalize() wrote, NULL before
  cells,      \* inner cell of an indirect pointer -> the value it holds
  fatal       \* NULL, or the message of the assert that aborted

shadowVars == <<seg, pos, segments, loose, entry, finalized, mem, code, cells, fatal>>

Segment == INSTANCE ShadowSegment
Ptr == INSTANCE Pointers
AM == INSTANCE AlignedMem
        WITH am <- mem, content <- 0, ok <- NULL, Targets <- {}, Contents <- {}

\* m_mask, set by the constructor from align_bits.
Mask == Ptr!GetMask(AlignBits)

\* s_segment_spacing, and the bound place_segment asserts on a spacing.
SegmentSpacing == 2
SaneSpacing == 10000

End(s) == Segment!GetEnd(pos[s], seg[s].size)

\* The Shadow right after construction, owning the constructed segments
\* segs and the indirect-pointer cells in the state cellInit.
Construct(segs, cellInit) ==
  /\ seg = segs
  /\ pos = [s \in DOMAIN segs |-> segs[s].pos]
  /\ segments = <<>>
  /\ loose = <<>>
  /\ entry = NULL
  /\ finalized = FALSE
  /\ mem = NULL
  /\ code = [s \in DOMAIN segs |-> NULL]
  /\ cells = cellInit

-----------------------------------------------------------------------------
(* add_segment and place_segment                                           *)

\* The order assertion of add_segment.
OrderOk(s) ==
  IF segments = <<>> \/ pos[s] = NULL THEN TRUE ELSE pos[Last(segments)] < pos[s]

\* The free space between the last placed segment and s, the total size of
\* the loose segments, and the spacing place_segment derives from them.
Space(s) == pos[s] - End(Last(segments))
LooseSize == FoldLeft(LAMBDA acc, x : acc + seg[x].size, 0, loose)
Fits(s) == IF segments = <<>> THEN TRUE ELSE LooseSize <= Space(s)
\* Mutant: the spacing rounded up instead of truncated.
SpacingRoundUp(s) ==
  IF segments = <<>> THEN SegmentSpacing
  ELSE (Space(s) - LooseSize + Len(loose) - 1) \div Len(loose)
Spacing(s) ==
  IF segments = <<>> THEN SegmentSpacing
  ELSE (Space(s) - LooseSize) \div Len(loose)

\* The reverse loop of place_segment: each loose segment, last first, is
\* set to end spacing bytes before the start of the one after it.
RECURSIVE ChainBackward(_, _, _, _)
ChainBackward(p, L, next, sp) ==
  IF L = <<>> THEN p
  ELSE LET s == Last(L)
           at == Segment!SetEnd(next, seg[s].size, -sp)
       IN ChainBackward([p EXCEPT ![s] = at], Front(L), at, sp)

\* The asserts add_segment and place_segment make before changing anything.
AddSegmentOk(s) ==
  /\ fatal = NULL
  /\ ~finalized
  /\ OrderOk(s)
  /\ IF pos[s] = NULL \/ loose = <<>> THEN TRUE
     ELSE Fits(s) /\ Spacing(s) < SaneSpacing

\* The effect of add_segment: keep a floating segment as loose, place a
\* positioned one (place_segment) with the loose ones before it.
AddSegmentEffect(s) ==
  \/ /\ pos[s] = NULL
     /\ loose' = Append(loose, s)
     /\ UNCHANGED <<pos, segments>>
  \/ /\ pos[s] # NULL /\ loose = <<>>
     /\ segments' = Append(segments, s)
     /\ UNCHANGED <<pos, loose>>
  \/ /\ pos[s] # NULL /\ loose # <<>>
     /\ pos' = ChainBackward(pos, loose, pos[s], Spacing(s))
     /\ segments' = segments \o loose \o <<s>>
     /\ loose' = <<>>

\* The message of the first assert of add_segment / place_segment that fails.
AddFailure(s) ==
  CASE finalized -> "!m_finalized"
    [] ~OrderOk(s) -> "segment order is correct"
    [] ~Fits(s) -> "elements fit into available space"
    [] OTHER -> "spacing is within sane range"

AddSegment(s) ==
  /\ AddSegmentOk(s)
  /\ AddSegmentEffect(s)
  /\ UNCHANGED <<seg, entry, finalized, mem, code, cells, fatal>>

AddSegmentFails(s) ==
  /\ fatal = NULL
  /\ ~AddSegmentOk(s)
  /\ fatal' = AddFailure(s)
  /\ UNCHANGED <<seg, pos, segments, loose, entry, finalized, mem, code, cells>>

\* add_entry: asserts no entry is set, records it, then add_segment.
AddEntry(s) ==
  /\ entry = NULL
  /\ AddSegmentOk(s)
  /\ entry' = s
  /\ AddSegmentEffect(s)
  /\ UNCHANGED <<seg, finalized, mem, code, cells, fatal>>

AddEntryFails(s) ==
  /\ fatal = NULL
  /\ ~(entry = NULL /\ AddSegmentOk(s))
  /\ fatal' = IF entry # NULL THEN "m_entry_segment == nullptr" ELSE AddFailure(s)
  /\ UNCHANGED <<seg, pos, segments, loose, entry, finalized, mem, code, cells>>

-----------------------------------------------------------------------------
(* finalize and get_size                                                   *)

\* The asserts and the abort at the top of finalize.
FinalizeOk ==
  /\ fatal = NULL
  /\ ~finalized
  /\ entry # NULL
  /\ ~(loose # <<>> /\ segments = <<>>)

\* The loop appending the leftover loose segments: each starts
\* s_segment_spacing bytes after the end of the one before it.
RECURSIVE ChainForward(_, _, _)
ChainForward(p, L, prevEnd) ==
  IF L = <<>> THEN p
  ELSE LET s == Head(L)
           at == Segment!SetPos(prevEnd, SegmentSpacing)
       IN ChainForward([p EXCEPT ![s] = at], Tail(L), Segment!GetEnd(at, seg[s].size))

\* m_segments and the positions once the loose segments are appended.
Laid == segments \o loose
Appended ==
  IF loose = <<>> THEN pos ELSE ChainForward(pos, loose, End(Last(segments)))

\* Shadow::get_size over the positions p of the segments L, as size_t.
GetSize(p, L) ==
  Ptr!Wrap(p[Last(L)] - Segment!GetEnd(p[L[1]], seg[L[1]].size))

\* m_mem: AlignedMem(first->get_pos(), get_size(), m_align_bits) after
\* allocate() with mmap returning r.
MemFor(r) == AM!Allocate(AM!Construct(Appended[Laid[1]], GetSize(Appended, Laid)), r)

\* The positions after relocation: apply_base of the first segment onto
\* m_mem->as_ptr(), and apply_offset of its displacement to all the others.
Relocated(r) ==
  LET first == Laid[1]
      moved == Segment!ApplyBase(Appended[first], MemFor(r).entry, Mask)
      offset == moved - Appended[first]
  IN [s \in DOMAIN pos |->
        IF s = first THEN moved
        ELSE IF s \in ToSet(Laid) THEN Segment!ApplyOffset(Appended[s], offset)
        ELSE Appended[s]]

TargetPos(p, s) == IF seg[s].target = NULL THEN NULL ELSE p[seg[s].target]

\* The assert of SegJump::finalize holds for every short jump.
JumpsOk(p) ==
  \A s \in ToSet(Laid) :
    seg[s].kind = "SegJump" =>
      Segment!JumpInRange(Segment!JumpDiff(TargetPos(p, s), p[s], seg[s].size))

\* The assert of the write loop: last_end (the previous segment's position)
\* is not above the position of the next segment.
WriteOrderOk(p) == \A i \in 2 .. Len(Laid) : p[Laid[i - 1]] <= p[Laid[i]]

\* What the finalize() of each segment computes.
Encoded(p) ==
  [s \in DOMAIN seg |->
     IF s \in ToSet(Laid) THEN Segment!Encode(seg[s], p[s], TargetPos(p, s))
     ELSE code[s]]

\* SegSetPosInReg::finalize stores its target's final position in the
\* inner cell of its indirect pointer.
\* Mutant: the cells written with the positions before relocation.
CellWritesBeforeRelocation(p) ==
  [c \in DOMAIN cells |->
     LET writers == {s \in ToSet(Laid) : /\ seg[s].kind = "SegSetPosInReg"
                                         /\ seg[s].cell = c
                                         /\ seg[s].target # NULL}
     IN IF writers = {} THEN cells[c]
        ELSE Appended[seg[CHOOSE w \in writers : TRUE].target]]
CellWrites(p) ==
  [c \in DOMAIN cells |->
     LET writers == {s \in ToSet(Laid) : /\ seg[s].kind = "SegSetPosInReg"
                                         /\ seg[s].cell = c
                                         /\ seg[s].target # NULL}
     IN IF writers = {} THEN cells[c]
        ELSE p[seg[CHOOSE w \in writers : TRUE].target]]

\* finalize() with mmap returning r, when no later assert fails.
FinalizeWith(r) ==
  LET p == Relocated(r) IN
  /\ AM!AllocateResult(r)
  /\ JumpsOk(p)
  /\ WriteOrderOk(p)
  /\ pos' = p
  /\ segments' = Laid
  /\ loose' = <<>>
  /\ mem' = MemFor(r)
  /\ code' = Encoded(p)
  /\ cells' = CellWrites(p)
  /\ finalized' = TRUE

Finalize ==
  /\ FinalizeOk
  /\ \E r \in MmapResults : FinalizeWith(r)
  /\ UNCHANGED <<seg, entry, fatal>>

\* finalize() aborting after the allocation: the first failing check.
FinalizeFails ==
  /\ FinalizeOk
  /\ \E r \in MmapResults :
       LET p == Relocated(r) IN
       /\ ~(AM!AllocateResult(r) /\ JumpsOk(p) /\ WriteOrderOk(p))
       /\ fatal' = CASE ~AM!AllocateResult(r) -> "m_mem->allocate()"
                     [] ~JumpsOk(p) -> "jump distance is withing jmp limits"
                     [] OTHER -> "last_end <= s->get_pos()"
  /\ UNCHANGED <<seg, pos, segments, loose, entry, finalized, mem, code, cells>>

=============================================================================
