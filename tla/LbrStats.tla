------------------------------ MODULE LbrStats ------------------------------
(***************************************************************************)
(* src/shadow_code/untrusted/misc/LbrStats.cpp and MiniStatistics.cpp:     *)
(* the statistics an experiment adds its measurement to.  A MiniStatistics *)
(* is the record [vals, count, total]; an LbrStats holds two of them (hit  *)
(* indicator, cycle count) and m_count.  An LBR copy is a sequence of      *)
(* records [from, mispred, cycles, run], oldest first, as read_lbr leaves  *)
(* it; `run` is a ghost tag naming the run that recorded the entry.        *)
(***************************************************************************)
EXTENDS Integers, SequencesExt

CONSTANT Cycles  \* cycle counts a measurement may carry

\* MiniStatistics() = default: m_vals empty, m_count = 0, m_total = 0.0.
MiniEmpty == [vals |-> <<>>, count |-> 0, total |-> 0]

\* MiniStatistics::add: count, append, running total.
MiniAdd(m, v) == [vals |-> Append(m.vals, v), count |-> m.count + 1, total |-> m.total + v]

\* make_shared<LbrStats>() in the BranchShadow constructor: value
\* initialisation zeroes m_count, the two MiniStatistics are empty.
StatsEmpty == [hits |-> MiniEmpty, cycles |-> MiniEmpty, count |-> 0]

\* LbrStats::add_measurement.
AddMeasurement(st, hit, cycles) ==
  [hits |-> MiniAdd(st.hits, IF hit THEN 1 ELSE 0),
   cycles |-> MiniAdd(st.cycles, cycles),
   count |-> st.count + 1]

\* Mutant: the scan stops at the first (oldest) matching record.
MatchIndexFirst(data, src) == SelectInSeq(data, LAMBDA d : d.from = src)

\* The loop of add_from_lbr_data: each record whose from equals
\* src_address overwrites hit and cycles, so the last (newest) one counts;
\* 0 when none matches.
MatchIndex(data, src) == SelectLastInSeq(data, LAMBDA d : d.from = src)

\* LbrStats::add_from_lbr_data: hit = mispred != 0; a miss adds nothing.
AddFromLbrData(st, data, src) ==
  LET i == MatchIndex(data, src)
  IN IF i = 0 THEN st ELSE AddMeasurement(st, data[i].mispred, data[i].cycles)

=============================================================================
