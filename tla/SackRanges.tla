----------------------------- MODULE SackRanges -----------------------------
(***************************************************************************)
(* The lists of ranges of the direct data plane (direct.rs): the receiver  *)
(* compresses its reorder buffer into at most MaxSelectiveAcks ranges, and *)
(* the sender's scoreboard sorts and merges the ranges of every ack, trims *)
(* them by the cumulative ack, and picks the packet that a timeout sends   *)
(* again.                                                                  *)
(*                                                                         *)
(* `ranges` is the scoreboard as the code keeps it, `covered` the set of   *)
(* sequence numbers it ought to stand for.  LossRecovery and DirectChannel *)
(* work with that set; the invariants here are what allows it.             *)
(***************************************************************************)
EXTENDS Integers, Sequences, SequencesExt

CONSTANTS
    MaxSequence,         \* u64::MAX, the largest sequence number
    MaxSelectiveAcks,    \* DIRECT_TUNNEL_MAX_SELECTIVE_ACKS
    MaxIncoming          \* bound: ranges in one ack

ASSUME RangeAssumption ==
    /\ MaxSequence \in Nat
    /\ MaxSelectiveAcks \in Nat \ {0}
    /\ MaxIncoming \in Nat

VARIABLES ranges, covered, evidence

vars == <<ranges, covered, evidence>>

Sequence == 0..MaxSequence
Range2(first, last) == [start |-> first, end |-> last]
DirectSelectiveAckRange == [start : Sequence, end : Sequence]

\* u64::saturating_add(1)
Successor(s) == IF s = MaxSequence THEN s ELSE s + 1

Covers(range) == range.start..range.end
CoverOf(list) == UNION {Covers(list[i]) : i \in DOMAIN list}

\* covered_sequence_count adds up the lengths: it counts overlaps twice.
CoveredCount(list) == FoldLeft(LAMBDA n, r : n + Cardinality(Covers(r)), 0, list)

-----------------------------------------------------------------------------
(* The scoreboard *)

\* Mutant of MergeInto: the later range's end replaces the earlier one's.
MergeInto_LastEnd(merged, range) ==
    IF merged # <<>> /\ range.start <= Successor(Last(merged).end)
    THEN Front(merged) \o <<Range2(Last(merged).start, range.end)>>
    ELSE Append(merged, range)

\* One turn of the merge loop, on ranges sorted by (start, end).
MergeInto(merged, range) ==
    IF merged # <<>> /\ range.start <= Successor(Last(merged).end)
    THEN Front(merged) \o
           <<Range2(Last(merged).start, Max({Last(merged).end, range.end}))>>
    ELSE Append(merged, range)

Before(r, s) == r.start < s.start \/ (r.start = s.start /\ r.end <= s.end)

\* The filter of observe_ranges: inverted ranges are dropped, the others appended.
KeepValid(list, range) == IF range.start <= range.end THEN Append(list, range) ELSE list

\* sort_by_key: the ranges one after the other in their places of a sorted list.
InsertSorted(sorted, range) ==
    LET earlier == {i \in DOMAIN sorted : Before(sorted[i], range)}
    IN  InsertAt(sorted, Max({0} \cup earlier) + 1, range)

ObserveRanges(list, incoming) ==
    LET extended == FoldLeft(KeepValid, list, incoming)
        sorted == FoldLeft(InsertSorted, <<>>, extended)
    IN  FoldLeft(MergeInto, <<>>, sorted)

\* Mutant of NewEvidence: the ranges of the ack, whatever was known.
NewEvidence_All(list, incoming) == CoveredCount(incoming)

\* What observe_ranges returns: 0 for an ack without ranges.
NewEvidence(list, incoming) ==
    CoveredCount(ObserveRanges(list, incoming)) - CoveredCount(list)

\* One turn of advance_cumulative_ack.
TrimInto(trimmed, range, next) ==
    IF range.end < next
    THEN trimmed
    ELSE Append(trimmed, Range2(Max({range.start, next}), range.end))

AdvanceCumulativeAck(list, next) ==
    FoldLeft(LAMBDA trimmed, range : TrimInto(trimmed, range, next), <<>>, list)

-----------------------------------------------------------------------------
(* The receiver's ranges *)

\* One turn of direct_channel_selective_ack_ranges.
ExtendRun(state, s) ==
    IF state.full THEN state
    ELSE IF s = Successor(state.run.end)
    THEN [state EXCEPT !.run.end = s]
    ELSE [out |-> Append(state.out, state.run),
          run |-> Range2(s, s),
          full |-> Len(state.out) + 1 >= MaxSelectiveAcks]

\* The loop over the keys of the reorder buffer, a BTreeMap: in ascending order.
AllRuns(keys) ==
    LET first == Min(keys)
        start == [out |-> <<>>, run |-> Range2(first, first), full |-> FALSE]
    IN  MapThenFoldSet(LAMBDA s, state : ExtendRun(state, s), start, LAMBDA s : s, Max,
                       keys \ {first})

\* Mutant of SelectiveAckRanges: the last run is left out.
SelectiveAckRanges_NoTail(keys) == IF keys = {} THEN <<>> ELSE AllRuns(keys).out

SelectiveAckRanges(keys) ==
    IF keys = {} THEN <<>>
    ELSE LET final == AllRuns(keys)
         IN  IF final.full THEN final.out ELSE Append(final.out, final.run)

-----------------------------------------------------------------------------
(* The packet a timeout sends again *)

\* highest_sequence is the end of the last range, None for an empty list.
RetransmitHoles(outstanding, list) ==
    IF list = <<>> THEN {} ELSE {s \in outstanding : s <= Last(list).end}

\* Mutant of TimeoutChoice: a hole is resent whether it has timed out or not.
TimeoutChoice_AnyHole(outstanding, list, timedOut) ==
    LET holes == RetransmitHoles(outstanding, list)
    IN  IF holes # {} THEN Min(holes) ELSE Min(timedOut)

\* The Timeout trigger of select_loss_recovery_sequence, for a nonempty set
\* of outstanding packets that have timed out.
TimeoutChoice(outstanding, list, timedOut) ==
    LET holes == RetransmitHoles(outstanding, list) \cap timedOut
    IN  IF holes # {} THEN Min(holes) ELSE Min(timedOut)

-----------------------------------------------------------------------------
Init == ranges = <<>> /\ covered = {} /\ evidence = 0

\* An ack may carry any list of ranges, empty and inverted ones included.
Observe(incoming) ==
    /\ ranges' = ObserveRanges(ranges, incoming)
    /\ covered' = covered \cup CoverOf(incoming)
    /\ evidence' = NewEvidence(ranges, incoming)

Advance(next) ==
    /\ ranges' = AdvanceCumulativeAck(ranges, next)
    /\ covered' = {s \in covered : s >= next}
    /\ evidence' = 0

Next ==
    \/ \E incoming \in BoundedSeq(DirectSelectiveAckRange, MaxIncoming) : Observe(incoming)
    \/ \E next \in Sequence : Advance(next)

Spec == Init /\ [][Next]_vars

-----------------------------------------------------------------------------
(* Properties *)

\* Sorted, disjoint, and with a gap between any two.
Canonical(list) ==
    /\ \A i \in DOMAIN list : list[i].start <= list[i].end
    /\ \A i \in 1..(Len(list) - 1) : list[i].end + 1 < list[i + 1].start

\* However acks overlap, repeat or touch, the scoreboard stays the one sorted
\* and merged list of the sequence numbers reported and not yet acked: so
\* `contains` and `highest_sequence` agree with the set.
ScoreboardIsSet == Canonical(ranges) /\ CoverOf(ranges) = covered

\* The evidence an ack adds to the duplicate count is the number of sequence
\* numbers not known before: a repeated or reordered ack never counts twice.
EvidenceIsNews == [][evidence' = Cardinality(covered' \ covered)]_vars

LowestRuns(keys) ==
    {s \in keys : Cardinality({r \in keys : r <= s /\ r - 1 \notin keys}) <= MaxSelectiveAcks}

\* A receiver with any reorder buffer acks its lowest runs, whole, and never
\* a sequence number it does not hold.
AckRangesAreLowestRuns ==
    LET list == SelectiveAckRanges(covered)
    IN  /\ Canonical(list) /\ Len(list) <= MaxSelectiveAcks
        /\ CoverOf(list) = LowestRuns(covered)

\* Preferring holes never changes the choice: of the packets that have timed
\* out the oldest one is sent, whatever the scoreboard says.
TimeoutResendsOldest ==
    \A outstanding \in SUBSET (Sequence \ covered) :
      \A timedOut \in SUBSET outstanding :
        timedOut # {} => TimeoutChoice(outstanding, ranges, timedOut) = Min(timedOut)
=============================================================================
