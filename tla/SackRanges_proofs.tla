-------------------------- MODULE SackRanges_proofs --------------------------
(***************************************************************************)
(* Theorems about SackRanges, for any largest sequence number, any acks    *)
(* and any number of ranges in an ack.  The loops of the code are folds:   *)
(* what a fold computes is shown by induction on the number of turns.      *)
(***************************************************************************)
EXTENDS SackRanges, SequenceTheorems, FiniteSetTheorems, WellFoundedInduction, TLAPS

-----------------------------------------------------------------------------
(* Numbers *)

\* A nonempty set of naturals has a least element.
LEMMA LeastNatural ==
  ASSUME NEW S \in SUBSET Nat, S # {}
  PROVE  \E x \in S : \A y \in S : x <= y
<1> DEFINE less == {ss \in Nat \X Nat : ss[1] < ss[2]}
<1>1. IsWellFoundedOn(less, Nat)
  BY NatLessThanWellFounded, Zenon DEF OpToRel
<1>2. \A y, x \in Nat : y < x => <<y, x>> \in less
  OBVIOUS
<1> HIDE DEF less
<1>3. PICK x \in S : \A y \in S : ~(<<y, x>> \in less)
  BY <1>1, WFMin, Zenon
<1>4. \A y \in S : ~(y < x)
  <2> SUFFICES ASSUME NEW y \in S PROVE ~(y < x)
    OBVIOUS
  <2>1. y \in Nat /\ x \in Nat
    OBVIOUS
  <2> QED  BY <1>2, <1>3, <2>1, Zenon
<1> QED  BY <1>4

\* Induction up to n.
LEMMA Upwards ==
  ASSUME NEW n \in Nat, NEW G, 0 \in G, \A i \in 0..(n - 1) : i \in G => i + 1 \in G
  PROVE  n \in G
<1> SUFFICES ASSUME n \notin G PROVE FALSE
  OBVIOUS
<1> DEFINE bad == {i \in 0..n : i \notin G}
<1>1. bad \in SUBSET Nat /\ bad # {}
  OBVIOUS
<1>2. PICK x \in bad : \A y \in bad : x <= y
  <2> HIDE DEF bad
  <2> QED  BY <1>1, LeastNatural
<1>3. x # 0 /\ x - 1 \in 0..(n - 1) /\ x - 1 \notin bad
  BY <1>2
<1> QED  BY <1>3

\* Min of a nonempty set of naturals.
LEMMA MinOfNaturals ==
  ASSUME NEW S \in SUBSET Nat, S # {}
  PROVE  Min(S) \in S /\ \A s \in S : Min(S) <= s
<1>1. \E x \in S : \A y \in S : x <= y
  BY LeastNatural
<1> QED  BY <1>1 DEF Min

\* Max of a nonempty set of naturals that are at most n.
LEMMA MaxOfNaturals ==
  ASSUME NEW n \in Nat, NEW S \in SUBSET (0..n), S # {}
  PROVE  Max(S) \in S /\ \A s \in S : s <= Max(S)
<1> DEFINE mirror == {m \in 0..n : n - m \in S}
<1>0. \A s \in S : n - s \in 0..n /\ n - (n - s) = s
  OBVIOUS
<1>1. \A s \in S : n - s \in mirror
  BY <1>0
<1>2. mirror \in SUBSET Nat /\ mirror # {}
  <2>1. mirror \subseteq Nat
    OBVIOUS
  <2>2. PICK s \in S : TRUE
    OBVIOUS
  <2> HIDE DEF mirror
  <2> QED  BY <1>1, <2>1, <2>2
<1>3. PICK m \in mirror : \A t \in mirror : m <= t
  <2> HIDE DEF mirror
  <2> QED  BY <1>2, LeastNatural
<1>4. n - m \in S /\ \A s \in S : s <= n - m
  BY <1>0, <1>1, <1>3
<1>5. \E x \in S : \A y \in S : x >= y
  BY <1>0, <1>4
<1> QED  BY <1>0, <1>5 DEF Max

LEMMA MaxOfTwo == \A a, b \in Nat : Max({a, b}) = IF a <= b THEN b ELSE a
  BY DEF Max

-----------------------------------------------------------------------------
(* Folds *)

\* A loop over the numbers in S, upwards: its step changes the state of the loop.
LoopFits(n, S, St, El, v, base, step) ==
    /\ n \in Nat /\ S \in SUBSET (0..n)
    /\ v \in [S -> El] /\ base \in St /\ step \in [St \X El -> St]

\* The recursive function that a fold of it is made of.
IsFold(g, S, St, El, v, base, step) ==
    /\ DOMAIN g = SUBSET S /\ g = [s \in SUBSET S |-> g[s]] /\ g[{}] = base
    /\ \A s \in SUBSET S : s # {} =>
          /\ g[s \ {Max(s)}] \in St /\ v[Max(s)] \in El
          /\ g[s] = step[<<g[s \ {Max(s)}], v[Max(s)]>>]

\* That function exists.
LEMMA FoldExists ==
  \A n, S, St, El, v, base, step :
     LoopFits(n, S, St, El, v, base, step)
        => \E g : IsFold(g, S, St, El, v, base, step)
<1> SUFFICES ASSUME NEW n, NEW S, NEW St, NEW El, NEW v, NEW base, NEW step,
                    LoopFits(n, S, St, El, v, base, step)
             PROVE  \E g : IsFold(g, S, St, El, v, base, step)
  OBVIOUS
<1>a. /\ n \in Nat /\ S \in SUBSET (0..n)
      /\ v \in [S -> El] /\ base \in St /\ step \in [St \X El -> St]
  BY DEF LoopFits
<1> USE <1>a
<1> DEFINE Below(m) == {x \in S : x < m}
           Eq(g, s) == g[s] = IF s = {} THEN base ELSE step[<<g[s \ {Max(s)}], v[Max(s)]>>]
           Good == {m \in Nat : \E g \in [SUBSET Below(m) -> St] :
                                  \A s \in SUBSET Below(m) : Eq(g, s)}
<1>0. \A x \in S : x \in 0..n
  OBVIOUS
<1>1. 0 \in Good
  <2> DEFINE g == [s \in {{}} |-> base]
  <2>1. Below(0) = {}
    <3>1. \A x \in S : ~(x < 0)
      BY <1>0
    <3> QED  BY <3>1
  <2>2. g \in [{{}} -> St] /\ \A s \in {{}} : Eq(g, s)
    OBVIOUS
  <2> QED  BY <2>1, <2>2
<1>2. ASSUME NEW m \in 0..n, m \in Good PROVE m + 1 \in Good
  <2>1. PICK g \in [SUBSET Below(m) -> St] : \A s \in SUBSET Below(m) : Eq(g, s)
    BY <1>2
  <2>2. CASE m \notin S
    <3>1. \A x \in S : x < m + 1 <=> x < m
      BY <1>0, <2>2
    <3>2. Below(m + 1) = Below(m)
      BY <3>1
    <3> HIDE DEF Below, Eq
    <3>3. \E k \in [SUBSET Below(m + 1) -> St] : \A s \in SUBSET Below(m + 1) : Eq(k, s)
      BY <2>1, <3>2
    <3> QED  BY <3>3
  <2>3. CASE m \in S
    <3>1. Below(m + 1) = Below(m) \cup {m} /\ m \notin Below(m)
      <4>1. \A x \in S : x < m + 1 <=> x < m \/ x = m
        BY <1>0
      <4>2. \A x : x \in Below(m + 1) <=> x \in Below(m) \/ x = m
        BY <2>3, <4>1
      <4>3. m \notin Below(m)
        OBVIOUS
      <4> HIDE DEF Below
      <4> QED  BY <4>2, <4>3
    <3> DEFINE h == [s \in SUBSET Below(m + 1) |->
                       IF m \in s THEN step[<<g[s \ {m}], v[m]>>] ELSE g[s]]
    <3>2. \A s \in SUBSET Below(m + 1) :
            /\ s \ {m} \in SUBSET Below(m)
            /\ m \notin s => s \in SUBSET Below(m)
      BY <3>1
    <3>3. h \in [SUBSET Below(m + 1) -> St]
      <4>1. \A s \in SUBSET Below(m) : g[s] \in St
        BY <2>1
      <4>2. v[m] \in El
        BY <2>3
      <4>3. \A st \in St : step[<<st, v[m]>>] \in St
        BY <4>2
      <4> HIDE DEF Below
      <4> QED  BY <3>2, <4>1, <4>3
    <3>4. ASSUME NEW s \in SUBSET Below(m + 1) PROVE Eq(h, s)
      <4>1. CASE m \in s
        <5>1. Max(s) = m
          <6>1. s \in SUBSET (0..n) /\ s # {}
            BY <4>1
          <6>2. Max(s) \in s /\ m <= Max(s)
            BY <4>1, <6>1, MaxOfNaturals
          <6>3. \A x \in s : m <= x => x = m
            BY <1>0
          <6> QED  BY <6>2, <6>3
        <5>2. m \notin s \ {m} /\ s \ {m} \in SUBSET Below(m + 1)
          OBVIOUS
        <5>3. h[s \ {m}] = g[s \ {m}]
          BY <5>2
        <5>4. h[s] = step[<<g[s \ {m}], v[m]>>]
          BY <4>1
        <5> HIDE DEF h, Below
        <5> QED  BY <4>1, <5>1, <5>3, <5>4
      <4>2. CASE m \notin s
        <5>1. s \in SUBSET Below(m) /\ s \ {Max(s)} \in SUBSET Below(m)
              /\ s \ {Max(s)} \in SUBSET Below(m + 1) /\ m \notin s \ {Max(s)}
          BY <3>2, <4>2
        <5>2. h[s] = g[s] /\ h[s \ {Max(s)}] = g[s \ {Max(s)}]
          BY <4>2, <5>1
        <5>3. Eq(g, s)
          BY <2>1, <5>1
        <5> HIDE DEF h, Below
        <5> QED  BY <5>2, <5>3
      <4> QED  BY <4>1, <4>2
    <3> HIDE DEF h, Below, Eq
    <3> QED  BY <3>3, <3>4
  <2> QED  BY <2>2, <2>3
<1>3. n + 1 \in Good
  <2> HIDE DEF Good
  <2> QED  BY <1>1, <1>2, Upwards
<1>4. Below(n + 1) = S
  <2>1. \A x \in S : x < n + 1
    BY <1>0
  <2> QED  BY <2>1
<1>5. PICK g \in [SUBSET S -> St] : \A s \in SUBSET S : Eq(g, s)
  <2> HIDE DEF Below, Eq
  <2> QED  BY <1>3, <1>4
<1>6. ASSUME NEW s \in SUBSET S, s # {}
      PROVE  /\ g[s \ {Max(s)}] \in St /\ v[Max(s)] \in El
             /\ g[s] = step[<<g[s \ {Max(s)}], v[Max(s)]>>]
  <2>1. Max(s) \in s
    <3>1. s \in SUBSET (0..n)
      OBVIOUS
    <3> QED  BY <1>6, <3>1, MaxOfNaturals
  <2>2. s \ {Max(s)} \in SUBSET S /\ Max(s) \in S
    BY <2>1
  <2> QED  BY <1>5, <1>6, <2>2
<1>7. g[{}] = base /\ DOMAIN g = SUBSET S /\ g = [s \in SUBSET S |-> g[s]]
  <2>1. {} \in SUBSET S
    OBVIOUS
  <2> QED  BY <1>5, <2>1
<1> QED  BY <1>6, <1>7 DEF IsFold

\* The same for the turns of a loop over a list.
LEMMA Turns ==
  ASSUME NEW n \in Nat, NEW i \in 1..n
  PROVE  /\ 1..i \in SUBSET (1..n) /\ 1..i # {} /\ Max(1..i) = i
         /\ (1..i) \ {i} = 1..(i - 1)
<1>1. 1..i \in SUBSET (0..n) /\ 1..i \in SUBSET (1..n) /\ i \in 1..i
  OBVIOUS
<1>2. Max(1..i) \in 1..i /\ i <= Max(1..i)
  BY <1>1, MaxOfNaturals
<1>3. \A x \in 1..i : i <= x => x = i
  OBVIOUS
<1>4. Max(1..i) = i
  BY <1>2, <1>3
<1>5. (1..i) \ {i} = 1..(i - 1)
  OBVIOUS
<1> QED  BY <1>1, <1>4, <1>5

-----------------------------------------------------------------------------
(* The loops of the module, turn by turn *)

Lists == Seq(DirectSelectiveAckRange)

\* A range has numbers.
LEMMA RangeType ==
  ASSUME NEW r \in DirectSelectiveAckRange
  PROVE  /\ r.start \in 0..MaxSequence /\ r.end \in 0..MaxSequence
         /\ r.start \in Nat /\ r.end \in Nat
  BY RangeAssumption DEF DirectSelectiveAckRange, Sequence

\* The last of some ranges, and the others.
LEMMA FrontAndLast ==
  ASSUME NEW list \in Lists, list # <<>>
  PROVE  /\ Len(list) \in Nat \ {0}
         /\ Front(list) \in Lists /\ Len(Front(list)) = Len(list) - 1
         /\ \A i \in 1..(Len(list) - 1) : Front(list)[i] = list[i]
         /\ Last(list) = list[Len(list)] /\ Last(list) \in DirectSelectiveAckRange
<1>1. Len(list) \in Nat \ {0} /\ \A i \in 1..Len(list) : list[i] \in DirectSelectiveAckRange
  BY EmptySeq DEF Lists
<1> DEFINE n == Len(list) - 1
<1>2. 1 \in Int /\ n \in Int /\ \A i \in 1..n : list[i] \in DirectSelectiveAckRange
  BY <1>1
<1> HIDE DEF n
<1>3. /\ SubSeq(list, 1, n) \in Lists
      /\ Len(SubSeq(list, 1, n)) = IF 1 <= n THEN n - 1 + 1 ELSE 0
      /\ \A i \in 1..(n - 1 + 1) : SubSeq(list, 1, n)[i] = list[1 + i - 1]
  BY <1>2, SubSeqProperties DEF Lists
<1>4. Front(list) = SubSeq(list, 1, n) /\ Last(list) = list[Len(list)]
  BY DEF Front, Last, n
<1>5. n - 1 + 1 = n /\ \A i \in 1..n : 1 + i - 1 = i
  BY <1>2
<1>6. Len(list) \in Nat \ {0} /\ n = Len(list) - 1
  BY <1>1 DEF n
<1> QED  BY <1>1, <1>3, <1>4, <1>5, <1>6

\* What the turns of the loops return.
LEMMA KeepValidType ==
  ASSUME NEW kept \in Lists, NEW r \in DirectSelectiveAckRange
  PROVE  KeepValid(kept, r) \in Lists
  BY DEF KeepValid, Lists

LEMMA MergeIntoType ==
  ASSUME NEW merged \in Lists, NEW r \in DirectSelectiveAckRange
  PROVE  MergeInto(merged, r) \in Lists
<1>1. Append(merged, r) \in Lists
  BY DEF Lists
<1>2. ASSUME merged # <<>>
      PROVE  Front(merged) \o <<Range2(Last(merged).start, Max({Last(merged).end, r.end}))>> \in Lists
  <2>1. /\ Front(merged) \in Lists
        /\ Last(merged).start \in 0..MaxSequence /\ Last(merged).end \in 0..MaxSequence
        /\ r.end \in 0..MaxSequence /\ Last(merged).end \in Nat /\ r.end \in Nat
    BY <1>2, FrontAndLast, RangeType
  <2>2. Max({Last(merged).end, r.end}) \in 0..MaxSequence
    BY <2>1, MaxOfTwo
  <2>3. Range2(Last(merged).start, Max({Last(merged).end, r.end})) \in DirectSelectiveAckRange
    BY <2>1, <2>2 DEF Range2, DirectSelectiveAckRange, Sequence
  <2> QED  BY <2>1, <2>3 DEF Lists
<1> QED  BY <1>1, <1>2 DEF MergeInto

LEMMA TrimIntoType ==
  ASSUME NEW next \in Sequence, NEW trimmed \in Lists, NEW r \in DirectSelectiveAckRange
  PROVE  TrimInto(trimmed, r, next) \in Lists
<1>1. /\ r.start \in 0..MaxSequence /\ r.end \in 0..MaxSequence /\ r.start \in Nat
      /\ next \in 0..MaxSequence /\ next \in Nat
  BY RangeAssumption, RangeType DEF Sequence
<1>2. Max({r.start, next}) \in 0..MaxSequence
  BY <1>1, MaxOfTwo
<1>3. Range2(Max({r.start, next}), r.end) \in DirectSelectiveAckRange
  BY <1>1, <1>2 DEF Range2, DirectSelectiveAckRange, Sequence
<1> QED  BY <1>3 DEF TrimInto, Lists

\* A range goes behind place k of the sorted list: everything up to there starts no later,
\* everything behind no earlier.
LEMMA InsertPlace ==
  ASSUME NEW sorted \in Lists, NEW r \in DirectSelectiveAckRange
  PROVE  \E k \in 0..Len(sorted) :
            /\ InsertSorted(sorted, r) = InsertAt(sorted, k + 1, r)
            /\ k = 0 \/ sorted[k].start <= r.start
            /\ \A i \in (k + 1)..Len(sorted) : r.start <= sorted[i].start
<1> DEFINE earlier == {i \in DOMAIN sorted : Before(sorted[i], r)}
           k == Max({0} \cup earlier)
<1>1. /\ Len(sorted) \in Nat /\ DOMAIN sorted = 1..Len(sorted)
      /\ \A i \in 1..Len(sorted) : sorted[i] \in DirectSelectiveAckRange
  BY DEF Lists
<1>2. {0} \cup earlier \in SUBSET (0..Len(sorted)) /\ {0} \cup earlier # {}
  BY <1>1
<1>3. k \in {0} \cup earlier /\ \A i \in {0} \cup earlier : i <= k
  <2> HIDE DEF earlier
  <2> QED  BY <1>1, <1>2, MaxOfNaturals
<1>4. k \in 0..Len(sorted) /\ (k = 0 \/ k \in earlier)
  <2> HIDE DEF k, earlier
  <2> QED  BY <1>1, <1>2, <1>3
<1>5. InsertSorted(sorted, r) = InsertAt(sorted, k + 1, r)
  BY DEF InsertSorted
<1> HIDE DEF k
<1>6. k = 0 \/ sorted[k].start <= r.start
  <2> SUFFICES ASSUME k \in earlier PROVE sorted[k].start <= r.start
    BY <1>4
  <2>1. sorted[k] \in DirectSelectiveAckRange /\ Before(sorted[k], r)
    BY <1>1
  <2> QED  BY <2>1, RangeType DEF Before
<1>7. ASSUME NEW i \in (k + 1)..Len(sorted) PROVE r.start <= sorted[i].start
  <2>1. i \in 1..Len(sorted) /\ i > k
    BY <1>1, <1>4
  <2>2. i \notin earlier
    <3> HIDE DEF earlier
    <3> QED  BY <1>3, <1>4, <2>1
  <2>3. ~Before(sorted[i], r) /\ sorted[i] \in DirectSelectiveAckRange
    BY <1>1, <2>1, <2>2
  <2> QED  BY <2>3, RangeType DEF Before
<1> QED  BY <1>4, <1>5, <1>6, <1>7

\* Inserting an element into a list.
LEMMA Inserted ==
  ASSUME NEW list \in Lists, NEW r \in DirectSelectiveAckRange, NEW k \in 0..Len(list)
  PROVE  /\ InsertAt(list, k + 1, r) \in Lists
         /\ Len(InsertAt(list, k + 1, r)) = Len(list) + 1
         /\ \A i \in 1..k : InsertAt(list, k + 1, r)[i] = list[i]
         /\ InsertAt(list, k + 1, r)[k + 1] = r
         /\ \A i \in (k + 2)..(Len(list) + 1) : InsertAt(list, k + 1, r)[i] = list[i - 1]
<1> DEFINE left == SubSeq(list, 1, k)
           right == SubSeq(list, k + 1, Len(list))
<1>1. Len(list) \in Nat /\ \A i \in 1..Len(list) : list[i] \in DirectSelectiveAckRange
  BY DEF Lists
<1>2. /\ left \in Lists /\ Len(left) = k
      /\ \A i \in 1..k : left[i] = list[i]
  BY <1>1, SubSeqProperties DEF Lists
<1>3. /\ right \in Lists /\ Len(right) = Len(list) - k
      /\ \A i \in 1..(Len(list) - k) : right[i] = list[k + i]
  BY <1>1, SubSeqProperties DEF Lists
<1>4. InsertAt(list, k + 1, r) = left \o <<r>> \o right
  <2>1. (k + 1) - 1 = k
    OBVIOUS
  <2> QED  BY <2>1 DEF InsertAt
<1> HIDE DEF left, right
<1>5. /\ <<r>> \in Lists /\ Len(<<r>>) = 1 /\ <<r>>[1] = r
  BY DEF Lists
<1> DEFINE start == left \o <<r>>
<1>6. /\ start \in Lists /\ Len(start) = k + 1
      /\ \A i \in 1..k : start[i] = list[i]
      /\ start[k + 1] = r
  <2>1. /\ start \in Lists /\ Len(start) = k + 1
        /\ \A i \in 1..(k + 1) : start[i] = IF i <= k THEN left[i] ELSE <<r>>[i - k]
    BY <1>2, <1>5, ConcatProperties DEF Lists
  <2> QED  BY <1>2, <1>5, <2>1
<1> HIDE DEF start
<1>7. /\ start \o right \in Lists /\ Len(start \o right) = Len(list) + 1
      /\ \A i \in 1..(Len(list) + 1) :
            (start \o right)[i] = IF i <= k + 1 THEN start[i] ELSE right[i - (k + 1)]
  <2>1. Len(start) + Len(right) = Len(list) + 1
    BY <1>1, <1>3, <1>6
  <2> QED  BY <1>3, <1>6, <2>1, ConcatProperties DEF Lists
<1>8. ASSUME NEW i \in (k + 2)..(Len(list) + 1)
      PROVE  (start \o right)[i] = list[i - 1]
  <2>1. i \in 1..(Len(list) + 1) /\ ~(i <= k + 1) /\ i - (k + 1) \in 1..(Len(list) - k)
        /\ k + (i - (k + 1)) = i - 1
    BY <1>1
  <2> QED  BY <1>3, <1>7, <2>1
<1> DEFINE whole == start \o right
<1>9. InsertAt(list, k + 1, r) = whole
  BY <1>4 DEF start
<1>10. /\ whole \in Lists /\ Len(whole) = Len(list) + 1
       /\ \A i \in 1..(Len(list) + 1) : i <= k + 1 => whole[i] = start[i]
       /\ \A i \in (k + 2)..(Len(list) + 1) : whole[i] = list[i - 1]
  BY <1>7, <1>8
<1> HIDE DEF whole
<1>11. \A i \in 1..(k + 1) : i \in 1..(Len(list) + 1) /\ i <= k + 1
  BY <1>1
<1>12. (\A i \in 1..k : i \in 1..(k + 1)) /\ k + 1 \in 1..(k + 1)
  BY <1>1
<1>13. (\A i \in 1..k : whole[i] = list[i]) /\ whole[k + 1] = r
  BY <1>6, <1>10, <1>11, <1>12
<1> QED  BY <1>9, <1>10, <1>13

LEMMA InsertSortedType ==
  ASSUME NEW sorted \in Lists, NEW r \in DirectSelectiveAckRange
  PROVE  InsertSorted(sorted, r) \in Lists
  BY InsertPlace, Inserted

LEMMA CoversSize ==
  ASSUME NEW r \in DirectSelectiveAckRange
  PROVE  IsFiniteSet(Covers(r)) /\ Cardinality(Covers(r)) \in Nat
<1>1. r.start \in Int /\ r.end \in Int
  BY RangeType
<1> QED  BY <1>1, FS_Interval, FS_CardinalityType DEF Covers

\* The filter of observe_ranges.
LEMMA KeepTurns ==
  ASSUME NEW list \in Lists, NEW known \in Lists
  PROVE  \E f : /\ f[0] = known
                /\ \A i \in 1..Len(list) : f[i] = KeepValid(f[i - 1], list[i])
                /\ FoldLeft(KeepValid, known, list) = f[Len(list)]
<1> DEFINE n == Len(list)
           Eqn(it) == it = [s \in SUBSET DOMAIN list |->
                              IF s = {} THEN known
                              ELSE KeepValid(it[s \ {Max(s)}], list[Max(s)])]
           c == CHOOSE it : Eqn(it)
           f == [i \in 0..n |-> c[1..i]]
<1>1. n \in Nat /\ DOMAIN list = 1..n /\ list \in [1..n -> DirectSelectiveAckRange]
  BY DEF Lists
<1>2. \E it : Eqn(it)
  <2> DEFINE step == [p \in Lists \X DirectSelectiveAckRange |-> KeepValid(p[1], p[2])]
  <2>1. step \in [Lists \X DirectSelectiveAckRange -> Lists]
    BY KeepValidType
  <2>2. LoopFits(n, 1..n, Lists, DirectSelectiveAckRange, list, known, step)
    <3>1. known \in Lists /\ 1..n \in SUBSET (0..n)
      BY <1>1 DEF Lists
    <3> HIDE DEF step, n
    <3> QED  BY <1>1, <2>1, <3>1 DEF LoopFits
  <2>3. PICK g : IsFold(g, 1..n, Lists, DirectSelectiveAckRange, list, known, step)
    <3> HIDE DEF step, n
    <3> QED  BY <2>2, FoldExists
  <2>4. Eqn(g)
    BY <1>1, <2>3 DEF IsFold
  <2> QED  BY <2>4
<1>3. Eqn(c)
  BY <1>2
<1>4. FoldLeft(KeepValid, known, list) = c[DOMAIN list]
  BY DEF FoldLeft, MapThenFoldSet
<1> HIDE DEF c
<1>5. ASSUME NEW i \in 1..n PROVE c[1..i] = KeepValid(c[1..(i - 1)], list[i])
  <2>1. /\ 1..i \in SUBSET (1..n) /\ 1..i # {} /\ Max(1..i) = i
        /\ (1..i) \ {i} = 1..(i - 1)
    BY <1>1, Turns
  <2> QED  BY <1>1, <1>3, <2>1
<1>6. 1..0 = {} /\ c[{}] = known
  BY <1>3
<1>7. \A i \in 0..n : f[i] = c[1..i]
  OBVIOUS
<1>8. n \in 0..n /\ 0 \in 0..n /\ \A i \in 1..n : i \in 0..n /\ i - 1 \in 0..n
  BY <1>1
<1> HIDE DEF f
<1> QED  BY <1>1, <1>4, <1>5, <1>6, <1>7, <1>8

\* The sort.
LEMMA SortTurns ==
  ASSUME NEW list \in Lists
  PROVE  \E f : /\ f[0] = <<>>
                /\ \A i \in 1..Len(list) : f[i] = InsertSorted(f[i - 1], list[i])
                /\ FoldLeft(InsertSorted, <<>>, list) = f[Len(list)]
<1> DEFINE n == Len(list)
           Eqn(it) == it = [s \in SUBSET DOMAIN list |->
                              IF s = {} THEN <<>>
                              ELSE InsertSorted(it[s \ {Max(s)}], list[Max(s)])]
           c == CHOOSE it : Eqn(it)
           f == [i \in 0..n |-> c[1..i]]
<1>1. n \in Nat /\ DOMAIN list = 1..n /\ list \in [1..n -> DirectSelectiveAckRange]
  BY DEF Lists
<1>2. \E it : Eqn(it)
  <2> DEFINE step == [p \in Lists \X DirectSelectiveAckRange |-> InsertSorted(p[1], p[2])]
  <2>1. step \in [Lists \X DirectSelectiveAckRange -> Lists]
    BY InsertSortedType
  <2>2. LoopFits(n, 1..n, Lists, DirectSelectiveAckRange, list, <<>>, step)
    <3>1. <<>> \in Lists /\ 1..n \in SUBSET (0..n)
      BY <1>1 DEF Lists
    <3> HIDE DEF step, n
    <3> QED  BY <1>1, <2>1, <3>1 DEF LoopFits
  <2>3. PICK g : IsFold(g, 1..n, Lists, DirectSelectiveAckRange, list, <<>>, step)
    <3> HIDE DEF step, n
    <3> QED  BY <2>2, FoldExists
  <2>4. Eqn(g)
    BY <1>1, <2>3 DEF IsFold
  <2> QED  BY <2>4
<1>3. Eqn(c)
  BY <1>2
<1>4. FoldLeft(InsertSorted, <<>>, list) = c[DOMAIN list]
  BY DEF FoldLeft, MapThenFoldSet
<1> HIDE DEF c
<1>5. ASSUME NEW i \in 1..n PROVE c[1..i] = InsertSorted(c[1..(i - 1)], list[i])
  <2>1. /\ 1..i \in SUBSET (1..n) /\ 1..i # {} /\ Max(1..i) = i
        /\ (1..i) \ {i} = 1..(i - 1)
    BY <1>1, Turns
  <2> QED  BY <1>1, <1>3, <2>1
<1>6. 1..0 = {} /\ c[{}] = <<>>
  BY <1>3
<1>7. \A i \in 0..n : f[i] = c[1..i]
  OBVIOUS
<1>8. n \in 0..n /\ 0 \in 0..n /\ \A i \in 1..n : i \in 0..n /\ i - 1 \in 0..n
  BY <1>1
<1> HIDE DEF f
<1> QED  BY <1>1, <1>4, <1>5, <1>6, <1>7, <1>8

\* The merge loop.
LEMMA MergeTurns ==
  ASSUME NEW list \in Lists
  PROVE  \E f : /\ f[0] = <<>>
                /\ \A i \in 1..Len(list) : f[i] = MergeInto(f[i - 1], list[i])
                /\ FoldLeft(MergeInto, <<>>, list) = f[Len(list)]
<1> DEFINE n == Len(list)
           Eqn(it) == it = [s \in SUBSET DOMAIN list |->
                              IF s = {} THEN <<>>
                              ELSE MergeInto(it[s \ {Max(s)}], list[Max(s)])]
           c == CHOOSE it : Eqn(it)
           f == [i \in 0..n |-> c[1..i]]
<1>1. n \in Nat /\ DOMAIN list = 1..n /\ list \in [1..n -> DirectSelectiveAckRange]
  BY DEF Lists
<1>2. \E it : Eqn(it)
  <2> DEFINE step == [p \in Lists \X DirectSelectiveAckRange |-> MergeInto(p[1], p[2])]
  <2>1. step \in [Lists \X DirectSelectiveAckRange -> Lists]
    BY MergeIntoType
  <2>2. LoopFits(n, 1..n, Lists, DirectSelectiveAckRange, list, <<>>, step)
    <3>1. <<>> \in Lists /\ 1..n \in SUBSET (0..n)
      BY <1>1 DEF Lists
    <3> HIDE DEF step, n
    <3> QED  BY <1>1, <2>1, <3>1 DEF LoopFits
  <2>3. PICK g : IsFold(g, 1..n, Lists, DirectSelectiveAckRange, list, <<>>, step)
    <3> HIDE DEF step, n
    <3> QED  BY <2>2, FoldExists
  <2>4. Eqn(g)
    BY <1>1, <2>3 DEF IsFold
  <2> QED  BY <2>4
<1>3. Eqn(c)
  BY <1>2
<1>4. FoldLeft(MergeInto, <<>>, list) = c[DOMAIN list]
  BY DEF FoldLeft, MapThenFoldSet
<1> HIDE DEF c
<1>5. ASSUME NEW i \in 1..n PROVE c[1..i] = MergeInto(c[1..(i - 1)], list[i])
  <2>1. /\ 1..i \in SUBSET (1..n) /\ 1..i # {} /\ Max(1..i) = i
        /\ (1..i) \ {i} = 1..(i - 1)
    BY <1>1, Turns
  <2> QED  BY <1>1, <1>3, <2>1
<1>6. 1..0 = {} /\ c[{}] = <<>>
  BY <1>3
<1>7. \A i \in 0..n : f[i] = c[1..i]
  OBVIOUS
<1>8. n \in 0..n /\ 0 \in 0..n /\ \A i \in 1..n : i \in 0..n /\ i - 1 \in 0..n
  BY <1>1
<1> HIDE DEF f
<1> QED  BY <1>1, <1>4, <1>5, <1>6, <1>7, <1>8

\* The loop of advance_cumulative_ack.
LEMMA TrimTurns ==
  ASSUME NEW list \in Lists, NEW next \in Sequence
  PROVE  \E f : /\ f[0] = <<>>
                /\ \A i \in 1..Len(list) : f[i] = TrimInto(f[i - 1], list[i], next)
                /\ AdvanceCumulativeAck(list, next) = f[Len(list)]
<1> DEFINE n == Len(list)
           Eqn(it) == it = [s \in SUBSET DOMAIN list |->
                              IF s = {} THEN <<>>
                              ELSE TrimInto(it[s \ {Max(s)}], list[Max(s)], next)]
           c == CHOOSE it : Eqn(it)
           f == [i \in 0..n |-> c[1..i]]
<1>1. n \in Nat /\ DOMAIN list = 1..n /\ list \in [1..n -> DirectSelectiveAckRange]
  BY DEF Lists
<1>2. \E it : Eqn(it)
  <2> DEFINE step == [p \in Lists \X DirectSelectiveAckRange |-> TrimInto(p[1], p[2], next)]
  <2>1. step \in [Lists \X DirectSelectiveAckRange -> Lists]
    BY TrimIntoType
  <2>2. LoopFits(n, 1..n, Lists, DirectSelectiveAckRange, list, <<>>, step)
    <3>1. <<>> \in Lists /\ 1..n \in SUBSET (0..n)
      BY <1>1 DEF Lists
    <3> HIDE DEF step, n
    <3> QED  BY <1>1, <2>1, <3>1 DEF LoopFits
  <2>3. PICK g : IsFold(g, 1..n, Lists, DirectSelectiveAckRange, list, <<>>, step)
    <3> HIDE DEF step, n
    <3> QED  BY <2>2, FoldExists
  <2>4. Eqn(g)
    BY <1>1, <2>3 DEF IsFold
  <2> QED  BY <2>4
<1>3. Eqn(c)
  BY <1>2
<1>4. AdvanceCumulativeAck(list, next) = c[DOMAIN list]
  BY DEF AdvanceCumulativeAck, FoldLeft, MapThenFoldSet
<1> HIDE DEF c
<1>5. ASSUME NEW i \in 1..n PROVE c[1..i] = TrimInto(c[1..(i - 1)], list[i], next)
  <2>1. /\ 1..i \in SUBSET (1..n) /\ 1..i # {} /\ Max(1..i) = i
        /\ (1..i) \ {i} = 1..(i - 1)
    BY <1>1, Turns
  <2> QED  BY <1>1, <1>3, <2>1
<1>6. 1..0 = {} /\ c[{}] = <<>>
  BY <1>3
<1>7. \A i \in 0..n : f[i] = c[1..i]
  OBVIOUS
<1>8. n \in 0..n /\ 0 \in 0..n /\ \A i \in 1..n : i \in 0..n /\ i - 1 \in 0..n
  BY <1>1
<1> HIDE DEF f
<1> QED  BY <1>1, <1>4, <1>5, <1>6, <1>7, <1>8

\* The sum of covered_sequence_count.
LEMMA CountTurns ==
  ASSUME NEW list \in Lists
  PROVE  \E f : /\ f[0] = 0
                /\ \A i \in 1..Len(list) : f[i] = f[i - 1] + Cardinality(Covers(list[i]))
                /\ CoveredCount(list) = f[Len(list)]
<1> DEFINE n == Len(list)
           Eqn(it) == it = [s \in SUBSET DOMAIN list |->
                              IF s = {} THEN 0
                              ELSE it[s \ {Max(s)}] + Cardinality(Covers(list[Max(s)]))]
           c == CHOOSE it : Eqn(it)
           f == [i \in 0..n |-> c[1..i]]
<1>1. n \in Nat /\ DOMAIN list = 1..n /\ list \in [1..n -> DirectSelectiveAckRange]
  BY DEF Lists
<1>2. \E it : Eqn(it)
  <2> DEFINE step == [p \in Nat \X DirectSelectiveAckRange |-> p[1] + Cardinality(Covers(p[2]))]
  <2>1. step \in [Nat \X DirectSelectiveAckRange -> Nat]
    BY CoversSize
  <2>2. LoopFits(n, 1..n, Nat, DirectSelectiveAckRange, list, 0, step)
    <3>1. 0 \in Nat /\ 1..n \in SUBSET (0..n)
      BY <1>1 DEF Lists
    <3> HIDE DEF step, n
    <3> QED  BY <1>1, <2>1, <3>1 DEF LoopFits
  <2>3. PICK g : IsFold(g, 1..n, Nat, DirectSelectiveAckRange, list, 0, step)
    <3> HIDE DEF step, n
    <3> QED  BY <2>2, FoldExists
  <2>4. Eqn(g)
    BY <1>1, <2>3 DEF IsFold
  <2> QED  BY <2>4
<1>3. Eqn(c)
  BY <1>2
<1>4. CoveredCount(list) = c[DOMAIN list]
  BY DEF CoveredCount, FoldLeft, MapThenFoldSet
<1> HIDE DEF c
<1>5. ASSUME NEW i \in 1..n PROVE c[1..i] = c[1..(i - 1)] + Cardinality(Covers(list[i]))
  <2>1. /\ 1..i \in SUBSET (1..n) /\ 1..i # {} /\ Max(1..i) = i
        /\ (1..i) \ {i} = 1..(i - 1)
    BY <1>1, Turns
  <2> QED  BY <1>1, <1>3, <2>1
<1>6. 1..0 = {} /\ c[{}] = 0
  BY <1>3
<1>7. \A i \in 0..n : f[i] = c[1..i]
  OBVIOUS
<1>8. n \in 0..n /\ 0 \in 0..n /\ \A i \in 1..n : i \in 0..n /\ i - 1 \in 0..n
  BY <1>1
<1> HIDE DEF f
<1> QED  BY <1>1, <1>4, <1>5, <1>6, <1>7, <1>8

-----------------------------------------------------------------------------
(* What lists of ranges cover *)

\* The sequence numbers in the first i ranges.
Reported(list, i) == UNION {Covers(list[j]) : j \in 1..i}

LEMMA ReportedNext ==
  ASSUME NEW list, NEW i \in Nat \ {0}
  PROVE  Reported(list, i) = Reported(list, i - 1) \cup Covers(list[i])
<1>1. 1..i = (1..(i - 1)) \cup {i}
  OBVIOUS
<1> QED  BY <1>1 DEF Reported

LEMMA ReportedNone == \A list : Reported(list, 0) = {}
  BY DEF Reported

LEMMA ReportedAll ==
  ASSUME NEW list \in Lists
  PROVE  CoverOf(list) = Reported(list, Len(list)) /\ Len(list) \in Nat
  BY DEF Reported, CoverOf, Lists

LEMMA CoverAppend ==
  ASSUME NEW list \in Lists, NEW r \in DirectSelectiveAckRange
  PROVE  CoverOf(Append(list, r)) = CoverOf(list) \cup Covers(r)
<1>1. /\ DOMAIN Append(list, r) = 1..(Len(list) + 1) /\ DOMAIN list = 1..Len(list)
      /\ Len(list) \in Nat
      /\ \A i \in 1..Len(list) : Append(list, r)[i] = list[i]
      /\ Append(list, r)[Len(list) + 1] = r
  BY AppendProperties, LenProperties DEF Lists
<1>2. 1..(Len(list) + 1) = (1..Len(list)) \cup {Len(list) + 1}
  BY <1>1
<1>3. ASSUME NEW x PROVE x \in CoverOf(Append(list, r)) <=> x \in CoverOf(list) \cup Covers(r)
  BY <1>1, <1>2 DEF CoverOf
<1> QED  BY <1>3

\* A list is its front, with its last range behind.
LEMMA Rebuilt ==
  ASSUME NEW list \in Lists, list # <<>>
  PROVE  list = Append(Front(list), Last(list))
<1>1. /\ Len(list) \in Nat \ {0} /\ Front(list) \in Lists /\ Len(Front(list)) = Len(list) - 1
      /\ \A i \in 1..(Len(list) - 1) : Front(list)[i] = list[i]
      /\ Last(list) = list[Len(list)] /\ Last(list) \in DirectSelectiveAckRange
  BY FrontAndLast
<1> DEFINE again == Append(Front(list), Last(list))
<1>2. /\ again \in Lists /\ Len(again) = Len(list)
      /\ \A i \in 1..(Len(list) - 1) : again[i] = list[i]
      /\ again[Len(list)] = list[Len(list)]
  BY <1>1, AppendProperties DEF Lists
<1> HIDE DEF again
<1>3. \A i \in 1..Len(list) : list[i] = again[i]
  <2>1. \A i \in 1..Len(list) : i \in 1..(Len(list) - 1) \/ i = Len(list)
    BY <1>1
  <2> QED  BY <1>2, <2>1
<1>4. list = again
  BY <1>2, <1>3, SeqEqual DEF Lists
<1> QED  BY <1>4 DEF again

LEMMA CoverFront ==
  ASSUME NEW list \in Lists, list # <<>>
  PROVE  CoverOf(list) = CoverOf(Front(list)) \cup Covers(Last(list))
  BY FrontAndLast, Rebuilt, CoverAppend

\* A range that begins behind the end of the last one, with a gap, may be appended.
LEMMA CanonicalAppend ==
  ASSUME NEW list \in Lists, Canonical(list), NEW r \in DirectSelectiveAckRange,
         r.start <= r.end, list # <<>> => Last(list).end + 1 < r.start
  PROVE  Canonical(Append(list, r))
<1> DEFINE longer == Append(list, r)
<1>1. /\ longer \in Lists /\ Len(longer) = Len(list) + 1 /\ Len(list) \in Nat
      /\ DOMAIN longer = 1..(Len(list) + 1) /\ DOMAIN list = 1..Len(list)
      /\ \A i \in 1..Len(list) : longer[i] = list[i]
      /\ longer[Len(list) + 1] = r
  BY AppendProperties, LenProperties DEF Lists
<1> HIDE DEF longer
<1>2. ASSUME NEW i \in DOMAIN longer PROVE longer[i].start <= longer[i].end
  <2>1. i \in 1..Len(list) \/ i = Len(list) + 1
    BY <1>1
  <2> QED  BY <1>1, <2>1 DEF Canonical
<1>3. ASSUME NEW i \in 1..(Len(longer) - 1) PROVE longer[i].end + 1 < longer[i + 1].start
  <2>1. CASE i \in 1..(Len(list) - 1)
    <3>1. i \in 1..Len(list) /\ i + 1 \in 1..Len(list)
      BY <1>1, <2>1
    <3> QED  BY <1>1, <2>1, <3>1 DEF Canonical
  <2>2. CASE i = Len(list)
    <3>1. list # <<>> /\ i \in 1..Len(list)
      BY <1>1, <2>2
    <3>2. longer[i] = Last(list) /\ longer[i + 1] = r
      BY <1>1, <2>2, <3>1 DEF Last
    <3> QED  BY <3>1, <3>2
  <2>3. i \in 1..(Len(list) - 1) \/ i = Len(list)
    <3> DEFINE n == Len(list)
    <3>1. n \in Nat /\ Len(longer) - 1 = n
      BY <1>1
    <3>2. i \in 1..n
      BY <3>1
    <3> HIDE DEF n
    <3>3. i \in 1..(n - 1) \/ i = n
      BY <3>1, <3>2
    <3> QED  BY <3>3 DEF n
  <2> QED  BY <2>1, <2>2, <2>3
<1>4. Canonical(longer)
  BY <1>2, <1>3 DEF Canonical
<1> QED  BY <1>4 DEF longer

LEMMA CanonicalFront ==
  ASSUME NEW list \in Lists, Canonical(list), list # <<>>
  PROVE  /\ Canonical(Front(list))
         /\ Last(list).start <= Last(list).end
         /\ Front(list) # <<>> => Last(Front(list)).end + 1 < Last(list).start
<1> DEFINE n == Len(list)
<1>1. /\ n \in Nat \ {0} /\ Front(list) \in Lists /\ Len(Front(list)) = n - 1
      /\ \A i \in 1..(n - 1) : Front(list)[i] = list[i]
      /\ Last(list) = list[n] /\ DOMAIN list = 1..n /\ DOMAIN Front(list) = 1..(n - 1)
  BY FrontAndLast, LenProperties DEF Lists
<1>2. /\ \A i \in 1..n : list[i].start <= list[i].end
      /\ \A i \in 1..(n - 1) : list[i].end + 1 < list[i + 1].start
  BY <1>1 DEF Canonical
<1> HIDE DEF n
<1>3. Canonical(Front(list))
  <2>1. \A i \in 1..(n - 1) : i \in 1..n
    BY <1>1
  <2>2. \A i \in 1..(n - 1 - 1) : i \in 1..(n - 1) /\ i + 1 \in 1..(n - 1)
    BY <1>1
  <2> QED  BY <1>1, <1>2, <2>1, <2>2 DEF Canonical
<1>4. Last(list).start <= Last(list).end
  BY <1>1, <1>2
<1>5. ASSUME Front(list) # <<>> PROVE Last(Front(list)).end + 1 < Last(list).start
  <2>1. Len(Front(list)) \in Nat \ {0} /\ Last(Front(list)) = Front(list)[Len(Front(list))]
    BY <1>1, <1>5, FrontAndLast
  <2>2. n - 1 \in 1..(n - 1) /\ (n - 1) + 1 = n
    BY <1>1, <2>1
  <2>3. Last(Front(list)) = list[n - 1]
    BY <1>1, <2>1, <2>2
  <2> QED  BY <1>1, <1>2, <2>2, <2>3
<1> QED  BY <1>3, <1>4, <1>5

-----------------------------------------------------------------------------
(* observe_ranges *)

AllValid(list) == \A i \in 1..Len(list) : list[i].start <= list[i].end

Ascending(list) ==
    \A i, j \in 1..Len(list) : i <= j => list[i].start <= list[j].start

\* The filter keeps what the ranges cover: inverted ones cover nothing.
LEMMA Kept ==
  ASSUME NEW known \in Lists, AllValid(known), NEW list \in Lists
  PROVE  LET kept == FoldLeft(KeepValid, known, list)
         IN  kept \in Lists /\ AllValid(kept) /\ CoverOf(kept) = CoverOf(known) \cup CoverOf(list)
<1>1. PICK f : /\ f[0] = known
               /\ \A i \in 1..Len(list) : f[i] = KeepValid(f[i - 1], list[i])
               /\ FoldLeft(KeepValid, known, list) = f[Len(list)]
  BY KeepTurns
<1>2. /\ Len(list) \in Nat /\ CoverOf(list) = Reported(list, Len(list))
      /\ \A i \in 1..Len(list) : list[i] \in DirectSelectiveAckRange
  BY ReportedAll DEF Lists
<1> DEFINE Inv(i) == /\ f[i] \in Lists /\ AllValid(f[i])
                     /\ CoverOf(f[i]) = CoverOf(known) \cup Reported(list, i)
           G == {i \in Nat : Inv(i)}
<1>3. 0 \in G
  BY <1>1, ReportedNone
<1>4. ASSUME NEW i \in 0..(Len(list) - 1), i \in G PROVE i + 1 \in G
  <2> DEFINE r == list[i + 1]
             l == f[i]
  <2>1. /\ i + 1 \in 1..Len(list) /\ i + 1 - 1 = i /\ i + 1 \in Nat \ {0}
        /\ r \in DirectSelectiveAckRange /\ f[i + 1] = KeepValid(l, r)
        /\ l \in Lists /\ AllValid(l) /\ CoverOf(l) = CoverOf(known) \cup Reported(list, i)
        /\ r.start \in Int /\ r.end \in Int
    BY <1>1, <1>2, <1>4, RangeType
  <2>2. Reported(list, i + 1) = Reported(list, i) \cup Covers(r)
    BY <2>1, ReportedNext
  <2> HIDE DEF r, l
  <2>3. CASE r.start <= r.end
    <3>1. f[i + 1] = Append(l, r)
      BY <2>1, <2>3 DEF KeepValid
    <3>2. /\ Append(l, r) \in Lists /\ Len(Append(l, r)) = Len(l) + 1 /\ Len(l) \in Nat
          /\ \A j \in 1..Len(l) : Append(l, r)[j] = l[j]
          /\ Append(l, r)[Len(l) + 1] = r
      BY <2>1, AppendProperties, LenProperties DEF Lists
    <3>3. \A j \in 1..(Len(l) + 1) : j \in 1..Len(l) \/ j = Len(l) + 1
      BY <3>2
    <3>4. AllValid(Append(l, r))
      BY <2>1, <2>3, <3>2, <3>3 DEF AllValid
    <3>5. CoverOf(Append(l, r)) = CoverOf(l) \cup Covers(r)
      BY <2>1, CoverAppend
    <3> QED  BY <2>1, <2>2, <3>1, <3>2, <3>4, <3>5
  <2>4. CASE ~(r.start <= r.end)
    <3>1. f[i + 1] = l
      BY <2>1, <2>4 DEF KeepValid
    <3>2. Covers(r) = {}
      BY <2>1, <2>4 DEF Covers
    <3> QED  BY <2>1, <2>2, <3>1, <3>2
  <2> QED  BY <2>3, <2>4
<1>5. Len(list) \in G
  <2> HIDE DEF G
  <2> QED  BY <1>2, <1>3, <1>4, Upwards
<1> QED  BY <1>1, <1>2, <1>5

\* One turn of the sort.
LEMMA InsertKeeps ==
  ASSUME NEW sorted \in Lists, AllValid(sorted), Ascending(sorted),
         NEW r \in DirectSelectiveAckRange, r.start <= r.end
  PROVE  LET longer == InsertSorted(sorted, r)
         IN  /\ longer \in Lists /\ AllValid(longer) /\ Ascending(longer)
             /\ CoverOf(longer) = CoverOf(sorted) \cup Covers(r)
<1> DEFINE n == Len(sorted)
           longer == InsertSorted(sorted, r)
<1>1. /\ n \in Nat /\ \A i \in 1..n : sorted[i] \in DirectSelectiveAckRange
      /\ DOMAIN sorted = 1..n
  BY LenProperties DEF Lists
<1>2. PICK k \in 0..n :
            /\ InsertSorted(sorted, r) = InsertAt(sorted, k + 1, r)
            /\ k = 0 \/ sorted[k].start <= r.start
            /\ \A i \in (k + 1)..n : r.start <= sorted[i].start
  BY InsertPlace
<1>3. /\ longer \in Lists /\ Len(longer) = n + 1
      /\ \A i \in 1..k : longer[i] = sorted[i]
      /\ longer[k + 1] = r
      /\ \A i \in (k + 2)..(n + 1) : longer[i] = sorted[i - 1]
  BY <1>2, Inserted
<1>4. DOMAIN longer = 1..(n + 1)
  BY <1>3, LenProperties DEF Lists
<1> HIDE DEF longer, n
<1>5. \A i \in 1..(n + 1) : i \in 1..k \/ i = k + 1 \/ i \in (k + 2)..(n + 1)
  BY <1>1
<1>6. /\ \A i \in 1..k : i \in 1..n /\ i \in 1..(n + 1)
      /\ k + 1 \in 1..(n + 1)
      /\ \A i \in (k + 2)..(n + 1) : i - 1 \in 1..n /\ i - 1 \in (k + 1)..n
  BY <1>1
<1>7. AllValid(longer)
  BY <1>3, <1>5, <1>6 DEF AllValid, n
<1>8. ASSUME NEW i \in 1..(n + 1), NEW j \in 1..(n + 1), i <= j
      PROVE  longer[i].start <= longer[j].start
  <2>1. \A a, b \in 1..n : a <= b => sorted[a].start <= sorted[b].start
    BY DEF Ascending, n
  <2>2. (\A a \in 1..n : sorted[a].start \in Nat) /\ r.start \in Nat
    BY <1>1, RangeType
  <2>3. ASSUME NEW a \in 1..k PROVE sorted[a].start <= r.start
    <3>1. k \in 1..n /\ a \in 1..n /\ a <= k
      BY <1>1
    <3> QED  BY <1>2, <2>1, <2>2, <3>1
  <2>4. CASE i \in 1..k /\ j \in 1..k
    BY <1>3, <1>6, <1>8, <2>1, <2>4
  <2>5. CASE i \in 1..k /\ j = k + 1
    BY <1>3, <2>3, <2>5
  <2>6. CASE i \in 1..k /\ j \in (k + 2)..(n + 1)
    <3>1. i <= j - 1
      BY <1>1, <2>6
    <3> QED  BY <1>3, <1>6, <2>1, <2>6, <3>1
  <2>7. CASE i = k + 1 /\ j = k + 1
    BY <1>3, <2>2, <2>7
  <2>8. CASE i = k + 1 /\ j \in (k + 2)..(n + 1)
    BY <1>2, <1>3, <1>6, <2>8
  <2>9. CASE i \in (k + 2)..(n + 1) /\ j \in (k + 2)..(n + 1)
    <3>1. i - 1 <= j - 1
      BY <1>8
    <3> QED  BY <1>3, <1>6, <2>1, <2>9, <3>1
  <2>10. \/ i \in 1..k /\ j \in 1..k
         \/ i \in 1..k /\ j = k + 1
         \/ i \in 1..k /\ j \in (k + 2)..(n + 1)
         \/ i = k + 1 /\ j = k + 1
         \/ i = k + 1 /\ j \in (k + 2)..(n + 1)
         \/ i \in (k + 2)..(n + 1) /\ j \in (k + 2)..(n + 1)
    BY <1>1, <1>8
  <2> QED  BY <2>4, <2>5, <2>6, <2>7, <2>8, <2>9, <2>10
<1>9. Ascending(longer)
  BY <1>3, <1>8 DEF Ascending
<1>10. CoverOf(longer) = CoverOf(sorted) \cup Covers(r)
  <2>1. ASSUME NEW x \in CoverOf(longer) PROVE x \in CoverOf(sorted) \cup Covers(r)
    <3>1. PICK i \in 1..(n + 1) : x \in Covers(longer[i])
      BY <1>4 DEF CoverOf
    <3>2. longer[i] = r \/ \E j \in 1..n : longer[i] = sorted[j]
      BY <1>3, <1>5, <1>6
    <3> QED  BY <1>1, <3>1, <3>2 DEF CoverOf
  <2>2. ASSUME NEW j \in 1..n PROVE \E i \in 1..(n + 1) : longer[i] = sorted[j]
    <3>1. CASE j <= k
      <4>1. j \in 1..k
        BY <1>1, <3>1
      <4> QED  BY <1>3, <1>6, <4>1
    <3>2. CASE ~(j <= k)
      <4>1. j + 1 \in (k + 2)..(n + 1) /\ j + 1 - 1 = j /\ j + 1 \in 1..(n + 1)
        BY <1>1, <3>2
      <4>2. longer[j + 1] = sorted[j]
        BY <1>3, <4>1
      <4> QED  BY <4>1, <4>2
    <3> QED  BY <3>1, <3>2
  <2>3. Covers(r) \subseteq CoverOf(longer)
    BY <1>3, <1>4, <1>6 DEF CoverOf
  <2>4. CoverOf(sorted) \subseteq CoverOf(longer)
    BY <1>1, <1>4, <2>2 DEF CoverOf
  <2> QED  BY <2>1, <2>3, <2>4
<1> QED  BY <1>3, <1>7, <1>9, <1>10 DEF longer

\* The sort only orders the ranges.
LEMMA SortedBy ==
  ASSUME NEW list \in Lists, AllValid(list)
  PROVE  LET sorted == FoldLeft(InsertSorted, <<>>, list)
         IN  /\ sorted \in Lists /\ AllValid(sorted) /\ Ascending(sorted)
             /\ CoverOf(sorted) = CoverOf(list)
<1>1. PICK f : /\ f[0] = <<>>
               /\ \A i \in 1..Len(list) : f[i] = InsertSorted(f[i - 1], list[i])
               /\ FoldLeft(InsertSorted, <<>>, list) = f[Len(list)]
  BY SortTurns
<1>2. /\ Len(list) \in Nat /\ CoverOf(list) = Reported(list, Len(list))
      /\ \A i \in 1..Len(list) : list[i] \in DirectSelectiveAckRange
  BY ReportedAll DEF Lists
<1> DEFINE Inv(i) == /\ f[i] \in Lists /\ AllValid(f[i]) /\ Ascending(f[i])
                     /\ CoverOf(f[i]) = Reported(list, i)
           G == {i \in Nat : Inv(i)}
<1>3. 0 \in G
  <2>1. <<>> \in Lists /\ Len(<<>>) = 0 /\ DOMAIN <<>> = {}
    BY DEF Lists
  <2>2. CoverOf(<<>>) = {}
    BY <2>1 DEF CoverOf
  <2>3. AllValid(<<>>) /\ Ascending(<<>>)
    BY <2>1 DEF AllValid, Ascending
  <2>4. Inv(0)
    BY <1>1, <2>1, <2>2, <2>3, ReportedNone
  <2> HIDE DEF Inv
  <2> QED  BY <2>4
<1>4. ASSUME NEW i \in 0..(Len(list) - 1), i \in G PROVE i + 1 \in G
  <2>1. /\ i + 1 \in 1..Len(list) /\ i + 1 - 1 = i /\ i + 1 \in Nat \ {0}
        /\ list[i + 1] \in DirectSelectiveAckRange /\ list[i + 1].start <= list[i + 1].end
        /\ f[i + 1] = InsertSorted(f[i], list[i + 1])
        /\ f[i] \in Lists /\ AllValid(f[i]) /\ Ascending(f[i])
        /\ CoverOf(f[i]) = Reported(list, i)
    BY <1>1, <1>2, <1>4 DEF AllValid
  <2>2. Reported(list, i + 1) = Reported(list, i) \cup Covers(list[i + 1])
    BY <2>1, ReportedNext
  <2> QED  BY <2>1, <2>2, InsertKeeps
<1>5. Len(list) \in G
  <2> HIDE DEF G
  <2> QED  BY <1>2, <1>3, <1>4, Upwards
<1> QED  BY <1>1, <1>2, <1>5

\* One turn of the merge.
LEMMA MergeKeeps ==
  ASSUME NEW merged \in Lists, Canonical(merged),
         NEW r \in DirectSelectiveAckRange, r.start <= r.end,
         merged # <<>> => Last(merged).start <= r.start
  PROVE  LET longer == MergeInto(merged, r)
         IN  /\ longer \in Lists /\ Canonical(longer) /\ longer # <<>>
             /\ CoverOf(longer) = CoverOf(merged) \cup Covers(r)
             /\ Last(longer).start <= r.start
<1>1. r.start \in 0..MaxSequence /\ r.end \in 0..MaxSequence /\ r.start \in Nat /\ r.end \in Nat
  BY RangeType
<1> DEFINE joins == merged # <<>> /\ r.start <= Successor(Last(merged).end)
<1>2. CASE joins
  <2> DEFINE front == Front(merged)
             last == Last(merged)
             top == Max({last.end, r.end})
             both == Range2(last.start, top)
  <2>1. /\ front \in Lists /\ last \in DirectSelectiveAckRange
        /\ last.start \in 0..MaxSequence /\ last.end \in 0..MaxSequence
        /\ last.start \in Nat /\ last.end \in Nat
    BY <1>2, FrontAndLast, RangeType
  <2>2. /\ Canonical(front) /\ last.start <= last.end
        /\ front # <<>> => Last(front).end + 1 < last.start
        /\ CoverOf(merged) = CoverOf(front) \cup Covers(last)
    BY <1>2, CanonicalFront, CoverFront
  <2>3. MergeInto(merged, r) = front \o <<both>>
    BY <1>2 DEF MergeInto
  <2> HIDE DEF front, last
  <2>4. /\ top = (IF last.end <= r.end THEN r.end ELSE last.end) /\ top \in Nat
        /\ top \in 0..MaxSequence
    BY <1>1, <2>1, MaxOfTwo
  <2> HIDE DEF top
  <2>5. both \in DirectSelectiveAckRange /\ both.start = last.start /\ both.end = top
    BY <2>1, <2>4 DEF Range2, DirectSelectiveAckRange, Sequence
  <2> HIDE DEF both
  <2>6. MergeInto(merged, r) = Append(front, both)
    BY <2>1, <2>3, <2>5, AppendIsConcat DEF Lists
  <2>7. r.start <= last.end + 1 /\ last.start <= r.start
    <3>1. merged # <<>> /\ r.start <= Successor(last.end) /\ last.start <= r.start
      BY <1>2 DEF last
    <3> QED  BY <1>1, <2>1, <3>1 DEF Successor
  <2>8. Covers(both) = Covers(last) \cup Covers(r)
    <3>1. \A x \in Int : (last.start <= x /\ x <= top)
                           <=> (last.start <= x /\ x <= last.end) \/ (r.start <= x /\ x <= r.end)
      BY <1>1, <2>1, <2>2, <2>4, <2>7
    <3> QED  BY <1>1, <2>1, <2>4, <2>5, <3>1 DEF Covers
  <2>9. CoverOf(Append(front, both)) = CoverOf(front) \cup Covers(both)
    BY <2>1, <2>5, CoverAppend
  <2>10. Canonical(Append(front, both))
    <3>1. both.start <= both.end
      BY <2>1, <2>2, <2>4, <2>5
    <3> QED  BY <2>1, <2>2, <2>5, <3>1, CanonicalAppend
  <2>11. Append(front, both) \in Lists /\ Append(front, both) # <<>>
         /\ Last(Append(front, both)) = both
    <3>1. /\ Append(front, both) \in Lists /\ Append(front, both) # <<>>
          /\ Len(Append(front, both)) = Len(front) + 1
          /\ Append(front, both)[Len(front) + 1] = both
      BY <2>1, <2>5, AppendProperties DEF Lists
    <3> QED  BY <3>1 DEF Last
  <2> QED  BY <2>2, <2>5, <2>6, <2>7, <2>8, <2>9, <2>10, <2>11
<1>3. CASE ~joins
  <2>1. MergeInto(merged, r) = Append(merged, r)
    BY <1>3 DEF MergeInto
  <2>2. ASSUME merged # <<>> PROVE Last(merged).end + 1 < r.start
    <3>1. Last(merged).end \in 0..MaxSequence /\ Last(merged).end \in Nat
      BY <2>2, FrontAndLast, RangeType
    <3>2. ~(r.start <= Successor(Last(merged).end))
      BY <1>3, <2>2
    <3> QED  BY <1>1, <3>1, <3>2, RangeAssumption DEF Successor
  <2>3. Canonical(Append(merged, r))
    BY <2>2, CanonicalAppend
  <2>4. CoverOf(Append(merged, r)) = CoverOf(merged) \cup Covers(r)
    BY CoverAppend
  <2>5. /\ Append(merged, r) \in Lists /\ Append(merged, r) # <<>>
        /\ Last(Append(merged, r)) = r
    <3>1. /\ Append(merged, r) \in Lists /\ Append(merged, r) # <<>>
          /\ Len(Append(merged, r)) = Len(merged) + 1
          /\ Append(merged, r)[Len(merged) + 1] = r
      BY AppendProperties DEF Lists
    <3> QED  BY <3>1 DEF Last
  <2> QED  BY <1>1, <2>1, <2>3, <2>4, <2>5
<1> QED  BY <1>2, <1>3

LEMMA EmptyCanonical ==
  /\ <<>> \in Lists /\ Canonical(<<>>) /\ CoverOf(<<>>) = {}
<1>1. <<>> \in Lists /\ Len(<<>>) = 0 /\ DOMAIN <<>> = {}
  BY DEF Lists
<1> QED  BY <1>1 DEF Canonical, CoverOf

LEMMA CanonicalIsValid ==
  ASSUME NEW list \in Lists, Canonical(list)
  PROVE  AllValid(list)
  BY LenProperties DEF Canonical, AllValid, Lists

\* The merge of a sorted list.
LEMMA MergedBy ==
  ASSUME NEW list \in Lists, AllValid(list), Ascending(list)
  PROVE  LET merged == FoldLeft(MergeInto, <<>>, list)
         IN  merged \in Lists /\ Canonical(merged) /\ CoverOf(merged) = CoverOf(list)
<1>1. PICK f : /\ f[0] = <<>>
               /\ \A i \in 1..Len(list) : f[i] = MergeInto(f[i - 1], list[i])
               /\ FoldLeft(MergeInto, <<>>, list) = f[Len(list)]
  BY MergeTurns
<1>2. /\ Len(list) \in Nat /\ CoverOf(list) = Reported(list, Len(list))
      /\ \A i \in 1..Len(list) : list[i] \in DirectSelectiveAckRange
  BY ReportedAll DEF Lists
<1> DEFINE Inv(i) == /\ f[i] \in Lists /\ Canonical(f[i])
                     /\ CoverOf(f[i]) = Reported(list, i)
                     /\ f[i] # <<>> => i # 0 /\ Last(f[i]).start <= list[i].start
           G == {i \in Nat : Inv(i)}
<1>3. 0 \in G
  <2>1. Inv(0)
    BY <1>1, EmptyCanonical, ReportedNone
  <2> HIDE DEF Inv
  <2> QED  BY <2>1
<1>4. ASSUME NEW i \in 0..(Len(list) - 1), i \in G PROVE i + 1 \in G
  <2>1. /\ i + 1 \in 1..Len(list) /\ i + 1 - 1 = i /\ i + 1 \in Nat \ {0} /\ i + 1 # 0
        /\ list[i + 1] \in DirectSelectiveAckRange /\ list[i + 1].start <= list[i + 1].end
        /\ f[i + 1] = MergeInto(f[i], list[i + 1])
        /\ f[i] \in Lists /\ Canonical(f[i]) /\ CoverOf(f[i]) = Reported(list, i)
    BY <1>1, <1>2, <1>4 DEF AllValid
  <2>2. Reported(list, i + 1) = Reported(list, i) \cup Covers(list[i + 1])
    BY <2>1, ReportedNext
  <2>3. ASSUME f[i] # <<>> PROVE Last(f[i]).start <= list[i + 1].start
    <3>1. i # 0 /\ Last(f[i]).start <= list[i].start
      BY <1>4, <2>3
    <3>2. i \in 1..Len(list) /\ i <= i + 1
      BY <1>2, <3>1
    <3>3. list[i].start <= list[i + 1].start
      BY <2>1, <3>2 DEF Ascending
    <3>4. list[i].start \in Nat /\ list[i + 1].start \in Nat /\ Last(f[i]).start \in Nat
      BY <1>2, <2>1, <2>3, <3>2, FrontAndLast, RangeType
    <3> QED  BY <3>1, <3>3, <3>4
  <2>4. Inv(i + 1)
    BY <2>1, <2>2, <2>3, MergeKeeps
  <2> HIDE DEF Inv
  <2> QED  BY <2>1, <2>4
<1>5. Len(list) \in G
  <2> HIDE DEF G
  <2> QED  BY <1>2, <1>3, <1>4, Upwards
<1> QED  BY <1>1, <1>2, <1>5

\* The scoreboard after an ack: canonical, and it covers what was known and what is new.
LEMMA Observed ==
  ASSUME NEW list \in Lists, Canonical(list), NEW incoming \in Lists
  PROVE  /\ ObserveRanges(list, incoming) \in Lists
         /\ Canonical(ObserveRanges(list, incoming))
         /\ CoverOf(ObserveRanges(list, incoming)) = CoverOf(list) \cup CoverOf(incoming)
<1> DEFINE extended == FoldLeft(KeepValid, list, incoming)
           sorted == FoldLeft(InsertSorted, <<>>, extended)
           merged == FoldLeft(MergeInto, <<>>, sorted)
<1>1. ObserveRanges(list, incoming) = merged
  BY DEF ObserveRanges
<1>2. /\ extended \in Lists /\ AllValid(extended)
      /\ CoverOf(extended) = CoverOf(list) \cup CoverOf(incoming)
  BY CanonicalIsValid, Kept
<1> HIDE DEF extended
<1>3. /\ sorted \in Lists /\ AllValid(sorted) /\ Ascending(sorted)
      /\ CoverOf(sorted) = CoverOf(extended)
  BY <1>2, SortedBy
<1> HIDE DEF sorted
<1>4. merged \in Lists /\ Canonical(merged) /\ CoverOf(merged) = CoverOf(sorted)
  BY <1>3, MergedBy
<1> HIDE DEF merged
<1> QED  BY <1>1, <1>2, <1>3, <1>4

-----------------------------------------------------------------------------
(* advance_cumulative_ack and covered_sequence_count *)

\* Ranges further back start behind the end of those before.
LEMMA Gap ==
  ASSUME NEW list \in Lists, Canonical(list), NEW i \in 1..(Len(list) - 1)
  PROVE  /\ list[i] \in DirectSelectiveAckRange /\ list[i + 1] \in DirectSelectiveAckRange
         /\ list[i].end + 1 < list[i + 1].start
<1>1. i \in 1..Len(list) /\ i + 1 \in 1..Len(list)
  BY LenProperties DEF Lists
<1> QED  BY <1>1, ElementOfSeq DEF Canonical, Lists

LEMMA Advanced ==
  ASSUME NEW list \in Lists, Canonical(list), NEW next \in Sequence
  PROVE  LET trimmed == AdvanceCumulativeAck(list, next)
         IN  /\ trimmed \in Lists /\ Canonical(trimmed)
             /\ CoverOf(trimmed) = {s \in CoverOf(list) : s >= next}
<1>1. PICK f : /\ f[0] = <<>>
               /\ \A i \in 1..Len(list) : f[i] = TrimInto(f[i - 1], list[i], next)
               /\ AdvanceCumulativeAck(list, next) = f[Len(list)]
  BY TrimTurns
<1>2. /\ Len(list) \in Nat /\ CoverOf(list) = Reported(list, Len(list))
      /\ \A i \in 1..Len(list) : list[i] \in DirectSelectiveAckRange /\ list[i].start <= list[i].end
  BY ReportedAll, CanonicalIsValid DEF Lists, AllValid
<1>3. next \in Nat /\ next \in 0..MaxSequence
  BY RangeAssumption DEF Sequence
<1> DEFINE Inv(i) == /\ f[i] \in Lists /\ Canonical(f[i])
                     /\ CoverOf(f[i]) = {s \in Reported(list, i) : s >= next}
                     /\ f[i] # <<>> => i # 0 /\ Last(f[i]).end <= list[i].end
           G == {i \in Nat : Inv(i)}
<1>4. 0 \in G
  <2>1. Inv(0)
    BY <1>1, EmptyCanonical, ReportedNone
  <2> HIDE DEF Inv
  <2> QED  BY <2>1
<1>5. ASSUME NEW i \in 0..(Len(list) - 1), i \in G PROVE i + 1 \in G
  <2> DEFINE r == list[i + 1]
             l == f[i]
             rest == Range2(Max({r.start, next}), r.end)
  <2>1. /\ i + 1 \in 1..Len(list) /\ i + 1 - 1 = i /\ i + 1 \in Nat \ {0} /\ i + 1 # 0
        /\ r \in DirectSelectiveAckRange /\ r.start <= r.end
        /\ f[i + 1] = TrimInto(l, r, next)
        /\ l \in Lists /\ Canonical(l)
        /\ CoverOf(l) = {s \in Reported(list, i) : s >= next}
    BY <1>1, <1>2, <1>5
  <2>2. Reported(list, i + 1) = Reported(list, i) \cup Covers(r)
    BY <2>1, ReportedNext
  <2>3. /\ r.start \in Nat /\ r.end \in Nat
        /\ r.start \in 0..MaxSequence /\ r.end \in 0..MaxSequence
    BY <2>1, RangeType
  <2>4. ASSUME l # <<>> PROVE Last(l).end + 1 < r.start /\ Last(l).end \in Nat
    <3>1. i # 0 /\ Last(l).end <= list[i].end
      BY <1>5, <2>4
    <3>2. i \in 1..(Len(list) - 1)
      BY <3>1
    <3>3. list[i].end \in Nat /\ list[i].end + 1 < r.start
      BY <3>2, Gap, RangeType
    <3>4. Last(l).end \in Nat
      BY <2>1, <2>4, FrontAndLast, RangeType
    <3> DEFINE end == list[i].end
               last == Last(l).end
    <3>5. end \in Nat /\ last \in Nat /\ last <= end /\ end + 1 < r.start
      BY <3>1, <3>3, <3>4
    <3> HIDE DEF end, last, r
    <3>6. last + 1 < r.start /\ last \in Nat
      BY <2>3, <3>5
    <3> QED  BY <3>6 DEF last
  <2>5. CASE r.end < next
    <3>1. f[i + 1] = l
      BY <2>1, <2>5 DEF TrimInto
    <3>2. {s \in Covers(r) : s >= next} = {}
      BY <1>3, <2>3, <2>5 DEF Covers
    <3>3. CoverOf(l) = {s \in Reported(list, i + 1) : s >= next}
      BY <2>1, <2>2, <3>2
    <3>4. l # <<>> => Last(l).end <= r.end
      BY <2>1, <2>3, <2>4
    <3>5. Inv(i + 1)
      BY <2>1, <3>1, <3>3, <3>4
    <3> HIDE DEF Inv
    <3> QED  BY <2>1, <3>5
  <2>6. CASE ~(r.end < next)
    <3>1. f[i + 1] = Append(l, rest)
      BY <2>1, <2>6 DEF TrimInto
    <3>2. /\ rest \in DirectSelectiveAckRange /\ rest.end = r.end
          /\ rest.start = (IF r.start <= next THEN next ELSE r.start)
      <4>1. Max({r.start, next}) = (IF r.start <= next THEN next ELSE r.start)
        BY <1>3, <2>3, MaxOfTwo
      <4>2. Max({r.start, next}) \in 0..MaxSequence
        BY <1>3, <2>3, <4>1
      <4> QED  BY <2>3, <4>1, <4>2 DEF Range2, DirectSelectiveAckRange, Sequence
    <3> HIDE DEF rest, r, l
    <3>3. rest.start <= rest.end /\ r.start <= rest.start
      BY <1>3, <2>1, <2>3, <2>6, <3>2
    <3>4. l # <<>> => Last(l).end + 1 < rest.start
      BY <1>3, <2>3, <2>4, <3>2
    <3>5. Canonical(Append(l, rest))
      BY <2>1, <3>2, <3>3, <3>4, CanonicalAppend
    <3>6. CoverOf(Append(l, rest)) = CoverOf(l) \cup Covers(rest)
      BY <2>1, <3>2, CoverAppend
    <3>7. Covers(rest) = {s \in Covers(r) : s >= next}
      BY <1>3, <2>3, <3>2 DEF Covers
    <3>8. /\ Append(l, rest) \in Lists /\ Last(Append(l, rest)) = rest
      <4>1. /\ Append(l, rest) \in Lists /\ Len(Append(l, rest)) = Len(l) + 1
            /\ Append(l, rest)[Len(l) + 1] = rest
        BY <2>1, <3>2, AppendProperties DEF Lists
      <4> QED  BY <4>1 DEF Last
    <3>9. CoverOf(Append(l, rest)) = {s \in Reported(list, i + 1) : s >= next}
      BY <2>1, <2>2, <3>6, <3>7
    <3>10. rest.end <= list[i + 1].end
      BY <2>3, <3>2 DEF r
    <3>11. Inv(i + 1)
      BY <2>1, <3>1, <3>5, <3>8, <3>9, <3>10
    <3> HIDE DEF Inv
    <3> QED  BY <2>1, <3>11
  <2> QED  BY <2>5, <2>6
<1>6. Len(list) \in G
  <2> HIDE DEF G
  <2> QED  BY <1>2, <1>4, <1>5, Upwards
<1> QED  BY <1>1, <1>2, <1>6

\* The sum of the lengths counts each sequence number of a canonical list once.
LEMMA Counted ==
  ASSUME NEW list \in Lists, Canonical(list)
  PROVE  IsFiniteSet(CoverOf(list)) /\ CoveredCount(list) = Cardinality(CoverOf(list))
<1>1. PICK f : /\ f[0] = 0
               /\ \A i \in 1..Len(list) : f[i] = f[i - 1] + Cardinality(Covers(list[i]))
               /\ CoveredCount(list) = f[Len(list)]
  BY CountTurns
<1>2. /\ Len(list) \in Nat /\ CoverOf(list) = Reported(list, Len(list))
      /\ \A i \in 1..Len(list) : list[i] \in DirectSelectiveAckRange
  BY ReportedAll DEF Lists
<1> DEFINE Inv(i) == /\ IsFiniteSet(Reported(list, i))
                     /\ f[i] = Cardinality(Reported(list, i))
                     /\ \A s \in Reported(list, i) : s \in Nat /\ i # 0 /\ s <= list[i].end
           G == {i \in Nat : Inv(i)}
<1>3. 0 \in G
  <2>1. Inv(0)
    BY <1>1, ReportedNone, FS_EmptySet
  <2> HIDE DEF Inv
  <2> QED  BY <2>1
<1>4. ASSUME NEW i \in 0..(Len(list) - 1), i \in G PROVE i + 1 \in G
  <2> DEFINE r == list[i + 1]
             old == Reported(list, i)
  <2>1. /\ i + 1 \in 1..Len(list) /\ i + 1 - 1 = i /\ i + 1 \in Nat \ {0} /\ i + 1 # 0
        /\ r \in DirectSelectiveAckRange /\ r.start \in Nat /\ r.end \in Nat
        /\ f[i + 1] = f[i] + Cardinality(Covers(r))
        /\ IsFiniteSet(old) /\ f[i] = Cardinality(old)
    BY <1>1, <1>2, <1>4, RangeType
  <2>2. Reported(list, i + 1) = old \cup Covers(r)
    BY <2>1, ReportedNext
  <2>3. \A s \in old : s \in Nat /\ s < r.start /\ s <= r.end
    <3> SUFFICES ASSUME NEW s \in old PROVE s \in Nat /\ s < r.start /\ s <= r.end
      OBVIOUS
    <3>1. s \in Nat /\ i # 0 /\ s <= list[i].end
      BY <1>4
    <3>2. i \in 1..(Len(list) - 1)
      BY <3>1
    <3>3. list[i].end \in Nat /\ list[i].end + 1 < r.start
      BY <3>2, Gap, RangeType
    <3>4. r.start <= r.end
      BY <2>1, CanonicalIsValid DEF AllValid
    <3> DEFINE end == list[i].end
    <3>5. end \in Nat /\ s \in Nat /\ s <= end /\ end + 1 < r.start
      BY <3>1, <3>3
    <3> HIDE DEF end, r
    <3> QED  BY <2>1, <3>4, <3>5
  <2>4. \A s \in Covers(r) : s \in Nat /\ r.start <= s /\ s <= r.end
    BY <2>1 DEF Covers
  <2>5. old \cap Covers(r) = {}
    <3>1. \A s \in old : s \notin Covers(r)
      BY <2>1, <2>3, <2>4
    <3> QED  BY <3>1
  <2>6. /\ IsFiniteSet(Covers(r)) /\ Cardinality(Covers(r)) \in Nat
        /\ Cardinality(old) \in Nat
    BY <2>1, CoversSize, FS_CardinalityType
  <2>7. /\ IsFiniteSet(old \cup Covers(r))
        /\ Cardinality(old \cup Covers(r)) = Cardinality(old) + Cardinality(Covers(r))
    <3> HIDE DEF old, r
    <3>1. Cardinality(old \cap Covers(r)) = 0
      BY <2>5, FS_EmptySet
    <3>2. /\ IsFiniteSet(old \cup Covers(r))
          /\ Cardinality(old \cup Covers(r))
               = Cardinality(old) + Cardinality(Covers(r)) - Cardinality(old \cap Covers(r))
      BY <2>1, <2>6, FS_Union
    <3> QED  BY <2>6, <3>1, <3>2
  <2>8. Inv(i + 1)
    <3>1. \A s \in Reported(list, i + 1) : s \in Nat /\ s <= list[i + 1].end
      BY <2>2, <2>3, <2>4
    <3> QED  BY <2>1, <2>2, <2>7, <3>1
  <2> HIDE DEF Inv
  <2> QED  BY <2>1, <2>8
<1>5. Len(list) \in G
  <2> HIDE DEF G
  <2> QED  BY <1>2, <1>3, <1>4, Upwards
<1> QED  BY <1>1, <1>2, <1>5

-----------------------------------------------------------------------------
(* direct_channel_selective_ack_ranges *)

RunState == [out : Lists, run : DirectSelectiveAckRange, full : BOOLEAN]

LEMMA ExtendRunType ==
  ASSUME NEW state \in RunState, NEW s \in Sequence
  PROVE  ExtendRun(state, s) \in RunState
<1>1. Range2(s, s) \in DirectSelectiveAckRange /\ Append(state.out, state.run) \in Lists
  BY DEF Range2, DirectSelectiveAckRange, RunState, Lists
<1>2. [state EXCEPT !.run.end = s] \in RunState
  BY DEF RunState, DirectSelectiveAckRange
<1> QED  BY <1>1, <1>2 DEF ExtendRun, RunState

\* The loop over the keys of the reorder buffer.
LEMMA RunTurns ==
  ASSUME NEW keys \in SUBSET Sequence, keys # {}
  PROVE  \E c :
            /\ c[{}] = [out |-> <<>>, run |-> Range2(Min(keys), Min(keys)), full |-> FALSE]
            /\ \A s \in SUBSET (keys \ {Min(keys)}) :
                  s # {} => c[s] = ExtendRun(c[s \ {Max(s)}], Max(s))
            /\ AllRuns(keys) = c[keys \ {Min(keys)}]
<1> DEFINE first == Min(keys)
           more == keys \ {first}
           start == [out |-> <<>>, run |-> Range2(first, first), full |-> FALSE]
           Eqn(it) == it = [s \in SUBSET more |->
                              IF s = {} THEN start ELSE ExtendRun(it[s \ {Max(s)}], Max(s))]
           c == CHOOSE it : Eqn(it)
           id == [x \in more |-> x]
<1>1. first \in keys /\ keys \in SUBSET Nat /\ MaxSequence \in Nat
  BY RangeAssumption, MinOfNaturals DEF Sequence
<1>2. start \in RunState
  <2>1. Range2(first, first) \in DirectSelectiveAckRange
    BY <1>1 DEF Range2, DirectSelectiveAckRange
  <2>2. <<>> \in Lists
    BY DEF Lists
  <2> HIDE DEF first
  <2> QED  BY <2>1, <2>2 DEF RunState
<1>3. \E it : Eqn(it)
  <2> DEFINE step == [p \in RunState \X Sequence |-> ExtendRun(p[1], p[2])]
  <2>1. step \in [RunState \X Sequence -> RunState]
    BY ExtendRunType
  <2>2. LoopFits(MaxSequence, more, RunState, Sequence, id, start, step)
    <3>1. id \in [more -> Sequence] /\ more \in SUBSET (0..MaxSequence)
      BY DEF Sequence
    <3> HIDE DEF step, more, start, id
    <3> QED  BY <1>1, <1>2, <2>1, <3>1 DEF LoopFits
  <2>3. PICK g : IsFold(g, more, RunState, Sequence, id, start, step)
    <3> HIDE DEF step, more, start, id
    <3> QED  BY <2>2, FoldExists
  <2>4. ASSUME NEW s \in SUBSET more, s # {}
        PROVE  g[s] = ExtendRun(g[s \ {Max(s)}], Max(s))
    <3>1. Max(s) \in more
      <4>1. s \in SUBSET (0..MaxSequence)
        BY DEF Sequence
      <4>2. Max(s) \in s
        BY <1>1, <2>4, <4>1, MaxOfNaturals
      <4> QED  BY <4>2
    <3>2. id[Max(s)] = Max(s)
      BY <3>1
    <3>3. /\ g[s \ {Max(s)}] \in RunState /\ id[Max(s)] \in Sequence
          /\ g[s] = step[<<g[s \ {Max(s)}], id[Max(s)]>>]
      <4> HIDE DEF step, more, start, id
      <4> QED  BY <2>3, <2>4 DEF IsFold
    <3> HIDE DEF id, more, start
    <3> QED  BY <3>2, <3>3
  <2>5. g = [s \in SUBSET more |-> g[s]] /\ g[{}] = start
    <3> HIDE DEF step, more, start, id
    <3> QED  BY <2>3 DEF IsFold
  <2>6. Eqn(g)
    <3> HIDE DEF more, start, id
    <3> QED  BY <2>4, <2>5
  <2> QED  BY <2>6
<1>4. Eqn(c)
  BY <1>3
<1>5. AllRuns(keys) = c[more]
  BY DEF AllRuns, MapThenFoldSet
<1> HIDE DEF c
<1>6. c[{}] = start
  <2> HIDE DEF start, more
  <2> QED  BY <1>4
<1>7. \A s \in SUBSET more : s # {} => c[s] = ExtendRun(c[s \ {Max(s)}], Max(s))
  <2> HIDE DEF start, more
  <2> QED  BY <1>4
<1> QED  BY <1>5, <1>6, <1>7

\* The keys up to m, and those of them that begin a run.
Upto(keys, m) == {k \in keys : k <= m}
Starts(keys, m) == {k \in keys : k <= m /\ k - 1 \notin keys}

\* After the keys up to m: as long as there is room, the ranges pushed and the current one
\* cover these keys; afterwards the ranges pushed are the lowest runs.
RunInv(keys, m, state) ==
    /\ state \in RunState
    /\ ~state.full =>
          /\ Canonical(Append(state.out, state.run))
          /\ CoverOf(Append(state.out, state.run)) = Upto(keys, m)
          /\ Len(state.out) < MaxSelectiveAcks
          /\ Cardinality(Starts(keys, m)) = Len(state.out) + 1
          /\ state.run.end \in Upto(keys, m) /\ \A k \in Upto(keys, m) : k <= state.run.end
    /\ state.full =>
          /\ Canonical(state.out) /\ Len(state.out) <= MaxSelectiveAcks
          /\ CoverOf(state.out) = LowestRuns(keys)

LEMMA StartsSize ==
  ASSUME NEW keys \in SUBSET Sequence, NEW m
  PROVE  IsFiniteSet(Starts(keys, m)) /\ Cardinality(Starts(keys, m)) \in Nat
<1>1. IsFiniteSet(0..MaxSequence)
  BY RangeAssumption, FS_Interval
<1>2. Starts(keys, m) \in SUBSET (0..MaxSequence)
  BY DEF Starts, Sequence
<1> QED  BY <1>1, <1>2, FS_Subset, FS_CardinalityType

LEMMA StartsGrow ==
  ASSUME NEW keys \in SUBSET Nat, NEW a \in Nat, NEW b \in Nat, a <= b
  PROVE  Starts(keys, a) \subseteq Starts(keys, b)
<1>1. \A k \in keys : k <= a => k <= b
  OBVIOUS
<1> QED  BY <1>1 DEF Starts

\* The front and the last of a list with a range appended.
LEMMA AppendedParts ==
  ASSUME NEW list \in Lists, NEW r \in DirectSelectiveAckRange
  PROVE  /\ Append(list, r) \in Lists /\ Append(list, r) # <<>>
         /\ Len(Append(list, r)) = Len(list) + 1
         /\ Front(Append(list, r)) = list /\ Last(Append(list, r)) = r
<1> DEFINE longer == Append(list, r)
<1>1. /\ longer \in Lists /\ longer # <<>> /\ Len(longer) = Len(list) + 1
      /\ longer[Len(list) + 1] = r
  BY AppendProperties DEF Lists
<1>2. Last(longer) = r
  BY <1>1 DEF Last
<1>3. Front(longer) \in Lists /\ Last(longer) \in DirectSelectiveAckRange
  <2> HIDE DEF longer
  <2> QED  BY <1>1, FrontAndLast
<1>4. longer = Append(Front(longer), Last(longer))
  <2> HIDE DEF longer
  <2> QED  BY <1>1, Rebuilt
<1>5. Front(longer) = list
  BY <1>3, <1>4, AppendInjective DEF Lists
<1> QED  BY <1>1, <1>2, <1>5

\* When there is no room for the run that begins at s, the runs below s are the lowest ones.
LEMMA NoRoomLeft ==
  ASSUME NEW keys \in SUBSET Sequence, NEW m \in Nat, m + 1 \in keys, m \notin keys,
         Cardinality(Starts(keys, m)) = MaxSelectiveAcks
  PROVE  LowestRuns(keys) = Upto(keys, m)
<1>1. /\ keys \subseteq Nat /\ MaxSelectiveAcks \in Nat
      /\ \A s : IsFiniteSet(Starts(keys, s)) /\ Cardinality(Starts(keys, s)) \in Nat
  BY RangeAssumption, StartsSize DEF Sequence
<1>2. LowestRuns(keys) = {s \in keys : Cardinality(Starts(keys, s)) <= MaxSelectiveAcks}
  BY DEF LowestRuns, Starts
<1>3. ASSUME NEW s \in keys, s <= m PROVE Cardinality(Starts(keys, s)) <= MaxSelectiveAcks
  <2>1. Starts(keys, s) \subseteq Starts(keys, m)
    BY <1>1, <1>3, StartsGrow
  <2> QED  BY <1>1, <2>1, FS_Subset
<1>4. ASSUME NEW s \in keys, ~(s <= m) PROVE ~(Cardinality(Starts(keys, s)) <= MaxSelectiveAcks)
  <2>1. m + 1 \notin Starts(keys, m)
    BY DEF Starts
  <2>2. Cardinality(Starts(keys, m) \cup {m + 1}) = MaxSelectiveAcks + 1
    BY <1>1, <2>1, FS_AddElement
  <2>3. Starts(keys, m) \cup {m + 1} \subseteq Starts(keys, s)
    <3>1. s \in Nat /\ m + 1 <= s /\ (m + 1) - 1 = m
      BY <1>1, <1>4
    <3>2. m + 1 \in Starts(keys, s)
      BY <3>1 DEF Starts
    <3>3. Starts(keys, m) \subseteq Starts(keys, s)
      <4>1. m <= s
        BY <3>1
      <4> QED  BY <1>1, <3>1, <4>1, StartsGrow
    <3> QED  BY <3>2, <3>3
  <2>4. MaxSelectiveAcks + 1 <= Cardinality(Starts(keys, s))
    BY <1>1, <2>2, <2>3, FS_Subset
  <2> QED  BY <1>1, <2>4
<1> QED  BY <1>2, <1>3, <1>4 DEF Upto

\* The invariant from its parts.
LEMMA StillRoom ==
  ASSUME NEW keys, NEW m, NEW state \in RunState, ~state.full,
         Canonical(Append(state.out, state.run)),
         CoverOf(Append(state.out, state.run)) = Upto(keys, m),
         Len(state.out) < MaxSelectiveAcks,
         Cardinality(Starts(keys, m)) = Len(state.out) + 1,
         state.run.end \in Upto(keys, m), \A k \in Upto(keys, m) : k <= state.run.end
  PROVE  RunInv(keys, m, state)
BY DEF RunInv

LEMMA NoMoreRoom ==
  ASSUME NEW keys, NEW m, NEW state \in RunState, state.full,
         Canonical(state.out), Len(state.out) <= MaxSelectiveAcks,
         CoverOf(state.out) = LowestRuns(keys)
  PROVE  RunInv(keys, m, state)
BY DEF RunInv

\* One turn of the loop.
LEMMA ExtendKeeps ==
  ASSUME NEW keys \in SUBSET Sequence, NEW m \in Nat, m + 1 \in keys,
         NEW state, RunInv(keys, m, state)
  PROVE  RunInv(keys, m + 1, ExtendRun(state, m + 1))
<1> DEFINE s == m + 1
           out == state.out
           run == state.run
           new == ExtendRun(state, s)
<1>1. /\ state \in RunState /\ out \in Lists /\ run \in DirectSelectiveAckRange
      /\ state.full \in BOOLEAN /\ keys \subseteq Nat /\ s \in Sequence /\ s \in Nat
      /\ s \in 0..MaxSequence /\ MaxSelectiveAcks \in Nat
      /\ \A k \in keys : k \in Nat /\ k <= MaxSequence
  BY RangeAssumption DEF RunInv, RunState, Sequence
<1>2. run.start \in 0..MaxSequence /\ run.end \in 0..MaxSequence
      /\ run.start \in Nat /\ run.end \in Nat
  BY <1>1, RangeType
<1>3. new \in RunState
  BY <1>1, ExtendRunType
<1>4. CASE state.full
  <2>1. new = state
    BY <1>4 DEF ExtendRun
  <2> QED  BY <1>4, <2>1 DEF RunInv
<1>5. CASE ~state.full
  <2>1. /\ Canonical(Append(out, run)) /\ CoverOf(Append(out, run)) = Upto(keys, m)
        /\ Len(out) < MaxSelectiveAcks /\ Len(out) \in Nat
        /\ Cardinality(Starts(keys, m)) = Len(out) + 1
        /\ run.end \in Upto(keys, m) /\ \A k \in Upto(keys, m) : k <= run.end
    BY <1>1, <1>5, LenProperties DEF RunInv, Lists
  <2>2. /\ Canonical(out) /\ run.start <= run.end
        /\ out # <<>> => Last(out).end + 1 < run.start
        /\ CoverOf(Append(out, run)) = CoverOf(out) \cup Covers(run)
    BY <1>1, <2>1, AppendedParts, CanonicalFront, CoverAppend
  <2>3. run.end \in keys /\ run.end <= m
    BY <2>1 DEF Upto
  <2>4. Upto(keys, s) = Upto(keys, m) \cup {s}
    <3>1. \A k \in keys : k <= s <=> k <= m \/ k = s
      BY <1>1
    <3> QED  BY <3>1 DEF Upto
  <2>5. \A k \in Upto(keys, m) : k <= s
    BY <1>1 DEF Upto
  <2>6. Successor(run.end) = run.end + 1
    BY <1>1, <1>2, <2>3 DEF Successor
  <2>7. CASE s = run.end + 1
    <3> DEFINE grown == [run EXCEPT !.end = s]
    <3>1. new = [state EXCEPT !.run.end = s]
      BY <1>5, <2>6, <2>7 DEF ExtendRun
    <3>2. new.out = out /\ new.run = grown /\ new.full = FALSE
      BY <1>1, <1>5, <3>1 DEF RunState
    <3>3. grown \in DirectSelectiveAckRange /\ grown.start = run.start /\ grown.end = s
      BY <1>1 DEF DirectSelectiveAckRange
    <3> HIDE DEF grown, new
    <3>4. Canonical(Append(out, grown))
      <4>1. grown.start <= grown.end
        BY <1>2, <2>2, <2>7, <3>3
      <4> QED  BY <1>1, <2>2, <3>3, <4>1, CanonicalAppend
    <3>5. CoverOf(Append(out, grown)) = Upto(keys, s)
      <4>1. Covers(grown) = Covers(run) \cup {s}
        BY <1>2, <2>2, <2>7, <3>3 DEF Covers
      <4>2. CoverOf(Append(out, grown)) = CoverOf(out) \cup Covers(grown)
        BY <1>1, <3>3, CoverAppend
      <4> QED  BY <2>1, <2>2, <2>4, <4>1, <4>2
    <3>6. Starts(keys, s) = Starts(keys, m)
      <4>1. s - 1 = run.end
        BY <1>2, <2>7
      <4>2. \A k \in keys : (k <= s /\ k - 1 \notin keys) <=> (k <= m /\ k - 1 \notin keys)
        BY <1>1, <2>3, <4>1
      <4> QED  BY <4>2 DEF Starts
    <3>7. s \in Upto(keys, s) /\ \A k \in Upto(keys, s) : k <= s
      BY <1>1, <2>4, <2>5
    <3>8. /\ ~new.full /\ Canonical(Append(new.out, new.run))
          /\ CoverOf(Append(new.out, new.run)) = Upto(keys, s)
          /\ Len(new.out) < MaxSelectiveAcks
          /\ Cardinality(Starts(keys, s)) = Len(new.out) + 1
          /\ new.run.end \in Upto(keys, s) /\ \A k \in Upto(keys, s) : k <= new.run.end
      <4> HIDE DEF s, out
      <4> QED  BY <2>1, <3>2, <3>3, <3>4, <3>5, <3>6, <3>7
    <3>9. RunInv(keys, s, new)
      <4> HIDE DEF s, out, run
      <4> QED  BY <1>3, <3>8, StillRoom
    <3> QED  BY <3>9 DEF new, s
  <2>8. CASE s # run.end + 1
    <3> DEFINE longer == Append(out, run)
               fresh == Range2(s, s)
               full == Len(out) + 1 >= MaxSelectiveAcks
    <3>1. new = [out |-> longer, run |-> fresh, full |-> full]
      BY <1>5, <2>6, <2>8 DEF ExtendRun
    <3>2. new.out = longer /\ new.run = fresh /\ new.full = full
      BY <3>1
    <3>3. /\ longer \in Lists /\ longer # <<>> /\ Last(longer) = run
          /\ Len(longer) = Len(out) + 1
      BY <1>1, AppendedParts
    <3>4. fresh \in DirectSelectiveAckRange /\ fresh.start = s /\ fresh.end = s
      BY <1>1 DEF Range2, DirectSelectiveAckRange
    <3>5. run.end + 1 < s /\ m \notin keys
      <4>1. run.end + 1 < s
        BY <1>2, <2>3, <2>8
      <4>2. ASSUME m \in keys PROVE FALSE
        <5>1. m <= run.end
          BY <2>1, <4>2 DEF Upto
        <5> QED  BY <1>2, <4>1, <5>1
      <4> QED  BY <4>1, <4>2
    <3>6. Cardinality(Starts(keys, s)) = Len(out) + 2
      <4>1. Starts(keys, s) = Starts(keys, m) \cup {s}
        <5>1. s - 1 = m /\ \A k \in keys : k <= s <=> k <= m \/ k = s
          BY <1>1
        <5> QED  BY <3>5, <5>1 DEF Starts
      <4>2. s \notin Starts(keys, m)
        BY DEF Starts
      <4>3. IsFiniteSet(Starts(keys, m))
        BY StartsSize
      <4>4. Cardinality(Starts(keys, m) \cup {s}) = Cardinality(Starts(keys, m)) + 1
        <5> HIDE DEF s
        <5> QED  BY <4>2, <4>3, FS_AddElement
      <4> HIDE DEF s, out
      <4> QED  BY <2>1, <4>1, <4>4
    <3> HIDE DEF longer, fresh, new
    <3>7. CASE ~full
      <4>1. Canonical(Append(longer, fresh))
        <5>1. fresh.start <= fresh.end
          BY <1>1, <3>4
        <5>2. Canonical(longer)
          BY <2>1 DEF longer
        <5> QED  BY <3>3, <3>4, <3>5, <5>1, <5>2, CanonicalAppend
      <4>2. CoverOf(Append(longer, fresh)) = Upto(keys, s)
        <5>1. Covers(fresh) = {s}
          BY <1>1, <3>4 DEF Covers
        <5>2. CoverOf(Append(longer, fresh)) = CoverOf(longer) \cup Covers(fresh)
          BY <3>3, <3>4, CoverAppend
        <5>3. CoverOf(longer) = Upto(keys, m)
          BY <2>1 DEF longer
        <5> QED  BY <2>4, <5>1, <5>2, <5>3
      <4>3. s \in Upto(keys, s) /\ \A k \in Upto(keys, s) : k <= s
        BY <1>1, <2>4, <2>5
      <4>4. Len(longer) < MaxSelectiveAcks /\ Len(out) + 2 = Len(longer) + 1
        BY <1>1, <2>1, <3>3, <3>7
      <4>5. /\ ~new.full /\ Canonical(Append(new.out, new.run))
            /\ CoverOf(Append(new.out, new.run)) = Upto(keys, s)
            /\ Len(new.out) < MaxSelectiveAcks
            /\ Cardinality(Starts(keys, s)) = Len(new.out) + 1
            /\ new.run.end \in Upto(keys, s) /\ \A k \in Upto(keys, s) : k <= new.run.end
        <5> HIDE DEF s, out, full
        <5> QED  BY <3>2, <3>4, <3>6, <3>7, <4>1, <4>2, <4>3, <4>4
      <4>6. RunInv(keys, s, new)
        <5> HIDE DEF s, out, run, full
        <5> QED  BY <1>3, <4>5, StillRoom
      <4> QED  BY <4>6 DEF new, s
    <3>8. CASE full
      <4>1. Len(longer) = MaxSelectiveAcks
        BY <1>1, <2>1, <3>3, <3>8
      <4>2. Cardinality(Starts(keys, m)) = MaxSelectiveAcks
        BY <2>1, <3>3, <4>1
      <4>3. LowestRuns(keys) = Upto(keys, m)
        BY <3>5, <4>2, NoRoomLeft
      <4>4. Canonical(longer) /\ CoverOf(longer) = LowestRuns(keys)
        BY <2>1, <4>3 DEF longer
      <4>5. Len(longer) <= MaxSelectiveAcks
        BY <1>1, <4>1
      <4>6. /\ new.full /\ Canonical(new.out) /\ Len(new.out) <= MaxSelectiveAcks
            /\ CoverOf(new.out) = LowestRuns(keys)
        <5> HIDE DEF s, out, full
        <5> QED  BY <3>2, <3>8, <4>4, <4>5
      <4>7. RunInv(keys, s, new)
        <5> HIDE DEF s, out, run, full
        <5> QED  BY <1>3, <4>6, NoMoreRoom
      <4> QED  BY <4>7 DEF new, s
    <3> QED  BY <3>7, <3>8
  <2> QED  BY <2>7, <2>8
<1> QED  BY <1>4, <1>5

\* A sequence number that the receiver does not hold changes nothing.
LEMMA SkipKeeps ==
  ASSUME NEW keys \in SUBSET Sequence, NEW m \in Nat, m + 1 \notin keys,
         NEW state, RunInv(keys, m, state)
  PROVE  RunInv(keys, m + 1, state)
<1>1. \A k \in keys : k <= m + 1 <=> k <= m
  BY RangeAssumption DEF Sequence
<1>2. Upto(keys, m + 1) = Upto(keys, m) /\ Starts(keys, m + 1) = Starts(keys, m)
  BY <1>1 DEF Upto, Starts
<1> HIDE DEF Upto, Starts
<1> QED  BY <1>2 DEF RunInv

\* Before the first turn the current range is the lowest key.
LEMMA LoopStarts ==
  ASSUME NEW keys \in SUBSET Sequence, keys # {}
  PROVE  LET first == Min(keys)
         IN  RunInv(keys, first, [out |-> <<>>, run |-> Range2(first, first), full |-> FALSE])
<1> DEFINE first == Min(keys)
           run == Range2(first, first)
           start == [out |-> <<>>, run |-> run, full |-> FALSE]
<1>1. /\ keys \in SUBSET Nat /\ MaxSelectiveAcks \in Nat \ {0}
      /\ first \in keys /\ \A k \in keys : first <= k
  BY RangeAssumption, MinOfNaturals DEF Sequence
<1> HIDE DEF first
<1>2. first \in Nat /\ first \in Sequence /\ first - 1 \notin keys
  <2>1. first \in Nat /\ first \in Sequence /\ ~(first <= first - 1)
    BY <1>1
  <2> QED  BY <1>1, <2>1
<1>3. Upto(keys, first) = {first} /\ Starts(keys, first) = {first}
  <2>1. \A k \in keys : k <= first <=> k = first
    BY <1>1
  <2> QED  BY <1>1, <1>2, <2>1 DEF Upto, Starts
<1>4. /\ run \in DirectSelectiveAckRange /\ run.start = first /\ run.end = first
      /\ Covers(run) = {first}
  BY <1>2 DEF Range2, DirectSelectiveAckRange, Covers
<1> HIDE DEF run
<1>5. start \in RunState /\ start.out = <<>> /\ start.run = run /\ ~start.full
  BY <1>4, EmptyCanonical DEF RunState
<1> HIDE DEF start
<1>6. Canonical(Append(<<>>, run)) /\ CoverOf(Append(<<>>, run)) = {first}
  BY <1>2, <1>4, EmptyCanonical, CanonicalAppend, CoverAppend
<1>7. Len(<<>>) = 0 /\ Cardinality({first}) = 1
  BY FS_Singleton
<1>8. RunInv(keys, first, start)
  <2>1. Len(start.out) < MaxSelectiveAcks /\ Cardinality(Starts(keys, first)) = Len(start.out) + 1
    BY <1>1, <1>3, <1>5, <1>7
  <2>2. /\ Canonical(Append(start.out, start.run))
        /\ CoverOf(Append(start.out, start.run)) = Upto(keys, first)
        /\ start.run.end \in Upto(keys, first)
        /\ \A k \in Upto(keys, first) : k <= start.run.end
    BY <1>2, <1>3, <1>4, <1>5, <1>6
  <2> QED  BY <1>5, <2>1, <2>2, StillRoom
<1> QED  BY <1>8 DEF start, run, first

\* After the last turn the loop has seen every key.
LEMMA LoopEnds ==
  ASSUME NEW keys \in SUBSET Sequence, keys # {}
  PROVE  RunInv(keys, MaxSequence, AllRuns(keys))
<1> DEFINE first == Min(keys)
           more == keys \ {first}
<1>1. /\ keys \in SUBSET Nat /\ MaxSequence \in Nat /\ first \in keys
      /\ \A k \in keys : first <= k /\ k \in Nat /\ k <= MaxSequence
  BY RangeAssumption, MinOfNaturals DEF Sequence
<1>2. PICK c :
         /\ c[{}] = [out |-> <<>>, run |-> Range2(first, first), full |-> FALSE]
         /\ \A s \in SUBSET more : s # {} => c[s] = ExtendRun(c[s \ {Max(s)}], Max(s))
         /\ AllRuns(keys) = c[more]
  BY RunTurns
<1>3. RunInv(keys, first, c[{}])
  BY <1>2, LoopStarts
<1> HIDE DEF first
<1> DEFINE Seen(m) == {k \in more : k <= m}
           Inv(i) == RunInv(keys, first + i, c[Seen(first + i)])
           G == {i \in Nat : Inv(i)}
<1>4. first \in Nat /\ first \notin more /\ more \subseteq keys
  BY <1>1
<1>5. Inv(0)
  <2>1. \A k \in more : ~(k <= first)
    BY <1>1
  <2>2. first + 0 = first /\ Seen(first) = {}
    BY <1>4, <2>1
  <2> HIDE DEF Seen, more
  <2> QED  BY <1>3, <2>2
<1>6. ASSUME NEW i \in Nat, Inv(i) PROVE Inv(i + 1)
  <2> DEFINE m == first + i
             state == c[Seen(m)]
  <2>1. m \in Nat /\ first + (i + 1) = m + 1 /\ first <= m
    BY <1>4
  <2>2. RunInv(keys, m, state)
    BY <1>6
  <2> HIDE DEF m, state
  <2>3. CASE m + 1 \in keys
    <3>1. m + 1 \in more
      BY <1>4, <2>1, <2>3
    <3>2. Seen(m + 1) = Seen(m) \cup {m + 1} /\ m + 1 \notin Seen(m)
      <4>1. \A k \in more : k <= m + 1 <=> k <= m \/ k = m + 1
        BY <1>1, <1>4, <2>1
      <4>2. ~(m + 1 <= m)
        BY <2>1
      <4> HIDE DEF more
      <4> QED  BY <3>1, <4>1, <4>2
    <3>3. Seen(m + 1) \in SUBSET more /\ Seen(m + 1) # {} /\ Seen(m + 1) \ {m + 1} = Seen(m)
      BY <3>2
    <3>4. Max(Seen(m + 1)) = m + 1
      <4>1. Seen(m + 1) \in SUBSET (0..MaxSequence)
        <5>1. \A k \in keys : k \in 0..MaxSequence
          BY DEF Sequence
        <5> QED  BY <1>4, <3>3, <5>1
      <4>2. Max(Seen(m + 1)) \in Seen(m + 1) /\ m + 1 <= Max(Seen(m + 1))
        <5> HIDE DEF Seen
        <5> QED  BY <1>1, <3>2, <3>3, <4>1, MaxOfNaturals
      <4>3. \A k \in Seen(m + 1) : k \in Nat /\ k <= m + 1
        BY <1>1
      <4> HIDE DEF Seen
      <4> QED  BY <2>1, <4>2, <4>3
    <3> HIDE DEF Seen, more
    <3>5. c[Seen(m + 1)] = ExtendRun(state, m + 1)
      BY <1>2, <3>3, <3>4 DEF state
    <3>6. RunInv(keys, m + 1, ExtendRun(state, m + 1))
      BY <2>1, <2>2, <2>3, ExtendKeeps
    <3> QED  BY <2>1, <3>5, <3>6
  <2>4. CASE m + 1 \notin keys
    <3>1. Seen(m + 1) = Seen(m)
      <4>1. \A k \in more : k <= m + 1 <=> k <= m
        BY <1>1, <1>4, <2>1, <2>4
      <4> HIDE DEF more
      <4> QED  BY <4>1
    <3> HIDE DEF Seen
    <3>2. RunInv(keys, m + 1, state)
      BY <2>1, <2>2, <2>4, SkipKeeps
    <3> QED  BY <2>1, <3>1, <3>2 DEF state
  <2> QED  BY <2>3, <2>4
<1>7. MaxSequence - first \in Nat /\ first + (MaxSequence - first) = MaxSequence
  BY <1>1, <1>4
<1>8. Inv(MaxSequence - first)
  <2>1. \A i \in Nat : i \in G <=> Inv(i)
    OBVIOUS
  <2> HIDE DEF Inv, G
  <2>2. MaxSequence - first \in G
    BY <1>5, <1>6, <1>7, <2>1, Upwards
  <2> QED  BY <1>7, <2>1, <2>2
<1>9. Seen(MaxSequence) = more
  BY <1>1, <1>4
<1> HIDE DEF Seen, more
<1> QED  BY <1>2, <1>7, <1>8, <1>9

\* The ranges of an ack are the lowest runs of the reorder buffer.
LEMMA AckRanges ==
  ASSUME NEW keys \in SUBSET Sequence
  PROVE  LET list == SelectiveAckRanges(keys)
         IN  /\ list \in Lists /\ Canonical(list) /\ Len(list) <= MaxSelectiveAcks
             /\ CoverOf(list) = LowestRuns(keys)
<1>0. MaxSelectiveAcks \in Nat /\ MaxSequence \in Nat /\ keys \subseteq Nat
  BY RangeAssumption DEF Sequence
<1>1. CASE keys = {}
  <2>1. SelectiveAckRanges(keys) = <<>> /\ LowestRuns(keys) = {} /\ Len(<<>>) = 0
    BY <1>1 DEF SelectiveAckRanges, LowestRuns
  <2> QED  BY <1>0, <2>1, EmptyCanonical
<1>2. CASE keys # {}
  <2> DEFINE final == AllRuns(keys)
  <2>1. RunInv(keys, MaxSequence, final)
    BY <1>2, LoopEnds
  <2>2. SelectiveAckRanges(keys) = IF final.full THEN final.out ELSE Append(final.out, final.run)
    BY <1>2 DEF SelectiveAckRanges
  <2> HIDE DEF final
  <2>3. /\ final.out \in Lists /\ final.run \in DirectSelectiveAckRange
        /\ final.full \in BOOLEAN
    BY <2>1 DEF RunInv, RunState
  <2>4. CASE final.full
    BY <2>1, <2>2, <2>3, <2>4 DEF RunInv
  <2>5. CASE ~final.full
    <3> DEFINE list == Append(final.out, final.run)
    <3>1. /\ list \in Lists /\ Canonical(list) /\ CoverOf(list) = Upto(keys, MaxSequence)
          /\ Len(list) = Len(final.out) + 1 /\ Len(final.out) \in Nat
          /\ Len(final.out) < MaxSelectiveAcks
          /\ Cardinality(Starts(keys, MaxSequence)) = Len(final.out) + 1
      <4>1. list \in Lists /\ Len(list) = Len(final.out) + 1
        BY <2>3, AppendedParts
      <4>2. Len(final.out) \in Nat
        BY <2>3, LenProperties DEF Lists
      <4> QED  BY <2>1, <2>5, <4>1, <4>2 DEF RunInv
    <3>2. Upto(keys, MaxSequence) = keys
      <4>1. \A k \in keys : k <= MaxSequence
        BY DEF Sequence
      <4> QED  BY <4>1 DEF Upto
    <3>3. Len(list) <= MaxSelectiveAcks /\ Cardinality(Starts(keys, MaxSequence)) <= MaxSelectiveAcks
      <4> HIDE DEF list
      <4> QED  BY <1>0, <3>1
    <3>4. ASSUME NEW k \in keys PROVE Cardinality(Starts(keys, k)) <= MaxSelectiveAcks
      <4>1. Starts(keys, k) \subseteq Starts(keys, MaxSequence)
        <5>1. k \in Nat /\ k <= MaxSequence
          BY <1>0 DEF Sequence
        <5> QED  BY <1>0, <5>1, StartsGrow
      <4>2. /\ IsFiniteSet(Starts(keys, MaxSequence)) /\ Cardinality(Starts(keys, k)) \in Nat
            /\ Cardinality(Starts(keys, MaxSequence)) \in Nat
        BY StartsSize
      <4>3. Cardinality(Starts(keys, k)) <= Cardinality(Starts(keys, MaxSequence))
        BY <4>1, <4>2, FS_Subset
      <4> QED  BY <1>0, <3>3, <4>2, <4>3
    <3>5. LowestRuns(keys) = keys
      <4>1. LowestRuns(keys) = {k \in keys : Cardinality(Starts(keys, k)) <= MaxSelectiveAcks}
        BY DEF LowestRuns, Starts
      <4> QED  BY <3>4, <4>1
    <3>6. SelectiveAckRanges(keys) = list
      BY <2>2, <2>5
    <3> HIDE DEF list
    <3> QED  BY <3>1, <3>2, <3>3, <3>5, <3>6
  <2> QED  BY <2>3, <2>4, <2>5
<1> QED  BY <1>1, <1>2

-----------------------------------------------------------------------------
(* The theorems *)

\* The choice of a timeout, for a scoreboard of any ranges.
LEMMA OldestIsChosen ==
  ASSUME NEW list \in Lists, NEW outstanding \in SUBSET Sequence,
         NEW timedOut \in SUBSET outstanding, timedOut # {}
  PROVE  TimeoutChoice(outstanding, list, timedOut) = Min(timedOut)
<1> DEFINE holes == RetransmitHoles(outstanding, list) \cap timedOut
           oldest == Min(timedOut)
<1>1. timedOut \in SUBSET Nat
  BY RangeAssumption DEF Sequence
<1>2. oldest \in timedOut /\ \A s \in timedOut : oldest <= s
  BY <1>1, MinOfNaturals
<1>3. CASE holes = {}
  BY <1>3 DEF TimeoutChoice
<1>4. CASE holes # {}
  <2> DEFINE lowest == Min(holes)
             top == Last(list).end
  <2>1. holes \in SUBSET Nat
    BY <1>1
  <2>2. lowest \in holes /\ \A s \in holes : lowest <= s
    <3> HIDE DEF holes
    <3> QED  BY <1>4, <2>1, MinOfNaturals
  <2>3. list # <<>> /\ \A s \in timedOut : s \in holes <=> s <= top
    BY <1>4 DEF RetransmitHoles
  <2>4. top \in Nat
    BY <2>3, FrontAndLast, RangeType
  <2>5. lowest \in timedOut
    BY <2>2
  <2>6. TimeoutChoice(outstanding, list, timedOut) = lowest
    BY <1>4 DEF TimeoutChoice
  <2> HIDE DEF holes, lowest, oldest, top
  <2>7. oldest \in Nat /\ lowest \in Nat /\ lowest <= top /\ oldest <= lowest
    BY <1>1, <1>2, <2>2, <2>3, <2>5
  <2>8. oldest <= top
    BY <2>4, <2>7
  <2>9. oldest \in holes
    BY <1>2, <2>3, <2>8
  <2> QED  BY <1>1, <1>2, <2>2, <2>6, <2>7, <2>9 DEF oldest
<1> QED  BY <1>3, <1>4

\* The state of the scoreboard between two acks.
SackInvariant ==
    /\ ranges \in Lists
    /\ covered \in SUBSET Sequence
    /\ ScoreboardIsSet

LEMMA CoverType ==
  ASSUME NEW list \in Lists
  PROVE  CoverOf(list) \in SUBSET Sequence
<1>1. \A i \in DOMAIN list : list[i] \in DirectSelectiveAckRange
  BY DEF Lists
<1>2. ASSUME NEW r \in DirectSelectiveAckRange PROVE Covers(r) \subseteq Sequence
  <2>1. r.start \in 0..MaxSequence /\ r.end \in 0..MaxSequence /\ MaxSequence \in Nat
    BY RangeAssumption, RangeType
  <2> QED  BY <2>1 DEF Covers, Sequence
<1> HIDE DEF Covers
<1> QED  BY <1>1, <1>2 DEF CoverOf

\* An ack carries a list of ranges.
LEMMA IncomingType == BoundedSeq(DirectSelectiveAckRange, MaxIncoming) \subseteq Lists
<1>1. ASSUME NEW m \in 0..MaxIncoming, NEW list \in [1..m -> DirectSelectiveAckRange]
      PROVE  list \in Lists
  BY SeqDef DEF Lists
<1> QED  BY <1>1 DEF BoundedSeq, SeqOf

LEMMA InitSack == Init => SackInvariant
  BY EmptyCanonical DEF Init, SackInvariant, ScoreboardIsSet

LEMMA NextSack == SackInvariant /\ [Next]_vars => SackInvariant'
<1> SUFFICES ASSUME SackInvariant, [Next]_vars PROVE SackInvariant'
  OBVIOUS
<1>1. /\ ranges \in Lists /\ covered \in SUBSET Sequence
      /\ Canonical(ranges) /\ CoverOf(ranges) = covered
  BY DEF SackInvariant, ScoreboardIsSet
<1>2. ASSUME NEW incoming \in BoundedSeq(DirectSelectiveAckRange, MaxIncoming),
             Observe(incoming)
      PROVE  SackInvariant'
  <2>1. incoming \in Lists /\ CoverOf(incoming) \in SUBSET Sequence
    BY IncomingType, CoverType
  <2>2. /\ ranges' = ObserveRanges(ranges, incoming)
        /\ covered' = covered \cup CoverOf(incoming)
    BY <1>2 DEF Observe
  <2>3. ranges' \in Lists /\ Canonical(ranges') /\ CoverOf(ranges') = covered'
    BY <1>1, <2>1, <2>2, Observed
  <2> QED  BY <1>1, <2>1, <2>2, <2>3 DEF SackInvariant, ScoreboardIsSet
<1>3. ASSUME NEW next \in Sequence, Advance(next) PROVE SackInvariant'
  <2>1. /\ ranges' = AdvanceCumulativeAck(ranges, next)
        /\ covered' = {s \in covered : s >= next}
    BY <1>3 DEF Advance
  <2>2. ranges' \in Lists /\ Canonical(ranges') /\ CoverOf(ranges') = covered'
    BY <1>1, <2>1, Advanced
  <2> QED  BY <1>1, <2>1, <2>2 DEF SackInvariant, ScoreboardIsSet
<1>4. ASSUME UNCHANGED vars PROVE SackInvariant'
  BY <1>1, <1>4 DEF vars, SackInvariant, ScoreboardIsSet
<1> QED  BY <1>2, <1>3, <1>4 DEF Next

THEOREM SackInvariantAlways == Spec => []SackInvariant
<1> QED  BY InitSack, NextSack, PTL DEF Spec

\* However acks overlap, repeat or touch, and however often the cumulative ack trims it, the
\* scoreboard is the one canonical list of the sequence numbers reported and not yet acked:
\* any sequence numbers, any number of acks and of ranges in each.
THEOREM ScoreboardIsSetAlways == Spec => []ScoreboardIsSet
<1>1. SackInvariant => ScoreboardIsSet
  BY DEF SackInvariant
<1> QED  BY <1>1, SackInvariantAlways, PTL

\* From any reorder buffer the receiver acks its lowest runs, whole, at most
\* MaxSelectiveAcks of them.
THEOREM AckRangesAreLowestRunsAlways == Spec => []AckRangesAreLowestRuns
<1>1. SackInvariant => AckRangesAreLowestRuns
  BY AckRanges DEF SackInvariant, AckRangesAreLowestRuns
<1> QED  BY <1>1, SackInvariantAlways, PTL

\* A timeout resends the oldest packet that has timed out, whatever the scoreboard holds.
THEOREM TimeoutResendsOldestAlways == Spec => []TimeoutResendsOldest
<1>1. SackInvariant => TimeoutResendsOldest
  <2> SUFFICES ASSUME SackInvariant, NEW outstanding \in SUBSET (Sequence \ covered),
                      NEW timedOut \in SUBSET outstanding, timedOut # {}
               PROVE  TimeoutChoice(outstanding, ranges, timedOut) = Min(timedOut)
    BY DEF TimeoutResendsOldest
  <2>1. ranges \in Lists /\ outstanding \in SUBSET Sequence
    BY DEF SackInvariant
  <2> QED  BY <2>1, OldestIsChosen
<1> QED  BY <1>1, SackInvariantAlways, PTL

\* What an ack adds to the duplicate-ack evidence is the number of sequence numbers that were
\* not known before, however its ranges overlap those known and each other.
THEOREM EvidenceIsNewsAlways == Spec => EvidenceIsNews
<1>1. ASSUME SackInvariant, SackInvariant', Next
      PROVE  evidence' = Cardinality(covered' \ covered)
  <2>1. /\ ranges \in Lists /\ Canonical(ranges) /\ CoverOf(ranges) = covered
        /\ ranges' \in Lists /\ Canonical(ranges') /\ CoverOf(ranges') = covered'
    BY <1>1 DEF SackInvariant, ScoreboardIsSet
  <2>2. ASSUME NEW incoming \in BoundedSeq(DirectSelectiveAckRange, MaxIncoming),
               Observe(incoming)
        PROVE  evidence' = Cardinality(covered' \ covered)
    <3>1. /\ evidence' = CoveredCount(ranges') - CoveredCount(ranges)
          /\ covered \subseteq covered'
      BY <2>2 DEF Observe, NewEvidence
    <3>2. /\ IsFiniteSet(covered) /\ CoveredCount(ranges) = Cardinality(covered)
          /\ IsFiniteSet(covered') /\ CoveredCount(ranges') = Cardinality(covered')
      BY <2>1, Counted
    <3>3. Cardinality(covered' \ covered)
            = Cardinality(covered') - Cardinality(covered' \cap covered)
      BY <3>2, FS_Difference
    <3>4. covered' \cap covered = covered
      BY <3>1
    <3> QED  BY <3>1, <3>2, <3>3, <3>4
  <2>3. ASSUME NEW next \in Sequence, Advance(next)
        PROVE  evidence' = Cardinality(covered' \ covered)
    <3>1. evidence' = 0 /\ covered' \ covered = {}
      BY <2>3 DEF Advance
    <3> QED  BY <3>1, FS_EmptySet
  <2> QED  BY <1>1, <2>2, <2>3 DEF Next
<1>2. SackInvariant /\ SackInvariant' /\ [Next]_vars
        => [evidence' = Cardinality(covered' \ covered)]_vars
  BY <1>1
<1> QED  BY <1>2, SackInvariantAlways, PTL DEF Spec, EvidenceIsNews
=============================================================================
