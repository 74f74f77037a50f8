------------------------- MODULE RelayBridge_proofs -------------------------
(***************************************************************************)
(* Theorems about RelayBridge, for any set of channels, any number of      *)
(* chunks and any number of lost websockets: what the two ends of a        *)
(* bridged stream write is what was read at the other end.                 *)
(***************************************************************************)
EXTENDS RelayBridge, FiniteSetTheorems, TLAPS

LEMMA PeerFacts ==
  ASSUME NEW a \in Agents
  PROVE  /\ Peer(a) \in Agents /\ Peer(a) # a /\ Peer(Peer(a)) = a
         /\ \A b \in Agents : b = a \/ b = Peer(a)
  BY AgentsAssumption DEF Peer, Agents

----------------------------------------------------------------------------
(* Queues of envelopes *)

LEMMA AppendedIndices ==
  ASSUME NEW q \in Seq(Envelope), NEW m \in Envelope
  PROVE  /\ Append(q, m) \in Seq(Envelope)
         /\ DOMAIN Append(q, m) = DOMAIN q \union {Len(q) + 1}
         /\ \A i \in DOMAIN q : Append(q, m)[i] = q[i] /\ i < Len(q) + 1
         /\ Append(q, m)[Len(q) + 1] = m
         /\ DOMAIN q = 1 .. Len(q) /\ Len(q) \in Nat
  OBVIOUS

LEMMA TailIndices ==
  ASSUME NEW q \in Seq(Envelope), q # <<>>
  PROVE  /\ Tail(q) \in Seq(Envelope)
         /\ Head(q) \in Envelope /\ Head(q) = q[1] /\ 1 \in DOMAIN q
         /\ \A i \in DOMAIN Tail(q) : i + 1 \in DOMAIN q /\ Tail(q)[i] = q[i + 1]
         /\ \A i \in DOMAIN q : i = 1 \/ (i - 1 \in DOMAIN Tail(q) /\ Tail(q)[i - 1] = q[i])
         /\ DOMAIN q \subseteq Nat \ {0} /\ DOMAIN Tail(q) \subseteq Nat \ {0}
  OBVIOUS

LEMMA JoinedIndices ==
  ASSUME NEW q \in Seq(Envelope), NEW r \in Seq(Envelope)
  PROVE  /\ q \o r \in Seq(Envelope)
         /\ \A i \in DOMAIN q : i \in DOMAIN (q \o r) /\ (q \o r)[i] = q[i]
         /\ \A i \in DOMAIN (q \o r) \ DOMAIN q :
               i - Len(q) \in DOMAIN r /\ (q \o r)[i] = r[i - Len(q)]
         /\ \A i \in DOMAIN q, j \in DOMAIN (q \o r) \ DOMAIN q : i < j
         /\ DOMAIN (q \o r) \subseteq Nat
  OBVIOUS

LEMMA OneIsAppended ==
  ASSUME NEW q \in Seq(Envelope), NEW m \in Envelope
  PROVE  q \o <<m>> = Append(q, m)
  OBVIOUS

LEMMA HoldsInAppended ==
  ASSUME NEW q \in Seq(Envelope), NEW m \in Envelope, NEW k, NEW c
  PROVE  Holds(Append(q, m), k, c) <=> Holds(q, k, c) \/ Is(m, k, c)
  BY AppendedIndices DEF Holds

LEMMA HoldsInTail ==
  ASSUME NEW q \in Seq(Envelope), q # <<>>, NEW k, NEW c
  PROVE  Holds(q, k, c) <=> Holds(Tail(q), k, c) \/ Is(Head(q), k, c)
  BY TailIndices DEF Holds

LEMMA HoldsInJoined ==
  ASSUME NEW q \in Seq(Envelope), NEW r \in Seq(Envelope), NEW k, NEW c, Holds(q \o r, k, c)
  PROVE  Holds(q, k, c) \/ Holds(r, k, c)
  BY JoinedIndices DEF Holds

LEMMA OnceInAppended ==
  ASSUME NEW q \in Seq(Envelope), NEW m \in Envelope, NEW k, NEW c,
         AtMostOne(q, k, c), ~Holds(q, k, c) \/ ~Is(m, k, c)
  PROVE  AtMostOne(Append(q, m), k, c)
  BY AppendedIndices DEF Holds, AtMostOne

LEMMA OnceInTail ==
  ASSUME NEW q \in Seq(Envelope), q # <<>>, NEW k, NEW c, AtMostOne(q, k, c)
  PROVE  /\ AtMostOne(Tail(q), k, c)
         /\ Is(Head(q), k, c) => ~Holds(Tail(q), k, c)
<1>1. AtMostOne(Tail(q), k, c)
  <2> SUFFICES ASSUME NEW i \in DOMAIN Tail(q), NEW j \in DOMAIN Tail(q),
                      Is(Tail(q)[i], k, c), Is(Tail(q)[j], k, c)
               PROVE  i = j
    BY DEF AtMostOne
  <2>1. i + 1 = j + 1
    BY TailIndices DEF AtMostOne
  <2> QED  BY <2>1, TailIndices
<1>2. ASSUME Is(Head(q), k, c), NEW i \in DOMAIN Tail(q), Is(Tail(q)[i], k, c)
      PROVE  FALSE
  <2>1. i + 1 = 1
    BY <1>2, TailIndices DEF AtMostOne
  <2> QED  BY <2>1, TailIndices
<1> QED  BY <1>1, <1>2 DEF Holds

LEMMA OnceInJoined ==
  ASSUME NEW q \in Seq(Envelope), NEW r \in Seq(Envelope), NEW k, NEW c,
         AtMostOne(q, k, c), ~Holds(r, k, c)
  PROVE  AtMostOne(q \o r, k, c)
  BY JoinedIndices DEF Holds, AtMostOne

LEMMA KindsInAppended ==
  ASSUME NEW q \in Seq(Envelope), NEW m \in Envelope, NEW S, OnlyKinds(q, S), m.kind \in S
  PROVE  OnlyKinds(Append(q, m), S)
  BY AppendedIndices DEF OnlyKinds

LEMMA KindsInTail ==
  ASSUME NEW q \in Seq(Envelope), q # <<>>, NEW S, OnlyKinds(q, S)
  PROVE  OnlyKinds(Tail(q), S) /\ Head(q).kind \in S
  BY TailIndices DEF OnlyKinds

LEMMA KindsInJoined ==
  ASSUME NEW q \in Seq(Envelope), NEW r \in Seq(Envelope), NEW S,
         OnlyKinds(q, S), OnlyKinds(r, S)
  PROVE  OnlyKinds(q \o r, S)
  BY JoinedIndices DEF OnlyKinds

----------------------------------------------------------------------------
(* The chunks that a queue carries *)

LEMMA EmptyCarries ==
  ASSUME NEW c, NEW x \in Nat
  PROVE  Carries(<<>>, c, x, x) /\ \A k : ~Holds(<<>>, k, c)
  BY DEF Carries, Holds

LEMMA CarriesAppended ==
  ASSUME NEW q \in Seq(Envelope), NEW m \in Envelope, NEW c, NEW x \in Nat, NEW y \in Nat,
         Carries(q, c, x, y), ~Is(m, "Data", c)
  PROVE  Carries(Append(q, m), c, x, y)
  BY AppendedIndices DEF Carries

\* A chunk that is appended has to be the next one, and the stream not ended.
LEMMA CarriesNext ==
  ASSUME NEW q \in Seq(Envelope), NEW m \in Envelope, NEW c, NEW x \in Nat, NEW y \in Nat,
         Carries(q, c, x, y), ~Holds(q, "Eof", c), Is(m, "Data", c), m.n = y + 1
  PROVE  Carries(Append(q, m), c, x, y + 1)
<1> DEFINE r == Append(q, m)
<1>1. \A i \in DOMAIN r : Is(r[i], "Data", c) => r[i].n \in x + 1 .. y + 1
  BY AppendedIndices DEF Carries
<1>2. \A n \in x + 1 .. y + 1 : \E i \in DOMAIN r : Is(r[i], "Data", c) /\ r[i].n = n
  <2> SUFFICES ASSUME NEW n \in x + 1 .. y + 1
               PROVE  \E i \in DOMAIN r : Is(r[i], "Data", c) /\ r[i].n = n
    OBVIOUS
  <2>1. CASE n = y + 1
    BY <2>1, AppendedIndices
  <2>2. CASE n \in x + 1 .. y
    BY <2>2, AppendedIndices DEF Carries
  <2> QED  BY <2>1, <2>2
<1>3. \A i, j \in DOMAIN r :
         i < j /\ Is(r[i], "Data", c) /\ Is(r[j], "Data", c) => r[i].n < r[j].n
  BY AppendedIndices DEF Carries
<1>4. \A i, j \in DOMAIN r : i < j /\ Is(r[i], "Eof", c) => ~Is(r[j], "Data", c)
  BY AppendedIndices DEF Carries, Holds, Is
<1>5. x <= y + 1
  BY DEF Carries
<1> HIDE DEF r
<1>6. Carries(r, c, x, y + 1)
  BY <1>1, <1>2, <1>3, <1>4, <1>5 DEF Carries
<1> QED  BY <1>6 DEF r

LEMMA CarriesTail ==
  ASSUME NEW q \in Seq(Envelope), q # <<>>, NEW c, NEW x \in Nat, NEW y \in Nat,
         Carries(q, c, x, y), ~Is(Head(q), "Data", c)
  PROVE  Carries(Tail(q), c, x, y)
<1> DEFINE r == Tail(q)
<1>1. \A i \in DOMAIN r : Is(r[i], "Data", c) => r[i].n \in x + 1 .. y
  BY TailIndices DEF Carries
<1>2. \A n \in x + 1 .. y : \E i \in DOMAIN r : Is(r[i], "Data", c) /\ r[i].n = n
  <2> SUFFICES ASSUME NEW n \in x + 1 .. y
               PROVE  \E i \in DOMAIN r : Is(r[i], "Data", c) /\ r[i].n = n
    OBVIOUS
  <2>1. PICK i \in DOMAIN q : Is(q[i], "Data", c) /\ q[i].n = n
    BY DEF Carries
  <2> QED  BY <2>1, TailIndices
<1>3. \A i, j \in DOMAIN r : i < j =>
         /\ Is(r[i], "Data", c) /\ Is(r[j], "Data", c) => r[i].n < r[j].n
         /\ Is(r[i], "Eof", c) => ~Is(r[j], "Data", c)
  <2> SUFFICES ASSUME NEW i \in DOMAIN r, NEW j \in DOMAIN r, i < j
               PROVE  /\ Is(r[i], "Data", c) /\ Is(r[j], "Data", c) => r[i].n < r[j].n
                      /\ Is(r[i], "Eof", c) => ~Is(r[j], "Data", c)
    OBVIOUS
  <2>1. i + 1 < j + 1 /\ i + 1 \in DOMAIN q /\ j + 1 \in DOMAIN q
    BY TailIndices
  <2> QED  BY <2>1, TailIndices DEF Carries
<1> QED  BY <1>1, <1>2, <1>3 DEF Carries

\* A chunk at the head is the first, and the rest carries those after it.
LEMMA CarriesFirst ==
  ASSUME NEW q \in Seq(Envelope), q # <<>>, NEW c, NEW x \in Nat, NEW y \in Nat,
         Carries(q, c, x, y), Is(Head(q), "Data", c)
  PROVE  Head(q).n = x + 1 /\ x < y /\ Carries(Tail(q), c, x + 1, y)
<1> DEFINE r == Tail(q)
<1>1. q[1].n \in x + 1 .. y
  BY TailIndices DEF Carries
<1>2. q[1].n = x + 1
  <2>1. PICK i \in DOMAIN q : Is(q[i], "Data", c) /\ q[i].n = x + 1
    BY <1>1 DEF Carries
  <2>2. CASE i # 1
    <3>1. 1 < i
      BY <2>2, TailIndices
    <3>2. q[1].n < q[i].n
      BY <2>1, <3>1, TailIndices DEF Carries
    <3> QED  BY <1>1, <2>1, <3>2
  <2> QED  BY <2>1, <2>2
<1>3. \A i, j \in DOMAIN r : i < j =>
         /\ Is(r[i], "Data", c) /\ Is(r[j], "Data", c) => r[i].n < r[j].n
         /\ Is(r[i], "Eof", c) => ~Is(r[j], "Data", c)
  <2> SUFFICES ASSUME NEW i \in DOMAIN r, NEW j \in DOMAIN r, i < j
               PROVE  /\ Is(r[i], "Data", c) /\ Is(r[j], "Data", c) => r[i].n < r[j].n
                      /\ Is(r[i], "Eof", c) => ~Is(r[j], "Data", c)
    OBVIOUS
  <2>1. i + 1 < j + 1 /\ i + 1 \in DOMAIN q /\ j + 1 \in DOMAIN q
    BY TailIndices
  <2> QED  BY <2>1, TailIndices DEF Carries
<1>4. \A i \in DOMAIN r : Is(r[i], "Data", c) => r[i].n \in (x + 1) + 1 .. y
  <2> SUFFICES ASSUME NEW i \in DOMAIN r, Is(r[i], "Data", c)
               PROVE  r[i].n \in (x + 1) + 1 .. y
    OBVIOUS
  <2>1. i + 1 \in DOMAIN q /\ r[i] = q[i + 1] /\ 1 < i + 1
    BY TailIndices
  <2>2. q[i + 1].n \in x + 1 .. y /\ q[1].n < q[i + 1].n
    BY <2>1, TailIndices DEF Carries
  <2> QED  BY <1>2, <2>1, <2>2
<1>5. \A n \in (x + 1) + 1 .. y : \E i \in DOMAIN r : Is(r[i], "Data", c) /\ r[i].n = n
  <2> SUFFICES ASSUME NEW n \in (x + 1) + 1 .. y
               PROVE  \E i \in DOMAIN r : Is(r[i], "Data", c) /\ r[i].n = n
    OBVIOUS
  <2>1. PICK i \in DOMAIN q : Is(q[i], "Data", c) /\ q[i].n = n
    BY DEF Carries
  <2>2. i # 1
    BY <1>2, <2>1
  <2> QED  BY <2>1, <2>2, TailIndices
<1> QED  BY <1>1, <1>2, <1>3, <1>4, <1>5, TailIndices DEF Carries

\* Nothing is left to carry when the end of the stream is at the head.
LEMMA CarriesNoMore ==
  ASSUME NEW q \in Seq(Envelope), q # <<>>, NEW c, NEW x \in Nat, NEW y \in Nat,
         Carries(q, c, x, y), Is(Head(q), "Eof", c)
  PROVE  x = y
<1> SUFFICES ASSUME x # y PROVE FALSE
  OBVIOUS
<1>1. x < y
  BY DEF Carries
<1>2. PICK i \in DOMAIN q : Is(q[i], "Data", c) /\ q[i].n = x + 1
  BY <1>1 DEF Carries
<1>3. i # 1
  BY <1>2, TailIndices DEF Is
<1>4. 1 < i /\ 1 \in DOMAIN q
  BY <1>3, TailIndices
<1> QED  BY <1>2, <1>4, TailIndices DEF Carries

LEMMA CarriesJoined ==
  ASSUME NEW q \in Seq(Envelope), NEW r \in Seq(Envelope), NEW c,
         NEW x \in Nat, NEW y \in Nat, Carries(q, c, x, y), ~Holds(r, "Data", c)
  PROVE  Carries(q \o r, c, x, y)
<1> DEFINE s == q \o r
<1>1. \A i \in DOMAIN s : Is(s[i], "Data", c) => i \in DOMAIN q /\ s[i] = q[i]
  BY JoinedIndices DEF Holds
<1>2. \A i \in DOMAIN q : i \in DOMAIN s /\ s[i] = q[i]
  BY JoinedIndices
<1>3. \A i, j \in DOMAIN s : i < j /\ j \in DOMAIN q => i \in DOMAIN q
  BY JoinedIndices
<1>4. \A i \in DOMAIN s : Is(s[i], "Data", c) => s[i].n \in x + 1 .. y
  BY <1>1 DEF Carries
<1>5. \A n \in x + 1 .. y : \E i \in DOMAIN s : Is(s[i], "Data", c) /\ s[i].n = n
  BY <1>2 DEF Carries
<1>6. \A i, j \in DOMAIN s : i < j =>
         /\ Is(s[i], "Data", c) /\ Is(s[j], "Data", c) => s[i].n < s[j].n
         /\ Is(s[i], "Eof", c) => ~Is(s[j], "Data", c)
  BY <1>1, <1>2, <1>3 DEF Carries
<1> HIDE DEF s
<1>7. Carries(s, c, x, y)
  BY <1>4, <1>5, <1>6 DEF Carries
<1> QED  BY <1>7 DEF s

----------------------------------------------------------------------------
(* Queues that carry the same, or no more than before *)

\* What the second queue carries of the channel is what the first one does.
Like(q, r, c) ==
    /\ \A x, y \in Nat : Carries(q, c, x, y) => Carries(r, c, x, y)
    /\ Holds(r, "Eof", c) => Holds(q, "Eof", c)

Cargo == {"Data", "Eof"}

LEMMA LikeAppended ==
  ASSUME NEW q \in Seq(Envelope), NEW m \in Envelope, NEW c,
         m.chan # c \/ m.kind \notin Cargo
  PROVE  Like(q, Append(q, m), c)
<1>1. ~Is(m, "Data", c) /\ ~Is(m, "Eof", c)
  BY DEF Is, Cargo
<1> QED  BY <1>1, CarriesAppended, HoldsInAppended DEF Like

LEMMA LikeTail ==
  ASSUME NEW q \in Seq(Envelope), q # <<>>, NEW c, ~Is(Head(q), "Data", c)
  PROVE  Like(q, Tail(q), c)
  BY CarriesTail, HoldsInTail DEF Like

LEMMA LikeJoined ==
  ASSUME NEW q \in Seq(Envelope), NEW r \in Seq(Envelope), NEW c,
         \A i \in DOMAIN r : r[i].kind \notin Cargo
  PROVE  Like(q, q \o r, c)
<1>1. ~Holds(r, "Data", c) /\ ~Holds(r, "Eof", c)
  BY DEF Holds, Is, Cargo
<1> QED  BY <1>1, CarriesJoined, HoldsInJoined DEF Like

\* A flow is kept when its queues carry the same and no more is heard or passes.
LEMMA FlowKept ==
  ASSUME NEW box, NEW way, NEW queue, NEW c, NEW got \in Nat, NEW all \in Nat,
         NEW ended \in BOOLEAN, NEW hears \in BOOLEAN, NEW passes \in BOOLEAN,
         Flow(box, way, queue, c, got, all, ended, hears, passes),
         NEW box2, NEW way2, NEW queue2,
         NEW ended2 \in BOOLEAN, NEW hears2 \in BOOLEAN, NEW passes2 \in BOOLEAN,
         Like(box, box2, c), ended => ended2, hears2 => hears,
         hears2 => Like(way, way2, c),
         hears2 /\ passes2 => passes /\ Like(queue, queue2, c)
  PROVE  Flow(box2, way2, queue2, c, got, all, ended2, hears2, passes2)
<1>1. PICK x \in 0 .. all, y \in 0 .. all :
        /\ Carries(box, c, got, x)
        /\ Holds(box, "Eof", c) => ended /\ x = all
        /\ hears =>
              /\ Carries(way, c, x, y)
              /\ Holds(way, "Eof", c) => ended /\ y = all
              /\ passes =>
                    /\ Carries(queue, c, y, all)
                    /\ Holds(queue, "Eof", c) => ended
  BY DEF Flow
<1>2. x \in Nat /\ y \in Nat
  OBVIOUS
<1>3. Carries(box2, c, got, x) /\ (Holds(box2, "Eof", c) => ended2 /\ x = all)
  BY <1>1, <1>2 DEF Like
<1>4. hears2 => Carries(way2, c, x, y) /\ (Holds(way2, "Eof", c) => ended2 /\ y = all)
  BY <1>1, <1>2 DEF Like
<1>5. hears2 /\ passes2 =>
         Carries(queue2, c, y, all) /\ (Holds(queue2, "Eof", c) => ended2)
  BY <1>1, <1>2 DEF Like
<1> QED  BY <1>3, <1>4, <1>5 DEF Flow

LEMMA FlowLess ==
  ASSUME NEW box, NEW way, NEW queue, NEW c, NEW got, NEW all, NEW ended \in BOOLEAN,
         NEW hears \in BOOLEAN, NEW passes \in BOOLEAN,
         Flow(box, way, queue, c, got, all, ended, hears, passes),
         NEW hears2 \in BOOLEAN, NEW passes2 \in BOOLEAN,
         hears2 => hears, passes2 => passes
  PROVE  Flow(box, way, queue, c, got, all, ended, hears2, passes2)
  BY DEF Flow

\* The reader half takes a chunk and queues it, or cannot queue it any more.
LEMMA FlowReads ==
  ASSUME NEW box, NEW way, NEW queue \in Seq(Envelope), NEW c,
         NEW got \in Nat, NEW all \in Nat,
         NEW ended \in BOOLEAN, NEW ended2 \in BOOLEAN, ~ended, ~ended2,
         NEW hears \in BOOLEAN, NEW passes \in BOOLEAN, NEW queue2, NEW m \in Envelope,
         Flow(box, way, queue, c, got, all, ended, hears, passes),
         Is(m, "Data", c), m.n = all + 1,
         passes => queue2 = Append(queue, m)
  PROVE  Flow(box, way, queue2, c, got, all + 1, ended2, hears, passes)
<1>1. PICK x \in 0 .. all, y \in 0 .. all :
        /\ Carries(box, c, got, x)
        /\ ~Holds(box, "Eof", c)
        /\ hears => Carries(way, c, x, y) /\ ~Holds(way, "Eof", c)
        /\ hears /\ passes => Carries(queue, c, y, all) /\ ~Holds(queue, "Eof", c)
  BY DEF Flow
<1>2. x \in 0 .. all + 1 /\ y \in 0 .. all + 1 /\ y \in Nat
  OBVIOUS
<1>3. hears /\ passes => Carries(queue2, c, y, all + 1) /\ ~Holds(queue2, "Eof", c)
  <2> SUFFICES ASSUME hears, passes
               PROVE  Carries(queue2, c, y, all + 1) /\ ~Holds(queue2, "Eof", c)
    OBVIOUS
  <2>1. ~Is(m, "Eof", c)
    BY DEF Is
  <2>2. Carries(queue, c, y, all) /\ ~Holds(queue, "Eof", c) /\ queue2 = Append(queue, m)
    BY <1>1
  <2>3. Carries(Append(queue, m), c, y, all + 1)
    BY <1>2, <2>2, CarriesNext
  <2>4. ~Holds(Append(queue, m), "Eof", c)
    BY <2>1, <2>2, HoldsInAppended
  <2> QED  BY <2>2, <2>3, <2>4
<1> QED  BY <1>1, <1>2, <1>3 DEF Flow

\* A flow of which everything passes, and one of which everything is heard.
PassingFlow(box, way, queue, c, got, all, ended, hears) ==
    Flow(box, way, queue, c, got, all, ended, hears, TRUE)
HeardFlow(box, way, queue, c, got, all, ended, passes) ==
    Flow(box, way, queue, c, got, all, ended, TRUE, passes)

\* The hub forwards a chunk or the end of the stream.
LEMMA FlowForwards ==
  ASSUME NEW box, NEW way \in Seq(Envelope), NEW queue \in Seq(Envelope), NEW c,
         NEW got \in Nat, NEW all \in Nat, NEW ended \in BOOLEAN,
         NEW hears \in BOOLEAN, NEW passes \in BOOLEAN, NEW m \in Envelope,
         PassingFlow(box, way, queue, c, got, all, ended, hears),
         queue # <<>>, Head(queue).chan = c, Head(queue).kind \in Cargo,
         m.chan = c, m.kind = Head(queue).kind,
         m.kind = "Data" => m = Head(queue)
  PROVE  Flow(box, Append(way, m), Tail(queue), c, got, all, ended, hears, passes)
<1>1. PICK x \in 0 .. all, y \in 0 .. all :
        /\ Carries(box, c, got, x)
        /\ Holds(box, "Eof", c) => ended /\ x = all
        /\ hears =>
              /\ Carries(way, c, x, y) /\ (Holds(way, "Eof", c) => ended /\ y = all)
              /\ Carries(queue, c, y, all) /\ (Holds(queue, "Eof", c) => ended)
  BY DEF PassingFlow, Flow
<1>2. x \in Nat /\ y \in Nat
  OBVIOUS
<1>3. CASE ~hears
  BY <1>1, <1>3 DEF Flow
<1>4. CASE hears /\ m.kind = "Data"
  <2>1. Is(Head(queue), "Data", c) /\ Is(m, "Data", c) /\ ~Is(m, "Eof", c)
    BY <1>4 DEF Is
  <2>2. m.n = y + 1 /\ y < all /\ Carries(Tail(queue), c, y + 1, all)
    BY <1>1, <1>2, <1>4, <2>1, CarriesFirst
  <2>3. ~Holds(way, "Eof", c)
    BY <1>1, <1>4, <2>2
  <2>4. Carries(Append(way, m), c, x, y + 1)
    BY <1>1, <1>2, <1>4, <2>1, <2>2, <2>3, CarriesNext
  <2>5. ~Holds(Append(way, m), "Eof", c)
    BY <2>1, <2>3, HoldsInAppended
  <2>6. Holds(Tail(queue), "Eof", c) => ended
    BY <1>1, <1>4, HoldsInTail
  <2>7. y + 1 \in 0 .. all
    BY <1>2, <2>2
  <2> QED  BY <1>1, <2>2, <2>4, <2>5, <2>6, <2>7 DEF Flow
<1>5. CASE hears /\ m.kind = "Eof"
  <2>1. Is(Head(queue), "Eof", c) /\ ~Is(Head(queue), "Data", c) /\ ~Is(m, "Data", c)
    BY <1>5 DEF Is
  <2>2. y = all /\ Carries(Tail(queue), c, y, all)
    BY <1>1, <1>2, <1>5, <2>1, CarriesNoMore, CarriesTail
  <2>3. ended
    BY <1>1, <1>5, <2>1, HoldsInTail
  <2>4. Carries(Append(way, m), c, x, y)
    BY <1>1, <1>2, <1>5, <2>1, CarriesAppended
  <2> QED  BY <1>1, <2>2, <2>3, <2>4 DEF Flow
<1> QED  BY <1>3, <1>4, <1>5 DEF Cargo

\* The reader task routes a chunk or the end of the stream to the handler.
LEMMA FlowDelivers ==
  ASSUME NEW box \in Seq(Envelope), NEW way \in Seq(Envelope), NEW queue, NEW c,
         NEW got \in Nat, NEW all \in Nat, NEW ended \in BOOLEAN,
         NEW hears \in BOOLEAN, NEW passes \in BOOLEAN,
         HeardFlow(box, way, queue, c, got, all, ended, passes),
         way # <<>>, Head(way).chan = c, Head(way).kind \in Cargo
  PROVE  Flow(Append(box, Head(way)), Tail(way), queue, c, got, all, ended, hears, passes)
<1> DEFINE m == Head(way)
<1>1. PICK x \in 0 .. all, y \in 0 .. all :
        /\ Carries(box, c, got, x)
        /\ Holds(box, "Eof", c) => ended /\ x = all
        /\ Carries(way, c, x, y) /\ (Holds(way, "Eof", c) => ended /\ y = all)
        /\ passes => Carries(queue, c, y, all) /\ (Holds(queue, "Eof", c) => ended)
  BY DEF HeardFlow, Flow
<1>2. x \in Nat /\ y \in Nat /\ m \in Envelope
  BY TailIndices
<1>3. Holds(Tail(way), "Eof", c) => ended /\ y = all
  BY <1>1, HoldsInTail
<1>4. CASE m.kind = "Data"
  <2>1. Is(m, "Data", c) /\ ~Is(m, "Eof", c)
    BY <1>4 DEF Is
  <2>2. m.n = x + 1 /\ x < y /\ Carries(Tail(way), c, x + 1, y)
    BY <1>1, <1>2, <2>1, CarriesFirst
  <2>3. ~Holds(box, "Eof", c)
    BY <1>1, <2>2
  <2>4. Carries(Append(box, m), c, got, x + 1)
    BY <1>1, <1>2, <2>1, <2>2, <2>3, CarriesNext
  <2>5. ~Holds(Append(box, m), "Eof", c)
    BY <1>2, <2>1, <2>3, HoldsInAppended
  <2>6. x + 1 \in 0 .. all
    BY <1>2, <2>2
  <2> QED  BY <1>1, <1>3, <2>2, <2>4, <2>5, <2>6 DEF Flow
<1>5. CASE m.kind = "Eof"
  <2>1. Is(m, "Eof", c) /\ ~Is(m, "Data", c)
    BY <1>5 DEF Is
  <2>2. x = y /\ Carries(Tail(way), c, x, y)
    BY <1>1, <1>2, <2>1, CarriesNoMore, CarriesTail
  <2>3. ended /\ y = all
    BY <1>1, <2>1, HoldsInTail
  <2>4. Carries(Append(box, m), c, got, x)
    BY <1>1, <1>2, <2>1, CarriesAppended
  <2> QED  BY <1>1, <1>3, <2>2, <2>3, <2>4 DEF Flow
<1> QED  BY <1>4, <1>5 DEF Cargo

\* The writer half takes a chunk.  It is the next one, and the end comes last.
LEMMA FlowWrites ==
  ASSUME NEW box \in Seq(Envelope), NEW way, NEW queue, NEW c,
         NEW got \in Nat, NEW all \in Nat, NEW ended \in BOOLEAN,
         NEW hears \in BOOLEAN, NEW passes \in BOOLEAN,
         Flow(box, way, queue, c, got, all, ended, hears, passes),
         box # <<>>
  PROVE  /\ Is(Head(box), "Data", c) =>
              /\ Head(box).n = got + 1
              /\ Flow(Tail(box), way, queue, c, got + 1, all, ended, hears, passes)
         /\ Is(Head(box), "Eof", c) => ended /\ got = all
<1>1. PICK x \in 0 .. all, y \in 0 .. all :
        /\ Carries(box, c, got, x)
        /\ Holds(box, "Eof", c) => ended /\ x = all
        /\ hears =>
              /\ Carries(way, c, x, y)
              /\ Holds(way, "Eof", c) => ended /\ y = all
              /\ passes =>
                    /\ Carries(queue, c, y, all)
                    /\ Holds(queue, "Eof", c) => ended
  BY DEF Flow
<1>2. x \in Nat
  OBVIOUS
<1>3. ASSUME Is(Head(box), "Data", c)
      PROVE  /\ Head(box).n = got + 1
             /\ Flow(Tail(box), way, queue, c, got + 1, all, ended, hears, passes)
  <2>1. Head(box).n = got + 1 /\ Carries(Tail(box), c, got + 1, x)
    BY <1>1, <1>2, <1>3, CarriesFirst
  <2>2. Holds(Tail(box), "Eof", c) => ended /\ x = all
    BY <1>1, HoldsInTail
  <2> QED  BY <1>1, <2>1, <2>2 DEF Flow
<1>4. ASSUME Is(Head(box), "Eof", c) PROVE ended /\ got = all
  BY <1>1, <1>2, <1>4, CarriesNoMore, HoldsInTail
<1> QED  BY <1>3, <1>4

----------------------------------------------------------------------------
(* Types *)

LEMMA HeadLeaves ==
  ASSUME TypeOK, NEW a \in Agents
  PROVE  /\ outbound[a] # <<>> /\ outbound' = [outbound EXCEPT ![a] = Tail(@)] =>
               /\ outbound' \in [Agents -> Seq(Envelope)]
               /\ outbound'[a] = Tail(outbound[a])
               /\ \A b \in Agents : b # a => outbound'[b] = outbound[b]
               /\ Head(outbound[a]) \in Envelope /\ outbound[a] \in Seq(Envelope)
         /\ inbound[a] # <<>> /\ inbound' = [inbound EXCEPT ![a] = Tail(@)] =>
               /\ inbound' \in [Agents -> Seq(Envelope)]
               /\ inbound'[a] = Tail(inbound[a])
               /\ \A b \in Agents : b # a => inbound'[b] = inbound[b]
               /\ Head(inbound[a]) \in Envelope /\ inbound[a] \in Seq(Envelope)
<1>1. outbound[a] \in Seq(Envelope) /\ inbound[a] \in Seq(Envelope)
  BY DEF TypeOK
<1>2. outbound[a] # <<>> => Tail(outbound[a]) \in Seq(Envelope) /\ Head(outbound[a]) \in Envelope
  BY <1>1, TailIndices
<1>3. inbound[a] # <<>> => Tail(inbound[a]) \in Seq(Envelope) /\ Head(inbound[a]) \in Envelope
  BY <1>1, TailIndices
<1>4. outbound[a] # <<>> /\ outbound' = [outbound EXCEPT ![a] = Tail(@)] =>
         /\ outbound' \in [Agents -> Seq(Envelope)]
         /\ outbound'[a] = Tail(outbound[a])
         /\ \A b \in Agents : b # a => outbound'[b] = outbound[b]
  BY <1>2 DEF TypeOK
<1>5. inbound[a] # <<>> /\ inbound' = [inbound EXCEPT ![a] = Tail(@)] =>
         /\ inbound' \in [Agents -> Seq(Envelope)]
         /\ inbound'[a] = Tail(inbound[a])
         /\ \A b \in Agents : b # a => inbound'[b] = inbound[b]
  BY <1>3 DEF TypeOK
<1> QED  BY <1>1, <1>2, <1>3, <1>4, <1>5

LEMMA MessageTypes ==
  ASSUME NEW c \in Channels
  PROVE  /\ \A k \in Kinds : Message(k, c) \in Envelope
         /\ \A i \in Nat : Chunk(c, i) \in Envelope
  BY DEF Message, Chunk, Envelope, Kinds

LEMMA PingType == Ping \in Envelope /\ Ping.kind = "Ping"
  BY ChannelsAssumption, MessageTypes DEF Ping, Message, Kinds

LEMMA QueuedFacts ==
  ASSUME TypeOK, NEW a \in Agents, NEW m \in Envelope
  PROVE  /\ Queued(a, m) \in [Agents -> Seq(Envelope)]
         /\ \A b \in Agents : b # a => Queued(a, m)[b] = outbound[b]
         /\ MaySend(a) => Queued(a, m)[a] = Append(outbound[a], m)
         /\ ~MaySend(a) => Queued(a, m) = outbound
  BY DEF TypeOK, Queued

LEMMA PostFacts ==
  ASSUME TypeOK, NEW a \in Agents, NEW ms \in Seq(Envelope)
  PROVE  /\ Post(a, ms) \in [Agents -> Seq(Envelope)]
         /\ \A b \in Agents : b # a => Post(a, ms)[b] = inbound[b]
         /\ ws[a] = "up" => Post(a, ms)[a] = inbound[a] \o ms
         /\ ws[a] # "up" => Post(a, ms)[a] = inbound[a]
<1>1. inbound[a] \o ms \in Seq(Envelope)
  BY DEF TypeOK
<1> QED  BY <1>1 DEF TypeOK, Post

Stages == {"idle", "registered", "opening", "queued", "connecting", "bridge", "over"}

LEMMA StageFacts ==
  ASSUME TypeOK, NEW a \in Agents, NEW c \in Channels, NEW s \in Stages, Stage(a, c, s)
  PROVE  /\ handler' \in [Agents -> [Channels -> Stages]]
         /\ handler'[a][c] = s
         /\ \A b \in Agents, d \in Channels : b # a \/ d # c => handler'[b][d] = handler[b][d]
  BY DEF TypeOK, Stage, Stages

LEMMA OverFacts ==
  ASSUME TypeOK, NEW a \in Agents, NEW c \in Channels, Over(a, c)
  PROVE  /\ handler' \in [Agents -> [Channels -> Stages]]
         /\ handler'[a][c] = "over"
         /\ \A b \in Agents, d \in Channels : b # a \/ d # c => handler'[b][d] = handler[b][d]
         /\ inbox' \in [Agents -> [Channels -> Seq(Envelope)]]
         /\ \A b \in Agents, d \in Channels :
               inbox'[b][d] = IF b = a /\ d = c THEN <<>> ELSE inbox[b][d]
<1>1. inbox' = [inbox EXCEPT ![a][c] = <<>>] /\ Stage(a, c, "over")
  BY DEF Over
<1>2. <<>> \in Seq(Envelope)
  OBVIOUS
<1> QED  BY <1>1, <1>2, StageFacts DEF TypeOK, Stages

LEMMA TakenFromBox ==
  ASSUME TypeOK, NEW a \in Agents, NEW c \in Channels, inbox[a][c] # <<>>,
         inbox' = [inbox EXCEPT ![a][c] = Tail(@)]
  PROVE  /\ inbox' \in [Agents -> [Channels -> Seq(Envelope)]]
         /\ inbox'[a][c] = Tail(inbox[a][c])
         /\ \A b \in Agents, d \in Channels : b # a \/ d # c => inbox'[b][d] = inbox[b][d]
         /\ Head(inbox[a][c]) \in Envelope /\ inbox[a][c] \in Seq(Envelope)
<1>1. inbox[a][c] \in Seq(Envelope)
  BY DEF TypeOK
<1>2. Tail(inbox[a][c]) \in Seq(Envelope) /\ Head(inbox[a][c]) \in Envelope
  BY <1>1, TailIndices
<1> QED  BY <1>1, <1>2 DEF TypeOK

LEMMA StartBridgeFacts ==
  ASSUME TypeOK, NEW a \in Agents, NEW c \in Channels, StartBridge(a, c)
  PROVE  /\ handler' \in [Agents -> [Channels -> Stages]]
         /\ handler'[a][c] = "bridge"
         /\ \A b \in Agents, d \in Channels : b # a \/ d # c =>
               /\ handler'[b][d] = handler[b][d]
               /\ reads'[b][d] = reads[b][d] /\ writes'[b][d] = writes[b][d]
         /\ reads' \in [Agents -> [Channels -> {"none", "run", "eof", "failed"}]]
         /\ writes' \in [Agents -> [Channels -> {"none", "run", "eof", "cut", "failed", "corrupt"}]]
         /\ reads'[a][c] = "run" /\ writes'[a][c] = "run"
         /\ taken' = taken /\ written' = written
<1>1. Stage(a, c, "bridge")
  BY DEF StartBridge
<1>2. /\ handler' \in [Agents -> [Channels -> Stages]] /\ handler'[a][c] = "bridge"
      /\ \A b \in Agents, d \in Channels : b # a \/ d # c => handler'[b][d] = handler[b][d]
  BY <1>1, StageFacts DEF Stages
<1>3. /\ reads \in [Agents -> [Channels -> {"none", "run", "eof", "failed"}]]
      /\ writes \in [Agents -> [Channels -> {"none", "run", "eof", "cut", "failed", "corrupt"}]]
  BY DEF TypeOK
<1> QED  BY <1>2, <1>3 DEF StartBridge

\* Messages that the hub sends one by one.
LEMMA PostOneFacts ==
  ASSUME TypeOK, NEW a \in Agents, NEW m \in Envelope
  PROVE  /\ Post(a, <<m>>) \in [Agents -> Seq(Envelope)]
         /\ \A b \in Agents : b # a => Post(a, <<m>>)[b] = inbound[b]
         /\ ws[a] = "up" => Post(a, <<m>>)[a] = Append(inbound[a], m)
         /\ ws[a] # "up" => Post(a, <<m>>)[a] = inbound[a]
<1>1. <<m>> \in Seq(Envelope) /\ inbound[a] \in Seq(Envelope)
  BY DEF TypeOK
<1>2. inbound[a] \o <<m>> = Append(inbound[a], m)
  BY <1>1, OneIsAppended
<1> QED  BY <1>1, <1>2, PostFacts

LEMMA PostedFacts ==
  ASSUME TypeOK, NEW a \in Agents, NEW m \in Envelope, inbound' = Post(a, <<m>>)
  PROVE  /\ \A b \in Agents : b # a => inbound'[b] = inbound[b]
         /\ ws[a] = "up" => inbound'[a] = Append(inbound[a], m)
         /\ inbound'[a] = inbound[a] \/ inbound'[a] = Append(inbound[a], m)
  BY PostOneFacts

\* The order in which the hub tells of the channels of a lost connection.
LEMMA GoneMessages ==
  ASSUME NEW order \in SetToSeqs({c \in Channels : Alive(c)})
  PROVE  /\ [i \in DOMAIN order |-> Message("Gone", order[i])] \in Seq(Envelope)
         /\ \A i \in DOMAIN order : Message("Gone", order[i]).kind = "Gone"
<1> DEFINE S == {c \in Channels : Alive(c)}
<1>1. IsFiniteSet(S)
  BY ChannelsAssumption, FS_Subset
<1>2. Cardinality(S) \in Nat
  BY <1>1, FS_CardinalityType
<1>3. order \in [1 .. Cardinality(S) -> S]
  BY DEF SetToSeqs
<1> HIDE DEF S
<1>4. \A i \in DOMAIN order : order[i] \in Channels
  BY <1>3 DEF S
<1>5. \A i \in DOMAIN order : Message("Gone", order[i]) \in Envelope
  BY <1>4, MessageTypes DEF Kinds
<1>6. [i \in DOMAIN order |-> Message("Gone", order[i])] \in [1 .. Cardinality(S) -> Envelope]
  BY <1>3, <1>5
<1>7. [i \in DOMAIN order |-> Message("Gone", order[i])] \in Seq(Envelope)
  BY <1>2, <1>6
<1> QED  BY <1>7 DEF Message

LEMMA ClearedFacts ==
  ASSUME TypeOK, NEW a \in Agents, Cleared(a)
  PROVE  /\ routes' \in [Agents -> SUBSET Channels]
         /\ routes'[a] = {} /\ \A b \in Agents : b # a => routes'[b] = routes[b]
         /\ inbox' \in [Agents -> [Channels -> Seq(Envelope)]]
         /\ \A b \in Agents, c \in Channels :
               \/ inbox'[b][c] = inbox[b][c]
               \/ b = a /\ inbox'[b][c] = Append(inbox[b][c], Message("Gone", c))
<1>1. \A c \in Channels : Message("Gone", c) \in Envelope
  BY MessageTypes DEF Kinds
<1>2. \A c \in Channels : inbox[a][c] \in Seq(Envelope)
  BY DEF TypeOK
<1>3. \A c \in Channels : Append(inbox[a][c], Message("Gone", c)) \in Seq(Envelope)
  BY <1>1, <1>2
<1>4. [c \in Channels |->
          IF c \in routes[a] /\ handler[a][c] # "over"
          THEN Append(inbox[a][c], Message("Gone", c)) ELSE inbox[a][c]]
        \in [Channels -> Seq(Envelope)]
  BY <1>2, <1>3
<1> QED  BY <1>4 DEF TypeOK, Cleared

TaskTypes ==
    /\ ws \in [Agents -> {"up", "broken", "gone"}] /\ known \subseteq Agents
    /\ breaks \in 0 .. MaxBreaks
    /\ closed \in [Agents -> BOOLEAN]
    /\ writer \in [Agents -> {"running", "cleared", "over"}]
    /\ reader \in [Agents -> {"running", "over"}]
QueueTypes == outbound \in [Agents -> Seq(Envelope)] /\ inbound \in [Agents -> Seq(Envelope)]
RouteTypes == routes \in [Agents -> SUBSET Channels]
BoxTypes == inbox \in [Agents -> [Channels -> Seq(Envelope)]]
StageTypes == handler \in [Agents -> [Channels -> Stages]]
HubTypes == hub \in [Channels -> {"none", "offered", "accepted", "over"}]
ReadTypes ==
    /\ reads \in [Agents -> [Channels -> {"none", "run", "eof", "failed"}]]
    /\ taken \in [Agents -> [Channels -> Nat]]
WriteTypes ==
    /\ writes \in [Agents -> [Channels -> {"none", "run", "eof", "cut", "failed", "corrupt"}]]
    /\ written \in [Agents -> [Channels -> Nat]]

LEMMA TypeParts ==
  TypeOK <=> /\ TaskTypes /\ QueueTypes /\ RouteTypes /\ BoxTypes
             /\ StageTypes /\ HubTypes /\ ReadTypes /\ WriteTypes
  BY DEF TypeOK, TaskTypes, QueueTypes, RouteTypes, BoxTypes, StageTypes, HubTypes,
         ReadTypes, WriteTypes, Stages

LEMMA TypePartsNext ==
  TypeOK' <=> /\ TaskTypes' /\ QueueTypes' /\ RouteTypes' /\ BoxTypes'
              /\ StageTypes' /\ HubTypes' /\ ReadTypes' /\ WriteTypes'
  BY DEF TypeOK, TaskTypes, QueueTypes, RouteTypes, BoxTypes, StageTypes, HubTypes,
         ReadTypes, WriteTypes, Stages

\* What a handler leaves alone.
LEMMA UnchangedTypes ==
  ASSUME TypeOK
  PROVE  /\ UNCHANGED <<socket, tasks>> => TaskTypes'
         /\ UNCHANGED <<outbound, inbound>> => QueueTypes'
         /\ UNCHANGED routes => RouteTypes'
         /\ UNCHANGED inbox => BoxTypes'
         /\ UNCHANGED handler => StageTypes'
         /\ UNCHANGED hub => HubTypes'
         /\ UNCHANGED <<reads, taken>> => ReadTypes'
         /\ UNCHANGED <<writes, written>> => WriteTypes'
  BY TypeParts DEF TaskTypes, QueueTypes, RouteTypes, BoxTypes, StageTypes, HubTypes,
                   ReadTypes, WriteTypes, socket, tasks

LEMMA RoutesTypes ==
  ASSUME TypeOK, NEW a \in Agents, NEW c \in Channels,
         Register(a, c) \/ Unregister(a, c) \/ UNCHANGED routes
  PROVE  RouteTypes'
  BY TypeParts DEF RouteTypes, Register, Unregister

LEMMA QueuedTypes ==
  ASSUME TypeOK, NEW a \in Agents, NEW m \in Envelope,
         outbound' = Queued(a, m), inbound' = inbound
  PROVE  QueueTypes'
  BY TypeParts, QueuedFacts DEF QueueTypes

LEMMA StagesTypes ==
  ASSUME TypeOK, NEW a \in Agents, NEW c \in Channels
  PROVE  /\ \A s \in Stages : Stage(a, c, s) => StageTypes'
         /\ Over(a, c) => StageTypes' /\ BoxTypes'
         /\ StartBridge(a, c) => StageTypes' /\ ReadTypes' /\ WriteTypes'
<1>1. \A s \in Stages : Stage(a, c, s) => StageTypes'
  BY StageFacts DEF StageTypes
<1>2. Over(a, c) => StageTypes' /\ BoxTypes'
  BY OverFacts DEF StageTypes, BoxTypes
<1>3. StartBridge(a, c) => StageTypes' /\ ReadTypes' /\ WriteTypes'
  BY StartBridgeFacts, TypeParts DEF StageTypes, ReadTypes, WriteTypes
<1> QED  BY <1>1, <1>2, <1>3

LEMMA InitTypes == Init => TypeOK
  BY BoundsAssumption DEF Init, TypeOK

LEMMA SourceTypes ==
  ASSUME TypeOK, NEW c \in Channels, SourceStep(c)
  PROVE  TypeOK'
<1>1. Source \in Agents /\ Message("Open", c) \in Envelope /\ Message("TimedOut", c) \in Envelope
  BY MessageTypes DEF Agents, Kinds
<1>2. CASE AcceptLocal(c)
  <2>1. Register(Source, c) /\ Stage(Source, c, "registered") /\ "registered" \in Stages
    BY <1>2 DEF AcceptLocal, Stages
  <2>2. UNCHANGED <<socket, tasks>> /\ UNCHANGED <<outbound, inbound>> /\ UNCHANGED inbox
        /\ UNCHANGED hub /\ UNCHANGED <<reads, taken>> /\ UNCHANGED <<writes, written>>
    BY <1>2 DEF AcceptLocal, halves
  <2> QED  BY <1>1, <2>1, <2>2, TypePartsNext, UnchangedTypes, RoutesTypes, StagesTypes
<1>3. CASE SendOpen(c)
  <2>1. outbound' = Queued(Source, Message("Open", c)) /\ inbound' = inbound
    BY <1>3 DEF SendOpen
  <2>2. (Stage(Source, c, "opening") /\ UNCHANGED inbox) \/ Over(Source, c)
    BY <1>3 DEF SendOpen
  <2>3. UNCHANGED <<socket, tasks>> /\ UNCHANGED routes
        /\ UNCHANGED hub /\ UNCHANGED <<reads, taken>> /\ UNCHANGED <<writes, written>>
    BY <1>3 DEF SendOpen, halves
  <2>4. QueueTypes'
    BY <1>1, <2>1, QueuedTypes
  <2>5. StageTypes' /\ BoxTypes'
    BY <1>1, <2>2, UnchangedTypes, StagesTypes DEF Stages
  <2> QED  BY <2>3, <2>4, <2>5, TypePartsNext, UnchangedTypes
<1>4. CASE Answered(c)
  <2>1. UNCHANGED <<socket, tasks>> /\ UNCHANGED <<outbound, inbound>> /\ UNCHANGED hub
    BY <1>4 DEF Answered
  <2>2. \/ /\ StartBridge(Source, c) /\ UNCHANGED routes
           /\ inbox[Source][c] # <<>> /\ inbox' = [inbox EXCEPT ![Source][c] = Tail(@)]
        \/ /\ Over(Source, c) /\ Unregister(Source, c)
           /\ UNCHANGED <<reads, taken>> /\ UNCHANGED <<writes, written>>
    BY <1>4 DEF Answered, halves
  <2>3. StageTypes' /\ RouteTypes' /\ ReadTypes' /\ WriteTypes'
    BY <1>1, <2>2, UnchangedTypes, StagesTypes, RoutesTypes
  <2>4. BoxTypes'
    BY <1>1, <2>2, TakenFromBox, StagesTypes DEF BoxTypes
  <2> QED  BY <2>1, <2>3, <2>4, TypePartsNext, UnchangedTypes
<1>5. CASE OpenTimesOut(c)
  <2>1. outbound' = Queued(Source, Message("TimedOut", c)) /\ inbound' = inbound
    BY <1>5 DEF OpenTimesOut
  <2>2. Over(Source, c) /\ Unregister(Source, c)
    BY <1>5 DEF OpenTimesOut
  <2>3. UNCHANGED <<socket, tasks>> /\ UNCHANGED hub
        /\ UNCHANGED <<reads, taken>> /\ UNCHANGED <<writes, written>>
    BY <1>5 DEF OpenTimesOut, halves
  <2>4. QueueTypes'
    BY <1>1, <2>1, QueuedTypes
  <2> QED  BY <1>1, <2>2, <2>3, <2>4, TypePartsNext, UnchangedTypes, StagesTypes, RoutesTypes
<1> QED  BY <1>2, <1>3, <1>4, <1>5 DEF SourceStep

LEMMA TargetTypes ==
  ASSUME TypeOK, NEW c \in Channels, TargetStep(c)
  PROVE  TypeOK'
<1>1. Target \in Agents /\ Message("Rejected", c) \in Envelope /\ Message("Accepted", c) \in Envelope
  BY MessageTypes DEF Agents, Kinds
<1>2. CASE RefuseIncoming(c)
  <2>1. outbound' = Queued(Target, Message("Rejected", c)) /\ inbound' = inbound
    BY <1>2 DEF RefuseIncoming
  <2>2. Stage(Target, c, "over") /\ "over" \in Stages
    BY <1>2 DEF RefuseIncoming, Stages
  <2>3. UNCHANGED <<socket, tasks>> /\ UNCHANGED routes /\ UNCHANGED inbox
        /\ UNCHANGED hub /\ UNCHANGED <<reads, taken>> /\ UNCHANGED <<writes, written>>
    BY <1>2 DEF RefuseIncoming, halves
  <2>4. QueueTypes'
    BY <1>1, <2>1, QueuedTypes
  <2> QED  BY <1>1, <2>2, <2>3, <2>4, TypePartsNext, UnchangedTypes, StagesTypes
<1>3. CASE TakeIncoming(c)
  <2>1. Register(Target, c) /\ Stage(Target, c, "connecting") /\ "connecting" \in Stages
    BY <1>3 DEF TakeIncoming, Stages
  <2>2. UNCHANGED <<socket, tasks>> /\ UNCHANGED <<outbound, inbound>> /\ UNCHANGED inbox
        /\ UNCHANGED hub /\ UNCHANGED <<reads, taken>> /\ UNCHANGED <<writes, written>>
    BY <1>3 DEF TakeIncoming, halves
  <2> QED  BY <1>1, <2>1, <2>2, TypePartsNext, UnchangedTypes, RoutesTypes, StagesTypes
<1>4. CASE ConnectFails(c)
  <2>1. outbound' = Queued(Target, Message("Rejected", c)) /\ inbound' = inbound
    BY <1>4 DEF ConnectFails
  <2>2. Over(Target, c) /\ (Unregister(Target, c) \/ UNCHANGED routes)
    BY <1>4 DEF ConnectFails
  <2>3. UNCHANGED <<socket, tasks>> /\ UNCHANGED hub
        /\ UNCHANGED <<reads, taken>> /\ UNCHANGED <<writes, written>>
    BY <1>4 DEF ConnectFails, halves
  <2>4. QueueTypes'
    BY <1>1, <2>1, QueuedTypes
  <2> QED  BY <1>1, <2>2, <2>3, <2>4, TypePartsNext, UnchangedTypes, StagesTypes, RoutesTypes
<1>5. CASE Connected(c)
  <2>1. outbound' = Queued(Target, Message("Accepted", c)) /\ inbound' = inbound
    BY <1>5 DEF Connected
  <2>2. \/ StartBridge(Target, c) /\ UNCHANGED inbox
        \/ Over(Target, c) /\ UNCHANGED <<reads, taken>> /\ UNCHANGED <<writes, written>>
    BY <1>5 DEF Connected, halves
  <2>3. UNCHANGED <<socket, tasks>> /\ UNCHANGED hub /\ UNCHANGED routes
    BY <1>5 DEF Connected
  <2>4. QueueTypes'
    BY <1>1, <2>1, QueuedTypes
  <2>5. StageTypes' /\ BoxTypes' /\ ReadTypes' /\ WriteTypes'
    BY <1>1, <2>2, UnchangedTypes, StagesTypes
  <2> QED  BY <2>3, <2>4, <2>5, TypePartsNext, UnchangedTypes
<1> QED  BY <1>2, <1>3, <1>4, <1>5 DEF TargetStep

LEMMA BridgeTypes ==
  ASSUME TypeOK, NEW a \in Agents, NEW c \in Channels, BridgeStep(a, c)
  PROVE  TypeOK'
<1>1. Message("Eof", c) \in Envelope /\ Chunk(c, taken[a][c] + 1) \in Envelope
      /\ taken[a][c] + 1 \in Nat /\ written[a][c] + 1 \in Nat
  BY MessageTypes DEF Kinds, TypeOK
<1>2. ASSUME NEW how \in {"eof", "failed"}, ReadEnds(a, c, how)
      PROVE  reads' \in [Agents -> [Channels -> {"none", "run", "eof", "failed"}]]
  BY <1>2 DEF ReadEnds, TypeOK
<1>3. CASE ReadChunk(a, c)
  <2>1. outbound' = Queued(a, Chunk(c, taken[a][c] + 1)) /\ inbound' = inbound
    BY <1>3 DEF ReadChunk
  <2>2. taken' = [taken EXCEPT ![a][c] = @ + 1] /\ (UNCHANGED reads \/ ReadEnds(a, c, "failed"))
    BY <1>3 DEF ReadChunk
  <2>3. UNCHANGED <<socket, tasks>> /\ UNCHANGED routes /\ UNCHANGED inbox
        /\ UNCHANGED handler /\ UNCHANGED hub /\ UNCHANGED <<writes, written>>
    BY <1>3 DEF ReadChunk
  <2>4. QueueTypes'
    BY <1>1, <2>1, QueuedTypes
  <2>5. taken' \in [Agents -> [Channels -> Nat]]
    BY <1>1, <2>2 DEF TypeOK
  <2>6. reads' \in [Agents -> [Channels -> {"none", "run", "eof", "failed"}]]
    BY <1>2, <2>2 DEF TypeOK
  <2>7. ReadTypes'
    BY <2>5, <2>6 DEF ReadTypes
  <2> QED  BY <2>3, <2>4, <2>7, TypePartsNext, UnchangedTypes
<1>4. CASE ReadEof(a, c)
  <2>1. outbound' = Queued(a, Message("Eof", c)) /\ inbound' = inbound
    BY <1>4 DEF ReadEof
  <2>2. ReadEnds(a, c, "eof") /\ taken' = taken
    BY <1>4 DEF ReadEof
  <2>3. UNCHANGED <<socket, tasks>> /\ UNCHANGED routes /\ UNCHANGED inbox
        /\ UNCHANGED handler /\ UNCHANGED hub /\ UNCHANGED <<writes, written>>
    BY <1>4 DEF ReadEof
  <2>4. QueueTypes'
    BY <1>1, <2>1, QueuedTypes
  <2>5. ReadTypes'
    BY <1>2, <2>2, TypeParts DEF ReadTypes
  <2> QED  BY <2>3, <2>4, <2>5, TypePartsNext, UnchangedTypes
<1>5. CASE ReadFails(a, c)
  <2>1. ReadEnds(a, c, "failed") /\ taken' = taken
    BY <1>5 DEF ReadFails
  <2>2. UNCHANGED <<socket, tasks>> /\ UNCHANGED <<outbound, inbound>>
        /\ UNCHANGED routes /\ UNCHANGED inbox
        /\ UNCHANGED handler /\ UNCHANGED hub /\ UNCHANGED <<writes, written>>
    BY <1>5 DEF ReadFails
  <2>3. ReadTypes'
    BY <1>2, <2>1, TypeParts DEF ReadTypes
  <2> QED  BY <2>2, <2>3, TypePartsNext, UnchangedTypes
<1>6. CASE WriteNext(a, c)
  <2> DEFINE how == Ending(a, c, Head(inbox[a][c]))
  <2>1. how \in {"eof", "cut", "failed", "corrupt"}
    BY DEF Ending
  <2>2. inbox[a][c] # <<>> /\ inbox' = [inbox EXCEPT ![a][c] = Tail(@)]
    BY <1>6 DEF WriteNext
  <2>3. \/ written' = [written EXCEPT ![a][c] = @ + 1] /\ writes' = writes
        \/ WriteEnds(a, c, how) /\ written' = written
    BY <1>6 DEF WriteNext
  <2>4. UNCHANGED <<socket, tasks>> /\ UNCHANGED <<outbound, inbound>>
        /\ UNCHANGED routes /\ UNCHANGED handler /\ UNCHANGED hub /\ UNCHANGED <<reads, taken>>
    BY <1>6 DEF WriteNext
  <2>5. BoxTypes'
    BY <2>2, TakenFromBox DEF BoxTypes
  <2> HIDE DEF how
  <2>6. written' \in [Agents -> [Channels -> Nat]]
    BY <1>1, <2>3, TypeParts DEF WriteTypes, WriteEnds
  <2>7. writes' \in [Agents -> [Channels -> {"none", "run", "eof", "cut", "failed", "corrupt"}]]
    <3>1. \A e \in {"eof", "cut", "failed", "corrupt"} :
             [writes EXCEPT ![a][c] = e]
                \in [Agents -> [Channels -> {"none", "run", "eof", "cut", "failed", "corrupt"}]]
      BY TypeParts DEF WriteTypes
    <3>2. writes' = writes \/ writes' = [writes EXCEPT ![a][c] = how]
      BY <2>3 DEF WriteEnds
    <3> QED  BY <2>1, <3>1, <3>2, TypeParts DEF WriteTypes
  <2>8. WriteTypes'
    BY <2>6, <2>7 DEF WriteTypes
  <2> QED  BY <2>4, <2>5, <2>8, TypePartsNext, UnchangedTypes
<1>7. CASE BridgeEnds(a, c)
  <2>1. Over(a, c) /\ Unregister(a, c)
    BY <1>7 DEF BridgeEnds
  <2>2. UNCHANGED <<socket, tasks>> /\ UNCHANGED <<outbound, inbound>> /\ UNCHANGED hub
        /\ UNCHANGED <<reads, taken>> /\ UNCHANGED <<writes, written>>
    BY <1>7 DEF BridgeEnds, halves
  <2> QED  BY <2>1, <2>2, TypePartsNext, UnchangedTypes, StagesTypes, RoutesTypes
<1> QED  BY <1>3, <1>4, <1>5, <1>6, <1>7 DEF BridgeStep

\* What the hub does with a message: it opens, refuses, accepts or ends a channel,
\* passes on a chunk, or drops what is for no channel that lives.
LEMMA ForwardCases ==
  ASSUME TypeOK, NEW a \in Agents, NEW m \in Envelope, HubForwards(a, m)
  PROVE  \/ /\ m.kind = "Open"
            /\ HubKeeps(m.chan, "offered")
            /\ inbound' = Post(Target, <<Message("Incoming", m.chan)>>)
         \/ /\ m.kind = "Open"
            /\ UNCHANGED hub
            /\ inbound' = Post(Source, <<Message("Rejected", m.chan)>>)
         \/ /\ m.kind = "Accepted" /\ hub[m.chan] = "offered"
            /\ HubKeeps(m.chan, "accepted")
            /\ inbound' = Post(Source, <<Message("Accepted", m.chan)>>)
         \/ /\ m.kind = "Rejected" /\ hub[m.chan] \in {"offered", "accepted"}
            /\ HubKeeps(m.chan, "over")
            /\ inbound' = Post(Source, <<Message("Rejected", m.chan)>>)
         \/ /\ m.kind \in {"Eof", "TimedOut"} /\ hub[m.chan] \in {"offered", "accepted"}
            /\ HubKeeps(m.chan, "over")
            /\ inbound' = Post(Peer(a), <<Message(m.kind, m.chan)>>)
         \/ /\ m.kind = "Data" /\ hub[m.chan] = "accepted"
            /\ UNCHANGED hub
            /\ inbound' = Post(Peer(a), <<m>>)
         \/ /\ m.kind = "Data" => hub[m.chan] # "accepted"
            /\ m.kind = "Accepted" => hub[m.chan] # "offered"
            /\ m.kind \in {"Eof", "TimedOut", "Rejected"} => ~Alive(m.chan)
            /\ m.kind # "Open"
            /\ UNCHANGED <<hub, inbound>>
<1>1. CASE m.kind = "Open"
  BY <1>1 DEF HubForwards, HubSends
<1>2. CASE m.kind = "Accepted"
  BY <1>2 DEF HubForwards, HubSends
<1>3. CASE m.kind = "Rejected"
  BY <1>3 DEF HubForwards, HubSends, Alive
<1>4. CASE m.kind \in {"Eof", "TimedOut"}
  BY <1>4 DEF HubForwards, HubSends, Alive
<1>5. CASE m.kind = "Data"
  BY <1>5 DEF HubForwards, HubSends
<1>6. CASE m.kind \notin {"Open", "Accepted", "Rejected", "Eof", "TimedOut", "Data"}
  BY <1>6 DEF HubForwards
<1> QED  BY <1>1, <1>2, <1>3, <1>4, <1>5, <1>6

LEMMA ForwardTypes ==
  ASSUME TypeOK, NEW a \in Agents, NEW m \in Envelope, HubForwards(a, m)
  PROVE  HubTypes' /\ inbound' \in [Agents -> Seq(Envelope)]
<1>1. m.chan \in Channels /\ m.kind \in Kinds
  BY DEF Envelope
<1>2. \A k \in Kinds : Message(k, m.chan) \in Envelope
  BY <1>1, MessageTypes
<1>3. \A b \in Agents, e \in Envelope : Post(b, <<e>>) \in [Agents -> Seq(Envelope)]
  BY PostOneFacts
<1>4. inbound \in [Agents -> Seq(Envelope)] /\ HubTypes
  BY TypeParts DEF QueueTypes
<1>5. Source \in Agents /\ Target \in Agents /\ Peer(a) \in Agents
  BY PeerFacts DEF Agents
<1>6. \E b \in Agents, e \in Envelope : inbound' = Post(b, <<e>>) \/ inbound' = inbound
  BY <1>1, <1>2, <1>5, ForwardCases DEF Kinds
<1>7. hub' = hub \/ \E s \in {"offered", "accepted", "over"} : HubKeeps(m.chan, s)
  BY ForwardCases
<1> QED  BY <1>1, <1>3, <1>4, <1>6, <1>7 DEF HubTypes, HubKeeps

LEMMA DroppedTypes ==
  ASSUME TypeOK, NEW a \in Agents, NEW other, Dropped(a, other)
  PROVE  ws' \in [Agents -> {"up", "broken", "gone"}]
  BY TypeParts DEF TaskTypes, Dropped

LEMMA ConnectionTypes ==
  ASSUME TypeOK, NEW a \in Agents, TaskStep(a)
  PROVE  TypeOK'
<1>1. CASE WriterSends(a)
  <2> DEFINE m == Head(outbound[a])
  <2>1. outbound[a] # <<>> /\ outbound' = [outbound EXCEPT ![a] = Tail(@)]
    BY <1>1 DEF WriterSends
  <2>2. m \in Envelope /\ outbound' \in [Agents -> Seq(Envelope)]
    BY <2>1, HeadLeaves
  <2>3. \/ WriterStops(a) /\ UNCHANGED inbound /\ UNCHANGED hub
        \/ HubForwards(a, m) /\ UNCHANGED tasks /\ UNCHANGED routes /\ UNCHANGED inbox
        \/ UNCHANGED tasks /\ UNCHANGED routes /\ UNCHANGED inbox /\ UNCHANGED inbound /\ UNCHANGED hub
    BY <1>1 DEF WriterSends
  <2>4. UNCHANGED socket /\ UNCHANGED handler /\ UNCHANGED <<reads, taken>> /\ UNCHANGED <<writes, written>>
    BY <1>1 DEF WriterSends, halves
  <2> HIDE DEF m
  <2>5. HubTypes' /\ QueueTypes'
    BY <2>2, <2>3, ForwardTypes, UnchangedTypes, TypeParts DEF QueueTypes
  <2>6. RouteTypes' /\ BoxTypes'
    BY <2>3, ClearedFacts, UnchangedTypes DEF WriterStops, RouteTypes, BoxTypes
  <2>7. TaskTypes'
    BY <2>3, <2>4, TypeParts DEF WriterStops, TaskTypes, socket, tasks
  <2> QED  BY <2>4, <2>5, <2>6, <2>7, TypePartsNext, UnchangedTypes
<1>2. CASE WriterFails(a) \/ WriterNotified(a)
  <2>1. \/ outbound[a] # <<>> /\ outbound' = [outbound EXCEPT ![a] = Tail(@)]
        \/ outbound' = outbound
    BY <1>2 DEF WriterFails, WriterNotified
  <2>2. WriterStops(a) /\ UNCHANGED socket /\ UNCHANGED inbound /\ UNCHANGED handler
        /\ UNCHANGED hub /\ UNCHANGED <<reads, taken>> /\ UNCHANGED <<writes, written>>
    BY <1>2 DEF WriterFails, WriterNotified, halves
  <2>3. QueueTypes'
    BY <2>1, <2>2, HeadLeaves, TypeParts DEF QueueTypes
  <2>4. RouteTypes' /\ BoxTypes'
    BY <2>2, ClearedFacts DEF WriterStops, RouteTypes, BoxTypes
  <2>5. TaskTypes'
    BY <2>2, TypeParts DEF WriterStops, TaskTypes, socket
  <2> QED  BY <2>2, <2>3, <2>4, <2>5, TypePartsNext, UnchangedTypes
<1>3. CASE WriterOver(a)
  <2>1. /\ UNCHANGED <<known, breaks, closed, reader, inbound>>
        /\ writer' = [writer EXCEPT ![a] = "over"] /\ outbound' = [outbound EXCEPT ![a] = <<>>]
        /\ Dropped(a, reader[a])
    BY <1>3 DEF WriterOver
  <2>2. UNCHANGED routes /\ UNCHANGED inbox /\ UNCHANGED handler
        /\ UNCHANGED hub /\ UNCHANGED <<reads, taken>> /\ UNCHANGED <<writes, written>>
    BY <1>3 DEF WriterOver, halves
  <2>3. QueueTypes'
    BY <2>1, TypeParts DEF QueueTypes
  <2>4. TaskTypes'
    BY <2>1, DroppedTypes, TypeParts DEF TaskTypes
  <2> QED  BY <2>2, <2>3, <2>4, TypePartsNext, UnchangedTypes
<1>4. CASE ReaderReceives(a)
  <2> DEFINE m == Head(inbound[a])
  <2>1. inbound[a] # <<>> /\ inbound' = [inbound EXCEPT ![a] = Tail(@)] /\ outbound' = outbound
    BY <1>4 DEF ReaderReceives
  <2>2. m \in Envelope /\ m.chan \in Channels /\ QueueTypes'
    BY <2>1, HeadLeaves, TypeParts DEF QueueTypes, Envelope
  <2>3. \/ Stage(a, m.chan, "queued") /\ UNCHANGED routes /\ UNCHANGED inbox
        \/ /\ inbox' = Deliver(a, m) /\ (Unregister(a, m.chan) \/ UNCHANGED routes)
           /\ UNCHANGED handler
    BY <1>4 DEF ReaderReceives
  <2>4. UNCHANGED <<socket, tasks>> /\ UNCHANGED hub
        /\ UNCHANGED <<reads, taken>> /\ UNCHANGED <<writes, written>>
    BY <1>4 DEF ReaderReceives, halves
  <2> HIDE DEF m
  <2>5. Deliver(a, m) \in [Agents -> [Channels -> Seq(Envelope)]]
    BY <2>2, TypeParts DEF Deliver, BoxTypes
  <2>6. BoxTypes'
    BY <2>3, <2>5, TypeParts DEF BoxTypes
  <2>7. StageTypes' /\ RouteTypes'
    BY <2>2, <2>3, StagesTypes, RoutesTypes, UnchangedTypes DEF Stages
  <2> QED  BY <2>2, <2>4, <2>6, <2>7, TypePartsNext, UnchangedTypes
<1>5. CASE ReaderEnds(a)
  <2>1. /\ UNCHANGED <<known, breaks, writer, outbound>>
        /\ reader' = [reader EXCEPT ![a] = "over"] /\ closed' = [closed EXCEPT ![a] = TRUE]
        /\ inbound' = [inbound EXCEPT ![a] = <<>>]
        /\ Cleared(a) /\ Dropped(a, writer[a])
    BY <1>5 DEF ReaderEnds
  <2>2. UNCHANGED handler
        /\ UNCHANGED hub /\ UNCHANGED <<reads, taken>> /\ UNCHANGED <<writes, written>>
    BY <1>5 DEF ReaderEnds, halves
  <2>3. QueueTypes'
    BY <2>1, TypeParts DEF QueueTypes
  <2>4. TaskTypes'
    BY <2>1, DroppedTypes, TypeParts DEF TaskTypes
  <2>5. RouteTypes' /\ BoxTypes'
    BY <2>1, ClearedFacts DEF RouteTypes, BoxTypes
  <2> QED  BY <2>2, <2>3, <2>4, <2>5, TypePartsNext, UnchangedTypes
<1>6. CASE Keepalive(a)
  <2>1. outbound' = [outbound EXCEPT ![a] = <<Ping>>] /\ inbound' = inbound
    BY <1>6 DEF Keepalive
  <2>2. UNCHANGED <<socket, tasks>> /\ UNCHANGED routes /\ UNCHANGED inbox /\ UNCHANGED handler
        /\ UNCHANGED hub /\ UNCHANGED <<reads, taken>> /\ UNCHANGED <<writes, written>>
    BY <1>6 DEF Keepalive, halves
  <2>3. QueueTypes'
    BY <2>1, PingType, TypeParts DEF QueueTypes
  <2> QED  BY <2>2, <2>3, TypePartsNext, UnchangedTypes
<1> QED  BY <1>1, <1>2, <1>3, <1>4, <1>5, <1>6 DEF TaskStep

LEMMA TypesPreserved == TypeOK /\ [Next]_vars => TypeOK'
<1> SUFFICES ASSUME TypeOK, [Next]_vars PROVE TypeOK'
  OBVIOUS
<1>1. CASE UNCHANGED vars
  <2>1. UNCHANGED <<socket, tasks>> /\ UNCHANGED <<outbound, inbound>> /\ UNCHANGED routes
        /\ UNCHANGED inbox /\ UNCHANGED handler
        /\ UNCHANGED hub /\ UNCHANGED <<reads, taken>> /\ UNCHANGED <<writes, written>>
    BY <1>1 DEF vars, halves
  <2> QED  BY <2>1, TypePartsNext, UnchangedTypes
<1>2. ASSUME NEW a \in Agents, HubDisconnects(a) PROVE TypeOK'
  <2>1. PICK order \in SetToSeqs({c \in Channels : Alive(c)}) :
          inbound' = Post(Peer(a), [i \in DOMAIN order |-> Message("Gone", order[i])])
    BY <1>2 DEF HubDisconnects
  <2>2. inbound' \in [Agents -> Seq(Envelope)]
    BY <2>1, GoneMessages, PostFacts, PeerFacts
  <2>3. /\ UNCHANGED <<ws, breaks, tasks, outbound>> /\ known' = known \ {a}
        /\ hub' = [c \in Channels |-> IF Alive(c) THEN "over" ELSE hub[c]]
    BY <1>2 DEF HubDisconnects
  <2>4. UNCHANGED routes /\ UNCHANGED inbox /\ UNCHANGED handler
        /\ UNCHANGED <<reads, taken>> /\ UNCHANGED <<writes, written>>
    BY <1>2 DEF HubDisconnects, halves
  <2>5. TaskTypes'
    BY <2>3, TypeParts DEF TaskTypes, tasks
  <2>6. QueueTypes' /\ HubTypes'
    BY <2>2, <2>3, TypeParts DEF QueueTypes, HubTypes
  <2> QED  BY <2>4, <2>5, <2>6, TypePartsNext, UnchangedTypes
<1>3. ASSUME NEW a \in Agents, NEW how \in {"broken", "gone"}, SocketFails(a, how) PROVE TypeOK'
  <2>1. /\ UNCHANGED <<known, tasks>> /\ ws' = [ws EXCEPT ![a] = how]
        /\ breaks < MaxBreaks /\ breaks' = breaks + 1
    BY <1>3 DEF SocketFails
  <2>2. UNCHANGED <<outbound, inbound>> /\ UNCHANGED routes /\ UNCHANGED inbox
        /\ UNCHANGED handler /\ UNCHANGED hub
        /\ UNCHANGED <<reads, taken>> /\ UNCHANGED <<writes, written>>
    BY <1>3 DEF SocketFails, halves
  <2>3. TaskTypes'
    BY <2>1, TypeParts, BoundsAssumption DEF TaskTypes, tasks
  <2> QED  BY <2>2, <2>3, TypePartsNext, UnchangedTypes
<1> QED  BY <1>1, <1>2, <1>3, SourceTypes, TargetTypes, BridgeTypes, ConnectionTypes DEF Next

----------------------------------------------------------------------------
(* How a step changes a queue *)

\* A queue grows by messages of some kinds, is emptied, or loses its head.

Grown(q, r, kinds) ==
    \/ r = q
    \/ \E m \in Envelope : m.kind \in kinds /\ r = Append(q, m)
    \/ \E ms \in Seq(Envelope) : OnlyKinds(ms, kinds) /\ r = q \o ms

Calm(q, r, kinds) ==
    \/ Grown(q, r, kinds)
    \/ r = <<>>
    \/ q # <<>> /\ r = Tail(q)

\* What the second queue holds the first one did, and no more often.
Fewer(q, r, k, c) ==
    /\ Holds(r, k, c) => Holds(q, k, c)
    /\ AtMostOne(q, k, c) => AtMostOne(r, k, c)

LEMMA CalmIsFewer ==
  ASSUME NEW q \in Seq(Envelope), NEW r, NEW kinds, Calm(q, r, kinds),
         NEW k, k \notin kinds, NEW c
  PROVE  Fewer(q, r, k, c)
<1>1. CASE r = q
  BY <1>1 DEF Fewer
<1>2. ASSUME NEW m \in Envelope, m.kind \in kinds, r = Append(q, m)
      PROVE  Fewer(q, r, k, c)
  <2>1. ~Is(m, k, c)
    BY <1>2 DEF Is
  <2> QED  BY <1>2, <2>1, HoldsInAppended, OnceInAppended DEF Fewer
<1>3. ASSUME NEW ms \in Seq(Envelope), OnlyKinds(ms, kinds), r = q \o ms
      PROVE  Fewer(q, r, k, c)
  <2>1. ~Holds(ms, k, c)
    BY <1>3 DEF Holds, Is, OnlyKinds
  <2> QED  BY <1>3, <2>1, HoldsInJoined, OnceInJoined DEF Fewer
<1>4. CASE r = <<>>
  BY <1>4 DEF Holds, AtMostOne, Fewer
<1>5. CASE q # <<>> /\ r = Tail(q)
  BY <1>5, HoldsInTail, OnceInTail DEF Fewer
<1> QED  BY <1>1, <1>2, <1>3, <1>4, <1>5 DEF Calm, Grown

LEMMA CalmKinds ==
  ASSUME NEW q \in Seq(Envelope), NEW r, NEW kinds, Calm(q, r, kinds),
         NEW S, kinds \subseteq S, OnlyKinds(q, S)
  PROVE  OnlyKinds(r, S)
<1>1. ASSUME NEW m \in Envelope, m.kind \in kinds, r = Append(q, m) PROVE OnlyKinds(r, S)
  BY <1>1, KindsInAppended
<1>2. ASSUME NEW ms \in Seq(Envelope), OnlyKinds(ms, kinds), r = q \o ms PROVE OnlyKinds(r, S)
  <2>1. OnlyKinds(ms, S)
    BY <1>2 DEF OnlyKinds
  <2> QED  BY <1>2, <2>1, KindsInJoined
<1>3. r = <<>> => OnlyKinds(r, S)
  BY DEF OnlyKinds
<1> QED  BY <1>1, <1>2, <1>3, KindsInTail DEF Calm, Grown

LEMMA CalmIsWider ==
  ASSUME NEW q, NEW r, NEW kinds, NEW more, Calm(q, r, kinds), kinds \subseteq more
  PROVE  Calm(q, r, more)
<1>1. \A ms : OnlyKinds(ms, kinds) => OnlyKinds(ms, more)
  BY DEF OnlyKinds
<1>2. Grown(q, r, kinds) => Grown(q, r, more)
  BY <1>1 DEF Grown
<1> QED  BY <1>2 DEF Calm

LEMMA AppendedIsFewer ==
  ASSUME NEW q \in Seq(Envelope), NEW r, NEW m \in Envelope, r = q \/ r = Append(q, m),
         NEW k, NEW c, ~Is(m, k, c)
  PROVE  Fewer(q, r, k, c)
  BY HoldsInAppended, OnceInAppended DEF Fewer

\* A queue that grows by no cargo carries what it did.
LEMMA GrownIsLike ==
  ASSUME NEW q \in Seq(Envelope), NEW r, NEW kinds, Grown(q, r, kinds),
         kinds \cap Cargo = {}, NEW c
  PROVE  Like(q, r, c)
<1>1. CASE r = q
  BY <1>1 DEF Like
<1>2. ASSUME NEW m \in Envelope, m.kind \in kinds, r = Append(q, m) PROVE Like(q, r, c)
  BY <1>2, LikeAppended
<1>3. ASSUME NEW ms \in Seq(Envelope), OnlyKinds(ms, kinds), r = q \o ms PROVE Like(q, r, c)
  BY <1>3, LikeJoined DEF OnlyKinds
<1> QED  BY <1>1, <1>2, <1>3 DEF Grown

LEMMA GrownKeepsOrder ==
  ASSUME NEW q \in Seq(Envelope), NEW r, NEW kinds, Grown(q, r, kinds), "Data" \notin kinds,
         NEW c, DataAfterAccepted(q, c)
  PROVE  DataAfterAccepted(r, c)
<1>1. ASSUME NEW m \in Envelope, m.kind \in kinds, r = Append(q, m)
      PROVE  DataAfterAccepted(r, c)
  BY <1>1, AppendedIndices DEF DataAfterAccepted, Is
<1>2. ASSUME NEW ms \in Seq(Envelope), OnlyKinds(ms, kinds), r = q \o ms
      PROVE  DataAfterAccepted(r, c)
  <2>1. \A i \in DOMAIN r : Is(r[i], "Data", c) => i \in DOMAIN q /\ r[i] = q[i]
    BY <1>2, JoinedIndices DEF OnlyKinds, Is
  <2>2. \A i \in DOMAIN q : i \in DOMAIN r /\ r[i] = q[i]
    BY <1>2, JoinedIndices
  <2> QED  BY <2>1, <2>2 DEF DataAfterAccepted
<1> QED  BY <1>1, <1>2 DEF Grown

LEMMA AppendedKeepsOrder ==
  ASSUME NEW q \in Seq(Envelope), NEW m \in Envelope, NEW c, DataAfterAccepted(q, c),
         ~Is(m, "Data", c) \/ Holds(q, "Accepted", c)
  PROVE  DataAfterAccepted(Append(q, m), c)
  BY AppendedIndices DEF DataAfterAccepted, Holds

LEMMA TailKeepsOrder ==
  ASSUME NEW q \in Seq(Envelope), q # <<>>, NEW c, DataAfterAccepted(q, c),
         ~Is(Head(q), "Accepted", c)
  PROVE  DataAfterAccepted(Tail(q), c)
<1> SUFFICES ASSUME NEW i \in DOMAIN Tail(q), Is(Tail(q)[i], "Data", c)
             PROVE  \E j \in DOMAIN Tail(q) : j < i /\ Is(Tail(q)[j], "Accepted", c)
  BY DEF DataAfterAccepted
<1>1. PICK j \in DOMAIN q : j < i + 1 /\ Is(q[j], "Accepted", c)
  BY TailIndices DEF DataAfterAccepted
<1>2. j # 1
  BY <1>1, TailIndices
<1>3. j - 1 \in DOMAIN Tail(q) /\ Tail(q)[j - 1] = q[j]
  BY <1>2, TailIndices
<1>4. j - 1 < i
  BY <1>1, TailIndices
<1> QED  BY <1>1, <1>3, <1>4

\* What an agent may send, be told and hand to a handler.
Sent(a) == Kinds \ {IF a = Source THEN "Accepted" ELSE "Open"}
Told(a) == {IF a = Source THEN "Accepted" ELSE "Incoming", "Data"} \union Terminal
Kept(a) == (IF a = Source THEN {"Accepted"} ELSE {}) \union {"Data"} \union Terminal

\* A step changes the queues of one agent at most.
OutStep(a, kinds) ==
    /\ Calm(outbound[a], outbound'[a], kinds)
    /\ \A b \in Agents : b # a => outbound'[b] = outbound[b]
InStep(a, kinds) ==
    /\ Calm(inbound[a], inbound'[a], kinds)
    /\ \A b \in Agents : b # a => inbound'[b] = inbound[b]
BoxStep(a, kinds) ==
    \A c \in Channels :
        /\ Calm(inbox[a][c], inbox'[a][c], kinds)
        /\ OnlyOf(inbox[a][c], c) => OnlyOf(inbox'[a][c], c)
        /\ \A b \in Agents : b # a => inbox'[b][c] = inbox[b][c]

----------------------------------------------------------------------------
(* No step goes back *)

Advances(a, s, t) ==
    \/ t = s
    \/ s # "idle" /\ t = "over"
    \/ a = Source /\ s = "idle" /\ t = "registered"
    \/ a = Source /\ s = "registered" /\ t = "opening"
    \/ a = Source /\ s = "opening" /\ t = "bridge"
    \/ a = Target /\ s = "idle" /\ t = "queued"
    \/ a = Target /\ s = "queued" /\ t = "connecting"
    \/ a = Target /\ s = "connecting" /\ t = "bridge"

StagesAdvance == \A a \in Agents, c \in Channels : Advances(a, handler[a][c], handler'[a][c])

RoutesFollow == \A a \in Agents, c \in Channels :
    c \in routes'[a] => c \in routes[a] \/ handler[a][c] \in {"idle", "queued"}

HalvesFollow == \A a \in Agents, c \in Channels :
    /\ handler'[a][c] \notin {"bridge", "over"} =>
          /\ reads'[a][c] = reads[a][c] /\ writes'[a][c] = writes[a][c]
          /\ taken'[a][c] = taken[a][c] /\ written'[a][c] = written[a][c]
    /\ writes'[a][c] \in {"none", "run"} => writes[a][c] \in {"none", "run"}
    /\ reads[a][c] = "eof" => reads'[a][c] = "eof" /\ taken'[a][c] = taken[a][c]

TasksFollow == \A a \in Agents :
    /\ ws'[a] = "up" => ws[a] = "up"
    /\ reader'[a] = "running" => reader[a] = "running"
    /\ Sends(a)' => Sends(a)

HubFollows == \A c \in Channels :
    \/ hub'[c] = hub[c]
    \/ Alive(c) /\ hub'[c] = "over"
    \/ hub[c] = "none" /\ hub'[c] = "offered"
    \/ hub[c] = "offered" /\ hub'[c] = "accepted"

Follows == StagesAdvance /\ RoutesFollow /\ HalvesFollow /\ TasksFollow /\ HubFollows

LEMMA LessAndLess ==
  ASSUME Follows, NEW a \in Agents, NEW c \in Channels
  PROVE  /\ Hears(a, c)' => Hears(a, c)
         /\ Passes(a, c)' => Passes(a, c)
         /\ Takes(a, c)' => Takes(a, c)
<1>1. Hears(a, c)' => Hears(a, c)
  BY DEF Follows, TasksFollow, RoutesFollow, StagesAdvance, Advances, Hears
<1>2. Passes(a, c)' => Passes(a, c)
  <2>1. Sends(Peer(a))' => Sends(Peer(a))
    BY PeerFacts DEF Follows, TasksFollow
  <2>2. hub'[c] # "over" => hub[c] # "over"
    BY DEF Follows, HubFollows, Alive
  <2>3. ws'[a] = "up" => ws[a] = "up"
    BY DEF Follows, TasksFollow
  <2> QED  BY <2>1, <2>2, <2>3 DEF Passes
<1>3. Takes(a, c)' => Takes(a, c)
  BY DEF Follows, HalvesFollow, StagesAdvance, Advances, Takes
<1> QED  BY <1>1, <1>2, <1>3

LEMMA FreshKept ==
  ASSUME BridgesStartFresh, Follows
  PROVE  BridgesStartFresh'
<1> SUFFICES ASSUME NEW a \in Agents, NEW c \in Channels, handler'[a][c] \notin {"bridge", "over"}
             PROVE  /\ reads'[a][c] = "none" /\ writes'[a][c] = "none"
                    /\ taken'[a][c] = 0 /\ written'[a][c] = 0
  BY DEF BridgesStartFresh
<1>1. handler[a][c] \notin {"bridge", "over"}
  BY DEF Follows, StagesAdvance, Advances
<1> QED  BY <1>1 DEF BridgesStartFresh, Follows, HalvesFollow

LEMMA KindsKept ==
  ASSUME TypeOK, KindsFit, Follows,
         NEW a \in Agents, OutStep(a, Sent(a)),
         NEW b \in Agents, InStep(b, Told(b)),
         NEW d \in Agents, BoxStep(d, Kept(d))
  PROVE  KindsFit'
<1>1. Source \in Agents /\ Target \in Agents /\ Agents = {Source, Target} /\ Source # Target
  BY AgentsAssumption DEF Agents
<1>2. \A e \in Agents : OnlyKinds(outbound[e], Sent(e)) /\ OnlyKinds(inbound[e], Told(e))
  BY <1>1 DEF KindsFit, Sent, Told
<1>3. \A e \in Agents, c \in Channels : OnlyKinds(inbox[e][c], Kept(e)) /\ OnlyOf(inbox[e][c], c)
  BY <1>1 DEF KindsFit, Kept
<1>4. \A e \in Agents : OnlyKinds(outbound'[e], Sent(e))
  <2>1. OnlyKinds(outbound'[a], Sent(a))
    BY <1>2, CalmKinds DEF OutStep, TypeOK
  <2> QED  BY <1>2, <2>1 DEF OutStep
<1>5. \A e \in Agents : OnlyKinds(inbound'[e], Told(e))
  <2>1. OnlyKinds(inbound'[b], Told(b))
    BY <1>2, CalmKinds DEF InStep, TypeOK
  <2> QED  BY <1>2, <2>1 DEF InStep
<1>6. \A e \in Agents, c \in Channels : OnlyKinds(inbox'[e][c], Kept(e)) /\ OnlyOf(inbox'[e][c], c)
  <2> SUFFICES ASSUME NEW e \in Agents, NEW c \in Channels
               PROVE  OnlyKinds(inbox'[e][c], Kept(e)) /\ OnlyOf(inbox'[e][c], c)
    OBVIOUS
  <2>1. CASE e = d
    <3>1. inbox[d][c] \in Seq(Envelope) /\ Calm(inbox[d][c], inbox'[d][c], Kept(d))
      BY DEF BoxStep, TypeOK
    <3> QED  BY <1>3, <2>1, <3>1, CalmKinds DEF BoxStep
  <2>2. CASE e # d
    BY <1>3, <2>2 DEF BoxStep
  <2> QED  BY <2>1, <2>2
<1>7. \A c \in Channels :
         /\ handler'[Source][c] \in {"idle", "registered", "opening", "bridge", "over"}
         /\ handler'[Target][c] \in {"idle", "queued", "connecting", "bridge", "over"}
  BY <1>1 DEF KindsFit, Follows, StagesAdvance, Advances
<1>8. /\ Sent(Source) = Kinds \ {"Accepted"} /\ Sent(Target) = Kinds \ {"Open"}
      /\ Told(Source) = {"Accepted", "Data"} \union Terminal
      /\ Told(Target) = {"Incoming", "Data"} \union Terminal
      /\ Kept(Source) = {"Accepted", "Data"} \union Terminal
      /\ Kept(Target) = {"Data"} \union Terminal
  BY <1>1 DEF Sent, Told, Kept
<1> QED  BY <1>1, <1>4, <1>5, <1>6, <1>7, <1>8 DEF KindsFit

\* The kinds that a step adds to a queue are all that KindsFit asks about.
LEMMA KindsMild ==
  ASSUME TypeOK, KindsFit, Follows,
         NEW a \in Agents, NEW K, OutStep(a, K), K \subseteq Sent(a),
         NEW b \in Agents, NEW L, InStep(b, L), L \subseteq Told(b),
         NEW d \in Agents, NEW M, BoxStep(d, M), M \subseteq Kept(d)
  PROVE  KindsFit'
<1>1. OutStep(a, Sent(a)) /\ InStep(b, Told(b)) /\ BoxStep(d, Kept(d))
  BY CalmIsWider DEF OutStep, InStep, BoxStep
<1> QED  BY <1>1, KindsKept

LEMMA OpeningKept ==
  ASSUME Follows, NEW c \in Channels, Opens(c),
         Fewer(outbound[Source], outbound'[Source], "Open", c),
         Fewer(inbound[Target], inbound'[Target], "Incoming", c),
         hub'[c] = hub[c] \/ hub[c] # "none",
         handler[Target][c] = "idle" => handler'[Target][c] = "idle"
  PROVE  Opens(c)'
<1>1. Source \in Agents /\ Target \in Agents
  BY DEF Agents
<1>2. hub'[c] = "none" <=> hub[c] = "none"
  BY DEF Follows, HubFollows
<1>3. handler'[Source][c] \in {"idle", "registered"} => handler[Source][c] \in {"idle", "registered"}
  BY <1>1, AgentsAssumption DEF Follows, StagesAdvance, Advances
<1>4. handler'[Target][c] = "idle" => handler[Target][c] = "idle"
  BY <1>1, AgentsAssumption DEF Follows, StagesAdvance, Advances
<1> QED  BY <1>2, <1>3, <1>4 DEF Opens, Fewer

LEMMA AcceptingKept ==
  ASSUME Follows, NEW c \in Channels, Accepting(c),
         \A k \in {"Accepted", "Data"} : Fewer(outbound[Target], outbound'[Target], k, c),
         Fewer(outbound[Source], outbound'[Source], "Data", c),
         Fewer(inbound[Target], inbound'[Target], "Data", c),
         \A k \in {"Accepted", "Data"} : Fewer(inbound[Source], inbound'[Source], k, c),
         Fewer(inbox[Source][c], inbox'[Source][c], "Accepted", c),
         hub'[c] = hub[c] \/ hub'[c] = "over",
         \A a \in Agents : handler'[a][c] = "bridge" => handler[a][c] = "bridge",
         Sends(Target)' /\ hub'[c] = "offered" =>
            /\ DataAfterAccepted(outbound[Target], c) => DataAfterAccepted(outbound'[Target], c)
            /\ Holds(outbound[Target], "Accepted", c) => Holds(outbound'[Target], "Accepted", c)
  PROVE  Accepting(c)'
<1>1. Source \in Agents /\ Target \in Agents
  BY DEF Agents
<1>2. handler[Target][c] \in {"bridge", "over"} => handler'[Target][c] \in {"bridge", "over"}
  BY <1>1 DEF Follows, StagesAdvance, Advances
<1>3. hub[c] \in {"accepted", "over"} => hub'[c] \in {"accepted", "over"}
  OBVIOUS
<1>4. /\ hub'[c] = "accepted" \/ Holds(outbound'[Target], "Accepted", c)
         \/ Holds(outbound'[Target], "Data", c) \/ Holds(inbound'[Target], "Data", c) =>
            handler'[Target][c] \in {"bridge", "over"}
      /\ handler'[Source][c] = "bridge" \/ Holds(outbound'[Source], "Data", c)
         \/ Holds(inbound'[Source], "Accepted", c) \/ Holds(inbox'[Source][c], "Accepted", c)
         \/ Holds(inbound'[Source], "Data", c) =>
            hub'[c] \in {"accepted", "over"}
  BY <1>1, <1>2, <1>3 DEF Accepting, Fewer
<1>5. /\ AtMostOne(inbound'[Source], "Accepted", c)
      /\ AtMostOne(inbox'[Source][c], "Accepted", c)
      /\ Holds(inbox'[Source][c], "Accepted", c) \/ handler'[Source][c] = "bridge" =>
            ~Holds(inbound'[Source], "Accepted", c)
      /\ handler'[Source][c] = "bridge" => ~Holds(inbox'[Source][c], "Accepted", c)
  BY <1>1 DEF Accepting, Fewer
<1>6. Sends(Target)' /\ hub'[c] = "offered" =>
         /\ DataAfterAccepted(outbound'[Target], c)
         /\ handler'[Target][c] = "bridge" => Holds(outbound'[Target], "Accepted", c)
  <2>1. Sends(Target)' => Sends(Target)
    BY <1>1 DEF Follows, TasksFollow
  <2>2. hub'[c] = "offered" => hub[c] = "offered"
    OBVIOUS
  <2> QED  BY <1>1, <2>1, <2>2 DEF Accepting
<1> QED  BY <1>4, <1>5, <1>6 DEF Accepting

LEMMA FlowsKept ==
  ASSUME TypeOK, TypeOK', Follows, NEW a \in Agents, NEW c \in Channels, StreamFlows(a, c),
         written'[a][c] = written[a][c], taken'[Peer(a)][c] = taken[Peer(a)][c],
         Takes(a, c)' => Like(inbox[a][c], inbox'[a][c], c),
         Hears(a, c)' => Like(inbound[a], inbound'[a], c),
         Passes(a, c)' => Like(outbound[Peer(a)], outbound'[Peer(a)], c)
  PROVE  StreamFlows(a, c)'
<1> SUFFICES ASSUME Takes(a, c)'
             PROVE  Flow(inbox'[a][c], inbound'[a], outbound'[Peer(a)], c, written'[a][c],
                         taken'[Peer(a)][c], reads'[Peer(a)][c] = "eof",
                         Hears(a, c)', Passes(a, c)')
  BY DEF StreamFlows
<1> DEFINE hears == Hears(a, c)  hears2 == Hears(a, c)'
           passes == Passes(a, c)  passes2 == Passes(a, c)'
           ended == reads[Peer(a)][c] = "eof"  ended2 == reads'[Peer(a)][c] = "eof"
           got == written[a][c]  all == taken[Peer(a)][c]
<1>1. Peer(a) \in Agents
  BY PeerFacts
<1>2. Flow(inbox[a][c], inbound[a], outbound[Peer(a)], c, got, all, ended, hears, passes)
  BY LessAndLess DEF StreamFlows
<1>3. got \in Nat /\ all \in Nat
  BY <1>1 DEF TypeOK
<1>4. /\ hears \in BOOLEAN /\ hears2 \in BOOLEAN /\ passes \in BOOLEAN /\ passes2 \in BOOLEAN
      /\ ended \in BOOLEAN /\ ended2 \in BOOLEAN
  BY DEF Hears, Passes, Sends
<1>5. (ended => ended2) /\ (hears2 => hears) /\ (passes2 => passes)
  BY <1>1, LessAndLess DEF Follows, HalvesFollow
<1>6. /\ Like(inbox[a][c], inbox'[a][c], c)
      /\ hears2 => Like(inbound[a], inbound'[a], c)
      /\ hears2 /\ passes2 => passes /\ Like(outbound[Peer(a)], outbound'[Peer(a)], c)
  BY <1>5
<1> HIDE DEF hears, hears2, passes, passes2, ended, ended2, got, all
<1>7. Flow(inbox'[a][c], inbound'[a], outbound'[Peer(a)], c, got, all, ended2, hears2, passes2)
  BY <1>2, <1>3, <1>4, <1>5, <1>6, FlowKept
<1> QED  BY <1>7 DEF hears2, passes2, ended2, got, all

LEMMA IntactKept ==
  ASSUME StreamIntact, Follows, NEW a \in Agents, NEW c \in Channels,
         writes'[a][c] \in {writes[a][c], "run"}, written'[a][c] = written[a][c]
  PROVE  /\ writes'[a][c] # "corrupt"
         /\ writes'[a][c] = "eof" =>
               reads'[Peer(a)][c] = "eof" /\ written'[a][c] = taken'[Peer(a)][c]
  BY PeerFacts DEF StreamIntact, Follows, HalvesFollow

LEMMA RestFollows ==
  ASSUME TypeOK
  PROVE  /\ UNCHANGED <<socket, tasks>> => TasksFollow
         /\ UNCHANGED hub => HubFollows
         /\ UNCHANGED halves => HalvesFollow
         /\ UNCHANGED handler => StagesAdvance
         /\ UNCHANGED routes => RoutesFollow
         /\ \A a \in Agents, c \in Channels :
               /\ Unregister(a, c) => RoutesFollow
               /\ Register(a, c) /\ handler[a][c] \in {"idle", "queued"} => RoutesFollow
<1>1. UNCHANGED <<socket, tasks>> => TasksFollow
  BY DEF socket, tasks, TasksFollow, Sends
<1>2. UNCHANGED halves => HalvesFollow
  BY DEF halves, HalvesFollow
<1>3. UNCHANGED hub => HubFollows
  BY DEF HubFollows
<1>4. UNCHANGED handler => StagesAdvance
  BY DEF StagesAdvance, Advances
<1>5. UNCHANGED routes => RoutesFollow
  BY DEF RoutesFollow
<1>6. ASSUME NEW a \in Agents, NEW c \in Channels
      PROVE  /\ Unregister(a, c) => RoutesFollow
             /\ Register(a, c) /\ handler[a][c] \in {"idle", "queued"} => RoutesFollow
  <2>1. Unregister(a, c) => \A b \in Agents : routes'[b] \subseteq routes[b]
    BY DEF TypeOK, Unregister
  <2>2. Register(a, c) =>
           \A b \in Agents, d \in Channels : d \in routes'[b] => d \in routes[b] \/ (b = a /\ d = c)
    BY DEF TypeOK, Register
  <2> QED  BY <2>1, <2>2 DEF RoutesFollow
<1> QED  BY <1>1, <1>2, <1>3, <1>4, <1>5, <1>6

LEMMA StageAdvances ==
  ASSUME TypeOK, NEW a \in Agents, NEW c \in Channels
  PROVE  /\ \A s \in Stages : Stage(a, c, s) /\ Advances(a, handler[a][c], s) => StagesAdvance
         /\ Over(a, c) /\ handler[a][c] # "idle" => StagesAdvance
         /\ StartBridge(a, c) /\ Advances(a, handler[a][c], "bridge") => StagesAdvance
<1>1. ASSUME NEW s \in Stages, Stage(a, c, s), Advances(a, handler[a][c], s)
      PROVE  StagesAdvance
  <2> SUFFICES ASSUME NEW b \in Agents, NEW d \in Channels
               PROVE  Advances(b, handler[b][d], handler'[b][d])
    BY DEF StagesAdvance
  <2>1. CASE b = a /\ d = c
    BY <1>1, <2>1, StageFacts
  <2>2. CASE b # a \/ d # c
    <3>1. handler'[b][d] = handler[b][d]
      BY <1>1, <2>2, StageFacts
    <3> QED  BY <3>1 DEF Advances
  <2> QED  BY <2>1, <2>2
<1>2. Over(a, c) /\ handler[a][c] # "idle" => StagesAdvance
  BY <1>1 DEF Over, Stages, Advances
<1>3. StartBridge(a, c) /\ Advances(a, handler[a][c], "bridge") => StagesAdvance
  BY <1>1 DEF StartBridge, Stages
<1> QED  BY <1>1, <1>2, <1>3

\* A bridge starts from halves that have done nothing.
LEMMA StartFollows ==
  ASSUME TypeOK, BridgesStartFresh, NEW a \in Agents, NEW c \in Channels,
         StartBridge(a, c), handler[a][c] \notin {"bridge", "over"}
  PROVE  HalvesFollow
<1> SUFFICES ASSUME NEW b \in Agents, NEW d \in Channels
             PROVE  /\ handler'[b][d] \notin {"bridge", "over"} =>
                          /\ reads'[b][d] = reads[b][d] /\ writes'[b][d] = writes[b][d]
                          /\ taken'[b][d] = taken[b][d] /\ written'[b][d] = written[b][d]
                    /\ writes'[b][d] \in {"none", "run"} => writes[b][d] \in {"none", "run"}
                    /\ reads[b][d] = "eof" => reads'[b][d] = "eof" /\ taken'[b][d] = taken[b][d]
  BY DEF HalvesFollow
<1>1. CASE b = a /\ d = c
  BY <1>1, StartBridgeFacts DEF BridgesStartFresh
<1>2. CASE b # a \/ d # c
  BY <1>2, StartBridgeFacts
<1> QED  BY <1>1, <1>2

LEMMA SourceFollows ==
  ASSUME TypeOK, BridgesStartFresh, NEW c \in Channels, SourceStep(c)
  PROVE  Follows
<1>1. Source \in Agents
  BY DEF Agents
<1>2. CASE AcceptLocal(c)
  <2>1. handler[Source][c] = "idle" /\ Register(Source, c) /\ Stage(Source, c, "registered")
        /\ UNCHANGED <<socket, tasks>> /\ UNCHANGED halves /\ UNCHANGED hub
    BY <1>2 DEF AcceptLocal, Accepts
  <2>2. StagesAdvance
    BY <1>1, <2>1, StageAdvances DEF Stages, Advances
  <2> QED  BY <1>1, <2>1, <2>2, RestFollows DEF Follows
<1>3. CASE SendOpen(c)
  <2>1. handler[Source][c] = "registered" /\ (Stage(Source, c, "opening") \/ Over(Source, c))
        /\ UNCHANGED <<socket, tasks>> /\ UNCHANGED routes /\ UNCHANGED halves /\ UNCHANGED hub
    BY <1>3 DEF SendOpen
  <2>2. StagesAdvance
    BY <1>1, <2>1, StageAdvances DEF Stages, Advances
  <2> QED  BY <2>1, <2>2, RestFollows DEF Follows
<1>4. CASE Answered(c)
  <2>1. handler[Source][c] = "opening" /\ UNCHANGED <<socket, tasks>> /\ UNCHANGED hub
        /\ \/ StartBridge(Source, c) /\ UNCHANGED routes
           \/ Over(Source, c) /\ Unregister(Source, c) /\ UNCHANGED halves
    BY <1>4 DEF Answered
  <2>2. StagesAdvance
    BY <1>1, <2>1, StageAdvances DEF Advances
  <2>3. HalvesFollow
    BY <1>1, <2>1, StartFollows, RestFollows
  <2> QED  BY <1>1, <2>1, <2>2, <2>3, RestFollows DEF Follows
<1>5. CASE OpenTimesOut(c)
  <2>1. handler[Source][c] = "opening" /\ Over(Source, c) /\ Unregister(Source, c)
        /\ UNCHANGED <<socket, tasks>> /\ UNCHANGED halves /\ UNCHANGED hub
    BY <1>5 DEF OpenTimesOut
  <2>2. StagesAdvance
    BY <1>1, <2>1, StageAdvances
  <2> QED  BY <1>1, <2>1, <2>2, RestFollows DEF Follows
<1> QED  BY <1>2, <1>3, <1>4, <1>5 DEF SourceStep

LEMMA TargetFollows ==
  ASSUME TypeOK, BridgesStartFresh, NEW c \in Channels, TargetStep(c)
  PROVE  Follows
<1>1. Target \in Agents
  BY DEF Agents
<1>2. CASE RefuseIncoming(c)
  <2>1. handler[Target][c] = "queued" /\ Stage(Target, c, "over")
        /\ UNCHANGED <<socket, tasks>> /\ UNCHANGED routes /\ UNCHANGED halves /\ UNCHANGED hub
    BY <1>2 DEF RefuseIncoming, Offered
  <2>2. StagesAdvance
    BY <1>1, <2>1, StageAdvances DEF Stages, Advances
  <2> QED  BY <2>1, <2>2, RestFollows DEF Follows
<1>3. CASE TakeIncoming(c)
  <2>1. handler[Target][c] = "queued" /\ Register(Target, c) /\ Stage(Target, c, "connecting")
        /\ UNCHANGED <<socket, tasks>> /\ UNCHANGED halves /\ UNCHANGED hub
    BY <1>3 DEF TakeIncoming, Offered
  <2>2. StagesAdvance
    BY <1>1, <2>1, StageAdvances DEF Stages, Advances
  <2> QED  BY <1>1, <2>1, <2>2, RestFollows DEF Follows
<1>4. CASE ConnectFails(c)
  <2>1. handler[Target][c] = "connecting" /\ Over(Target, c)
        /\ (Unregister(Target, c) \/ UNCHANGED routes)
        /\ UNCHANGED <<socket, tasks>> /\ UNCHANGED halves /\ UNCHANGED hub
    BY <1>4 DEF ConnectFails
  <2>2. StagesAdvance
    BY <1>1, <2>1, StageAdvances
  <2> QED  BY <1>1, <2>1, <2>2, RestFollows DEF Follows
<1>5. CASE Connected(c)
  <2>1. handler[Target][c] = "connecting" /\ UNCHANGED <<socket, tasks>> /\ UNCHANGED hub
        /\ UNCHANGED routes
        /\ (StartBridge(Target, c) \/ (Over(Target, c) /\ UNCHANGED halves))
    BY <1>5 DEF Connected
  <2>2. StagesAdvance
    BY <1>1, <2>1, StageAdvances DEF Advances
  <2>3. HalvesFollow
    BY <1>1, <2>1, StartFollows, RestFollows
  <2> QED  BY <2>1, <2>2, <2>3, RestFollows DEF Follows
<1> QED  BY <1>2, <1>3, <1>4, <1>5 DEF TargetStep

LEMMA BridgeFollows ==
  ASSUME TypeOK, NEW a \in Agents, NEW c \in Channels, BridgeStep(a, c)
  PROVE  Follows
<1>1. handler[a][c] = "bridge" /\ UNCHANGED <<socket, tasks>> /\ UNCHANGED hub
  BY DEF BridgeStep, ReadChunk, ReadEof, ReadFails, WriteNext, BridgeEnds, Reading, Writing
<1>2. CASE BridgeEnds(a, c)
  <2>1. Over(a, c) /\ Unregister(a, c) /\ UNCHANGED halves
    BY <1>2 DEF BridgeEnds
  <2>2. StagesAdvance
    BY <1>1, <2>1, StageAdvances
  <2> QED  BY <1>1, <2>1, <2>2, RestFollows DEF Follows
<1>3. CASE ReadChunk(a, c) \/ ReadEof(a, c) \/ ReadFails(a, c)
  <2>1. reads[a][c] = "run" /\ UNCHANGED <<handler, routes, writes, written>>
    BY <1>3 DEF ReadChunk, ReadEof, ReadFails, Reading
  <2>2. /\ \E how \in {"run", "eof", "failed"} : reads' = [reads EXCEPT ![a][c] = how]
        /\ \E n \in Nat : taken' = [taken EXCEPT ![a][c] = n]
    <3>1. taken[a][c] \in Nat /\ taken[a][c] + 1 \in Nat
          /\ taken = [taken EXCEPT ![a][c] = taken[a][c]]
          /\ reads = [reads EXCEPT ![a][c] = "run"]
      BY <2>1 DEF TypeOK
    <3>2. CASE ReadChunk(a, c)
      <4>1. taken' = [taken EXCEPT ![a][c] = taken[a][c] + 1]
            /\ (reads' = reads \/ reads' = [reads EXCEPT ![a][c] = "failed"])
        BY <3>2 DEF ReadChunk, ReadEnds
      <4> QED  BY <3>1, <4>1
    <3>3. CASE ReadEof(a, c) \/ ReadFails(a, c)
      <4>1. taken' = taken /\ \E how \in {"eof", "failed"} : reads' = [reads EXCEPT ![a][c] = how]
        BY <3>3 DEF ReadEof, ReadFails, ReadEnds
      <4> QED  BY <3>1, <4>1
    <3> QED  BY <1>3, <3>2, <3>3
  <2>3. \A b \in Agents, d \in Channels : b # a \/ d # c =>
           reads'[b][d] = reads[b][d] /\ taken'[b][d] = taken[b][d]
    BY <2>2, TypeParts DEF ReadTypes
  <2>4. HalvesFollow
    BY <1>1, <2>1, <2>3 DEF HalvesFollow
  <2>5. StagesAdvance /\ RoutesFollow
    BY <2>1, RestFollows
  <2> QED  BY <1>1, <2>4, <2>5, RestFollows DEF Follows
<1>4. CASE WriteNext(a, c)
  <2>1. writes[a][c] = "run" /\ UNCHANGED <<handler, routes, reads, taken>>
    BY <1>4 DEF WriteNext, Writing
  <2>2. \A b \in Agents, d \in Channels : b # a \/ d # c =>
           writes'[b][d] = writes[b][d] /\ written'[b][d] = written[b][d]
    <3>1. \/ written' = [written EXCEPT ![a][c] = @ + 1] /\ writes' = writes
          \/ \E how : writes' = [writes EXCEPT ![a][c] = how] /\ written' = written
      BY <1>4 DEF WriteNext, WriteEnds
    <3> QED  BY <3>1, TypeParts DEF WriteTypes
  <2>3. HalvesFollow
    BY <1>1, <2>1, <2>2 DEF HalvesFollow
  <2>4. StagesAdvance /\ RoutesFollow
    BY <2>1, RestFollows
  <2> QED  BY <1>1, <2>3, <2>4, RestFollows DEF Follows
<1> QED  BY <1>2, <1>3, <1>4 DEF BridgeStep

\* An Open is the source's, of a channel the hub does not know.
LEMMA OpenIsNew ==
  ASSUME KindsFit, OpenedOnce, TypeOK, NEW a \in Agents, outbound[a] # <<>>,
         Head(outbound[a]).kind = "Open"
  PROVE  a = Source /\ hub[Head(outbound[a]).chan] = "none"
<1> DEFINE m == Head(outbound[a])
<1>1. outbound[a] \in Seq(Envelope)
  BY DEF TypeOK
<1>2. m \in Envelope /\ m.chan \in Channels /\ Is(m, "Open", m.chan)
  BY <1>1, TailIndices DEF Envelope, Is
<1>3. a # Target
  <2> SUFFICES ASSUME a = Target PROVE FALSE
    OBVIOUS
  <2>1. OnlyKinds(outbound[a], Kinds \ {"Open"})
    BY DEF KindsFit
  <2> QED  BY <1>1, <2>1, KindsInTail
<1>4. a = Source
  BY <1>3 DEF Agents
<1>5. Holds(outbound[Source], "Open", m.chan)
  BY <1>1, <1>2, <1>4, HoldsInTail
<1>6. Opens(m.chan)
  BY <1>2 DEF OpenedOnce
<1> QED  BY <1>4, <1>5, <1>6 DEF Opens

LEMMA ForwardFollows ==
  ASSUME TypeOK, KindsFit, OpenedOnce, NEW a \in Agents, outbound[a] # <<>>,
         HubForwards(a, Head(outbound[a]))
  PROVE  HubFollows
<1> DEFINE m == Head(outbound[a])
<1>1. m \in Envelope /\ m.chan \in Channels
  BY TailIndices DEF TypeOK, Envelope
<1>2. m.kind = "Open" => hub[m.chan] = "none"
  BY OpenIsNew
<1> HIDE DEF m
<1>3. HubForwards(a, m)
  BY DEF m
<1>4. \/ UNCHANGED hub
      \/ m.kind = "Open" /\ HubKeeps(m.chan, "offered")
      \/ hub[m.chan] = "offered" /\ HubKeeps(m.chan, "accepted")
      \/ Alive(m.chan) /\ HubKeeps(m.chan, "over")
  BY <1>1, <1>3, ForwardCases DEF Alive
<1>5. \A s \in {"offered", "accepted", "over"} : HubKeeps(m.chan, s) =>
         hub'[m.chan] = s /\ \A c \in Channels : c # m.chan => hub'[c] = hub[c]
  BY <1>1, TypeParts DEF HubKeeps, HubTypes
<1> QED  BY <1>1, <1>2, <1>4, <1>5 DEF HubFollows

LEMMA DroppedFollows ==
  ASSUME TypeOK, NEW a \in Agents, NEW other, Dropped(a, other)
  PROVE  \A b \in Agents : /\ ws'[b] = "up" => ws[b] = "up"
                           /\ b # a => ws'[b] = ws[b]
  BY TypeParts DEF TaskTypes, Dropped

LEMMA ClearedFollows ==
  ASSUME TypeOK, NEW a \in Agents, Cleared(a)
  PROVE  RoutesFollow
  BY ClearedFacts DEF RoutesFollow

LEMMA StopsFollows ==
  ASSUME TypeOK, NEW a \in Agents, WriterStops(a), UNCHANGED socket
  PROVE  TasksFollow /\ RoutesFollow /\ ~Sends(a)'
<1>1. /\ writer'[a] = "cleared" /\ \A b \in Agents : b # a => writer'[b] = writer[b]
      /\ closed'[a] = TRUE /\ \A b \in Agents : b # a => closed'[b] = closed[b]
      /\ reader' = reader /\ ws' = ws
  BY TypeParts DEF TaskTypes, WriterStops, socket
<1>2. ~Sends(a)' /\ \A b \in Agents : b # a => Sends(b)' = Sends(b)
  BY <1>1 DEF Sends
<1> QED  BY <1>1, <1>2, ClearedFollows DEF TasksFollow, WriterStops

\* A channel is offered to the target only while its handler is idle.
LEMMA IncomingIsNew ==
  ASSUME KindsFit, OpenedOnce, TypeOK, NEW a \in Agents, inbound[a] # <<>>,
         Head(inbound[a]).kind = "Incoming"
  PROVE  /\ a = Target /\ handler[Target][Head(inbound[a]).chan] = "idle"
         /\ hub[Head(inbound[a]).chan] # "none"
<1> DEFINE m == Head(inbound[a])
<1>1. inbound[a] \in Seq(Envelope)
  BY DEF TypeOK
<1>2. m \in Envelope /\ m.chan \in Channels /\ Is(m, "Incoming", m.chan)
  BY <1>1, TailIndices DEF Envelope, Is
<1>3. a # Source
  <2> SUFFICES ASSUME a = Source PROVE FALSE
    OBVIOUS
  <2>1. OnlyKinds(inbound[a], {"Accepted", "Data"} \union Terminal)
    BY DEF KindsFit
  <2> QED  BY <1>1, <2>1, KindsInTail DEF Terminal
<1>4. a = Target
  BY <1>3 DEF Agents
<1>5. Holds(inbound[Target], "Incoming", m.chan)
  BY <1>1, <1>2, <1>4, HoldsInTail
<1>6. Opens(m.chan)
  BY <1>2 DEF OpenedOnce
<1> QED  BY <1>4, <1>5, <1>6 DEF Opens

LEMMA ConnectionFollows ==
  ASSUME TypeOK, KindsFit, OpenedOnce, NEW a \in Agents, TaskStep(a)
  PROVE  Follows
<1>1. UNCHANGED halves
  BY DEF TaskStep, WriterSends, WriterFails, WriterNotified, WriterOver, ReaderReceives,
         ReaderEnds, Keepalive
<1>2. CASE WriterSends(a)
  <2>1. outbound[a] # <<>> /\ UNCHANGED socket /\ UNCHANGED handler
        /\ \/ WriterStops(a) /\ UNCHANGED hub
           \/ HubForwards(a, Head(outbound[a])) /\ UNCHANGED tasks /\ UNCHANGED routes
           \/ UNCHANGED tasks /\ UNCHANGED routes /\ UNCHANGED hub
    BY <1>2 DEF WriterSends
  <2>2. TasksFollow /\ RoutesFollow
    BY <2>1, StopsFollows, RestFollows
  <2>3. HubFollows
    BY <2>1, ForwardFollows, RestFollows
  <2> QED  BY <1>1, <2>1, <2>2, <2>3, RestFollows DEF Follows
<1>3. CASE WriterFails(a) \/ WriterNotified(a)
  <2>1. UNCHANGED socket /\ UNCHANGED handler /\ WriterStops(a) /\ UNCHANGED hub
    BY <1>3 DEF WriterFails, WriterNotified
  <2> QED  BY <1>1, <2>1, StopsFollows, RestFollows DEF Follows
<1>4. CASE WriterOver(a)
  <2>1. /\ writer' = [writer EXCEPT ![a] = "over"] /\ Dropped(a, reader[a])
        /\ UNCHANGED closed /\ UNCHANGED reader
        /\ UNCHANGED handler /\ UNCHANGED hub /\ UNCHANGED routes
    BY <1>4 DEF WriterOver
  <2>2. writer'[a] = "over" /\ \A b \in Agents : b # a => writer'[b] = writer[b]
    BY <2>1, TypeParts DEF TaskTypes
  <2>3. TasksFollow
    BY <2>1, <2>2, DroppedFollows DEF TasksFollow, Sends
  <2> QED  BY <1>1, <2>1, <2>3, RestFollows DEF Follows
<1>5. CASE ReaderReceives(a)
  <2> DEFINE m == Head(inbound[a])
  <2>1. /\ inbound[a] # <<>> /\ UNCHANGED <<socket, tasks>> /\ UNCHANGED hub
        /\ \/ m.kind = "Incoming" /\ Stage(a, m.chan, "queued") /\ UNCHANGED routes
           \/ (Unregister(a, m.chan) \/ UNCHANGED routes) /\ UNCHANGED handler
    BY <1>5 DEF ReaderReceives
  <2>2. m.chan \in Channels
    BY <2>1, TailIndices DEF TypeOK, Envelope
  <2>3. m.kind = "Incoming" => a = Target /\ handler[Target][m.chan] = "idle"
    BY <2>1, IncomingIsNew
  <2> HIDE DEF m
  <2>4. StagesAdvance
    BY <2>1, <2>2, <2>3, StageAdvances, RestFollows DEF Stages, Advances
  <2>5. RoutesFollow
    BY <2>1, <2>2, RestFollows
  <2> QED  BY <1>1, <2>1, <2>4, <2>5, RestFollows DEF Follows
<1>6. CASE ReaderEnds(a)
  <2>1. /\ reader' = [reader EXCEPT ![a] = "over"] /\ Dropped(a, writer[a])
        /\ closed' = [closed EXCEPT ![a] = TRUE] /\ UNCHANGED writer
        /\ UNCHANGED handler /\ UNCHANGED hub /\ Cleared(a)
    BY <1>6 DEF ReaderEnds
  <2>2. /\ reader'[a] = "over" /\ \A b \in Agents : b # a => reader'[b] = reader[b]
        /\ closed'[a] = TRUE /\ \A b \in Agents : b # a => closed'[b] = closed[b]
    BY <2>1, TypeParts DEF TaskTypes
  <2>3. TasksFollow
    BY <2>1, <2>2, DroppedFollows DEF TasksFollow, Sends
  <2> QED  BY <1>1, <2>1, <2>3, ClearedFollows, RestFollows DEF Follows
<1>7. CASE Keepalive(a)
  <2>1. UNCHANGED <<socket, tasks>> /\ UNCHANGED routes /\ UNCHANGED handler /\ UNCHANGED hub
    BY <1>7 DEF Keepalive
  <2> QED  BY <1>1, <2>1, RestFollows DEF Follows
<1> QED  BY <1>2, <1>3, <1>4, <1>5, <1>6, <1>7 DEF TaskStep

LEMMA SocketsFollow ==
  ASSUME TypeOK, NEW a \in Agents,
         HubDisconnects(a) \/ \E how \in {"broken", "gone"} : SocketFails(a, how)
  PROVE  Follows
<1>1. UNCHANGED routes /\ UNCHANGED handler /\ UNCHANGED halves /\ UNCHANGED tasks
  BY DEF HubDisconnects, SocketFails
<1>2. \A b \in Agents : ws'[b] = "up" => ws[b] = "up"
  BY TypeParts DEF TaskTypes, HubDisconnects, SocketFails
<1>3. TasksFollow
  BY <1>1, <1>2 DEF TasksFollow, Sends, tasks
<1>4. HubFollows
  BY DEF HubDisconnects, SocketFails, HubFollows
<1> QED  BY <1>1, <1>3, <1>4, RestFollows DEF Follows

----------------------------------------------------------------------------
(* Mild steps: those that leave what a queue carries as it was *)

Mild(q, r, kinds) == Grown(q, r, kinds) \/ (q # <<>> /\ r = Tail(q) /\ Head(q).kind # "Data")

LEMMA MildIsLike ==
  ASSUME NEW q \in Seq(Envelope), NEW r, NEW kinds, Mild(q, r, kinds),
         kinds \cap Cargo = {}, NEW c
  PROVE  Like(q, r, c)
<1>1. q # <<>> /\ r = Tail(q) /\ Head(q).kind # "Data" => Like(q, r, c)
  BY LikeTail DEF Is
<1> QED  BY <1>1, GrownIsLike DEF Mild

\* What nobody will take any more may change in any way.
OutMild(a, kinds) ==
    OutStep(a, kinds) /\ (Sends(a)' => Mild(outbound[a], outbound'[a], kinds))
InMild(a, kinds) ==
    InStep(a, kinds) /\ (reader'[a] = "running" => Mild(inbound[a], inbound'[a], kinds))
BoxMild(a, kinds) ==
    /\ BoxStep(a, kinds)
    /\ \A c \in Channels :
          handler'[a][c] # "over" => Mild(inbox[a][c], inbox'[a][c], kinds)

\* The step starts no bridge, queues no incoming channel and ends no writer half.
QuietStages == \A a \in Agents, c \in Channels :
    /\ handler'[a][c] = "bridge" => handler[a][c] = "bridge"
    /\ handler'[a][c] = "queued" => handler[a][c] = "queued"
QuietHub == \A c \in Channels : hub'[c] = hub[c] \/ (hub[c] # "none" /\ hub'[c] = "over")
QuietHalves == UNCHANGED <<writes, taken, written>>

LEMMA FlowsMild ==
  ASSUME TypeOK, TypeOK', Follows, StreamsFlow,
         NEW a \in Agents, NEW K, OutMild(a, K), K \cap Cargo = {},
         NEW b \in Agents, NEW L, InMild(b, L), L \cap Cargo = {},
         NEW d \in Agents, NEW M, BoxMild(d, M), M \cap Cargo = {},
         UNCHANGED <<taken, written>>
  PROVE  StreamsFlow'
<1> SUFFICES ASSUME NEW e \in Agents, NEW c \in Channels PROVE StreamFlows(e, c)'
  BY DEF StreamsFlow
<1>1. Peer(e) \in Agents
  BY PeerFacts
<1>2. \A q : Like(q, q, c)
  BY DEF Like
<1>3. Takes(e, c)' => Like(inbox[e][c], inbox'[e][c], c)
  <2>1. CASE e # d
    BY <1>2, <2>1 DEF BoxMild, BoxStep
  <2>2. CASE e = d
    <3>1. inbox[e][c] \in Seq(Envelope)
      BY DEF TypeOK
    <3> QED  BY <2>2, <3>1, MildIsLike DEF BoxMild, Takes
  <2> QED  BY <2>1, <2>2
<1>4. Hears(e, c)' => Like(inbound[e], inbound'[e], c)
  <2>1. CASE e # b
    BY <1>2, <2>1 DEF InMild, InStep
  <2>2. CASE e = b
    <3>1. inbound[e] \in Seq(Envelope)
      BY DEF TypeOK
    <3> QED  BY <2>2, <3>1, MildIsLike DEF InMild, Hears
  <2> QED  BY <2>1, <2>2
<1>5. Passes(e, c)' => Like(outbound[Peer(e)], outbound'[Peer(e)], c)
  <2>1. CASE Peer(e) # a
    BY <1>1, <1>2, <2>1 DEF OutMild, OutStep
  <2>2. CASE Peer(e) = a
    <3>1. outbound[a] \in Seq(Envelope)
      BY DEF TypeOK
    <3> QED  BY <2>2, <3>1, MildIsLike DEF OutMild, Passes
  <2> QED  BY <2>1, <2>2
<1>6. StreamFlows(e, c)
  BY DEF StreamsFlow
<1> QED  BY <1>3, <1>4, <1>5, <1>6, FlowsKept

LEMMA QueuesAre ==
  ASSUME TypeOK, NEW a \in Agents
  PROVE  /\ outbound[a] \in Seq(Envelope) /\ inbound[a] \in Seq(Envelope)
         /\ \A c \in Channels : inbox[a][c] \in Seq(Envelope)
  BY DEF TypeOK

LEMMA CountTypes ==
  ASSUME TypeOK, NEW a \in Agents, NEW c \in Channels
  PROVE  taken[a][c] \in Nat /\ written[a][c] \in Nat
  BY DEF TypeOK

LEMMA OutIsFewer ==
  ASSUME TypeOK, NEW a \in Agents, NEW K, OutStep(a, K), NEW e \in Agents, NEW k, k \notin K, NEW c
  PROVE  Fewer(outbound[e], outbound'[e], k, c)
<1>1. CASE e = a
  BY <1>1, QueuesAre, CalmIsFewer DEF OutStep
<1>2. CASE e # a
  BY <1>2 DEF OutStep, Fewer
<1> QED  BY <1>1, <1>2

LEMMA InIsFewer ==
  ASSUME TypeOK, NEW a \in Agents, NEW K, InStep(a, K), NEW e \in Agents, NEW k, k \notin K, NEW c
  PROVE  Fewer(inbound[e], inbound'[e], k, c)
<1>1. CASE e = a
  BY <1>1, QueuesAre, CalmIsFewer DEF InStep
<1>2. CASE e # a
  BY <1>2 DEF InStep, Fewer
<1> QED  BY <1>1, <1>2

LEMMA BoxIsFewer ==
  ASSUME TypeOK, NEW a \in Agents, NEW K, BoxStep(a, K), NEW e \in Agents, NEW k, k \notin K,
         NEW c \in Channels
  PROVE  Fewer(inbox[e][c], inbox'[e][c], k, c)
<1>1. CASE e = a
  BY <1>1, QueuesAre, CalmIsFewer DEF BoxStep
<1>2. CASE e # a
  BY <1>2 DEF BoxStep, Fewer
<1> QED  BY <1>1, <1>2

LEMMA OpeningsMild ==
  ASSUME TypeOK, Follows, OpenedOnce, QuietStages,
         \A c \in Channels : hub'[c] = hub[c] \/ hub[c] # "none",
         NEW a \in Agents, NEW K, OutStep(a, K), "Open" \notin K,
         NEW b \in Agents, NEW L, InStep(b, L), "Incoming" \notin L
  PROVE  OpenedOnce'
<1> SUFFICES ASSUME NEW c \in Channels PROVE Opens(c)'
  BY DEF OpenedOnce
<1>1. Source \in Agents /\ Target \in Agents
  BY DEF Agents
<1>2. handler[Target][c] = "idle" => handler'[Target][c] = "idle"
  BY <1>1, AgentsAssumption DEF QuietStages, Follows, StagesAdvance, Advances
<1>3. Opens(c)
  BY DEF OpenedOnce
<1> QED  BY <1>1, <1>2, <1>3, OutIsFewer, InIsFewer, OpeningKept

\* The order in which the target accepts a channel and sends data for it.
OrderKept(c) ==
    Sends(Target)' /\ hub'[c] = "offered" =>
        /\ DataAfterAccepted(outbound[Target], c) => DataAfterAccepted(outbound'[Target], c)
        /\ Holds(outbound[Target], "Accepted", c) => Holds(outbound'[Target], "Accepted", c)

LEMMA HeadKeepsOrder ==
  ASSUME TypeOK, NEW a \in Agents, outbound[a] # <<>>,
         outbound' = [outbound EXCEPT ![a] = Tail(@)], NEW c \in Channels,
         ~Is(Head(outbound[a]), "Accepted", c) \/ hub'[c] # "offered"
  PROVE  OrderKept(c)
<1>1. Target \in Agents
  BY DEF Agents
<1>2. CASE a # Target
  BY <1>1, <1>2, HeadLeaves DEF OrderKept
<1>3. CASE a = Target
  <2>1. outbound[Target] \in Seq(Envelope) /\ outbound'[Target] = Tail(outbound[Target])
    BY <1>3, HeadLeaves
  <2> QED  BY <1>3, <2>1, TailKeepsOrder, HoldsInTail DEF OrderKept
<1> QED  BY <1>2, <1>3

LEMMA AcceptingsMild ==
  ASSUME TypeOK, Follows, AcceptedOnce, QuietStages, QuietHub,
         NEW a \in Agents, NEW K, OutStep(a, K), K \cap {"Accepted", "Data"} = {},
         NEW b \in Agents, NEW L, InStep(b, L), L \cap {"Accepted", "Data"} = {},
         NEW d \in Agents, NEW M, BoxStep(d, M), "Accepted" \notin M,
         \A c \in Channels : OrderKept(c)
  PROVE  AcceptedOnce'
<1> SUFFICES ASSUME NEW c \in Channels PROVE Accepting(c)'
  BY DEF AcceptedOnce
<1>1. Source \in Agents /\ Target \in Agents
  BY DEF Agents
<1>2. Accepting(c) /\ OrderKept(c) /\ (hub'[c] = hub[c] \/ hub'[c] = "over")
  BY DEF AcceptedOnce, QuietHub
<1>3. \A e \in Agents : handler'[e][c] = "bridge" => handler[e][c] = "bridge"
  BY DEF QuietStages
<1>4. \A k \in {"Accepted", "Data"} :
         /\ Fewer(outbound[Target], outbound'[Target], k, c)
         /\ Fewer(outbound[Source], outbound'[Source], k, c)
         /\ Fewer(inbound[Target], inbound'[Target], k, c)
         /\ Fewer(inbound[Source], inbound'[Source], k, c)
  BY <1>1, OutIsFewer, InIsFewer
<1>5. Fewer(inbox[Source][c], inbox'[Source][c], "Accepted", c)
  BY <1>1, BoxIsFewer
<1> QED  BY <1>2, <1>3, <1>4, <1>5, AcceptingKept DEF OrderKept

LEMMA IntactQuiet ==
  ASSUME StreamIntact, Follows, UNCHANGED <<writes, written>>
  PROVE  StreamIntact'
  BY IntactKept DEF StreamIntact

LEMMA OutMildFacts ==
  ASSUME TypeOK, NEW a \in Agents, NEW K
  PROVE  /\ UNCHANGED outbound => OutMild(a, K)
         /\ \A m \in Envelope : outbound' = Queued(a, m) /\ m.kind \in K => OutMild(a, K)
         /\ outbound[a] # <<>> /\ outbound' = [outbound EXCEPT ![a] = Tail(@)] =>
               /\ OutStep(a, K)
               /\ Head(outbound[a]).kind # "Data" \/ ~Sends(a)' => OutMild(a, K)
         /\ outbound' = [outbound EXCEPT ![a] = <<>>] /\ ~Sends(a)' => OutMild(a, K)
<1>1. UNCHANGED outbound => OutMild(a, K)
  BY DEF OutMild, OutStep, Calm, Grown, Mild
<1>2. ASSUME NEW m \in Envelope, outbound' = Queued(a, m), m.kind \in K PROVE OutMild(a, K)
  <2>1. Grown(outbound[a], outbound'[a], K) /\ \A b \in Agents : b # a => outbound'[b] = outbound[b]
    BY <1>2, QueuedFacts DEF Grown
  <2> QED  BY <2>1 DEF OutMild, OutStep, Calm, Mild
<1>3. ASSUME outbound[a] # <<>>, outbound' = [outbound EXCEPT ![a] = Tail(@)]
      PROVE  /\ OutStep(a, K)
             /\ Head(outbound[a]).kind # "Data" \/ ~Sends(a)' => OutMild(a, K)
  BY <1>3, HeadLeaves DEF OutMild, OutStep, Calm, Mild
<1>4. ASSUME outbound' = [outbound EXCEPT ![a] = <<>>], ~Sends(a)' PROVE OutMild(a, K)
  <2>1. outbound'[a] = <<>> /\ \A b \in Agents : b # a => outbound'[b] = outbound[b]
    BY <1>4 DEF TypeOK
  <2> QED  BY <1>4, <2>1 DEF OutMild, OutStep, Calm
<1> QED  BY <1>1, <1>2, <1>3, <1>4

LEMMA InMildFacts ==
  ASSUME TypeOK, NEW a \in Agents, NEW K
  PROVE  /\ UNCHANGED inbound => InMild(a, K)
         /\ \A ms \in Seq(Envelope) :
               inbound' = Post(a, ms) /\ OnlyKinds(ms, K) => InMild(a, K)
         /\ \A m \in Envelope : inbound' = Post(a, <<m>>) /\ m.kind \in K => InMild(a, K)
         /\ inbound[a] # <<>> /\ inbound' = [inbound EXCEPT ![a] = Tail(@)] =>
               /\ InStep(a, K)
               /\ Head(inbound[a]).kind # "Data" => InMild(a, K)
         /\ inbound' = [inbound EXCEPT ![a] = <<>>] /\ reader'[a] # "running" => InMild(a, K)
<1>1. UNCHANGED inbound => InMild(a, K)
  BY DEF InMild, InStep, Calm, Grown, Mild
<1>2. ASSUME NEW ms \in Seq(Envelope), inbound' = Post(a, ms), OnlyKinds(ms, K) PROVE InMild(a, K)
  <2>1. Grown(inbound[a], inbound'[a], K) /\ \A b \in Agents : b # a => inbound'[b] = inbound[b]
    BY <1>2, PostFacts DEF Grown
  <2> QED  BY <2>1 DEF InMild, InStep, Calm, Mild
<1>3. ASSUME NEW m \in Envelope, inbound' = Post(a, <<m>>), m.kind \in K PROVE InMild(a, K)
  <2>1. Grown(inbound[a], inbound'[a], K) /\ \A b \in Agents : b # a => inbound'[b] = inbound[b]
    BY <1>3, PostOneFacts DEF Grown
  <2> QED  BY <2>1 DEF InMild, InStep, Calm, Mild
<1>4. ASSUME inbound[a] # <<>>, inbound' = [inbound EXCEPT ![a] = Tail(@)]
      PROVE  /\ InStep(a, K)
             /\ Head(inbound[a]).kind # "Data" => InMild(a, K)
  BY <1>4, HeadLeaves DEF InMild, InStep, Calm, Mild
<1>5. ASSUME inbound' = [inbound EXCEPT ![a] = <<>>], reader'[a] # "running" PROVE InMild(a, K)
  <2>1. inbound'[a] = <<>> /\ \A b \in Agents : b # a => inbound'[b] = inbound[b]
    BY <1>5 DEF TypeOK
  <2> QED  BY <1>5, <2>1 DEF InMild, InStep, Calm
<1> QED  BY <1>1, <1>2, <1>3, <1>4, <1>5

LEMMA OnlyOfIsKept ==
  ASSUME NEW q \in Seq(Envelope), NEW c, OnlyOf(q, c)
  PROVE  /\ q # <<>> => OnlyOf(Tail(q), c) /\ Head(q).chan = c
         /\ \A m \in Envelope : m.chan = c => OnlyOf(Append(q, m), c)
<1>1. q # <<>> => OnlyOf(Tail(q), c) /\ Head(q).chan = c
  BY TailIndices DEF OnlyOf
<1>2. \A m \in Envelope : m.chan = c => OnlyOf(Append(q, m), c)
  BY AppendedIndices DEF OnlyOf
<1> QED  BY <1>1, <1>2

LEMMA BoxMildFacts ==
  ASSUME TypeOK, NEW a \in Agents, NEW K
  PROVE  /\ UNCHANGED inbox => BoxMild(a, K)
         /\ \A c \in Channels : Over(a, c) => BoxMild(a, K)
         /\ Cleared(a) /\ "Gone" \in K => BoxMild(a, K)
         /\ \A c \in Channels :
               inbox[a][c] # <<>> /\ inbox' = [inbox EXCEPT ![a][c] = Tail(@)] =>
                  /\ BoxStep(a, K)
                  /\ Head(inbox[a][c]).kind # "Data" => BoxMild(a, K)
<1>1. UNCHANGED inbox => BoxMild(a, K)
  BY DEF BoxMild, BoxStep, Calm, Grown, Mild
<1>2. ASSUME NEW c \in Channels, Over(a, c) PROVE BoxMild(a, K)
  <2>1. handler'[a][c] = "over" /\ inbox'[a][c] = <<>> /\ OnlyOf(<<>>, c)
    BY <1>2, OverFacts DEF OnlyOf
  <2>2. \A b \in Agents, d \in Channels : b # a \/ d # c => inbox'[b][d] = inbox[b][d]
    BY <1>2, OverFacts
  <2> QED  BY <2>1, <2>2 DEF BoxMild, BoxStep, Calm, Grown, Mild
<1>3. ASSUME Cleared(a), "Gone" \in K PROVE BoxMild(a, K)
  <2> SUFFICES ASSUME NEW c \in Channels
               PROVE  /\ Grown(inbox[a][c], inbox'[a][c], K)
                      /\ OnlyOf(inbox[a][c], c) => OnlyOf(inbox'[a][c], c)
                      /\ \A b \in Agents : b # a => inbox'[b][c] = inbox[b][c]
    BY DEF BoxMild, BoxStep, Calm, Mild
  <2>1. Message("Gone", c) \in Envelope /\ inbox[a][c] \in Seq(Envelope)
        /\ Message("Gone", c).kind = "Gone" /\ Message("Gone", c).chan = c
    BY MessageTypes, QueuesAre DEF Kinds, Message
  <2>2. inbox'[a][c] = inbox[a][c] \/ inbox'[a][c] = Append(inbox[a][c], Message("Gone", c))
    BY <1>3, ClearedFacts
  <2>3. \A b \in Agents : b # a => inbox'[b][c] = inbox[b][c]
    BY <1>3, ClearedFacts
  <2>4. Grown(inbox[a][c], inbox'[a][c], K)
    BY <1>3, <2>1, <2>2 DEF Grown
  <2>5. OnlyOf(inbox[a][c], c) => OnlyOf(inbox'[a][c], c)
    BY <2>1, <2>2, OnlyOfIsKept
  <2> QED  BY <2>3, <2>4, <2>5
<1>4. ASSUME NEW c \in Channels, inbox[a][c] # <<>>, inbox' = [inbox EXCEPT ![a][c] = Tail(@)]
      PROVE  /\ BoxStep(a, K)
             /\ Head(inbox[a][c]).kind # "Data" => BoxMild(a, K)
  <2>1. inbox'[a][c] = Tail(inbox[a][c]) /\ inbox[a][c] \in Seq(Envelope)
    BY <1>4, TakenFromBox
  <2>2. \A b \in Agents, d \in Channels : b # a \/ d # c => inbox'[b][d] = inbox[b][d]
    BY <1>4, TakenFromBox
  <2>3. OnlyOf(inbox[a][c], c) => OnlyOf(inbox'[a][c], c)
    BY <1>4, <2>1, OnlyOfIsKept
  <2> QED  BY <1>4, <2>1, <2>2, <2>3 DEF BoxMild, BoxStep, Calm, Grown, Mild
<1> QED  BY <1>1, <1>2, <1>3, <1>4

Answers == {"Rejected", "TimedOut", "Ping"}
Notices == {"Rejected", "TimedOut", "Gone"}

MildStep ==
    /\ QuietStages /\ QuietHub /\ QuietHalves
    /\ \E a \in Agents : OutMild(a, Answers)
    /\ \E a \in Agents : InMild(a, Notices)
    /\ \E a \in Agents : BoxMild(a, {"Gone"})
    /\ \A c \in Channels : OrderKept(c)

LEMMA MildStepKeeps ==
  ASSUME StreamInv, TypeOK', Follows, MildStep
  PROVE  StreamInv'
<1>1. PICK a \in Agents : OutMild(a, Answers)
  BY DEF MildStep
<1>2. PICK b \in Agents : InMild(b, Notices)
  BY DEF MildStep
<1>3. PICK d \in Agents : BoxMild(d, {"Gone"})
  BY DEF MildStep
<1>4. /\ Answers \subseteq Sent(a) /\ Notices \subseteq Told(b) /\ {"Gone"} \subseteq Kept(d)
      /\ Answers \cap Cargo = {} /\ Notices \cap Cargo = {} /\ {"Gone"} \cap Cargo = {}
  BY DEF Answers, Notices, Sent, Told, Kept, Kinds, Terminal, Cargo
<1>5. KindsFit'
  BY <1>1, <1>2, <1>3, <1>4, KindsMild DEF StreamInv, OutMild, InMild, BoxMild
<1>6. BridgesStartFresh'
  BY FreshKept DEF StreamInv
<1>7. OpenedOnce'
  <2>1. "Open" \notin Answers /\ "Incoming" \notin Notices
    BY DEF Answers, Notices
  <2> QED  BY <1>1, <1>2, <2>1, OpeningsMild DEF StreamInv, MildStep, QuietHub, OutMild, InMild
<1>8. AcceptedOnce'
  <2>1. Answers \cap {"Accepted", "Data"} = {} /\ Notices \cap {"Accepted", "Data"} = {}
        /\ "Accepted" \notin {"Gone"}
    BY DEF Answers, Notices
  <2> QED  BY <1>1, <1>2, <1>3, <2>1, AcceptingsMild DEF StreamInv, MildStep, OutMild, InMild, BoxMild
<1>9. StreamsFlow'
  BY <1>1, <1>2, <1>3, <1>4, FlowsMild DEF StreamInv, MildStep, QuietHalves
<1>10. StreamIntact'
  BY IntactQuiet DEF StreamInv, MildStep, QuietHalves
<1> QED  BY <1>5, <1>6, <1>7, <1>8, <1>9, <1>10 DEF StreamInv

LEMMA OrderFacts ==
  ASSUME TypeOK, NEW c \in Channels
  PROVE  /\ UNCHANGED outbound => OrderKept(c)
         /\ \A a \in Agents, m \in Envelope :
               outbound' = Queued(a, m) /\ m.kind # "Data" => OrderKept(c)
         /\ \A a \in Agents : ~Sends(a)' /\ (\A b \in Agents : b # a => outbound'[b] = outbound[b])
               => OrderKept(c)
<1>1. Target \in Agents
  BY DEF Agents
<1>2. UNCHANGED outbound => OrderKept(c)
  BY DEF OrderKept
<1>3. ASSUME NEW a \in Agents, NEW m \in Envelope, outbound' = Queued(a, m), m.kind # "Data"
      PROVE  OrderKept(c)
  <2>1. CASE outbound'[Target] = outbound[Target]
    BY <2>1 DEF OrderKept
  <2>2. CASE outbound'[Target] = Append(outbound[Target], m)
    <3>1. outbound[Target] \in Seq(Envelope)
      BY <1>1 DEF TypeOK
    <3>2. Grown(outbound[Target], outbound'[Target], {m.kind})
      BY <2>2 DEF Grown
    <3>3. DataAfterAccepted(outbound[Target], c) => DataAfterAccepted(outbound'[Target], c)
      BY <1>3, <3>1, <3>2, GrownKeepsOrder
    <3>4. Holds(outbound[Target], "Accepted", c) => Holds(outbound'[Target], "Accepted", c)
      BY <2>2, <3>1, HoldsInAppended
    <3> QED  BY <3>3, <3>4 DEF OrderKept
  <2> QED  BY <1>1, <1>3, <2>1, <2>2, QueuedFacts
<1>4. ASSUME NEW a \in Agents, ~Sends(a)', \A b \in Agents : b # a => outbound'[b] = outbound[b]
      PROVE  OrderKept(c)
  BY <1>1, <1>4 DEF OrderKept
<1> QED  BY <1>2, <1>3, <1>4

LEMMA QuietFacts ==
  ASSUME TypeOK
  PROVE  /\ UNCHANGED handler => QuietStages
         /\ \A a \in Agents, c \in Channels, s \in Stages \ {"bridge", "queued"} :
               Stage(a, c, s) => QuietStages
         /\ \A a \in Agents, c \in Channels : Over(a, c) => QuietStages
         /\ UNCHANGED hub => QuietHub
         /\ UNCHANGED halves => QuietHalves
<1>1. ASSUME NEW a \in Agents, NEW c \in Channels, NEW s \in Stages \ {"bridge", "queued"},
             Stage(a, c, s)
      PROVE  QuietStages
  BY <1>1, StageFacts DEF QuietStages
<1>2. ASSUME NEW a \in Agents, NEW c \in Channels, Over(a, c) PROVE QuietStages
  BY <1>2, OverFacts DEF QuietStages
<1>3. (UNCHANGED handler => QuietStages) /\ (UNCHANGED hub => QuietHub)
      /\ (UNCHANGED halves => QuietHalves)
  BY DEF QuietStages, QuietHub, QuietHalves, halves
<1> QED  BY <1>1, <1>2, <1>3

LEMMA MildSourceStep ==
  ASSUME TypeOK, NEW c \in Channels, SourceStep(c),
         SendOpen(c) => ~MaySend(Source), Answered(c) => Over(Source, c) /\ UNCHANGED halves
  PROVE  MildStep
<1>1. Source \in Agents /\ Message("TimedOut", c) \in Envelope
      /\ Message("TimedOut", c).kind = "TimedOut" /\ "TimedOut" \in Answers
      /\ Message("Open", c) \in Envelope
  BY MessageTypes DEF Agents, Kinds, Message, Answers
<1>2. UNCHANGED inbound /\ UNCHANGED halves /\ UNCHANGED hub
  BY DEF SourceStep, AcceptLocal, SendOpen, Answered, OpenTimesOut
<1>3. \/ Stage(Source, c, "registered") /\ UNCHANGED inbox
      \/ Over(Source, c)
  BY DEF SourceStep, AcceptLocal, SendOpen, OpenTimesOut
<1>4. UNCHANGED outbound \/ outbound' = Queued(Source, Message("TimedOut", c))
  BY <1>1, QueuedFacts DEF SourceStep, AcceptLocal, SendOpen, Answered, OpenTimesOut
<1>5. QuietStages
  BY <1>1, <1>3, QuietFacts DEF Stages
<1>6. OutMild(Source, Answers) /\ \A d \in Channels : OrderKept(d)
  BY <1>1, <1>4, OutMildFacts, OrderFacts
<1>7. InMild(Source, Notices) /\ BoxMild(Source, {"Gone"})
  BY <1>1, <1>2, <1>3, InMildFacts, BoxMildFacts
<1> QED  BY <1>1, <1>2, <1>5, <1>6, <1>7, QuietFacts DEF MildStep

LEMMA MildTargetStep ==
  ASSUME TypeOK, NEW c \in Channels, TargetStep(c), Connected(c) => ~MaySend(Target)
  PROVE  MildStep
<1>1. Target \in Agents /\ Message("Rejected", c) \in Envelope
      /\ Message("Rejected", c).kind = "Rejected" /\ "Rejected" \in Answers
      /\ Message("Accepted", c) \in Envelope
  BY MessageTypes DEF Agents, Kinds, Message, Answers
<1>2. UNCHANGED inbound /\ UNCHANGED halves /\ UNCHANGED hub
  BY DEF TargetStep, RefuseIncoming, TakeIncoming, ConnectFails, Connected
<1>3. \/ Stage(Target, c, "over") /\ UNCHANGED inbox
      \/ Stage(Target, c, "connecting") /\ UNCHANGED inbox
      \/ Over(Target, c)
  BY DEF TargetStep, RefuseIncoming, TakeIncoming, ConnectFails, Connected
<1>4. UNCHANGED outbound \/ outbound' = Queued(Target, Message("Rejected", c))
  BY <1>1, QueuedFacts DEF TargetStep, RefuseIncoming, TakeIncoming, ConnectFails, Connected
<1>5. QuietStages
  BY <1>1, <1>3, QuietFacts DEF Stages
<1>6. OutMild(Target, Answers) /\ \A d \in Channels : OrderKept(d)
  BY <1>1, <1>4, OutMildFacts, OrderFacts
<1>7. InMild(Target, Notices) /\ BoxMild(Target, {"Gone"})
  BY <1>1, <1>2, <1>3, InMildFacts, BoxMildFacts
<1> QED  BY <1>1, <1>2, <1>5, <1>6, <1>7, QuietFacts DEF MildStep

LEMMA MildBridgeStep ==
  ASSUME TypeOK, NEW a \in Agents, NEW c \in Channels, ReadFails(a, c) \/ BridgeEnds(a, c)
  PROVE  MildStep
<1>1. UNCHANGED outbound /\ UNCHANGED inbound /\ UNCHANGED hub /\ QuietHalves
  BY DEF ReadFails, BridgeEnds, halves, QuietHalves
<1>2. (UNCHANGED handler /\ UNCHANGED inbox) \/ Over(a, c)
  BY DEF ReadFails, BridgeEnds
<1>3. QuietStages /\ QuietHub
  BY <1>1, <1>2, QuietFacts
<1>4. OutMild(a, Answers) /\ InMild(a, Notices) /\ BoxMild(a, {"Gone"})
  BY <1>1, <1>2, OutMildFacts, InMildFacts, BoxMildFacts
<1> QED  BY <1>1, <1>3, <1>4, OrderFacts DEF MildStep

LEMMA MildSocketStep ==
  ASSUME TypeOK, NEW a \in Agents,
         HubDisconnects(a) \/ \E how \in {"broken", "gone"} : SocketFails(a, how)
  PROVE  MildStep
<1>1. UNCHANGED outbound /\ UNCHANGED inbox /\ UNCHANGED handler /\ UNCHANGED halves
  BY DEF HubDisconnects, SocketFails
<1>2. QuietHub
  BY DEF HubDisconnects, SocketFails, QuietHub, Alive
<1>3. InMild(Peer(a), Notices)
  <2>1. CASE UNCHANGED inbound
    BY <2>1, PeerFacts, InMildFacts
  <2>2. CASE HubDisconnects(a)
    <3>1. PICK order \in SetToSeqs({c \in Channels : Alive(c)}) :
            inbound' = Post(Peer(a), [i \in DOMAIN order |-> Message("Gone", order[i])])
      BY <2>2 DEF HubDisconnects
    <3> DEFINE ms == [i \in DOMAIN order |-> Message("Gone", order[i])]
    <3>2. ms \in Seq(Envelope) /\ OnlyKinds(ms, Notices)
      BY GoneMessages DEF OnlyKinds, Notices
    <3> HIDE DEF ms
    <3>3. inbound' = Post(Peer(a), ms)
      BY <3>1 DEF ms
    <3> QED  BY <3>2, <3>3, PeerFacts, InMildFacts
  <2> QED  BY <2>1, <2>2 DEF SocketFails
<1>4. OutMild(a, Answers) /\ BoxMild(a, {"Gone"})
  BY <1>1, OutMildFacts, BoxMildFacts
<1> QED  BY <1>1, <1>2, <1>3, <1>4, PeerFacts, QuietFacts, OrderFacts DEF MildStep

LEMMA MildTaskStep ==
  ASSUME TypeOK, NEW a \in Agents,
         \/ WriterSends(a) /\ ~Sends(a)
         \/ WriterFails(a) \/ WriterNotified(a) \/ WriterOver(a) \/ ReaderEnds(a) \/ Keepalive(a)
  PROVE  MildStep
<1>1. UNCHANGED handler /\ UNCHANGED halves /\ UNCHANGED hub
  BY DEF WriterSends, WriterFails, WriterNotified, WriterOver, ReaderEnds, Keepalive, Sends
<1>2. QuietStages /\ QuietHub /\ QuietHalves
  BY <1>1, QuietFacts
<1>3. CASE (WriterSends(a) /\ ~Sends(a)) \/ WriterFails(a) \/ WriterNotified(a)
  <2>1. /\ UNCHANGED socket /\ UNCHANGED inbound
        /\ \/ WriterStops(a)
           \/ ~Sends(a) /\ UNCHANGED <<tasks, routes, inbox>>
        /\ \/ UNCHANGED outbound
           \/ outbound[a] # <<>> /\ outbound' = [outbound EXCEPT ![a] = Tail(@)]
    BY <1>3 DEF WriterSends, WriterFails, WriterNotified, Sends
  <2>2. ~Sends(a)'
    <3>1. UNCHANGED <<socket, tasks>> => Sends(a)' = Sends(a)
      BY DEF socket, tasks, Sends
    <3> QED  BY <2>1, <3>1, StopsFollows
  <2>3. OutMild(a, Answers)
    BY <2>1, <2>2, OutMildFacts
  <2>4. \A c \in Channels : OrderKept(c)
    BY <2>2, <2>3, OrderFacts DEF OutMild, OutStep
  <2>5. InMild(a, Notices) /\ BoxMild(a, {"Gone"})
    BY <2>1, InMildFacts, BoxMildFacts DEF WriterStops
  <2> QED  BY <1>2, <2>3, <2>4, <2>5 DEF MildStep
<1>4. CASE WriterOver(a)
  <2>1. /\ writer' = [writer EXCEPT ![a] = "over"] /\ UNCHANGED inbound /\ UNCHANGED inbox
        /\ outbound' = [outbound EXCEPT ![a] = <<>>]
    BY <1>4 DEF WriterOver
  <2>2. ~Sends(a)'
    BY <2>1, TypeParts DEF TaskTypes, Sends
  <2>3. OutMild(a, Answers)
    BY <2>1, <2>2, OutMildFacts
  <2>4. \A c \in Channels : OrderKept(c)
    BY <2>2, <2>3, OrderFacts DEF OutMild, OutStep
  <2> QED  BY <1>2, <2>1, <2>3, <2>4, InMildFacts, BoxMildFacts DEF MildStep
<1>5. CASE ReaderEnds(a)
  <2>1. /\ reader' = [reader EXCEPT ![a] = "over"] /\ UNCHANGED outbound
        /\ inbound' = [inbound EXCEPT ![a] = <<>>] /\ Cleared(a)
    BY <1>5 DEF ReaderEnds
  <2>2. reader'[a] # "running"
    BY <2>1, TypeParts DEF TaskTypes
  <2>3. InMild(a, Notices) /\ OutMild(a, Answers) /\ BoxMild(a, {"Gone"})
    BY <2>1, <2>2, InMildFacts, OutMildFacts, BoxMildFacts
  <2> QED  BY <1>2, <2>1, <2>3, OrderFacts DEF MildStep
<1>6. CASE Keepalive(a)
  <2>1. outbound' = [outbound EXCEPT ![a] = <<Ping>>] /\ outbound[a] = <<>> /\ MaySend(a)
        /\ UNCHANGED inbound /\ UNCHANGED inbox
    BY <1>6 DEF Keepalive
  <2>2. outbound' = Queued(a, Ping)
    <3>1. <<Ping>> = Append(outbound[a], Ping)
      BY <2>1
    <3> QED  BY <2>1, <3>1 DEF Queued
  <2>3. Ping.kind \in Answers /\ Ping.kind # "Data"
    BY PingType DEF Answers
  <2> QED
    BY <1>2, <2>1, <2>2, <2>3, PingType, OutMildFacts, InMildFacts, BoxMildFacts, OrderFacts
       DEF MildStep
<1> QED  BY <1>3, <1>4, <1>5, <1>6

----------------------------------------------------------------------------
(* Steps that open or accept a channel *)

LEMMA OpenIsSent ==
  ASSUME StreamInv, TypeOK', Follows, NEW c \in Channels, SendOpen(c), MaySend(Source)
  PROVE  StreamInv'
<1> DEFINE m == Message("Open", c)
<1>1. Source \in Agents /\ m \in Envelope /\ m.kind = "Open" /\ m.chan = c
  BY MessageTypes DEF Agents, Kinds, Message
<1>2. /\ handler[Source][c] = "registered" /\ outbound' = Queued(Source, m)
      /\ Stage(Source, c, "opening") /\ UNCHANGED inbox /\ UNCHANGED inbound
      /\ UNCHANGED halves /\ UNCHANGED hub
  BY DEF SendOpen
<1> HIDE DEF m
<1>3. TypeOK
  BY DEF StreamInv
<1>4. OutMild(Source, {"Open"}) /\ InMild(Source, {}) /\ BoxMild(Source, {})
  BY <1>1, <1>2, <1>3, OutMildFacts, InMildFacts, BoxMildFacts
<1>5. QuietStages /\ QuietHub /\ QuietHalves /\ \A d \in Channels : OrderKept(d)
  BY <1>1, <1>2, <1>3, QuietFacts, OrderFacts DEF Stages
<1>6. KindsFit'
  BY <1>1, <1>3, <1>4, KindsMild DEF StreamInv, OutMild, InMild, BoxMild, Sent, Kinds
<1>7. OpenedOnce'
  <2> SUFFICES ASSUME NEW d \in Channels PROVE Opens(d)'
    BY DEF OpenedOnce
  <2>1. Opens(d)
    BY DEF StreamInv, OpenedOnce
  <2>2. outbound'[Source] = Append(outbound[Source], m) /\ outbound[Source] \in Seq(Envelope)
    BY <1>1, <1>2, <1>3, QueuedFacts, QueuesAre
  <2>3. CASE d # c
    <3>1. ~Is(m, "Open", d)
      BY <1>1, <2>3 DEF Is
    <3>2. Fewer(outbound[Source], outbound'[Source], "Open", d)
      BY <1>1, <2>2, <3>1, HoldsInAppended, OnceInAppended DEF Fewer
    <3>3. Fewer(inbound[Target], inbound'[Target], "Incoming", d)
      BY <1>2 DEF Fewer
    <3>4. handler[Target][d] = "idle" => handler'[Target][d] = "idle"
      BY <1>1, <1>2, <1>3, <2>3, StageFacts DEF Stages, Agents
    <3> QED  BY <1>2, <2>1, <3>2, <3>3, <3>4, OpeningKept
  <2>4. CASE d = c
    <3>1. ~Holds(outbound[Source], "Open", c) /\ hub[c] = "none"
      BY <1>2, <2>1, <2>4 DEF Opens
    <3>2. AtMostOne(outbound'[Source], "Open", c)
      BY <1>1, <2>1, <2>2, <2>4, <3>1, OnceInAppended DEF Opens
    <3>3. handler'[Source][c] = "opening" /\ handler'[Target][c] = handler[Target][c]
      BY <1>1, <1>2, <1>3, StageFacts, AgentsAssumption DEF Stages, Agents
    <3>4. hub' = hub /\ inbound' = inbound
      BY <1>2
    <3> QED  BY <2>1, <2>4, <3>1, <3>2, <3>3, <3>4 DEF Opens
  <2> QED  BY <2>3, <2>4
<1>8. AcceptedOnce'
  BY <1>1, <1>3, <1>4, <1>5, AcceptingsMild DEF StreamInv, OutMild, InMild, BoxMild
<1>9. StreamsFlow'
  BY <1>1, <1>2, <1>3, <1>4, FlowsMild DEF StreamInv, halves, Cargo
<1>10. BridgesStartFresh' /\ StreamIntact'
  BY <1>5, FreshKept, IntactQuiet DEF StreamInv, QuietHalves
<1> QED  BY <1>6, <1>7, <1>8, <1>9, <1>10 DEF StreamInv

LEMMA SourceStarts ==
  ASSUME StreamInv, TypeOK', Follows, NEW c \in Channels, Answered(c),
         Head(inbox[Source][c]).kind = "Accepted"
  PROVE  StreamInv'
<1> DEFINE m == Head(inbox[Source][c])
<1>1. Source \in Agents /\ Target \in Agents /\ Source # Target /\ TypeOK
  BY AgentsAssumption DEF Agents, StreamInv
<1>2. /\ handler[Source][c] = "opening" /\ inbox[Source][c] # <<>>
      /\ StartBridge(Source, c) /\ inbox' = [inbox EXCEPT ![Source][c] = Tail(@)]
      /\ UNCHANGED outbound /\ UNCHANGED inbound /\ UNCHANGED hub
  BY DEF Answered, Terminal
<1>3. OutMild(Source, {}) /\ InMild(Source, {}) /\ BoxMild(Source, {})
  BY <1>1, <1>2, OutMildFacts, InMildFacts, BoxMildFacts
<1>4. \A d \in Channels : OrderKept(d)
  BY <1>1, <1>2, OrderFacts
<1>5. KindsFit'
  BY <1>1, <1>3, KindsMild DEF StreamInv, OutMild, InMild, BoxMild
<1>6. /\ handler'[Source][c] = "bridge" /\ reads'[Source][c] = "run" /\ writes'[Source][c] = "run"
      /\ UNCHANGED <<taken, written>>
      /\ \A b \in Agents, d \in Channels : b # Source \/ d # c =>
            handler'[b][d] = handler[b][d] /\ writes'[b][d] = writes[b][d]
  BY <1>1, <1>2, StartBridgeFacts
<1>7. OpenedOnce'
  <2> SUFFICES ASSUME NEW d \in Channels PROVE Opens(d)'
    BY DEF OpenedOnce
  <2>1. Opens(d) /\ handler[Target][d] = "idle" => handler'[Target][d] = "idle"
    BY <1>1, <1>6
  <2>2. Opens(d) /\ Fewer(outbound[Source], outbound'[Source], "Open", d)
        /\ Fewer(inbound[Target], inbound'[Target], "Incoming", d)
    BY <1>2 DEF StreamInv, OpenedOnce, Fewer
  <2> QED  BY <1>2, <2>1, <2>2, OpeningKept
<1>8. AcceptedOnce'
  <2> SUFFICES ASSUME NEW d \in Channels PROVE Accepting(d)'
    BY DEF AcceptedOnce
  <2>1. Accepting(d)
    BY DEF StreamInv, AcceptedOnce
  <2>2. CASE d # c
    <3>1. \A k : /\ Fewer(outbound[Target], outbound'[Target], k, d)
                 /\ Fewer(outbound[Source], outbound'[Source], k, d)
                 /\ Fewer(inbound[Target], inbound'[Target], k, d)
                 /\ Fewer(inbound[Source], inbound'[Source], k, d)
      BY <1>2 DEF Fewer
    <3>2. Fewer(inbox[Source][d], inbox'[Source][d], "Accepted", d)
      BY <1>1, <1>3, BoxIsFewer DEF BoxMild
    <3>3. \A e \in Agents : handler'[e][d] = "bridge" => handler[e][d] = "bridge"
      BY <1>6, <2>2
    <3> QED  BY <1>2, <1>4, <2>1, <3>1, <3>2, <3>3, AcceptingKept DEF OrderKept
  <2>3. CASE d = c
    <3>1. inbox'[Source][c] = Tail(inbox[Source][c]) /\ inbox[Source][c] \in Seq(Envelope)
          /\ m \in Envelope
      BY <1>1, <1>2, TakenFromBox
    <3>2. OnlyOf(inbox[Source][c], c)
      BY DEF StreamInv, KindsFit
    <3>3. Is(m, "Accepted", c)
      BY <1>2, <3>1, <3>2, OnlyOfIsKept DEF Is
    <3>4. Holds(inbox[Source][c], "Accepted", c)
      BY <1>2, <3>1, <3>3, HoldsInTail
    <3>5. hub[c] \in {"accepted", "over"} /\ ~Holds(inbound[Source], "Accepted", c)
          /\ AtMostOne(inbox[Source][c], "Accepted", c)
      BY <2>1, <2>3, <3>4 DEF Accepting
    <3>6. ~Holds(inbox'[Source][c], "Accepted", c) /\ AtMostOne(inbox'[Source][c], "Accepted", c)
      BY <1>2, <3>1, <3>3, <3>5, OnceInTail
    <3>7. handler'[Target][c] = handler[Target][c] /\ hub' = hub /\ outbound' = outbound
          /\ inbound' = inbound
      BY <1>1, <1>2, <1>6
    <3>8. Sends(Target)' => Sends(Target)
      BY <1>1 DEF Follows, TasksFollow
    <3> QED  BY <1>6, <2>1, <2>3, <3>5, <3>6, <3>7, <3>8 DEF Accepting
  <2> QED  BY <2>2, <2>3
<1>9. StreamsFlow'
  BY <1>1, <1>3, <1>6, FlowsMild DEF StreamInv
<1>10. StreamIntact'
  <2>1. \A b \in Agents, d \in Channels : writes'[b][d] \in {writes[b][d], "run"}
    BY <1>6
  <2> QED  BY <1>6, <2>1, IntactKept DEF StreamInv, StreamIntact
<1> QED  BY <1>5, <1>7, <1>8, <1>9, <1>10, FreshKept DEF StreamInv

LEMMA TargetStarts ==
  ASSUME StreamInv, TypeOK', Follows, NEW c \in Channels, Connected(c), MaySend(Target)
  PROVE  StreamInv'
<1> DEFINE m == Message("Accepted", c)
<1>1. Source \in Agents /\ Target \in Agents /\ Source # Target /\ TypeOK
  BY AgentsAssumption DEF Agents, StreamInv
<1>2. m \in Envelope /\ m.kind = "Accepted" /\ m.chan = c
  BY MessageTypes DEF Kinds, Message
<1>3. /\ handler[Target][c] = "connecting" /\ outbound' = Queued(Target, m)
      /\ StartBridge(Target, c) /\ UNCHANGED inbox /\ UNCHANGED inbound /\ UNCHANGED hub
  BY DEF Connected
<1> HIDE DEF m
<1>4. OutMild(Target, {"Accepted"}) /\ InMild(Target, {}) /\ BoxMild(Target, {})
  BY <1>1, <1>2, <1>3, OutMildFacts, InMildFacts, BoxMildFacts
<1>5. \A d \in Channels : OrderKept(d)
  BY <1>1, <1>2, <1>3, OrderFacts
<1>6. KindsFit'
  BY <1>1, <1>4, KindsMild DEF StreamInv, OutMild, InMild, BoxMild, Sent, Kinds
<1>7. /\ handler'[Target][c] = "bridge" /\ UNCHANGED <<taken, written>>
      /\ writes'[Target][c] = "run"
      /\ \A b \in Agents, d \in Channels : b # Target \/ d # c =>
            handler'[b][d] = handler[b][d] /\ writes'[b][d] = writes[b][d]
  BY <1>1, <1>3, StartBridgeFacts
<1>8. OpenedOnce'
  <2> SUFFICES ASSUME NEW d \in Channels PROVE Opens(d)'
    BY DEF OpenedOnce
  <2>1. handler[Target][d] = "idle" => handler'[Target][d] = "idle"
    BY <1>1, <1>3, <1>7
  <2>2. Opens(d)
    BY DEF StreamInv, OpenedOnce
  <2>3. Fewer(outbound[Source], outbound'[Source], "Open", d)
        /\ Fewer(inbound[Target], inbound'[Target], "Incoming", d)
    BY <1>1, <1>4, OutIsFewer, InIsFewer DEF OutMild, InMild
  <2> QED  BY <1>3, <2>1, <2>2, <2>3, OpeningKept
<1>9. AcceptedOnce'
  <2> SUFFICES ASSUME NEW d \in Channels PROVE Accepting(d)'
    BY DEF AcceptedOnce
  <2>1. Accepting(d)
    BY DEF StreamInv, AcceptedOnce
  <2>2. outbound'[Target] = Append(outbound[Target], m) /\ outbound[Target] \in Seq(Envelope)
        /\ outbound'[Source] = outbound[Source] /\ inbound' = inbound /\ inbox' = inbox /\ hub' = hub
    BY <1>1, <1>2, <1>3, QueuesAre, QueuedFacts
  <2>3. ~Is(m, "Data", d) /\ (d # c => ~Is(m, "Accepted", d))
    BY <1>2 DEF Is
  <2>4. Fewer(outbound[Target], outbound'[Target], "Data", d)
        /\ (d # c => Fewer(outbound[Target], outbound'[Target], "Accepted", d))
    BY <1>2, <2>2, <2>3, HoldsInAppended, OnceInAppended DEF Fewer
  <2>5. \A q, k : Fewer(q, q, k, d)
    BY DEF Fewer
  <2>6. CASE d # c
    <3>1. \A e \in Agents : handler'[e][d] = "bridge" => handler[e][d] = "bridge"
      BY <1>7, <2>6
    <3> QED  BY <1>5, <2>1, <2>2, <2>4, <2>5, <2>6, <3>1, AcceptingKept DEF OrderKept
  <2>7. CASE d = c
    <3>1. handler'[Target][c] = "bridge" /\ handler'[Source][c] = handler[Source][c]
      BY <1>1, <1>7
    <3>2. Sends(Target)' => Sends(Target)
      BY <1>1 DEF Follows, TasksFollow
    <3>3. Holds(outbound'[Target], "Accepted", c)
      BY <1>2, <2>2, HoldsInAppended DEF Is
    <3>4. Sends(Target)' /\ hub'[c] = "offered" => DataAfterAccepted(outbound'[Target], c)
      BY <1>5, <2>1, <2>2, <2>7, <3>2 DEF OrderKept, Accepting
    <3> QED  BY <2>1, <2>2, <2>7, <3>1, <3>3, <3>4 DEF Accepting
  <2> QED  BY <2>6, <2>7
<1>10. StreamsFlow'
  BY <1>1, <1>4, <1>7, FlowsMild DEF StreamInv, Cargo
<1>11. StreamIntact'
  <2>1. \A b \in Agents, d \in Channels : writes'[b][d] \in {writes[b][d], "run"}
    BY <1>7
  <2> QED  BY <1>7, <2>1, IntactKept DEF StreamInv, StreamIntact
<1> QED  BY <1>6, <1>8, <1>9, <1>10, <1>11, FreshKept DEF StreamInv

----------------------------------------------------------------------------
(* The two halves of a bridge *)

\* A reader half queues cargo: a chunk, or the end of the stream.
LEMMA CargoIsQueued ==
  ASSUME StreamInv, TypeOK', Follows, NEW a \in Agents, NEW c \in Channels,
         handler[a][c] = "bridge", NEW m \in Envelope, m.chan = c, m.kind \in Cargo,
         outbound' = Queued(a, m),
         UNCHANGED <<inbound, inbox, handler, hub, writes, written>>
  PROVE  KindsFit' /\ BridgesStartFresh' /\ OpenedOnce' /\ AcceptedOnce' /\ StreamIntact'
<1>1. Source \in Agents /\ Target \in Agents /\ Source # Target /\ TypeOK
  BY AgentsAssumption DEF Agents, StreamInv
<1>2. OutMild(a, {m.kind}) /\ InMild(a, {}) /\ BoxMild(a, {})
  BY <1>1, OutMildFacts, InMildFacts, BoxMildFacts
<1>3. QuietStages /\ QuietHub
  BY <1>1, QuietFacts
<1>4. KindsFit'
  <2>1. {m.kind} \subseteq Sent(a)
    BY DEF Cargo, Sent, Kinds
  <2> QED  BY <1>1, <1>2, <2>1, KindsMild DEF StreamInv, OutMild, InMild, BoxMild
<1>5. OpenedOnce'
  BY <1>1, <1>2, <1>3, OpeningsMild DEF StreamInv, OutMild, InMild, Cargo
<1>6. AcceptedOnce'
  <2>1. CASE m.kind = "Eof"
    <3>1. \A d \in Channels : OrderKept(d)
      BY <1>1, <2>1, OrderFacts
    <3> QED
      BY <1>1, <1>2, <1>3, <2>1, <3>1, AcceptingsMild DEF StreamInv, OutMild, InMild, BoxMild
  <2>2. CASE m.kind = "Data"
    <3> SUFFICES ASSUME NEW d \in Channels PROVE Accepting(d)'
      BY DEF AcceptedOnce
    <3>1. Accepting(d)
      BY DEF StreamInv, AcceptedOnce
    <3>2. outbound[a] \in Seq(Envelope)
          /\ (outbound'[a] = Append(outbound[a], m) \/ outbound'[a] = outbound[a])
          /\ \A b \in Agents : b # a => outbound'[b] = outbound[b]
      BY <1>1, QueuesAre, QueuedFacts
    <3>3. ~Is(m, "Accepted", d) /\ (d # c => ~Is(m, "Data", d))
      BY <2>2 DEF Is
    <3>4. \A q, k : Fewer(q, q, k, d)
      BY DEF Fewer
    <3>5. \A b \in Agents :
             /\ Fewer(outbound[b], outbound'[b], "Accepted", d)
             /\ b # a \/ d # c => Fewer(outbound[b], outbound'[b], "Data", d)
      <4>1. \A k : ~Is(m, k, d) => Fewer(outbound[a], Append(outbound[a], m), k, d)
        BY <3>2, HoldsInAppended, OnceInAppended DEF Fewer
      <4> QED  BY <3>2, <3>3, <3>4, <4>1
    <3>6. Sends(Target)' => Sends(Target)
      BY <1>1 DEF Follows, TasksFollow
    <3>7. Holds(outbound[Target], "Accepted", d) => Holds(outbound'[Target], "Accepted", d)
      BY <1>1, <3>2, HoldsInAppended
    <3>8. Sends(Target) /\ hub[d] = "offered" => DataAfterAccepted(outbound'[Target], d)
      <4> SUFFICES ASSUME Sends(Target), hub[d] = "offered", outbound'[Target] # outbound[Target]
                   PROVE  DataAfterAccepted(outbound'[Target], d)
        BY <3>1 DEF Accepting
      <4>1. a = Target /\ outbound'[Target] = Append(outbound[Target], m)
        BY <1>1, <3>2
      <4>2. DataAfterAccepted(outbound[Target], d)
            /\ (handler[Target][d] = "bridge" => Holds(outbound[Target], "Accepted", d))
        BY <3>1 DEF Accepting
      <4>3. CASE d = c
        <5>1. Holds(outbound[Target], "Accepted", d)
          BY <4>1, <4>2, <4>3
        <5> QED  BY <3>2, <4>1, <4>2, <5>1, AppendedKeepsOrder
      <4>4. CASE d # c
        BY <3>2, <3>3, <4>1, <4>2, <4>4, AppendedKeepsOrder
      <4> QED  BY <4>3, <4>4
    <3>9. (d = c => handler[a][d] = "bridge") /\ handler' = handler /\ hub' = hub
          /\ inbound' = inbound /\ inbox' = inbox
      OBVIOUS
    <3>10. /\ hub'[d] = "accepted" \/ Holds(outbound'[Target], "Accepted", d)
              \/ Holds(outbound'[Target], "Data", d) \/ Holds(inbound'[Target], "Data", d) =>
                 handler'[Target][d] \in {"bridge", "over"}
           /\ handler'[Source][d] = "bridge" \/ Holds(outbound'[Source], "Data", d)
              \/ Holds(inbound'[Source], "Accepted", d) \/ Holds(inbox'[Source][d], "Accepted", d)
              \/ Holds(inbound'[Source], "Data", d) =>
                 hub'[d] \in {"accepted", "over"}
      BY <1>1, <3>1, <3>5, <3>9 DEF Accepting, Fewer
    <3> QED  BY <3>1, <3>6, <3>7, <3>8, <3>9, <3>10 DEF Accepting
  <2> QED  BY <2>1, <2>2 DEF Cargo
<1>7. BridgesStartFresh' /\ StreamIntact'
  BY FreshKept, IntactQuiet DEF StreamInv
<1> QED  BY <1>4, <1>5, <1>6, <1>7

\* It concerns the stream to the peer over that channel only.
LEMMA OtherStreams ==
  ASSUME StreamInv, TypeOK', Follows, NEW a \in Agents, NEW c \in Channels,
         NEW m \in Envelope, m.chan = c, outbound' = Queued(a, m),
         UNCHANGED <<inbound, inbox, written>>,
         NEW b \in Agents, NEW d \in Channels, b # Peer(a) \/ d # c,
         taken'[Peer(b)][d] = taken[Peer(b)][d]
  PROVE  StreamFlows(b, d)'
<1>1. TypeOK /\ StreamFlows(b, d) /\ Peer(b) \in Agents
  BY PeerFacts DEF StreamInv, StreamsFlow
<1>2. Peer(b) = a => d # c
  BY PeerFacts
<1>3. outbound[Peer(b)] \in Seq(Envelope) /\ \A q : Like(q, q, d)
  BY <1>1 DEF TypeOK, Like
<1>4. Like(outbound[Peer(b)], outbound'[Peer(b)], d)
  <2>1. CASE Peer(b) # a
    BY <1>1, <1>3, <2>1, QueuedFacts
  <2>2. CASE Peer(b) = a
    BY <1>1, <1>2, <1>3, <2>2, LikeAppended, QueuedFacts
  <2> QED  BY <2>1, <2>2
<1> QED  BY <1>1, <1>3, <1>4, FlowsKept

\* What passes is queued: the writer still sends.
LEMMA PassingIsQueued ==
  ASSUME TypeOK, NEW a \in Agents, NEW c, NEW m \in Envelope, outbound' = Queued(a, m),
         Passes(Peer(a), c)
  PROVE  outbound'[a] = Append(outbound[a], m)
<1>1. MaySend(a)
  BY PeerFacts DEF Passes, Sends, MaySend
<1> QED  BY <1>1, QueuedFacts

LEMMA ChunkIsRead ==
  ASSUME StreamInv, TypeOK', Follows, NEW a \in Agents, NEW c \in Channels, ReadChunk(a, c)
  PROVE  StreamInv'
<1> DEFINE n == taken[a][c]  m == Chunk(c, n + 1)  b == Peer(a)
<1>1. TypeOK /\ n \in Nat /\ b \in Agents /\ Peer(b) = a
  BY PeerFacts, CountTypes DEF StreamInv
<1>2. m \in Envelope /\ m.chan = c /\ m.kind = "Data" /\ m.n = n + 1 /\ Is(m, "Data", c)
  BY <1>1, MessageTypes DEF Chunk, Is
<1>3. /\ handler[a][c] = "bridge" /\ reads[a][c] = "run"
      /\ outbound' = Queued(a, m) /\ taken' = [taken EXCEPT ![a][c] = n + 1]
      /\ (reads' = reads \/ reads' = [reads EXCEPT ![a][c] = "failed"])
      /\ UNCHANGED <<inbound, inbox, handler, hub, writes, written>>
  BY DEF ReadChunk, Reading, ReadEnds
<1> HIDE DEF n, m, b
<1>4. KindsFit' /\ BridgesStartFresh' /\ OpenedOnce' /\ AcceptedOnce' /\ StreamIntact'
  BY <1>2, <1>3, CargoIsQueued DEF Cargo
<1>5. StreamsFlow'
  <2> SUFFICES ASSUME NEW e \in Agents, NEW d \in Channels PROVE StreamFlows(e, d)'
    BY DEF StreamsFlow
  <2>1. CASE e # b \/ d # c
    <3>1. Peer(e) \in Agents /\ (Peer(e) # a \/ d # c)
      BY <1>1, <2>1, PeerFacts DEF b
    <3>2. taken'[Peer(e)][d] = taken[Peer(e)][d]
      BY <1>1, <1>3, <3>1, TypeParts DEF ReadTypes
    <3> QED  BY <1>2, <1>3, <2>1, <3>2, OtherStreams DEF b
  <2>2. CASE e = b /\ d = c
    <3> SUFFICES ASSUME Takes(b, c)' PROVE StreamFlows(b, c)'
      BY <2>2 DEF StreamFlows
    <3> DEFINE hears == Hears(b, c)'  passes == Passes(b, c)'
               hears0 == Hears(b, c)  passes0 == Passes(b, c)  got == written[b][c]
               ended == reads[a][c] = "eof"  ended2 == reads'[a][c] = "eof"
    <3>1. /\ hears \in BOOLEAN /\ passes \in BOOLEAN /\ hears0 \in BOOLEAN
          /\ passes0 \in BOOLEAN /\ (hears => hears0) /\ (passes => passes0)
      BY <1>1, LessAndLess DEF Hears, Passes, Sends
    <3>2. got \in Nat /\ outbound[a] \in Seq(Envelope) /\ taken[a][c] = n
      BY <1>1, QueuesAre, CountTypes DEF n
    <3>3. passes => outbound'[a] = Append(outbound[a], m)
      BY <1>1, <1>2, <1>3, LessAndLess, PassingIsQueued DEF b
    <3>4. taken'[a][c] = n + 1 /\ ~ended /\ ~ended2
          /\ ended \in BOOLEAN /\ ended2 \in BOOLEAN
      BY <1>1, <1>3, TypeParts DEF ReadTypes
    <3>5. Flow(inbox[b][c], inbound[b], outbound[a], c, got, n, ended, hears0, passes0)
      <4>1. Takes(b, c) /\ StreamFlows(b, c)
        BY <1>1, LessAndLess DEF StreamInv, StreamsFlow
      <4> QED  BY <1>1, <3>2, <3>4, <4>1 DEF StreamFlows
    <3> HIDE DEF hears, passes, hears0, passes0, got, ended, ended2
    <3>6. Flow(inbox[b][c], inbound[b], outbound[a], c, got, n, ended, hears, passes)
      BY <3>1, <3>4, <3>5, FlowLess
    <3>7. Flow(inbox[b][c], inbound[b], outbound'[a], c, got, n + 1, ended2, hears, passes)
      BY <1>1, <1>2, <3>1, <3>2, <3>3, <3>4, <3>6, FlowReads
    <3>8. inbox' = inbox /\ inbound' = inbound /\ written' = written
      BY <1>3
    <3> QED  BY <1>1, <3>4, <3>7, <3>8 DEF StreamFlows, hears, passes, got, ended2
  <2> QED  BY <2>1, <2>2
<1> QED  BY <1>4, <1>5 DEF StreamInv

LEMMA EndIsRead ==
  ASSUME StreamInv, TypeOK', Follows, NEW a \in Agents, NEW c \in Channels, ReadEof(a, c)
  PROVE  StreamInv'
<1> DEFINE m == Message("Eof", c)  b == Peer(a)
<1>1. TypeOK /\ b \in Agents /\ Peer(b) = a
  BY PeerFacts DEF StreamInv
<1>2. m \in Envelope /\ m.chan = c /\ m.kind = "Eof" /\ Is(m, "Eof", c)
  BY MessageTypes DEF Message, Is, Kinds
<1>3. /\ handler[a][c] = "bridge" /\ outbound' = Queued(a, m)
      /\ reads' = [reads EXCEPT ![a][c] = "eof"]
      /\ UNCHANGED <<inbound, inbox, handler, hub, writes, written, taken>>
  BY DEF ReadEof, Reading, ReadEnds
<1> HIDE DEF m, b
<1>4. KindsFit' /\ BridgesStartFresh' /\ OpenedOnce' /\ AcceptedOnce' /\ StreamIntact'
  BY <1>2, <1>3, CargoIsQueued DEF Cargo
<1>5. StreamsFlow'
  <2> SUFFICES ASSUME NEW e \in Agents, NEW d \in Channels PROVE StreamFlows(e, d)'
    BY DEF StreamsFlow
  <2>1. CASE e # b \/ d # c
    BY <1>2, <1>3, <2>1, OtherStreams DEF b
  <2>2. CASE e = b /\ d = c
    <3> SUFFICES ASSUME Takes(b, c)' PROVE StreamFlows(b, c)'
      BY <2>2 DEF StreamFlows
    <3> DEFINE hears == Hears(b, c)'  passes == Passes(b, c)'
               hears0 == Hears(b, c)  passes0 == Passes(b, c)
               ended == reads[a][c] = "eof"  got == written[b][c]  all == taken[a][c]
               ended2 == reads'[a][c] = "eof"
    <3>1. /\ hears \in BOOLEAN /\ passes \in BOOLEAN /\ hears0 \in BOOLEAN
          /\ passes0 \in BOOLEAN /\ ended \in BOOLEAN
          /\ (hears => hears0) /\ (passes => passes0)
      BY <1>1, LessAndLess DEF Hears, Passes, Sends
    <3>2. got \in Nat /\ all \in Nat /\ outbound[a] \in Seq(Envelope)
      BY <1>1, QueuesAre, CountTypes
    <3>3. passes => outbound'[a] = Append(outbound[a], m)
      BY <1>1, <1>2, <1>3, LessAndLess, PassingIsQueued DEF b
    <3>4. Flow(inbox[b][c], inbound[b], outbound[a], c, got, all, ended, hears0, passes0)
      BY <1>1, LessAndLess DEF StreamInv, StreamsFlow, StreamFlows
    <3>5. ended2
      BY <1>1, <1>3, TypeParts DEF ReadTypes
    <3> HIDE DEF hears, passes, hears0, passes0, ended, ended2, got, all
    <3>6. PICK x \in 0 .. all, y \in 0 .. all :
            /\ Carries(inbox[b][c], c, got, x)
            /\ Holds(inbox[b][c], "Eof", c) => x = all
            /\ hears => Carries(inbound[b], c, x, y) /\ (Holds(inbound[b], "Eof", c) => y = all)
            /\ hears /\ passes => Carries(outbound[a], c, y, all)
      BY <3>1, <3>4 DEF Flow
    <3>7. Flow(inbox[b][c], inbound[b], outbound'[a], c, got, all, ended2, hears, passes)
      <4>1. ~Is(m, "Data", c) /\ y \in Nat
        BY <1>2, <3>2 DEF Is
      <4>2. hears /\ passes => Carries(outbound'[a], c, y, all)
        BY <1>2, <3>2, <3>3, <3>6, <4>1, CarriesAppended
      <4> QED  BY <3>5, <3>6, <4>2 DEF Flow
    <3>8. inbox' = inbox /\ inbound' = inbound /\ written' = written /\ taken' = taken
      BY <1>3
    <3> QED  BY <1>1, <3>7, <3>8 DEF StreamFlows, hears, passes, ended2, got, all
  <2> QED  BY <2>1, <2>2
<1> QED  BY <1>4, <1>5 DEF StreamInv

\* The message that a writer half takes is a chunk, or ends the half.
LEMMA HeadOfBox ==
  ASSUME StreamInv, NEW a \in Agents, NEW c \in Channels, handler[a][c] = "bridge",
         inbox[a][c] # <<>>
  PROVE  /\ Head(inbox[a][c]) \in Envelope /\ Head(inbox[a][c]).chan = c
         /\ Head(inbox[a][c]).kind \in {"Data"} \union Terminal
<1> DEFINE m == Head(inbox[a][c])
<1>1. inbox[a][c] \in Seq(Envelope) /\ m \in Envelope
  BY QueuesAre, TailIndices DEF StreamInv
<1>2. m.chan = c
  BY <1>1, OnlyOfIsKept DEF StreamInv, KindsFit, Agents
<1>3. CASE a = Target
  <2>1. OnlyKinds(inbox[a][c], {"Data"} \union Terminal)
    BY <1>3 DEF StreamInv, KindsFit
  <2> QED  BY <1>1, <1>2, <2>1, KindsInTail
<1>4. CASE a = Source
  <2>1. OnlyKinds(inbox[a][c], {"Accepted", "Data"} \union Terminal)
    BY <1>4 DEF StreamInv, KindsFit
  <2>2. ~Holds(inbox[a][c], "Accepted", c)
    BY <1>4 DEF StreamInv, AcceptedOnce, Accepting
  <2>3. m.kind # "Accepted"
    BY <1>1, <1>2, <2>2, HoldsInTail DEF Is
  <2> QED  BY <1>1, <1>2, <2>1, <2>3, KindsInTail
<1> QED  BY <1>3, <1>4 DEF Agents

LEMMA NextIsWritten ==
  ASSUME StreamInv, TypeOK', Follows, NEW a \in Agents, NEW c \in Channels, WriteNext(a, c)
  PROVE  StreamInv'
<1> DEFINE m == Head(inbox[a][c])  got == written[a][c]  all == taken[Peer(a)][c]
           ended == reads[Peer(a)][c] = "eof"
<1>1. TypeOK /\ Peer(a) \in Agents /\ got \in Nat /\ all \in Nat
  BY PeerFacts, CountTypes DEF StreamInv
<1>2. /\ handler[a][c] = "bridge" /\ writes[a][c] = "run" /\ inbox[a][c] # <<>>
      /\ inbox' = [inbox EXCEPT ![a][c] = Tail(@)]
      /\ \/ InOrder(a, c, m) /\ written' = [written EXCEPT ![a][c] = got + 1] /\ writes' = writes
         \/ writes' = [writes EXCEPT ![a][c] = Ending(a, c, m)] /\ written' = written
      /\ UNCHANGED outbound /\ UNCHANGED inbound /\ UNCHANGED handler /\ UNCHANGED hub
      /\ UNCHANGED <<reads, taken>>
  BY DEF WriteNext, Writing, WriteEnds
<1>3. m \in Envelope /\ m.chan = c /\ m.kind \in {"Data"} \union Terminal
  BY <1>2, HeadOfBox
<1>4. OutMild(a, {}) /\ InMild(a, {}) /\ BoxStep(a, {})
  BY <1>1, <1>2, OutMildFacts, InMildFacts, BoxMildFacts
<1>5. QuietStages /\ QuietHub /\ \A d \in Channels : OrderKept(d)
  BY <1>1, <1>2, QuietFacts, OrderFacts
<1>6. KindsFit'
  BY <1>1, <1>4, KindsMild DEF StreamInv, OutMild, InMild
<1>7. BridgesStartFresh' /\ OpenedOnce'
  BY <1>1, <1>4, <1>5, FreshKept, OpeningsMild DEF StreamInv, OutMild, InMild, QuietHub
<1>8. AcceptedOnce'
  BY <1>1, <1>4, <1>5, AcceptingsMild DEF StreamInv, OutMild, InMild
<1>9. \A b \in Agents, d \in Channels : b # a \/ d # c =>
         /\ inbox'[b][d] = inbox[b][d]
         /\ written'[b][d] = written[b][d] /\ writes'[b][d] = writes[b][d]
  BY <1>1, <1>2, TakenFromBox, TypeParts DEF WriteTypes
<1>10. /\ inbox'[a][c] = Tail(inbox[a][c]) /\ inbox[a][c] \in Seq(Envelope)
       /\ \/ InOrder(a, c, m) /\ written'[a][c] = got + 1 /\ writes'[a][c] = writes[a][c]
          \/ writes'[a][c] = Ending(a, c, m) /\ written'[a][c] = got
  <2>1. inbox'[a][c] = Tail(inbox[a][c]) /\ inbox[a][c] \in Seq(Envelope)
    BY <1>1, <1>2, TakenFromBox
  <2>2. \A x : written' = [written EXCEPT ![a][c] = x] => written'[a][c] = x
    BY <1>1, TypeParts DEF WriteTypes
  <2>3. \A x : writes' = [writes EXCEPT ![a][c] = x] => writes'[a][c] = x
    BY <1>1, TypeParts DEF WriteTypes
  <2> HIDE DEF m
  <2>4. CASE InOrder(a, c, m) /\ written' = [written EXCEPT ![a][c] = got + 1] /\ writes' = writes
    BY <2>1, <2>2, <2>4
  <2>5. CASE writes' = [writes EXCEPT ![a][c] = Ending(a, c, m)] /\ written' = written
    BY <2>1, <2>3, <2>5
  <2> QED  BY <1>2, <2>4, <2>5 DEF m
<1> HIDE DEF m, got, all, ended
<1> DEFINE hears == Hears(a, c)  passes == Passes(a, c)
           hears2 == Hears(a, c)'  passes2 == Passes(a, c)'
<1>11. /\ hears \in BOOLEAN /\ passes \in BOOLEAN /\ ended \in BOOLEAN
       /\ hears2 \in BOOLEAN /\ passes2 \in BOOLEAN
       /\ (hears2 => hears) /\ (passes2 => passes)
  BY LessAndLess DEF Hears, Passes, Sends, ended
<1>12. Flow(inbox[a][c], inbound[a], outbound[Peer(a)], c, got, all, ended, hears, passes)
  <2>1. Takes(a, c) /\ StreamFlows(a, c)
    BY <1>2 DEF Takes, StreamInv, StreamsFlow
  <2> QED  BY <2>1 DEF StreamFlows, got, all, ended
<1> HIDE DEF hears, passes, hears2, passes2
<1>13. /\ m.kind = "Data" =>
             /\ m.n = got + 1
             /\ Flow(Tail(inbox[a][c]), inbound[a], outbound[Peer(a)], c, got + 1, all, ended,
                     hears, passes)
       /\ m.kind = "Eof" => ended /\ got = all
  BY <1>1, <1>2, <1>3, <1>10, <1>11, <1>12, FlowWrites DEF Is, m
<1>14. /\ InOrder(a, c, m) <=> m.kind = "Data"
       /\ Ending(a, c, m) \in {"eof", "cut", "failed"}
       /\ Ending(a, c, m) = "eof" => ended /\ got = all
  BY <1>3, <1>13 DEF InOrder, Ending, Terminal, got
<1>15. StreamsFlow'
  <2> SUFFICES ASSUME NEW e \in Agents, NEW d \in Channels PROVE StreamFlows(e, d)'
    BY DEF StreamsFlow
  <2>1. \A q : Like(q, q, d)
    BY DEF Like
  <2>2. CASE e # a \/ d # c
    <3>1. StreamFlows(e, d)
      BY DEF StreamInv, StreamsFlow
    <3> QED  BY <1>1, <1>2, <1>9, <2>1, <2>2, <3>1, FlowsKept
  <2>3. CASE e = a /\ d = c /\ writes'[a][c] \in {"eof", "cut", "failed"}
    BY <2>3 DEF StreamFlows, Takes
  <2>4. CASE e = a /\ d = c /\ InOrder(a, c, m) /\ written'[a][c] = got + 1
    <3>1. Flow(Tail(inbox[a][c]), inbound[a], outbound[Peer(a)], c, got + 1, all, ended,
               hears, passes)
      BY <1>13, <1>14, <2>4
    <3>2. Flow(Tail(inbox[a][c]), inbound[a], outbound[Peer(a)], c, got + 1, all, ended,
               hears2, passes2)
      BY <1>11, <3>1, FlowLess
    <3>3. inbound' = inbound /\ outbound' = outbound /\ reads' = reads /\ taken' = taken
      BY <1>2
    <3> QED  BY <1>10, <2>4, <3>2, <3>3 DEF StreamFlows, hears2, passes2, all, ended
  <2> QED  BY <1>10, <1>14, <2>2, <2>3, <2>4
<1>16. StreamIntact'
  <2> SUFFICES ASSUME NEW e \in Agents, NEW d \in Channels
               PROVE  /\ writes'[e][d] # "corrupt"
                      /\ writes'[e][d] = "eof" =>
                            reads'[Peer(e)][d] = "eof" /\ written'[e][d] = taken'[Peer(e)][d]
    BY DEF StreamIntact
  <2>1. CASE e # a \/ d # c
    BY <1>9, <2>1, IntactKept DEF StreamInv
  <2>2. CASE e = a /\ d = c
    BY <1>2, <1>10, <1>14, <2>2 DEF got, all, ended
  <2> QED  BY <2>1, <2>2
<1> QED  BY <1>6, <1>7, <1>8, <1>15, <1>16 DEF StreamInv

----------------------------------------------------------------------------
(* Messages that the hub passes on *)

\* The writer takes the next message, and the handlers notice nothing.
Sending(a) ==
    /\ outbound[a] # <<>> /\ outbound' = [outbound EXCEPT ![a] = Tail(@)]
    /\ UNCHANGED inbox /\ UNCHANGED handler /\ UNCHANGED halves

\* The hub refuses or ends a channel, or drops a message that is no chunk.
LEMMA MildForward ==
  ASSUME TypeOK, NEW a \in Agents, Sending(a),
         NEW m, m = Head(outbound[a]), m.kind # "Data",
         m.kind = "Accepted" => hub[m.chan] # "offered",
         UNCHANGED hub \/ (Alive(m.chan) /\ HubKeeps(m.chan, "over")),
         \/ UNCHANGED inbound
         \/ \E b \in Agents, k \in Notices : inbound' = Post(b, <<Message(k, m.chan)>>)
  PROVE  MildStep
<1>1. m \in Envelope /\ m.chan \in Channels
  BY HeadLeaves DEF Envelope, Sending
<1>2. QuietStages /\ QuietHalves
  BY QuietFacts DEF Sending
<1>3. \A d \in Channels : hub'[d] = hub[d] \/ (hub[d] # "none" /\ hub'[d] = "over")
  BY <1>1, TypeParts DEF HubTypes, HubKeeps, Alive
<1>4. \A d \in Channels : OrderKept(d)
  BY <1>3, HeadKeepsOrder DEF Is, Sending
<1>5. OutMild(a, Answers) /\ BoxMild(a, {"Gone"})
  BY OutMildFacts, BoxMildFacts DEF Sending
<1>6. \E b \in Agents : InMild(b, Notices)
  <2>1. CASE UNCHANGED inbound
    BY <2>1, InMildFacts
  <2>2. ASSUME NEW b \in Agents, NEW k \in Notices, inbound' = Post(b, <<Message(k, m.chan)>>)
        PROVE  InMild(b, Notices)
    <3>1. Message(k, m.chan) \in Envelope /\ Message(k, m.chan).kind = k
      BY <1>1, MessageTypes DEF Notices, Kinds, Message
    <3> QED  BY <2>2, <3>1, InMildFacts
  <2> QED  BY <2>1, <2>2
<1> QED  BY <1>2, <1>3, <1>4, <1>5, <1>6 DEF MildStep, QuietHub

\* The hub offers a channel to the target, or tells the source that it was accepted.
Offers(a, c) ==
    /\ c = Head(outbound[a]).chan /\ Head(outbound[a]).kind = "Open"
    /\ HubKeeps(c, "offered") /\ inbound' = Post(Target, <<Message("Incoming", c)>>)
Confirms(a, c) ==
    /\ c = Head(outbound[a]).chan /\ Head(outbound[a]).kind = "Accepted"
    /\ hub[c] = "offered" /\ HubKeeps(c, "accepted")
    /\ inbound' = Post(Source, <<Message("Accepted", c)>>)

LEMMA OpenIsPassed ==
  ASSUME StreamInv, TypeOK', Follows, NEW a \in Agents, Sending(a),
         NEW c, Offers(a, c)
  PROVE  StreamInv'
<1> DEFINE m == Message("Incoming", c)
<1>1. Source \in Agents /\ Target \in Agents /\ Source # Target /\ TypeOK
  BY AgentsAssumption DEF Agents, StreamInv
<1>2. c \in Channels /\ a = Source /\ hub[c] = "none" /\ Head(outbound[a]).kind # "Data"
  BY <1>1, HeadLeaves, OpenIsNew DEF Envelope, StreamInv, Sending, Offers
<1>3. m \in Envelope /\ m.kind = "Incoming" /\ m.chan = c
  BY <1>2, MessageTypes DEF Kinds, Message
<1>4. inbound' = Post(Target, <<m>>)
  BY DEF Offers
<1> HIDE DEF m
<1>5. OutMild(a, {}) /\ InMild(Target, {"Incoming"}) /\ BoxMild(a, {})
  <2>1. OutMild(a, {})
    BY <1>1, <1>2, OutMildFacts DEF Sending
  <2>2. InMild(Target, {"Incoming"})
    BY <1>1, <1>3, <1>4, InMildFacts
  <2>3. BoxMild(a, {})
    BY <1>1, BoxMildFacts DEF Sending
  <2> QED  BY <2>1, <2>2, <2>3
<1>6. KindsFit'
  BY <1>1, <1>5, KindsMild DEF StreamInv, OutMild, InMild, BoxMild, Told
<1>7. hub'[c] = "offered" /\ \A d \in Channels : d # c => hub'[d] = hub[d]
  BY <1>1, <1>2, TypeParts DEF HubTypes, HubKeeps, Offers
<1>8. /\ outbound'[Source] = Tail(outbound[Source]) /\ outbound[Source] \in Seq(Envelope)
      /\ outbound[Source] # <<>> /\ Is(Head(outbound[Source]), "Open", c)
      /\ outbound'[Target] = outbound[Target]
  BY <1>1, <1>2, HeadLeaves DEF Is, Sending, Offers
<1>9. /\ inbound[Target] \in Seq(Envelope) /\ inbound'[Source] = inbound[Source]
      /\ inbound'[Target] = inbound[Target] \/ inbound'[Target] = Append(inbound[Target], m)
  BY <1>1, <1>3, <1>4, PostedFacts, QueuesAre
<1>10. Opens(c) /\ Accepting(c)
  BY <1>2 DEF StreamInv, OpenedOnce, AcceptedOnce
<1>11. OpenedOnce'
  <2> SUFFICES ASSUME NEW d \in Channels PROVE Opens(d)'
    BY DEF OpenedOnce
  <2>1. CASE d # c
    <3>1. ~Is(m, "Incoming", d)
      BY <1>3, <2>1 DEF Is
    <3>2. Fewer(inbound[Target], inbound'[Target], "Incoming", d)
      BY <1>3, <1>9, <3>1, AppendedIsFewer
    <3>3. Fewer(outbound[Source], outbound'[Source], "Open", d)
      BY <1>1, <1>5, OutIsFewer DEF OutMild
    <3>4. Opens(d) /\ handler' = handler
      BY DEF StreamInv, OpenedOnce, Sending
    <3> QED  BY <1>7, <2>1, <3>2, <3>3, <3>4, OpeningKept
  <2>2. CASE d = c
    <3>1. AtMostOne(outbound'[Source], "Open", c) /\ ~Holds(outbound'[Source], "Open", c)
      BY <1>8, <1>10, OnceInTail DEF Opens
    <3>2. handler[Source][c] \notin {"idle", "registered"}
      BY <1>8, <1>10, HoldsInTail DEF Opens
    <3>3. ~Holds(inbound[Target], "Incoming", c) /\ handler[Target][c] = "idle"
      BY <1>2, <1>10 DEF Opens
    <3>4. AtMostOne(inbound'[Target], "Incoming", c)
      BY <1>3, <1>9, <1>10, <3>3, OnceInAppended DEF Opens
    <3>5. handler' = handler /\ hub'[c] # "none"
      BY <1>7 DEF Sending
    <3> QED  BY <2>2, <3>1, <3>2, <3>3, <3>4, <3>5 DEF Opens
  <2> QED  BY <2>1, <2>2
<1>12. AcceptedOnce'
  <2> SUFFICES ASSUME NEW d \in Channels PROVE Accepting(d)'
    BY DEF AcceptedOnce
  <2>1. CASE d # c
    <3>1. OrderKept(d)
      BY <1>1, <1>2, <1>8, HeadKeepsOrder DEF Is, Sending
    <3>2. \A k \in {"Accepted", "Data"} :
             /\ Fewer(outbound[Target], outbound'[Target], k, d)
             /\ Fewer(outbound[Source], outbound'[Source], k, d)
             /\ Fewer(inbound[Target], inbound'[Target], k, d)
             /\ Fewer(inbound[Source], inbound'[Source], k, d)
      <4> SUFFICES ASSUME NEW k \in {"Accepted", "Data"}
                   PROVE  \A e \in Agents : /\ Fewer(outbound[e], outbound'[e], k, d)
                                            /\ Fewer(inbound[e], inbound'[e], k, d)
        BY <1>1
      <4>1. \A e \in Agents : Fewer(outbound[e], outbound'[e], k, d)
        BY <1>1, <1>5, OutIsFewer DEF OutMild
      <4>2. \A e \in Agents : Fewer(inbound[e], inbound'[e], k, d)
        BY <1>1, <1>5, InIsFewer DEF InMild
      <4> QED  BY <4>1, <4>2
    <3>3. Fewer(inbox[Source][d], inbox'[Source][d], "Accepted", d)
      BY DEF Fewer, Sending
    <3>4. \A e \in Agents : handler'[e][d] = "bridge" => handler[e][d] = "bridge"
      BY DEF Sending
    <3>5. Accepting(d)
      BY DEF StreamInv, AcceptedOnce
    <3> QED  BY <1>7, <2>1, <3>1, <3>2, <3>3, <3>4, <3>5, AcceptingKept DEF OrderKept
  <2>2. CASE d = c
    <3>1. handler[Target][c] = "idle"
      BY <1>2, <1>10 DEF Opens
    <3>2. /\ ~Holds(outbound[Target], "Accepted", c) /\ ~Holds(outbound[Target], "Data", c)
          /\ ~Holds(inbound[Target], "Data", c) /\ handler[Source][c] # "bridge"
          /\ ~Holds(outbound[Source], "Data", c) /\ ~Holds(inbound[Source], "Accepted", c)
          /\ ~Holds(inbox[Source][c], "Accepted", c) /\ ~Holds(inbound[Source], "Data", c)
      BY <1>2, <1>10, <3>1 DEF Accepting
    <3>3. ~Holds(inbound'[Target], "Data", c)
      <4>1. ~Is(m, "Data", c)
        BY <1>3 DEF Is
      <4>2. Fewer(inbound[Target], inbound'[Target], "Data", c)
        BY <1>3, <1>9, <4>1, AppendedIsFewer
      <4> QED  BY <3>2, <4>2 DEF Fewer
    <3>4. ~Holds(outbound'[Source], "Data", c)
      BY <1>8, <3>2, HoldsInTail
    <3>5. DataAfterAccepted(outbound[Target], c)
      BY <3>2 DEF DataAfterAccepted, Holds
    <3>6. handler' = handler /\ inbox' = inbox
      BY DEF Sending
    <3> QED  BY <1>7, <1>8, <1>9, <1>10, <2>2, <3>1, <3>2, <3>3, <3>4, <3>5, <3>6 DEF Accepting
  <2> QED  BY <2>1, <2>2
<1>13. StreamsFlow'
  BY <1>1, <1>5, FlowsMild DEF StreamInv, Sending, halves, Cargo
<1>14. BridgesStartFresh' /\ StreamIntact'
  BY FreshKept, IntactQuiet DEF StreamInv, Sending, halves
<1> QED  BY <1>6, <1>11, <1>12, <1>13, <1>14 DEF StreamInv

\* Only the target accepts.
LEMMA AcceptedIsTheTargets ==
  ASSUME TypeOK, KindsFit, NEW a \in Agents, outbound[a] # <<>>,
         Head(outbound[a]).kind = "Accepted"
  PROVE  a = Target
<1> SUFFICES ASSUME a = Source PROVE FALSE
  BY DEF Agents
<1>1. OnlyKinds(outbound[a], Kinds \ {"Accepted"}) /\ outbound[a] \in Seq(Envelope)
  BY QueuesAre DEF KindsFit
<1> QED  BY <1>1, KindsInTail

LEMMA AcceptedIsPassed ==
  ASSUME StreamInv, TypeOK', Follows, NEW a \in Agents, Sending(a),
         NEW c, Confirms(a, c)
  PROVE  StreamInv'
<1> DEFINE m == Message("Accepted", c)
<1>1. Source \in Agents /\ Target \in Agents /\ Source # Target /\ TypeOK
  BY AgentsAssumption DEF Agents, StreamInv
<1>2. c \in Channels /\ a = Target /\ Head(outbound[a]).kind # "Data"
  BY <1>1, HeadLeaves, AcceptedIsTheTargets DEF Envelope, StreamInv, Sending, Confirms
<1>3. m \in Envelope /\ m.kind = "Accepted" /\ m.chan = c
  BY <1>2, MessageTypes DEF Kinds, Message
<1>4. inbound' = Post(Source, <<m>>)
  BY DEF Confirms
<1> HIDE DEF m
<1>5. OutMild(a, {}) /\ InMild(Source, {"Accepted"}) /\ BoxMild(a, {})
  <2>1. OutMild(a, {})
    BY <1>1, <1>2, OutMildFacts DEF Sending
  <2>2. InMild(Source, {"Accepted"})
    BY <1>1, <1>3, <1>4, InMildFacts
  <2>3. BoxMild(a, {})
    BY <1>1, BoxMildFacts DEF Sending
  <2> QED  BY <2>1, <2>2, <2>3
<1>6. KindsFit'
  BY <1>1, <1>5, KindsMild DEF StreamInv, OutMild, InMild, BoxMild, Told
<1>7. hub[c] = "offered" /\ hub'[c] = "accepted" /\ \A d \in Channels : d # c => hub'[d] = hub[d]
  BY <1>1, <1>2, TypeParts DEF HubTypes, HubKeeps, Confirms
<1>8. /\ outbound'[Source] = outbound[Source] /\ outbound[Target] \in Seq(Envelope)
      /\ outbound[Target] # <<>> /\ Is(Head(outbound[Target]), "Accepted", c)
  BY <1>1, <1>2, HeadLeaves DEF Is, Sending, Confirms
<1>9. /\ inbound[Source] \in Seq(Envelope) /\ inbound'[Target] = inbound[Target]
      /\ inbound'[Source] = inbound[Source] \/ inbound'[Source] = Append(inbound[Source], m)
  BY <1>1, <1>3, <1>4, PostedFacts, QueuesAre
<1>10. OpenedOnce'
  <2>1. \A d \in Channels : hub'[d] = hub[d] \/ hub[d] # "none"
    BY <1>7 DEF Confirms
  <2> QED  BY <1>1, <1>5, <2>1, QuietFacts, OpeningsMild DEF StreamInv, Sending, OutMild, InMild
<1>11. AcceptedOnce'
  <2> SUFFICES ASSUME NEW d \in Channels PROVE Accepting(d)'
    BY DEF AcceptedOnce
  <2>1. Accepting(d) /\ Accepting(c)
    BY <1>2 DEF StreamInv, AcceptedOnce
  <2>2. /\ \A k \in {"Accepted", "Data"} : Fewer(outbound[Target], outbound'[Target], k, d)
        /\ Fewer(outbound[Source], outbound'[Source], "Data", d)
        /\ Fewer(inbound[Target], inbound'[Target], "Data", d)
        /\ Fewer(inbound[Source], inbound'[Source], "Data", d)
    <3>1. \A e \in Agents, k \in {"Accepted", "Data"} : Fewer(outbound[e], outbound'[e], k, d)
      BY <1>1, <1>5, OutIsFewer DEF OutMild
    <3>2. \A e \in Agents : Fewer(inbound[e], inbound'[e], "Data", d)
      BY <1>1, <1>5, InIsFewer DEF InMild
    <3> QED  BY <1>1, <3>1, <3>2
  <2>3. CASE d # c
    <3>1. OrderKept(d)
      BY <1>1, <1>2, <1>8, <2>3, HeadKeepsOrder DEF Is, Sending
    <3>2. ~Is(m, "Accepted", d)
      BY <1>3, <2>3 DEF Is
    <3>3. Fewer(inbound[Source], inbound'[Source], "Accepted", d)
      BY <1>3, <1>9, <3>2, AppendedIsFewer
    <3>4. Fewer(inbox[Source][d], inbox'[Source][d], "Accepted", d)
      BY DEF Fewer, Sending
    <3>5. \A e \in Agents : handler'[e][d] = "bridge" => handler[e][d] = "bridge"
      BY DEF Sending
    <3> QED  BY <1>7, <2>1, <2>2, <2>3, <3>1, <3>3, <3>4, <3>5, AcceptingKept DEF OrderKept
  <2>4. CASE d = c
    <3>1. handler[Target][c] \in {"bridge", "over"}
      BY <1>8, <2>1, HoldsInTail DEF Accepting
    <3>2. /\ handler[Source][c] # "bridge" /\ ~Holds(inbound[Source], "Accepted", c)
          /\ ~Holds(inbox[Source][c], "Accepted", c)
      BY <1>7, <2>1 DEF Accepting
    <3>3. AtMostOne(inbound'[Source], "Accepted", c)
      BY <1>3, <1>9, <2>1, <3>2, OnceInAppended DEF Accepting
    <3>4. handler' = handler /\ inbox' = inbox
      BY DEF Sending
    <3> QED  BY <1>7, <2>1, <2>4, <3>1, <3>2, <3>3, <3>4 DEF Accepting
  <2> QED  BY <2>3, <2>4
<1>12. StreamsFlow'
  BY <1>1, <1>5, FlowsMild DEF StreamInv, Sending, halves, Cargo
<1>13. BridgesStartFresh' /\ StreamIntact'
  BY FreshKept, IntactQuiet DEF StreamInv, Sending, halves
<1> QED  BY <1>6, <1>10, <1>11, <1>12, <1>13 DEF StreamInv

\* The hub passes on a chunk or the end of a stream.
Relays(a, c, m) ==
    /\ m.chan = c /\ c = Head(outbound[a]).chan /\ m.kind = Head(outbound[a]).kind
    /\ inbound' = Post(Peer(a), <<m>>)
    /\ \/ m.kind = "Data" /\ m = Head(outbound[a]) /\ hub[c] = "accepted" /\ UNCHANGED hub
       \/ m.kind = "Eof" /\ Alive(c) /\ HubKeeps(c, "over")

LEMMA RelayFacts ==
  ASSUME TypeOK, NEW a \in Agents, Sending(a), NEW m \in Envelope, NEW c, Relays(a, c, m)
  PROVE  /\ c \in Channels /\ Peer(a) \in Agents /\ m.kind \in Cargo
         /\ outbound'[a] = Tail(outbound[a]) /\ outbound[a] \in Seq(Envelope) /\ outbound[a] # <<>>
         /\ outbound'[Peer(a)] = outbound[Peer(a)]
         /\ inbound'[a] = inbound[a] /\ inbound[Peer(a)] \in Seq(Envelope)
         /\ inbound'[Peer(a)] = inbound[Peer(a)] \/ inbound'[Peer(a)] = Append(inbound[Peer(a)], m)
         /\ ws[Peer(a)] = "up" => inbound'[Peer(a)] = Append(inbound[Peer(a)], m)
         /\ \A d \in Channels : hub'[d] = hub[d] \/ (d = c /\ Alive(c) /\ hub'[d] = "over")
<1>1. m.chan = c /\ inbound' = Post(Peer(a), <<m>>) /\ m.kind \in Cargo
  BY DEF Relays, Cargo
<1>2. c \in Channels /\ Peer(a) \in Agents /\ Peer(a) # a
  BY <1>1, PeerFacts DEF Envelope
<1>3. outbound'[a] = Tail(outbound[a]) /\ outbound[a] \in Seq(Envelope) /\ outbound[a] # <<>>
      /\ outbound'[Peer(a)] = outbound[Peer(a)]
  BY <1>2, HeadLeaves DEF Sending
<1>4. inbound[Peer(a)] \in Seq(Envelope)
  BY <1>2, QueuesAre
<1>5. \A d \in Channels : hub'[d] = hub[d] \/ (d = c /\ Alive(c) /\ hub'[d] = "over")
  BY <1>2, TypeParts DEF HubTypes, HubKeeps, Relays
<1> QED  BY <1>1, <1>2, <1>3, <1>4, <1>5, PostedFacts

LEMMA RelayedFlows ==
  ASSUME StreamInv, TypeOK', Follows, NEW a \in Agents, Sending(a), Sends(a),
         NEW m \in Envelope, NEW c, Relays(a, c, m)
  PROVE  StreamsFlow'
<1> DEFINE b == Peer(a)
<1>1. TypeOK /\ b \in Agents /\ Peer(b) = a
  BY PeerFacts DEF StreamInv
<1>2. /\ c \in Channels /\ m.kind \in Cargo
      /\ outbound'[a] = Tail(outbound[a]) /\ outbound[a] \in Seq(Envelope) /\ outbound[a] # <<>>
      /\ inbound'[a] = inbound[a] /\ inbound[b] \in Seq(Envelope)
      /\ inbound'[b] = inbound[b] \/ inbound'[b] = Append(inbound[b], m)
      /\ ws[b] = "up" => inbound'[b] = Append(inbound[b], m)
      /\ outbound'[b] = outbound[b]
  BY <1>1, RelayFacts
<1>3. UNCHANGED inbox /\ UNCHANGED handler /\ UNCHANGED <<written, taken, reads>>
  BY DEF Sending, halves
<1>4. m.chan = c /\ Head(outbound[a]).chan = c /\ m.kind = Head(outbound[a]).kind
      /\ (m.kind = "Data" => m = Head(outbound[a])) /\ hub[c] # "over"
  BY DEF Relays, Alive
<1> HIDE DEF b
<1> SUFFICES ASSUME NEW e \in Agents, NEW d \in Channels PROVE StreamFlows(e, d)'
  BY DEF StreamsFlow
<1>5. \A q : Like(q, q, d)
  BY DEF Like
<1>6. StreamFlows(e, d) /\ (e = a \/ e = b) /\ Peer(a) = b
  BY PeerFacts DEF b, StreamInv, StreamsFlow
<1>7. CASE d # c
  <2>1. Like(inbound[b], inbound'[b], d)
    BY <1>2, <1>4, <1>5, <1>7, LikeAppended
  <2>2. Like(outbound[a], outbound'[a], d)
    BY <1>2, <1>4, <1>7, LikeTail DEF Is
  <2>3. Like(inbound[e], inbound'[e], d) /\ Like(outbound[Peer(e)], outbound'[Peer(e)], d)
    BY <1>1, <1>2, <1>5, <1>6, <2>1, <2>2
  <2> QED  BY <1>1, <1>3, <1>5, <1>6, <2>3, FlowsKept
<1>8. CASE e = a
  BY <1>1, <1>2, <1>3, <1>5, <1>6, <1>8, FlowsKept
<1>9. CASE e = b /\ d = c /\ ws[b] # "up"
  <2>1. ~Passes(b, c)'
    BY <1>1, <1>9 DEF Passes, Follows, TasksFollow
  <2>2. inbound'[b] = inbound[b]
    BY <1>1, <1>9, PostOneFacts DEF Relays, b
  <2> QED  BY <1>1, <1>3, <1>5, <1>6, <1>9, <2>1, <2>2, FlowsKept
<1>10. CASE e = b /\ d = c /\ ws[b] = "up"
  <2> SUFFICES ASSUME Takes(b, c)' PROVE StreamFlows(b, c)'
    BY <1>10 DEF StreamFlows
  <2> DEFINE hears == Hears(b, c)'  passes == Passes(b, c)'
             hears0 == Hears(b, c)  passes0 == Passes(b, c)
             ended == reads[a][c] = "eof"  got == written[b][c]  all == taken[a][c]
  <2>1. /\ hears \in BOOLEAN /\ passes \in BOOLEAN /\ hears0 \in BOOLEAN
        /\ passes0 \in BOOLEAN /\ ended \in BOOLEAN /\ (hears => hears0)
    BY <1>1, <1>2, LessAndLess DEF Hears, Passes, Sends
  <2>2. got \in Nat /\ all \in Nat
    BY <1>1, <1>2, CountTypes
  <2>3. passes0
    BY <1>1, <1>4, <1>10 DEF Passes
  <2>4. Flow(inbox[b][c], inbound[b], outbound[a], c, got, all, ended, hears0, passes0)
    BY <1>1, <1>6, <1>10, <1>2, LessAndLess DEF StreamFlows
  <2> HIDE DEF hears, passes, hears0, passes0, ended, got, all
  <2>5. Flow(inbox[b][c], inbound[b], outbound[a], c, got, all, ended, hears, passes0)
    BY <2>1, <2>4, FlowLess
  <2> DEFINE way == inbound[b]  queue == outbound[a]  box == inbox[b][c]
  <2>6. way \in Seq(Envelope) /\ queue \in Seq(Envelope) /\ queue # <<>> /\ Head(queue).chan = c
        /\ Head(queue).kind \in Cargo /\ m.chan = c /\ m.kind = Head(queue).kind
        /\ (m.kind = "Data" => m = Head(queue))
    BY <1>2, <1>4
  <2>7. PassingFlow(box, way, queue, c, got, all, ended, hears)
    BY <2>3, <2>5 DEF PassingFlow, Flow
  <2> HIDE DEF way, queue, box
  <2>8. Flow(box, Append(way, m), Tail(queue), c, got, all, ended, hears, passes)
    BY <2>1, <2>2, <2>6, <2>7, FlowForwards
  <2>9. inbox' = inbox /\ written' = written /\ taken' = taken /\ reads' = reads
        /\ inbound'[b] = Append(way, m) /\ outbound'[a] = Tail(queue)
    BY <1>2, <1>3, <1>10 DEF way, queue
  <2> QED  BY <1>1, <2>8, <2>9 DEF StreamFlows, box, hears, passes, ended, got, all
<1> QED  BY <1>6, <1>7, <1>8, <1>9, <1>10

LEMMA RelayedAccepting ==
  ASSUME StreamInv, TypeOK', Follows, NEW a \in Agents, Sending(a),
         NEW m \in Envelope, NEW c, Relays(a, c, m)
  PROVE  AcceptedOnce'
<1>1. Source \in Agents /\ Target \in Agents /\ Source # Target /\ TypeOK
      /\ \A b \in Agents : b = a \/ b = Peer(a)
  BY AgentsAssumption, PeerFacts DEF Agents, StreamInv
<1>2. /\ c \in Channels /\ m.kind \in Cargo /\ m.chan = c
      /\ inbound'[a] = inbound[a] /\ inbound[Peer(a)] \in Seq(Envelope)
      /\ inbound'[Peer(a)] = inbound[Peer(a)] \/ inbound'[Peer(a)] = Append(inbound[Peer(a)], m)
      /\ \A d \in Channels : hub'[d] = hub[d] \/ (d = c /\ Alive(c) /\ hub'[d] = "over")
  BY <1>1, RelayFacts DEF Relays
<1>3. (m.kind = "Data" => hub[c] = "accepted" /\ hub' = hub) /\ Head(outbound[a]).kind \in Cargo
  BY <1>2 DEF Relays
<1>4. UNCHANGED inbox /\ UNCHANGED handler /\ OutStep(a, {})
  BY <1>1, OutMildFacts DEF Sending
<1> SUFFICES ASSUME NEW d \in Channels PROVE Accepting(d)'
  BY DEF AcceptedOnce
<1>5. Accepting(d)
  BY DEF StreamInv, AcceptedOnce
<1>6. OrderKept(d)
  BY <1>1, <1>3, HeadKeepsOrder DEF Sending, Is, Cargo
<1>7. \A e \in Agents, k \in {"Accepted", "Data"} : Fewer(outbound[e], outbound'[e], k, d)
  BY <1>1, <1>4, OutIsFewer
<1>8. \A e \in Agents, k \in {"Accepted", "Data"} :
         Fewer(inbound[e], inbound'[e], k, d) \/ (k = "Data" /\ d = c /\ hub[c] = "accepted")
  <2> SUFFICES ASSUME NEW k \in {"Accepted", "Data"}, k # "Data" \/ d # c \/ hub[c] # "accepted"
               PROVE  Fewer(inbound[Peer(a)], inbound'[Peer(a)], k, d)
    BY <1>1, <1>2 DEF Fewer
  <2>1. ~Is(m, k, d)
    BY <1>2, <1>3 DEF Is, Cargo
  <2> QED  BY <1>2, <2>1, AppendedIsFewer
<1>9. CASE d # c \/ hub[c] # "accepted"
  <2>1. \A e \in Agents : handler'[e][d] = "bridge" => handler[e][d] = "bridge"
    BY <1>4
  <2>2. Fewer(inbox[Source][d], inbox'[Source][d], "Accepted", d)
    BY <1>4 DEF Fewer
  <2>3. hub'[d] = hub[d] \/ hub'[d] = "over"
    BY <1>2
  <2>4. \A e \in Agents, k \in {"Accepted", "Data"} : Fewer(inbound[e], inbound'[e], k, d)
    BY <1>8, <1>9
  <2> QED  BY <1>1, <1>5, <1>6, <1>7, <2>1, <2>2, <2>3, <2>4, AcceptingKept DEF OrderKept
<1>10. CASE d = c /\ hub[c] = "accepted"
  <2>1. hub'[c] \in {"accepted", "over"} /\ handler[Target][c] \in {"bridge", "over"}
    BY <1>2, <1>5, <1>10 DEF Accepting
  <2>2. Fewer(inbound[Source], inbound'[Source], "Accepted", c)
    BY <1>1, <1>8, <1>10
  <2> QED  BY <1>4, <1>5, <1>10, <2>1, <2>2 DEF Accepting, Fewer
<1> QED  BY <1>9, <1>10

LEMMA CargoIsPassed ==
  ASSUME StreamInv, TypeOK', Follows, NEW a \in Agents, Sending(a), Sends(a),
         NEW m \in Envelope, NEW c, Relays(a, c, m)
  PROVE  StreamInv'
<1>1. TypeOK /\ Peer(a) \in Agents /\ inbound' = Post(Peer(a), <<m>>)
  BY PeerFacts DEF StreamInv, Relays
<1>2. m.kind \in Cargo /\ \A d \in Channels : hub'[d] = hub[d] \/ hub[d] # "none"
  BY <1>1, RelayFacts DEF Alive
<1>3. OutStep(a, {})
  BY <1>1, OutMildFacts DEF Sending
<1>4. InStep(Peer(a), Cargo)
  BY <1>1, <1>2, InMildFacts DEF InMild
<1>5. BoxStep(a, {}) /\ QuietStages
  BY <1>1, BoxMildFacts, QuietFacts DEF Sending, BoxMild
<1>6. KindsFit'
  <2>1. Cargo \subseteq Told(Peer(a)) /\ {} \subseteq Sent(a) /\ {} \subseteq Kept(a)
    BY DEF Cargo, Told, Terminal
  <2>2. KindsFit
    BY DEF StreamInv
  <2> QED  BY <1>1, <1>3, <1>4, <1>5, <2>1, <2>2, KindsMild
<1>7. OpenedOnce'
  <2>1. "Incoming" \notin Cargo /\ "Open" \notin {}
    BY DEF Cargo
  <2> QED  BY <1>1, <1>2, <1>3, <1>4, <1>5, <2>1, OpeningsMild DEF StreamInv
<1>8. AcceptedOnce' /\ StreamsFlow'
  BY RelayedAccepting, RelayedFlows
<1>9. BridgesStartFresh' /\ StreamIntact'
  BY FreshKept, IntactQuiet DEF StreamInv, Sending, halves
<1> QED  BY <1>6, <1>7, <1>8, <1>9 DEF StreamInv

\* What the hub drops are chunks of channels that are over: those of a channel not
\* yet accepted are still behind the message that accepts it.
LEMMA DroppedIsOver ==
  ASSUME StreamInv, NEW a \in Agents, outbound[a] # <<>>, Sends(a),
         NEW c, c = Head(outbound[a]).chan, Head(outbound[a]).kind = "Data",
         hub[c] # "accepted"
  PROVE  c \in Channels /\ hub[c] = "over"
<1>1. Source \in Agents /\ Target \in Agents /\ TypeOK /\ (a = Source \/ a = Target)
  BY DEF Agents, StreamInv
<1>2. /\ outbound[a] \in Seq(Envelope) /\ Head(outbound[a]) \in Envelope
      /\ Head(outbound[a]) = outbound[a][1] /\ 1 \in DOMAIN outbound[a]
      /\ DOMAIN outbound[a] \subseteq Nat \ {0}
  BY <1>1, QueuesAre, TailIndices
<1>3. c \in Channels /\ Is(outbound[a][1], "Data", c)
  BY <1>2 DEF Is, Envelope
<1>4. Holds(outbound[a], "Data", c)
  BY <1>2, <1>3 DEF Holds
<1>5. Accepting(c) /\ Opens(c)
  BY <1>3 DEF StreamInv, AcceptedOnce, OpenedOnce
<1>6. CASE a = Source
  BY <1>3, <1>4, <1>5, <1>6 DEF Accepting
<1>7. CASE a = Target
  <2>1. hub[c] # "none"
    BY <1>4, <1>5, <1>7 DEF Accepting, Opens
  <2>2. hub[c] # "offered"
    <3> SUFFICES ASSUME hub[c] = "offered" PROVE FALSE
      OBVIOUS
    <3>1. DataAfterAccepted(outbound[a], c)
      BY <1>5, <1>7 DEF Accepting
    <3>2. PICK j \in DOMAIN outbound[a] : j < 1
      BY <1>2, <1>3, <3>1 DEF DataAfterAccepted
    <3> QED  BY <1>2, <3>2
  <2>3. hub[c] \in {"none", "offered", "accepted", "over"}
    BY <1>1, <1>3, TypeParts DEF HubTypes
  <2> QED  BY <1>3, <2>1, <2>2, <2>3
<1> QED  BY <1>1, <1>6, <1>7

LEMMA ChunkIsDropped ==
  ASSUME StreamInv, TypeOK', Follows, NEW a \in Agents, Sending(a), Sends(a),
         NEW c, c = Head(outbound[a]).chan, Head(outbound[a]).kind = "Data",
         hub[c] # "accepted", UNCHANGED <<hub, inbound>>
  PROVE  StreamInv'
<1>1. TypeOK /\ Peer(a) \in Agents
  BY PeerFacts DEF StreamInv
<1>2. c \in Channels /\ hub[c] = "over"
  BY DroppedIsOver DEF Sending
<1>3. OutStep(a, {}) /\ InStep(a, {}) /\ BoxStep(a, {})
  BY <1>1, OutMildFacts, InMildFacts, BoxMildFacts DEF Sending, InMild, BoxMild
<1>4. QuietStages /\ QuietHub /\ hub' = hub /\ inbound' = inbound
  BY <1>1, QuietFacts DEF Sending
<1>5. KindsFit'
  BY <1>1, <1>3, KindsMild DEF StreamInv
<1>6. OpenedOnce'
  BY <1>1, <1>3, <1>4, OpeningsMild DEF StreamInv
<1>7. AcceptedOnce'
  <2>1. \A d \in Channels : OrderKept(d)
    BY <1>1, HeadKeepsOrder DEF Sending, Is
  <2> QED  BY <1>1, <1>3, <1>4, <2>1, AcceptingsMild DEF StreamInv
<1>8. StreamsFlow'
  <2> SUFFICES ASSUME NEW e \in Agents, NEW d \in Channels PROVE StreamFlows(e, d)'
    BY DEF StreamsFlow
  <2>1. \A q : Like(q, q, d)
    BY DEF Like
  <2>2. StreamFlows(e, d) /\ Peer(e) \in Agents /\ inbox' = inbox
    BY PeerFacts DEF StreamInv, StreamsFlow, Sending
  <2>3. Passes(e, d)' => Like(outbound[Peer(e)], outbound'[Peer(e)], d)
    <3>1. CASE Peer(e) # a
      BY <1>1, <2>1, <2>2, <3>1, HeadLeaves DEF Sending
    <3>2. CASE d = c
      BY <1>2, <1>4, <3>2 DEF Passes
    <3>3. CASE Peer(e) = a /\ d # c
      BY <1>1, <3>3, HeadLeaves, LikeTail DEF Sending, Is
    <3> QED  BY <3>1, <3>2, <3>3
  <2> QED  BY <1>1, <1>4, <2>1, <2>2, <2>3, FlowsKept DEF Sending, halves
<1>9. BridgesStartFresh' /\ StreamIntact'
  BY FreshKept, IntactQuiet DEF StreamInv, Sending, halves
<1> QED  BY <1>5, <1>6, <1>7, <1>8, <1>9 DEF StreamInv

\* Whatever the hub does with the message that the writer sends next.
LEMMA ForwardKeeps ==
  ASSUME StreamInv, TypeOK', Follows, NEW a \in Agents, Sending(a), Sends(a),
         HubForwards(a, Head(outbound[a]))
  PROVE  StreamInv'
<1> DEFINE m == Head(outbound[a])
           c == Head(outbound[a]).chan
<1>1. TypeOK /\ m \in Envelope
  BY HeadLeaves DEF StreamInv, Sending
<1>2. c \in Channels
  BY <1>1 DEF Envelope
<1>3. CASE m.kind = "Open" /\ HubKeeps(c, "offered")
           /\ inbound' = Post(Target, <<Message("Incoming", c)>>)
  BY <1>3, OpenIsPassed DEF Offers
<1>4. CASE m.kind = "Open" /\ UNCHANGED hub /\ inbound' = Post(Source, <<Message("Rejected", c)>>)
  <2>1. Source \in Agents /\ "Rejected" \in Notices
    BY DEF Agents, Notices
  <2> QED  BY <1>1, <1>4, <2>1, MildForward, MildStepKeeps
<1>5. CASE m.kind = "Accepted" /\ hub[c] = "offered" /\ HubKeeps(c, "accepted")
           /\ inbound' = Post(Source, <<Message("Accepted", c)>>)
  BY <1>5, AcceptedIsPassed DEF Confirms
<1>6. CASE m.kind \in {"Rejected", "TimedOut"} /\ hub[c] \in {"offered", "accepted"}
           /\ HubKeeps(c, "over")
           /\ \E b \in Agents : inbound' = Post(b, <<Message(m.kind, c)>>)
  <2>1. m.kind \in Notices /\ Alive(c)
    BY <1>6 DEF Alive, Notices
  <2> QED  BY <1>1, <1>6, <2>1, MildForward, MildStepKeeps
<1>7. CASE m.kind = "Eof" /\ hub[c] \in {"offered", "accepted"} /\ HubKeeps(c, "over")
           /\ inbound' = Post(Peer(a), <<Message("Eof", c)>>)
  <2> DEFINE n == Message("Eof", c)
  <2>1. n \in Envelope /\ n.kind = "Eof" /\ n.chan = c
    BY <1>2, MessageTypes DEF Kinds, Message
  <2>2. Relays(a, c, n)
    BY <1>7, <2>1 DEF Relays, Alive
  <2> HIDE DEF n
  <2> QED  BY <2>1, <2>2, CargoIsPassed
<1>8. CASE m.kind = "Data" /\ hub[c] = "accepted" /\ UNCHANGED hub
           /\ inbound' = Post(Peer(a), <<m>>)
  <2>1. Relays(a, c, m)
    BY <1>8 DEF Relays
  <2> QED  BY <1>1, <2>1, CargoIsPassed
<1>9. CASE (m.kind = "Data" => hub[c] # "accepted") /\ (m.kind = "Accepted" => hub[c] # "offered")
           /\ UNCHANGED <<hub, inbound>>
  <2>1. CASE m.kind = "Data"
    BY <1>9, <2>1, ChunkIsDropped
  <2>2. CASE m.kind # "Data"
    BY <1>1, <1>9, <2>2, MildForward, MildStepKeeps
  <2> QED  BY <2>1, <2>2
<1>10. Source \in Agents /\ Peer(a) \in Agents
  BY PeerFacts DEF Agents
<1> QED  BY <1>1, <1>3, <1>4, <1>5, <1>6, <1>7, <1>8, <1>9, <1>10, ForwardCases

LEMMA WriterSendsKeeps ==
  ASSUME StreamInv, TypeOK', Follows, NEW a \in Agents, WriterSends(a)
  PROVE  StreamInv'
<1>1. TypeOK
  BY DEF StreamInv
<1>2. CASE ~Sends(a)
  BY <1>1, <1>2, MildTaskStep, MildStepKeeps
<1>3. CASE Sends(a)
  <2>1. Sending(a) /\ HubForwards(a, Head(outbound[a]))
    BY <1>3 DEF WriterSends, Sends, Sending
  <2> QED  BY <1>3, <2>1, ForwardKeeps
<1> QED  BY <1>2, <1>3

----------------------------------------------------------------------------
(* Messages that the reader takes *)

Receiving(a) ==
    /\ reader[a] = "running"
    /\ inbound[a] # <<>> /\ inbound' = [inbound EXCEPT ![a] = Tail(@)]
    /\ UNCHANGED outbound /\ UNCHANGED hub /\ UNCHANGED halves

\* A channel is offered to the service loop.
LEMMA IncomingIsReceived ==
  ASSUME StreamInv, TypeOK', Follows, NEW a \in Agents, Receiving(a), NEW c,
         c = Head(inbound[a]).chan, Head(inbound[a]).kind = "Incoming",
         Stage(a, c, "queued"), UNCHANGED inbox
  PROVE  StreamInv'
<1>1. TypeOK /\ Source \in Agents /\ Target \in Agents /\ Source # Target
  BY AgentsAssumption DEF StreamInv, Agents
<1>2. a = Target /\ handler[Target][c] = "idle" /\ hub[c] # "none"
  BY <1>1, IncomingIsNew DEF StreamInv, Receiving
<1>3. /\ inbound'[Target] = Tail(inbound[Target]) /\ inbound[Target] \in Seq(Envelope)
      /\ inbound[Target] # <<>> /\ Is(Head(inbound[Target]), "Incoming", c) /\ c \in Channels
  BY <1>1, <1>2, HeadLeaves DEF Is, Receiving, Envelope
<1>4. OutMild(a, {}) /\ InMild(a, {}) /\ BoxMild(a, {})
  BY <1>1, OutMildFacts, InMildFacts, BoxMildFacts DEF Receiving
<1>5. /\ handler'[Target][c] = "queued"
      /\ \A b \in Agents, d \in Channels : b # Target \/ d # c => handler'[b][d] = handler[b][d]
  BY <1>1, <1>2, <1>3, StageFacts DEF Stages
<1>6. \A e \in Agents, k \in Kinds : \A d :
         Fewer(outbound[e], outbound'[e], k, d) /\ Fewer(inbound[e], inbound'[e], k, d)
  BY <1>1, <1>4, OutIsFewer, InIsFewer DEF OutMild, InMild
<1>7. hub' = hub /\ outbound' = outbound /\ inbox' = inbox
  BY DEF Receiving
<1>8. KindsFit'
  BY <1>1, <1>4, KindsMild DEF StreamInv, OutMild, InMild, BoxMild
<1>9. OpenedOnce'
  <2> SUFFICES ASSUME NEW d \in Channels PROVE Opens(d)'
    BY DEF OpenedOnce
  <2>1. Opens(d)
    BY DEF StreamInv, OpenedOnce
  <2>2. CASE d # c
    BY <1>1, <1>5, <1>6, <1>7, <2>1, <2>2, OpeningKept DEF Kinds
  <2>3. CASE d = c
    <3>1. ~Holds(inbound'[Target], "Incoming", c) /\ AtMostOne(inbound'[Target], "Incoming", c)
      BY <1>3, <2>1, <2>3, OnceInTail DEF Opens
    <3>2. handler'[Source][c] = handler[Source][c]
      BY <1>1, <1>3, <1>5
    <3> QED  BY <1>2, <1>7, <2>1, <2>3, <3>1, <3>2 DEF Opens
  <2> QED  BY <2>2, <2>3
<1>10. AcceptedOnce'
  <2> SUFFICES ASSUME NEW d \in Channels PROVE Accepting(d)'
    BY DEF AcceptedOnce
  <2>1. Accepting(d)
    BY DEF StreamInv, AcceptedOnce
  <2>2. \A e \in Agents : handler'[e][d] = "bridge" => handler[e][d] = "bridge"
    BY <1>5
  <2>3. Fewer(inbox[Source][d], inbox'[Source][d], "Accepted", d)
    BY <1>7 DEF Fewer
  <2> QED  BY <1>1, <1>6, <1>7, <2>1, <2>2, <2>3, AcceptingKept DEF Kinds
<1>11. StreamsFlow'
  BY <1>1, <1>4, FlowsMild DEF StreamInv, Receiving, halves
<1>12. BridgesStartFresh' /\ StreamIntact'
  BY FreshKept, IntactQuiet DEF StreamInv, Receiving, halves
<1> QED  BY <1>8, <1>9, <1>10, <1>11, <1>12 DEF StreamInv

\* Any other message goes to the handler of its channel, if one is registered.
Delivering(a, m) ==
    /\ Receiving(a) /\ m = Head(inbound[a]) /\ m.kind # "Incoming"
    /\ inbox' = Deliver(a, m) /\ UNCHANGED handler
    /\ IF m.kind \in Terminal THEN Unregister(a, m.chan) ELSE UNCHANGED routes

LEMMA DeliverFacts ==
  ASSUME TypeOK, NEW a \in Agents, NEW m, Delivering(a, m)
  PROVE  /\ m \in Envelope /\ m.chan \in Channels
         /\ inbound'[a] = Tail(inbound[a]) /\ inbound[a] \in Seq(Envelope) /\ inbound[a] # <<>>
         /\ \A b \in Agents : b # a => inbound'[b] = inbound[b]
         /\ inbox[a][m.chan] \in Seq(Envelope)
         /\ \A b \in Agents, d \in Channels : b # a \/ d # m.chan => inbox'[b][d] = inbox[b][d]
         /\ m.chan \in routes[a] /\ handler[a][m.chan] # "over" =>
               inbox'[a][m.chan] = Append(inbox[a][m.chan], m)
         /\ m.chan \notin routes[a] => inbox' = inbox
         /\ \/ inbox'[a][m.chan] = inbox[a][m.chan]
            \/ inbox'[a][m.chan] = Append(inbox[a][m.chan], m)
<1>1. m \in Envelope /\ m.chan \in Channels
  BY HeadLeaves DEF Delivering, Receiving, Envelope
<1>2. /\ inbound'[a] = Tail(inbound[a]) /\ inbound[a] \in Seq(Envelope) /\ inbound[a] # <<>>
      /\ \A b \in Agents : b # a => inbound'[b] = inbound[b]
  BY HeadLeaves DEF Delivering, Receiving
<1>3. inbox \in [Agents -> [Channels -> Seq(Envelope)]]
  BY TypeParts DEF BoxTypes
<1> QED  BY <1>1, <1>2, <1>3 DEF Delivering, Deliver

LEMMA DeliverMild ==
  ASSUME TypeOK, NEW a \in Agents, NEW m, Delivering(a, m)
  PROVE  BoxMild(a, {m.kind})
<1> DEFINE c == m.chan
<1>1. /\ m \in Envelope /\ c \in Channels /\ inbox[a][c] \in Seq(Envelope)
      /\ \A b \in Agents, d \in Channels : b # a \/ d # c => inbox'[b][d] = inbox[b][d]
      /\ inbox'[a][c] = inbox[a][c] \/ inbox'[a][c] = Append(inbox[a][c], m)
  BY DeliverFacts
<1> SUFFICES ASSUME NEW d \in Channels
             PROVE  /\ Grown(inbox[a][d], inbox'[a][d], {m.kind})
                    /\ OnlyOf(inbox[a][d], d) => OnlyOf(inbox'[a][d], d)
                    /\ \A b \in Agents : b # a => inbox'[b][d] = inbox[b][d]
  BY DEF BoxMild, BoxStep, Calm, Mild
<1>2. Grown(inbox[a][d], inbox'[a][d], {m.kind})
  BY <1>1 DEF Grown
<1>3. OnlyOf(inbox[a][d], d) => OnlyOf(inbox'[a][d], d)
  BY <1>1, OnlyOfIsKept
<1> QED  BY <1>1, <1>2, <1>3

\* The message that accepts a channel reaches the handler before the bridge starts.
LEMMA DeliveredAccepting ==
  ASSUME StreamInv, TypeOK', Follows, NEW a \in Agents, NEW m, Delivering(a, m)
  PROVE  AcceptedOnce'
<1> DEFINE c == m.chan
<1>1. TypeOK /\ Source \in Agents /\ Target \in Agents /\ Source # Target
  BY AgentsAssumption DEF StreamInv, Agents
<1>2. OutStep(a, {}) /\ InStep(a, {}) /\ BoxStep(a, {m.kind})
  BY <1>1, OutMildFacts, InMildFacts, DeliverMild DEF Delivering, Receiving, OutMild, BoxMild
<1>3. QuietStages /\ QuietHub /\ hub' = hub /\ handler' = handler /\ outbound' = outbound
  BY <1>1, QuietFacts DEF Delivering, Receiving
<1>4. \A d \in Channels : OrderKept(d)
  BY <1>1, OrderFacts DEF Delivering, Receiving
<1>5. CASE m.kind # "Accepted"
  BY <1>1, <1>2, <1>3, <1>4, <1>5, AcceptingsMild DEF StreamInv
<1>6. CASE m.kind = "Accepted"
  <2>1. /\ m \in Envelope /\ c \in Channels /\ inbox[a][c] \in Seq(Envelope)
        /\ inbound'[a] = Tail(inbound[a]) /\ inbound[a] \in Seq(Envelope) /\ inbound[a] # <<>>
        /\ \A b \in Agents, d \in Channels : b # a \/ d # c => inbox'[b][d] = inbox[b][d]
        /\ inbox'[a][c] = inbox[a][c] \/ inbox'[a][c] = Append(inbox[a][c], m)
    BY <1>1, DeliverFacts
  <2>2. m = Head(inbound[a]) /\ Is(m, "Accepted", c)
    BY <1>6 DEF Delivering, Is
  <2>3. a = Source
    <3>1. OnlyKinds(inbound[Target], {"Incoming", "Data"} \union Terminal)
      BY DEF StreamInv, KindsFit
    <3>2. a # Target
      BY <1>6, <2>1, <2>2, <3>1, KindsInTail DEF Terminal
    <3> QED  BY <3>2 DEF Agents
  <2> HIDE DEF c
  <2> SUFFICES ASSUME NEW d \in Channels PROVE Accepting(d)'
    BY DEF AcceptedOnce
  <2>4. Accepting(d)
    BY DEF StreamInv, AcceptedOnce
  <2>5. \A e \in Agents, k \in {"Accepted", "Data"} :
           Fewer(outbound[e], outbound'[e], k, d) /\ Fewer(inbound[e], inbound'[e], k, d)
    BY <1>1, <1>2, OutIsFewer, InIsFewer
  <2>6. CASE d # c
    <3>1. Fewer(inbox[Source][d], inbox'[Source][d], "Accepted", d)
      BY <1>1, <2>1, <2>6 DEF Fewer
    <3>2. \A e \in Agents : handler'[e][d] = "bridge" => handler[e][d] = "bridge"
      BY <1>3
    <3> QED  BY <1>1, <1>3, <1>4, <2>4, <2>5, <3>1, <3>2, AcceptingKept DEF OrderKept
  <2>7. CASE d = c
    <3>1. Holds(inbound[Source], "Accepted", c)
      BY <2>1, <2>2, <2>3, HoldsInTail
    <3>2. /\ hub[c] \in {"accepted", "over"} /\ handler[Source][c] # "bridge"
          /\ ~Holds(inbox[Source][c], "Accepted", c)
      BY <2>4, <2>7, <3>1 DEF Accepting
    <3>3. AtMostOne(inbox'[Source][c], "Accepted", c)
      BY <2>1, <2>3, <2>4, <2>7, <3>2, OnceInAppended DEF Accepting
    <3>4. ~Holds(inbound'[Source], "Accepted", c) /\ AtMostOne(inbound'[Source], "Accepted", c)
      BY <2>1, <2>2, <2>3, <2>4, <2>7, OnceInTail DEF Accepting
    <3>5. /\ Holds(inbound'[Target], "Data", c) => Holds(inbound[Target], "Data", c)
      BY <1>1, <2>5, <2>7 DEF Fewer
    <3> QED  BY <1>3, <2>4, <2>7, <3>2, <3>3, <3>4, <3>5 DEF Accepting
  <2> QED  BY <2>6, <2>7
<1> QED  BY <1>5, <1>6

\* Data arrives at a handler that has registered.
LEMMA DataIsExpected ==
  ASSUME StreamInv, NEW a \in Agents, inbound[a] # <<>>, NEW c,
         Is(Head(inbound[a]), "Data", c)
  PROVE  c \in Channels /\ handler[a][c] \notin {"idle", "queued"}
<1>1. Source \in Agents /\ Target \in Agents /\ TypeOK /\ (a = Source \/ a = Target)
  BY DEF Agents, StreamInv
<1>2. inbound[a] \in Seq(Envelope) /\ Head(inbound[a]) \in Envelope
  BY <1>1, QueuesAre, TailIndices
<1>3. c \in Channels /\ Holds(inbound[a], "Data", c)
  BY <1>2, HoldsInTail DEF Is, Envelope
<1>4. Accepting(c) /\ Opens(c)
  BY <1>3 DEF StreamInv, AcceptedOnce, OpenedOnce
<1>5. handler[Source][c] \in {"idle", "registered", "opening", "bridge", "over"}
  BY <1>3 DEF StreamInv, KindsFit
<1> QED  BY <1>1, <1>3, <1>4, <1>5 DEF Accepting, Opens

LEMMA DeliveredFlows ==
  ASSUME StreamInv, TypeOK', Follows, NEW a \in Agents, NEW m, Delivering(a, m),
         m.kind \in Cargo
  PROVE  StreamsFlow'
<1> DEFINE c == m.chan
<1>1. TypeOK
  BY DEF StreamInv
<1>2. /\ m \in Envelope /\ c \in Channels /\ inbox[a][c] \in Seq(Envelope)
      /\ inbound'[a] = Tail(inbound[a]) /\ inbound[a] \in Seq(Envelope) /\ inbound[a] # <<>>
      /\ \A b \in Agents : b # a => inbound'[b] = inbound[b]
      /\ \A b \in Agents, d \in Channels : b # a \/ d # c => inbox'[b][d] = inbox[b][d]
      /\ c \in routes[a] /\ handler[a][c] # "over" => inbox'[a][c] = Append(inbox[a][c], m)
      /\ c \notin routes[a] => inbox' = inbox
  BY <1>1, DeliverFacts
<1>3. m = Head(inbound[a]) /\ outbound' = outbound /\ handler' = handler
      /\ UNCHANGED <<written, taken, reads, writes>>
  BY DEF Delivering, Receiving, halves
<1>4. Is(m, "Data", c) => handler[a][c] \notin {"idle", "queued"}
  BY <1>2, <1>3, DataIsExpected
<1>5. routes'[a] \subseteq routes[a]
  BY <1>1, TypeParts DEF Delivering, Unregister, RouteTypes
<1>6. ~Is(m, "Data", c) => m.kind = "Eof"
  BY DEF Is, Cargo
<1>7. \A d : d # c => ~Is(m, "Data", d)
  BY DEF Is
<1> HIDE DEF c
<1> SUFFICES ASSUME NEW e \in Agents, NEW d \in Channels PROVE StreamFlows(e, d)'
  BY DEF StreamsFlow
<1>8. \A q : Like(q, q, d)
  BY DEF Like
<1>9. StreamFlows(e, d)
  BY DEF StreamInv, StreamsFlow
<1>10. CASE e # a \/ d # c
  <2>1. Like(inbound[e], inbound'[e], d)
    BY <1>2, <1>3, <1>7, <1>8, <1>10, LikeTail
  <2> QED  BY <1>1, <1>2, <1>3, <1>8, <1>9, <1>10, <2>1, FlowsKept
<1>11. CASE e = a /\ d = c /\ c \notin routes[a]
  <2>1. Hears(a, c)' => Like(inbound[a], inbound'[a], c)
    <3>1. CASE Is(m, "Data", c)
      BY <1>3, <1>4, <1>5, <1>11, <3>1 DEF Hears
    <3>2. CASE ~Is(m, "Data", c)
      BY <1>2, <1>3, <3>2, LikeTail
    <3> QED  BY <3>1, <3>2
  <2> QED  BY <1>1, <1>2, <1>3, <1>8, <1>9, <1>11, <2>1, FlowsKept
<1>12. CASE e = a /\ d = c /\ c \in routes[a]
  <2> SUFFICES ASSUME Takes(a, c)' PROVE StreamFlows(a, c)'
    BY <1>12 DEF StreamFlows
  <2> DEFINE b == Peer(a)
             hears == Hears(a, c)'  passes == Passes(a, c)'
             hears0 == Hears(a, c)  passes0 == Passes(a, c)
             ended == reads[b][c] = "eof"  got == written[a][c]  all == taken[b][c]
  <2>1. /\ hears \in BOOLEAN /\ passes \in BOOLEAN /\ hears0 \in BOOLEAN
        /\ passes0 \in BOOLEAN /\ ended \in BOOLEAN /\ (passes => passes0) /\ b \in Agents
    BY <1>2, PeerFacts, LessAndLess DEF Hears, Passes, Sends
  <2>2. got \in Nat /\ all \in Nat
    BY <1>1, <1>2, <2>1, CountTypes
  <2>3. hears0
    BY <1>12 DEF Hears, Delivering, Receiving
  <2>4. Flow(inbox[a][c], inbound[a], outbound[b], c, got, all, ended, hears0, passes0)
    BY <1>1, <1>2, <1>9, <1>12, LessAndLess DEF StreamFlows
  <2>5. handler[a][c] # "over"
    BY <1>3 DEF Takes
  <2> HIDE DEF hears, passes, hears0, passes0, ended, got, all, b
  <2>6. Flow(inbox[a][c], inbound[a], outbound[b], c, got, all, ended, hears0, passes)
    BY <2>1, <2>4, FlowLess
  <2> DEFINE way == inbound[a]  queue == outbound[b]  box == inbox[a][c]
  <2>7. /\ way \in Seq(Envelope) /\ box \in Seq(Envelope) /\ way # <<>>
        /\ Head(way).chan = c /\ Head(way).kind \in Cargo
    BY <1>2, <1>3 DEF c
  <2>8. HeardFlow(box, way, queue, c, got, all, ended, passes)
    BY <2>3, <2>6 DEF HeardFlow, Flow
  <2> HIDE DEF way, queue, box
  <2>9. Flow(Append(box, Head(way)), Tail(way), queue, c, got, all, ended, hears, passes)
    BY <2>1, <2>2, <2>7, <2>8, FlowDelivers
  <2>10. /\ inbox'[a][c] = Append(box, Head(way)) /\ inbound'[a] = Tail(way)
         /\ outbound' = outbound /\ written' = written /\ taken' = taken /\ reads' = reads
    BY <1>2, <1>3, <1>12, <2>5 DEF way, box
  <2> QED  BY <2>9, <2>10 DEF StreamFlows, queue, hears, passes, ended, got, all, b
<1> QED  BY <1>10, <1>11, <1>12

LEMMA ReceivedKeeps ==
  ASSUME StreamInv, TypeOK', Follows, NEW a \in Agents, NEW m, Delivering(a, m)
  PROVE  StreamInv'
<1>1. TypeOK /\ Source \in Agents /\ Target \in Agents /\ Source # Target
  BY AgentsAssumption DEF StreamInv, Agents
<1>2. /\ OutMild(a, {}) /\ InStep(a, {}) /\ BoxMild(a, {m.kind})
      /\ m.kind \notin Cargo => InMild(a, {})
  <2>1. OutMild(a, {})
    BY <1>1, OutMildFacts DEF Delivering, Receiving
  <2>2. InStep(a, {}) /\ (m.kind # "Data" => InMild(a, {}))
    BY <1>1, InMildFacts DEF Delivering, Receiving
  <2> QED  BY <1>1, <2>1, <2>2, DeliverMild DEF Cargo
<1>3. KindsFit'
  <2>1. inbound[a] # <<>> /\ m = Head(inbound[a]) /\ m.kind # "Incoming"
    BY DEF Delivering, Receiving
  <2>2. /\ OnlyKinds(inbound[Source], {"Accepted", "Data"} \union Terminal)
        /\ OnlyKinds(inbound[Target], {"Incoming", "Data"} \union Terminal)
    BY DEF StreamInv, KindsFit
  <2>3. m.kind \in Kept(a)
    <3>1. CASE a = Source
      BY <1>1, <2>1, <2>2, <3>1, QueuesAre, KindsInTail DEF Kept
    <3>2. CASE a = Target
      BY <1>1, <2>1, <2>2, <3>2, QueuesAre, KindsInTail DEF Kept
    <3> QED  BY <3>1, <3>2 DEF Agents
  <2> QED  BY <1>1, <1>2, <2>3, KindsMild DEF StreamInv, OutMild, BoxMild
<1>4. OpenedOnce'
  BY <1>1, <1>2, QuietFacts, OpeningsMild DEF StreamInv, Delivering, Receiving, OutMild
<1>5. AcceptedOnce'
  BY DeliveredAccepting
<1>6. StreamsFlow'
  <2>1. CASE m.kind \in Cargo
    BY <2>1, DeliveredFlows
  <2>2. CASE m.kind \notin Cargo
    BY <1>1, <1>2, <2>2, FlowsMild DEF StreamInv, Delivering, Receiving, halves
  <2> QED  BY <2>1, <2>2
<1>7. BridgesStartFresh' /\ StreamIntact'
  BY FreshKept, IntactQuiet DEF StreamInv, Delivering, Receiving, halves
<1> QED  BY <1>3, <1>4, <1>5, <1>6, <1>7 DEF StreamInv

LEMMA ReaderReceivesKeeps ==
  ASSUME StreamInv, TypeOK', Follows, NEW a \in Agents, ReaderReceives(a)
  PROVE  StreamInv'
<1> DEFINE m == Head(inbound[a])
<1>1. Receiving(a)
  BY DEF ReaderReceives, Receiving
<1>2. CASE m.kind = "Incoming"
  <2>1. Stage(a, m.chan, "queued") /\ UNCHANGED inbox
    BY <1>2 DEF ReaderReceives
  <2> QED  BY <1>1, <1>2, <2>1, IncomingIsReceived
<1>3. CASE m.kind # "Incoming"
  <2>1. Delivering(a, m)
    BY <1>1, <1>3 DEF ReaderReceives, Delivering
  <2> QED  BY <2>1, ReceivedKeeps
<1> QED  BY <1>2, <1>3

----------------------------------------------------------------------------
(* The theorems *)

LEMMA InitHolds == Init => StreamInv
<1> SUFFICES ASSUME Init PROVE StreamInv
  OBVIOUS
<1>1. TypeOK /\ Source \in Agents /\ Target \in Agents
  BY InitTypes DEF Agents
<1>2. \A a \in Agents : outbound[a] = <<>> /\ inbound[a] = <<>>
         /\ \A c \in Channels :
               /\ inbox[a][c] = <<>> /\ handler[a][c] = "idle" /\ reads[a][c] = "none"
               /\ writes[a][c] = "none" /\ taken[a][c] = 0 /\ written[a][c] = 0
  BY DEF Init
<1>3. \A c \in Channels : hub[c] = "none"
  BY DEF Init
<1>4. \A k, c : ~Holds(<<>>, k, c) /\ AtMostOne(<<>>, k, c)
  BY DEF Holds, AtMostOne
<1>5. KindsFit
  BY <1>1, <1>2 DEF KindsFit, OnlyKinds, OnlyOf
<1>6. BridgesStartFresh /\ StreamIntact
  BY <1>2 DEF BridgesStartFresh, StreamIntact
<1>7. OpenedOnce
  BY <1>1, <1>2, <1>3, <1>4 DEF OpenedOnce, Opens
<1>8. AcceptedOnce
  BY <1>1, <1>2, <1>3, <1>4 DEF AcceptedOnce, Accepting
<1>9. StreamsFlow
  <2> SUFFICES ASSUME NEW a \in Agents, NEW c \in Channels PROVE StreamFlows(a, c)
    BY DEF StreamsFlow
  <2>1. /\ inbox[a][c] = <<>> /\ inbound[a] = <<>> /\ outbound[Peer(a)] = <<>>
        /\ written[a][c] = 0 /\ taken[Peer(a)][c] = 0
    BY <1>2, PeerFacts
  <2>2. Carries(<<>>, c, 0, 0) /\ \A k : ~Holds(<<>>, k, c)
    BY EmptyCarries
  <2> QED  BY <2>1, <2>2 DEF StreamFlows, Flow
<1> QED  BY <1>1, <1>5, <1>6, <1>7, <1>8, <1>9 DEF StreamInv

LEMMA SourceKeeps ==
  ASSUME StreamInv, TypeOK', Follows, NEW c \in Channels, SourceStep(c)
  PROVE  StreamInv'
<1>1. TypeOK
  BY DEF StreamInv
<1>2. CASE SendOpen(c) /\ MaySend(Source)
  BY <1>2, OpenIsSent
<1>3. CASE Answered(c) /\ Head(inbox[Source][c]).kind = "Accepted"
  BY <1>3, SourceStarts
<1>4. CASE (SendOpen(c) => ~MaySend(Source))
           /\ (Answered(c) => Head(inbox[Source][c]).kind # "Accepted")
  <2>1. Answered(c) => Over(Source, c) /\ UNCHANGED halves
    BY <1>4 DEF Answered
  <2> QED  BY <1>1, <1>4, <2>1, MildSourceStep, MildStepKeeps
<1> QED  BY <1>2, <1>3, <1>4

LEMMA TargetKeeps ==
  ASSUME StreamInv, TypeOK', Follows, NEW c \in Channels, TargetStep(c)
  PROVE  StreamInv'
<1>1. TypeOK
  BY DEF StreamInv
<1>2. CASE Connected(c) /\ MaySend(Target)
  BY <1>2, TargetStarts
<1>3. CASE Connected(c) => ~MaySend(Target)
  BY <1>1, <1>3, MildTargetStep, MildStepKeeps
<1> QED  BY <1>2, <1>3

LEMMA BridgeKeeps ==
  ASSUME StreamInv, TypeOK', Follows, NEW a \in Agents, NEW c \in Channels, BridgeStep(a, c)
  PROVE  StreamInv'
<1>1. TypeOK
  BY DEF StreamInv
<1>2. CASE ReadChunk(a, c)
  BY <1>2, ChunkIsRead
<1>3. CASE ReadEof(a, c)
  BY <1>3, EndIsRead
<1>4. CASE WriteNext(a, c)
  BY <1>4, NextIsWritten
<1>5. CASE ReadFails(a, c) \/ BridgeEnds(a, c)
  BY <1>1, <1>5, MildBridgeStep, MildStepKeeps
<1> QED  BY <1>2, <1>3, <1>4, <1>5 DEF BridgeStep

LEMMA TaskKeeps ==
  ASSUME StreamInv, TypeOK', Follows, NEW a \in Agents, TaskStep(a)
  PROVE  StreamInv'
<1>1. TypeOK
  BY DEF StreamInv
<1>2. CASE WriterSends(a)
  BY <1>2, WriterSendsKeeps
<1>3. CASE ReaderReceives(a)
  BY <1>3, ReaderReceivesKeeps
<1>4. CASE WriterFails(a) \/ WriterNotified(a) \/ WriterOver(a) \/ ReaderEnds(a) \/ Keepalive(a)
  BY <1>1, <1>4, MildTaskStep, MildStepKeeps
<1> QED  BY <1>2, <1>3, <1>4 DEF TaskStep

LEMMA IdleKeeps ==
  ASSUME StreamInv, TypeOK', UNCHANGED vars
  PROVE  StreamInv'
<1>1. TypeOK
  BY DEF StreamInv
<1>2. /\ UNCHANGED <<socket, tasks>> /\ UNCHANGED routes /\ UNCHANGED hub
      /\ UNCHANGED halves /\ UNCHANGED handler
      /\ UNCHANGED outbound /\ UNCHANGED inbound /\ UNCHANGED inbox
  BY DEF vars
<1>3. Follows
  BY <1>1, <1>2, RestFollows DEF Follows
<1>4. MildStep
  <2>1. Source \in Agents
    BY DEF Agents
  <2>2. /\ OutMild(Source, Answers) /\ InMild(Source, Notices) /\ BoxMild(Source, {"Gone"})
    BY <1>1, <1>2, <2>1, OutMildFacts, InMildFacts, BoxMildFacts
  <2> QED  BY <1>1, <1>2, <2>1, <2>2, QuietFacts, OrderFacts DEF MildStep
<1> QED  BY <1>3, <1>4, MildStepKeeps

LEMMA InvariantPreserved == StreamInv /\ [Next]_vars => StreamInv'
<1> SUFFICES ASSUME StreamInv, [Next]_vars PROVE StreamInv'
  OBVIOUS
<1>1. TypeOK /\ BridgesStartFresh /\ KindsFit /\ OpenedOnce
  BY DEF StreamInv
<1>2. TypeOK'
  BY <1>1, TypesPreserved
<1>3. ASSUME NEW c \in Channels, SourceStep(c) PROVE StreamInv'
  BY <1>1, <1>2, <1>3, SourceFollows, SourceKeeps
<1>4. ASSUME NEW c \in Channels, TargetStep(c) PROVE StreamInv'
  BY <1>1, <1>2, <1>4, TargetFollows, TargetKeeps
<1>5. ASSUME NEW a \in Agents, NEW c \in Channels, BridgeStep(a, c) PROVE StreamInv'
  BY <1>1, <1>2, <1>5, BridgeFollows, BridgeKeeps
<1>6. ASSUME NEW a \in Agents, TaskStep(a) PROVE StreamInv'
  BY <1>1, <1>2, <1>6, ConnectionFollows, TaskKeeps
<1>7. ASSUME NEW a \in Agents,
             HubDisconnects(a) \/ \E how \in {"broken", "gone"} : SocketFails(a, how)
      PROVE StreamInv'
  BY <1>1, <1>2, <1>7, SocketsFollow, MildSocketStep, MildStepKeeps
<1>8. CASE UNCHANGED vars
  BY <1>2, <1>8, IdleKeeps
<1> QED  BY <1>3, <1>4, <1>5, <1>6, <1>7, <1>8 DEF Next

\* The invariant holds whatever the two agents, the hub and the network do.
THEOREM StreamInvariant == Spec => []StreamInv
BY InitHolds, InvariantPreserved, PTL DEF Spec

\* Every variable stays within its type.
THEOREM RelayTypes == Spec => []TypeOK
BY InitTypes, TypesPreserved, PTL DEF Spec

\* Nothing that an agent decrypts was lost, repeated or reordered on the way through
\* queues, sockets, hub and routes, and an agent that is told of the end of the
\* peer's stream has written all of it, for any number of channels, chunks and lost
\* websockets.
THEOREM StreamsAreIntact == Spec => []StreamIntact
<1>1. StreamInv => StreamIntact
  BY DEF StreamInv
<1> QED  BY <1>1, StreamInvariant, PTL

----------------------------------------------------------------------------
(* Each channel is a reliable stream *)

\* What ReliableStream sees of the end of a channel at an agent does not change.
SameAt(a, c) ==
    /\ taken'[a][c] = taken[a][c] /\ written'[a][c] = written[a][c]
    /\ reads'[a][c] = "eof" <=> reads[a][c] = "eof"
    /\ Outcome(a, c)' = Outcome(a, c)

\* It changes at one end only.
OnlyAt(a, c) == \A b \in Agents, d \in Channels : b # a \/ d # c => SameAt(b, d)

LEMMA ViewOfEnd ==
  ASSUME NEW a \in Agents, NEW c \in Channels
  PROVE  /\ <<a, c>> \in StreamEnds /\ OtherEnd(<<a, c>>) = <<Peer(a), c>>
         /\ <<Peer(a), c>> \in StreamEnds
         /\ SentAt[<<a, c>>] = taken[a][c] /\ ReceivedAt[<<a, c>>] = written[a][c]
         /\ EofAt[<<a, c>>] <=> reads[a][c] = "eof"
         /\ OutcomeAt[<<a, c>>] = Outcome(a, c)
  BY PeerFacts DEF StreamEnds, OtherEnd, SentAt, ReceivedAt, EofAt, OutcomeAt

LEMMA ChangedAt ==
  ASSUME NEW S, NEW f, NEW g, NEW x, NEW v,
         f = [y \in S |-> f[y]], g = [y \in S |-> g[y]],
         \A y \in S : g[y] = IF y = x THEN v ELSE f[y]
  PROVE  g = [f EXCEPT ![x] = v]
  OBVIOUS

LEMMA OneEndMoves ==
  ASSUME NEW a \in Agents, NEW c \in Channels, OnlyAt(a, c)
  PROVE  /\ SentAt' = [SentAt EXCEPT ![<<a, c>>] = taken'[a][c]]
         /\ EofAt' = [EofAt EXCEPT ![<<a, c>>] = (reads'[a][c] = "eof")]
         /\ ReceivedAt' = [ReceivedAt EXCEPT ![<<a, c>>] = written'[a][c]]
         /\ OutcomeAt' = [OutcomeAt EXCEPT ![<<a, c>>] = Outcome(a, c)']
<1>1. \A e \in StreamEnds : e[1] \in Agents /\ e[2] \in Channels /\ e = <<e[1], e[2]>>
  BY DEF StreamEnds
<1>2. \A e \in StreamEnds : e # <<a, c>> => SameAt(e[1], e[2])
  BY <1>1 DEF OnlyAt
<1>3. SentAt' = [SentAt EXCEPT ![<<a, c>>] = taken'[a][c]]
  <2>1. \A e \in StreamEnds : SentAt'[e] = IF e = <<a, c>> THEN taken'[a][c] ELSE SentAt[e]
    BY <1>1, <1>2 DEF SentAt, SameAt
  <2>2. SentAt' = [e \in StreamEnds |-> SentAt'[e]] /\ SentAt = [e \in StreamEnds |-> SentAt[e]]
    BY DEF SentAt
  <2> QED  BY <2>1, <2>2, ChangedAt
<1>4. EofAt' = [EofAt EXCEPT ![<<a, c>>] = (reads'[a][c] = "eof")]
  <2>1. \A e \in StreamEnds : EofAt'[e] = IF e = <<a, c>> THEN (reads'[a][c] = "eof") ELSE EofAt[e]
    BY <1>1, <1>2 DEF EofAt, SameAt
  <2>2. EofAt' = [e \in StreamEnds |-> EofAt'[e]] /\ EofAt = [e \in StreamEnds |-> EofAt[e]]
    BY DEF EofAt
  <2> QED  BY <2>1, <2>2, ChangedAt
<1>5. ReceivedAt' = [ReceivedAt EXCEPT ![<<a, c>>] = written'[a][c]]
  <2>1. \A e \in StreamEnds : ReceivedAt'[e] = IF e = <<a, c>> THEN written'[a][c] ELSE ReceivedAt[e]
    BY <1>1, <1>2 DEF ReceivedAt, SameAt
  <2>2. ReceivedAt' = [e \in StreamEnds |-> ReceivedAt'[e]] /\ ReceivedAt = [e \in StreamEnds |-> ReceivedAt[e]]
    BY DEF ReceivedAt
  <2> QED  BY <2>1, <2>2, ChangedAt
<1>6. OutcomeAt' = [OutcomeAt EXCEPT ![<<a, c>>] = Outcome(a, c)']
  <2>1. \A e \in StreamEnds : OutcomeAt'[e] = IF e = <<a, c>> THEN Outcome(a, c)' ELSE OutcomeAt[e]
    BY <1>1, <1>2 DEF OutcomeAt, SameAt
  <2>2. OutcomeAt' = [e \in StreamEnds |-> OutcomeAt'[e]] /\ OutcomeAt = [e \in StreamEnds |-> OutcomeAt[e]]
    BY DEF OutcomeAt
  <2> QED  BY <2>1, <2>2, ChangedAt
<1> QED  BY <1>3, <1>4, <1>5, <1>6

\* Nothing changes at any end.
LEMMA NothingSeen ==
  ASSUME \A a \in Agents, c \in Channels : SameAt(a, c)
  PROVE  UNCHANGED Stream!streamVars
<1>1. \A e \in StreamEnds : SameAt(e[1], e[2])
  BY DEF StreamEnds
<1>2. SentAt' = SentAt
  BY <1>1 DEF SentAt, SameAt
<1>3. EofAt' = EofAt
  BY <1>1 DEF EofAt, SameAt
<1>4. ReceivedAt' = ReceivedAt
  BY <1>1 DEF ReceivedAt, SameAt
<1>5. OutcomeAt' = OutcomeAt
  BY <1>1 DEF OutcomeAt, SameAt
<1> QED  BY <1>2, <1>3, <1>4, <1>5 DEF Stream!streamVars

\* Steps that no end of a handler is part of: the halves at most begin.
LEMMA HandlerGoesOn ==
  ASSUME TypeOK, NEW a \in Agents, NEW c \in Channels, NEW s, s # "over",
         handler[a][c] # "over", Stage(a, c, s), UNCHANGED <<taken, written>>,
         \/ UNCHANGED <<reads, writes>>
         \/ reads[a][c] = "none" /\ StartBridge(a, c)
  PROVE  UNCHANGED Stream!streamVars
<1>1. \A b \in Agents, d \in Channels :
        handler'[b][d] = IF b = a /\ d = c THEN s ELSE handler[b][d]
  BY DEF TypeOK, Stage
<1>2. \A b \in Agents, d \in Channels : Outcome(b, d)' = Outcome(b, d)
  <2> TAKE b \in Agents, d \in Channels
  <2>1. CASE b = a /\ d = c
    BY <1>1, <2>1 DEF Outcome
  <2>2. CASE ~(b = a /\ d = c)
    <3>1. handler'[b][d] = handler[b][d] /\ writes'[b][d] = writes[b][d]
      <4>1. handler'[b][d] = handler[b][d]
        BY <1>1, <2>2
      <4>2. writes \in [Agents -> [Channels -> {"none", "run", "eof", "cut", "failed", "corrupt"}]]
        BY DEF TypeOK
      <4>3. writes' = writes \/ writes' = [writes EXCEPT ![a][c] = "run"]
        BY DEF StartBridge
      <4>4. writes'[b][d] = writes[b][d]
        BY <2>2, <4>2, <4>3
      <4> QED  BY <4>1, <4>4
    <3> QED  BY <3>1 DEF Outcome
  <2> QED  BY <2>1, <2>2
<1>3. \A b \in Agents, d \in Channels : reads'[b][d] = "eof" <=> reads[b][d] = "eof"
  <2>1. CASE UNCHANGED <<reads, writes>>
    BY <2>1
  <2>2. CASE reads[a][c] = "none" /\ StartBridge(a, c)
    <3>1. \A b \in Agents, d \in Channels :
            reads'[b][d] = IF b = a /\ d = c THEN "run" ELSE reads[b][d]
      BY <2>2 DEF TypeOK, StartBridge
    <3> QED  BY <2>2, <3>1
  <2> QED  BY <2>1, <2>2
<1> QED  BY <1>2, <1>3, NothingSeen DEF SameAt

\* A handler that ends has been told of the end of a stream it has written, or breaks.
LEMMA HandlerIsOver ==
  ASSUME TypeOK, StreamIntact, WrittenWasRead, NEW a \in Agents, NEW c \in Channels,
         handler[a][c] # "over", Stage(a, c, "over"), UNCHANGED halves
  PROVE  Stream!Next
<1> DEFINE e == <<a, c>>
<1>1. \A b \in Agents, d \in Channels :
        handler'[b][d] = IF b = a /\ d = c THEN "over" ELSE handler[b][d]
  BY DEF TypeOK, Stage
<1>2. OnlyAt(a, c)
  BY <1>1 DEF OnlyAt, SameAt, Outcome, halves
<1>3. /\ SentAt' = SentAt /\ EofAt' = EofAt /\ ReceivedAt' = ReceivedAt
  BY DEF SentAt, EofAt, ReceivedAt, halves
<1>4. /\ OutcomeAt' = [OutcomeAt EXCEPT ![e] = Outcome(a, c)']
      /\ OutcomeAt[e] = "running"
      /\ Outcome(a, c)' = IF writes[a][c] = "eof" THEN "clean" ELSE "broken"
  BY <1>1, <1>2, OneEndMoves, ViewOfEnd DEF Outcome, halves
<1>5. e \in StreamEnds
  BY ViewOfEnd
<1>6. CASE writes[a][c] = "eof"
  <2>1. reads[Peer(a)][c] = "eof" /\ written[a][c] = taken[Peer(a)][c]
    BY <1>6 DEF StreamIntact
  <2>2. Stream!Complete(OtherEnd(e))
    <3>1. OtherEnd(e) = <<Peer(a), c>> /\ OtherEnd(OtherEnd(e)) = e
      BY PeerFacts DEF OtherEnd
    <3>2. EofAt[<<Peer(a), c>>] /\ ReceivedAt[e] = SentAt[<<Peer(a), c>>]
      BY <2>1, ViewOfEnd, PeerFacts
    <3> QED  BY <3>1, <3>2 DEF Stream!Complete
  <2>3. Stream!Finish(e)
    BY <1>3, <1>4, <1>6, <2>2 DEF Stream!Finish, Stream!Running
  <2> QED  BY <1>5, <2>3 DEF Stream!Next
<1>7. CASE writes[a][c] # "eof"
  <2>1. Stream!Advance(e)
    <3>1. ReceivedAt[e] \in ReceivedAt[e] .. SentAt[OtherEnd(e)]
      <4>1. Peer(a) \in Agents /\ OtherEnd(e) = <<Peer(a), c>>
        BY PeerFacts DEF OtherEnd
      <4>2. ReceivedAt[e] = written[a][c] /\ SentAt[OtherEnd(e)] = taken[Peer(a)][c]
        <5>1. SentAt[<<Peer(a), c>>] = taken[Peer(a)][c]
          BY <4>1, ViewOfEnd
        <5> QED  BY <5>1, <4>1, ViewOfEnd
      <4>3. written[a][c] \in Nat /\ taken[Peer(a)][c] \in Nat
        BY <4>1 DEF TypeOK
      <4>4. written[a][c] <= taken[Peer(a)][c]
        BY DEF WrittenWasRead
      <4> QED  BY <4>2, <4>3, <4>4
    <3>2. ReceivedAt' = [ReceivedAt EXCEPT ![e] = ReceivedAt[e]]
      BY <1>3, <1>5 DEF ReceivedAt
    <3> QED  BY <3>1, <3>2 DEF Stream!Advance
  <2>2. Stream!Break(e)
    BY <1>3, <1>4, <1>7, <2>1 DEF Stream!Break, Stream!Running
  <2> QED  BY <1>5, <2>2 DEF Stream!Next
<1> QED  BY <1>6, <1>7

\* A step of one half of a bridge.
HalfMoves(a, c) ==
    /\ handler[a][c] = "bridge" /\ handler' = handler
    /\ \A b \in Agents, d \in Channels : b # a \/ d # c =>
          /\ taken'[b][d] = taken[b][d] /\ written'[b][d] = written[b][d]
          /\ reads'[b][d] = reads[b][d] /\ writes'[b][d] = writes[b][d]

LEMMA BridgeGoesOn ==
  ASSUME NEW a \in Agents, NEW c \in Channels, HalfMoves(a, c)
  PROVE  /\ OnlyAt(a, c)
         /\ Outcome(a, c) = "running" /\ Outcome(a, c)' = "running"
         /\ OutcomeAt[<<a, c>>] = "running" /\ OutcomeAt' = OutcomeAt
<1>1. Outcome(a, c) = "running" /\ Outcome(a, c)' = "running"
  BY DEF HalfMoves, Outcome
<1>2. \A b \in Agents, d \in Channels : Outcome(b, d)' = Outcome(b, d)
  BY <1>1 DEF HalfMoves, Outcome
<1>3. OnlyAt(a, c)
  BY <1>2 DEF OnlyAt, SameAt, HalfMoves
<1>4. \A e \in StreamEnds : Outcome(e[1], e[2])' = Outcome(e[1], e[2])
  BY <1>2 DEF StreamEnds
<1>5. OutcomeAt' = OutcomeAt
  BY <1>4 DEF OutcomeAt
<1>6. OutcomeAt[<<a, c>>] = "running"
  BY <1>1, ViewOfEnd
<1> QED  BY <1>1, <1>3, <1>5, <1>6

\* The end of the local stream is seen where it was seen before.
LEMMA EofStays ==
  ASSUME \A b \in Agents, d \in Channels : reads'[b][d] = "eof" <=> reads[b][d] = "eof"
  PROVE  EofAt' = EofAt
<1>1. \A e \in StreamEnds : reads'[e[1]][e[2]] = "eof" <=> reads[e[1]][e[2]] = "eof"
  BY DEF StreamEnds
<1> QED  BY <1>1 DEF EofAt

LEMMA ReadChunkReads ==
  ASSUME TypeOK, NEW a \in Agents, NEW c \in Channels, ReadChunk(a, c)
  PROVE  Stream!Next
<1> DEFINE e == <<a, c>>
<1>1. /\ handler[a][c] = "bridge" /\ reads[a][c] = "run"
      /\ taken' = [taken EXCEPT ![a][c] = taken[a][c] + 1]
      /\ (reads' = reads \/ reads' = [reads EXCEPT ![a][c] = "failed"])
      /\ handler' = handler /\ writes' = writes /\ written' = written
  BY DEF ReadChunk, Reading, ReadEnds
<1>2. HalfMoves(a, c) /\ taken'[a][c] = taken[a][c] + 1
  <2>1. /\ taken'[a][c] = taken[a][c] + 1
        /\ \A b \in Agents, d \in Channels : b # a \/ d # c => taken'[b][d] = taken[b][d]
    BY <1>1, TypeParts DEF ReadTypes
  <2>2. \A b \in Agents, d \in Channels : b # a \/ d # c => reads'[b][d] = reads[b][d]
    BY <1>1, TypeParts DEF ReadTypes
  <2> QED  BY <1>1, <2>1, <2>2 DEF HalfMoves
<1>3. \A b \in Agents, d \in Channels : reads'[b][d] = "eof" <=> reads[b][d] = "eof"
  BY <1>1, TypeParts DEF ReadTypes
<1>4. EofAt' = EofAt /\ ReceivedAt' = ReceivedAt
  BY <1>1, <1>3, EofStays DEF ReceivedAt
<1>5. /\ SentAt' = [SentAt EXCEPT ![e] = SentAt[e] + 1]
      /\ OutcomeAt' = OutcomeAt /\ OutcomeAt[e] = "running" /\ ~EofAt[e]
  <2>1. SentAt' = [SentAt EXCEPT ![e] = taken'[a][c]]
    BY <1>2, BridgeGoesOn, OneEndMoves
  <2>2. SentAt[e] = taken[a][c] /\ ~EofAt[e]
    BY <1>1, ViewOfEnd
  <2> QED  BY <1>2, <2>1, <2>2, BridgeGoesOn
<1>6. Stream!Read(e)
  BY <1>4, <1>5 DEF Stream!Read, Stream!Running
<1> QED  BY <1>6, ViewOfEnd DEF Stream!Next

LEMMA ReadEofReadsEnd ==
  ASSUME TypeOK, NEW a \in Agents, NEW c \in Channels, ReadEof(a, c)
  PROVE  Stream!Next
<1> DEFINE e == <<a, c>>
<1>1. /\ handler[a][c] = "bridge" /\ reads[a][c] = "run"
      /\ reads' = [reads EXCEPT ![a][c] = "eof"]
      /\ handler' = handler /\ writes' = writes /\ taken' = taken /\ written' = written
  BY DEF ReadEof, Reading, ReadEnds
<1>2. HalfMoves(a, c) /\ reads'[a][c] = "eof"
  <2>1. /\ reads'[a][c] = "eof"
        /\ \A b \in Agents, d \in Channels : b # a \/ d # c => reads'[b][d] = reads[b][d]
    BY <1>1, TypeParts DEF ReadTypes
  <2> QED  BY <1>1, <2>1 DEF HalfMoves
<1>3. SentAt' = SentAt /\ ReceivedAt' = ReceivedAt
  BY <1>1 DEF SentAt, ReceivedAt
<1>4. EofAt' = [EofAt EXCEPT ![e] = TRUE]
  <2>1. EofAt' = [EofAt EXCEPT ![e] = (reads'[a][c] = "eof")]
    BY <1>2, BridgeGoesOn, OneEndMoves
  <2> QED  BY <1>2, <2>1
<1>5. OutcomeAt' = OutcomeAt /\ OutcomeAt[e] = "running" /\ ~EofAt[e]
  BY <1>1, <1>2, BridgeGoesOn, ViewOfEnd
<1>6. Stream!ReadEnd(e)
  BY <1>3, <1>4, <1>5 DEF Stream!ReadEnd, Stream!Running
<1> QED  BY <1>6, ViewOfEnd DEF Stream!Next

LEMMA ReadFailsUnseen ==
  ASSUME TypeOK, NEW a \in Agents, NEW c \in Channels, ReadFails(a, c)
  PROVE  UNCHANGED Stream!streamVars
<1>1. /\ handler[a][c] = "bridge" /\ reads[a][c] = "run"
      /\ reads' = [reads EXCEPT ![a][c] = "failed"]
      /\ handler' = handler /\ writes' = writes /\ taken' = taken /\ written' = written
  BY DEF ReadFails, Reading, ReadEnds
<1>2. \A b \in Agents, d \in Channels : reads'[b][d] = "eof" <=> reads[b][d] = "eof"
  BY <1>1, TypeParts DEF ReadTypes
<1> QED  BY <1>1, <1>2, NothingSeen DEF SameAt, Outcome

\* What is written next in order was read at the other end.
LEMMA NextWasRead ==
  ASSUME StreamInv, NEW a \in Agents, NEW c \in Channels, Writing(a, c),
         inbox[a][c] # <<>>, InOrder(a, c, Head(inbox[a][c]))
  PROVE  written[a][c] + 1 <= taken[Peer(a)][c]
<1> DEFINE m == Head(inbox[a][c])  got == written[a][c]  all == taken[Peer(a)][c]
           ended == reads[Peer(a)][c] = "eof"  hears == Hears(a, c)  passes == Passes(a, c)
<1>1. /\ TypeOK /\ Peer(a) \in Agents /\ got \in Nat /\ all \in Nat
      /\ inbox[a][c] \in Seq(Envelope)
  BY PeerFacts, CountTypes, QueuesAre DEF StreamInv
<1>2. Is(m, "Data", c)
  <2>1. m.chan = c
    BY HeadOfBox DEF Writing
  <2> QED  BY <2>1 DEF InOrder, Is
<1>3. hears \in BOOLEAN /\ passes \in BOOLEAN /\ ended \in BOOLEAN
  BY DEF Hears, Passes, Sends
<1>4. Flow(inbox[a][c], inbound[a], outbound[Peer(a)], c, got, all, ended, hears, passes)
  BY DEF StreamInv, StreamsFlow, StreamFlows, Takes, Writing
<1> HIDE DEF m, got, all, ended, hears, passes
<1>5. Flow(Tail(inbox[a][c]), inbound[a], outbound[Peer(a)], c, got + 1, all, ended,
           hears, passes)
  BY <1>1, <1>2, <1>3, <1>4, FlowWrites DEF m
<1>6. PICK x \in 0 .. all : Carries(Tail(inbox[a][c]), c, got + 1, x)
  BY <1>5 DEF Flow
<1>7. got + 1 <= x
  BY <1>6 DEF Carries
<1>8. got + 1 <= all
  BY <1>1, <1>7
<1> QED  BY <1>8 DEF got, all

LEMMA WriteNextFacts ==
  ASSUME StreamInv, NEW a \in Agents, NEW c \in Channels, WriteNext(a, c)
  PROVE  /\ HalfMoves(a, c) /\ taken' = taken /\ reads' = reads
         /\ \/ written'[a][c] = written[a][c] + 1 /\ written[a][c] + 1 <= taken[Peer(a)][c]
            \/ written' = written
<1> DEFINE m == Head(inbox[a][c])
<1>1. TypeOK
  BY DEF StreamInv
<1>2. /\ Writing(a, c) /\ inbox[a][c] # <<>> /\ handler[a][c] = "bridge"
      /\ handler' = handler /\ taken' = taken /\ reads' = reads
      /\ \/ /\ InOrder(a, c, m) /\ writes' = writes
            /\ written' = [written EXCEPT ![a][c] = written[a][c] + 1]
         \/ writes' = [writes EXCEPT ![a][c] = Ending(a, c, m)] /\ written' = written
  BY DEF WriteNext, Writing, WriteEnds
<1> HIDE DEF m
<1>3. CASE /\ InOrder(a, c, m) /\ writes' = writes
           /\ written' = [written EXCEPT ![a][c] = written[a][c] + 1]
  <2>1. /\ written'[a][c] = written[a][c] + 1
        /\ \A b \in Agents, d \in Channels : b # a \/ d # c => written'[b][d] = written[b][d]
    BY <1>1, <1>3, TypeParts DEF WriteTypes
  <2>2. written[a][c] + 1 <= taken[Peer(a)][c]
    BY <1>2, <1>3, NextWasRead DEF m
  <2> QED  BY <1>2, <1>3, <2>1, <2>2 DEF HalfMoves
<1>4. CASE writes' = [writes EXCEPT ![a][c] = Ending(a, c, m)] /\ written' = written
  <2>1. \A b \in Agents, d \in Channels : b # a \/ d # c => writes'[b][d] = writes[b][d]
    BY <1>1, <1>4, TypeParts DEF WriteTypes
  <2> QED  BY <1>2, <1>4, <2>1 DEF HalfMoves
<1> QED  BY <1>2, <1>3, <1>4

LEMMA WriteNextDelivers ==
  ASSUME StreamInv, NEW a \in Agents, NEW c \in Channels, WriteNext(a, c)
  PROVE  [Stream!Next]_Stream!streamVars
<1> DEFINE e == <<a, c>>
<1>1. /\ HalfMoves(a, c) /\ taken' = taken /\ reads' = reads
      /\ \/ written'[a][c] = written[a][c] + 1 /\ written[a][c] + 1 <= taken[Peer(a)][c]
         \/ written' = written
  BY WriteNextFacts
<1>2. SentAt' = SentAt /\ EofAt' = EofAt
  BY <1>1 DEF SentAt, EofAt
<1>3. OutcomeAt' = OutcomeAt /\ OutcomeAt[e] = "running"
  BY <1>1, BridgeGoesOn
<1>4. CASE written'[a][c] = written[a][c] + 1 /\ written[a][c] + 1 <= taken[Peer(a)][c]
  <2> DEFINE n == written[a][c] + 1
  <2>1. ReceivedAt' = [ReceivedAt EXCEPT ![e] = n]
    <3>1. ReceivedAt' = [ReceivedAt EXCEPT ![e] = written'[a][c]]
      BY <1>1, BridgeGoesOn, OneEndMoves
    <3> QED  BY <1>4, <3>1
  <2>2. n \in ReceivedAt[e] .. SentAt[OtherEnd(e)]
    <3>1. Peer(a) \in Agents /\ OtherEnd(e) = <<Peer(a), c>>
      BY PeerFacts DEF OtherEnd
    <3>2. ReceivedAt[e] = written[a][c]
      BY ViewOfEnd
    <3>3. SentAt[<<Peer(a), c>>] = taken[Peer(a)][c]
      BY <3>1, ViewOfEnd
    <3>4. written[a][c] \in Nat /\ taken[Peer(a)][c] \in Nat
      BY <3>1, CountTypes DEF StreamInv
    <3> QED  BY <1>4, <3>1, <3>2, <3>3, <3>4
  <2> HIDE DEF n
  <2>3. Stream!Deliver(e)
    BY <1>2, <1>3, <2>1, <2>2 DEF Stream!Deliver, Stream!Advance, Stream!Running
  <2> QED  BY <2>3, ViewOfEnd DEF Stream!Next
<1>5. CASE written' = written
  <2>1. ReceivedAt' = ReceivedAt
    BY <1>5 DEF ReceivedAt
  <2> QED  BY <1>2, <1>3, <2>1 DEF Stream!streamVars
<1> QED  BY <1>1, <1>4, <1>5

\* The other steps leave the handlers and their bridges alone.
LEMMA StepsUnseen ==
  ASSUME UNCHANGED halves, UNCHANGED handler
  PROVE  UNCHANGED Stream!streamVars
<1>1. reads' = reads /\ writes' = writes /\ taken' = taken /\ written' = written
  BY DEF halves
<1> QED  BY <1>1, NothingSeen DEF SameAt, Outcome

\* Nothing is written that was not read, whatever the step.
LEMMA WrittenStaysRead ==
  ASSUME TypeOK, WrittenWasRead, written' = written,
         \/ taken' = taken
         \/ \E a \in Agents, c \in Channels : ReadChunk(a, c)
  PROVE  WrittenWasRead'
<1> SUFFICES ASSUME NEW b \in Agents, NEW d \in Channels
             PROVE  written'[b][d] <= taken'[Peer(b)][d]
  BY DEF WrittenWasRead
<1>1. /\ Peer(b) \in Agents /\ written[b][d] \in Nat /\ taken[Peer(b)][d] \in Nat
      /\ written[b][d] <= taken[Peer(b)][d]
  BY PeerFacts, CountTypes DEF WrittenWasRead
<1>2. CASE taken' = taken
  BY <1>1, <1>2
<1>3. ASSUME NEW a \in Agents, NEW c \in Channels, ReadChunk(a, c)
      PROVE  written'[b][d] <= taken'[Peer(b)][d]
  <2>1. taken' = [taken EXCEPT ![a][c] = taken[a][c] + 1]
    BY <1>3 DEF ReadChunk
  <2>2. \/ taken'[Peer(b)][d] = taken[Peer(b)][d]
        \/ taken'[Peer(b)][d] = taken[Peer(b)][d] + 1
    BY <1>1, <2>1, TypeParts DEF ReadTypes
  <2> QED  BY <1>1, <2>2
<1> QED  BY <1>2, <1>3

\* A step as ReliableStream sees it.
StreamStep == WrittenWasRead' /\ [Stream!Next]_Stream!streamVars

LEMMA GoesOnStep ==
  ASSUME StreamInv, WrittenWasRead, NEW a \in Agents, NEW c \in Channels, NEW s, s # "over",
         handler[a][c] # "over",
         \/ Stage(a, c, s) /\ UNCHANGED halves
         \/ s = "bridge" /\ handler[a][c] # "bridge" /\ StartBridge(a, c)
  PROVE  StreamStep
<1>1. TypeOK /\ UNCHANGED <<taken, written>>
  BY DEF StreamInv, halves, StartBridge
<1>2. /\ Stage(a, c, s)
      /\ \/ UNCHANGED <<reads, writes>>
         \/ reads[a][c] = "none" /\ StartBridge(a, c)
  BY DEF StreamInv, BridgesStartFresh, halves, StartBridge
<1> QED  BY <1>1, <1>2, HandlerGoesOn, WrittenStaysRead DEF StreamStep

LEMMA OverStep ==
  ASSUME StreamInv, WrittenWasRead, NEW a \in Agents, NEW c \in Channels,
         handler[a][c] # "over", Stage(a, c, "over"), UNCHANGED halves
  PROVE  StreamStep
<1>1. TypeOK /\ StreamIntact /\ taken' = taken /\ written' = written
  BY DEF StreamInv, halves
<1> QED  BY <1>1, HandlerIsOver, WrittenStaysRead DEF StreamStep

LEMMA UnseenStep ==
  ASSUME StreamInv, WrittenWasRead, UNCHANGED halves, UNCHANGED handler
  PROVE  StreamStep
<1>1. TypeOK /\ taken' = taken /\ written' = written
  BY DEF StreamInv, halves
<1> QED  BY <1>1, StepsUnseen, WrittenStaysRead DEF StreamStep

LEMMA SourceStreams ==
  ASSUME StreamInv, WrittenWasRead, NEW c \in Channels, SourceStep(c)
  PROVE  StreamStep
<1>1. Source \in Agents
  BY DEF Agents
<1>2. CASE AcceptLocal(c)
  <2>1. /\ handler[Source][c] # "over" /\ Stage(Source, c, "registered") /\ UNCHANGED halves
    BY <1>2 DEF AcceptLocal, Accepts
  <2> QED  BY <1>1, <2>1, GoesOnStep
<1>3. CASE SendOpen(c)
  <2>1. /\ handler[Source][c] # "over" /\ UNCHANGED halves
        /\ Stage(Source, c, "opening") \/ Stage(Source, c, "over")
    BY <1>3 DEF SendOpen, Over
  <2> QED  BY <1>1, <2>1, GoesOnStep, OverStep
<1>4. CASE Answered(c)
  <2>1. /\ handler[Source][c] # "over" /\ handler[Source][c] # "bridge"
        /\ \/ StartBridge(Source, c)
           \/ Stage(Source, c, "over") /\ UNCHANGED halves
    BY <1>4 DEF Answered, Over
  <2> QED  BY <1>1, <2>1, GoesOnStep, OverStep
<1>5. CASE OpenTimesOut(c)
  <2>1. handler[Source][c] # "over" /\ UNCHANGED halves /\ Stage(Source, c, "over")
    BY <1>5 DEF OpenTimesOut, Over
  <2> QED  BY <1>1, <2>1, OverStep
<1> QED  BY <1>2, <1>3, <1>4, <1>5 DEF SourceStep

LEMMA TargetStreams ==
  ASSUME StreamInv, WrittenWasRead, NEW c \in Channels, TargetStep(c)
  PROVE  StreamStep
<1>1. Target \in Agents
  BY DEF Agents
<1>2. CASE RefuseIncoming(c)
  <2>1. handler[Target][c] # "over" /\ UNCHANGED halves /\ Stage(Target, c, "over")
    BY <1>2 DEF RefuseIncoming, Offered
  <2> QED  BY <1>1, <2>1, OverStep
<1>3. CASE TakeIncoming(c)
  <2>1. handler[Target][c] # "over" /\ UNCHANGED halves /\ Stage(Target, c, "connecting")
    BY <1>3 DEF TakeIncoming, Offered
  <2> QED  BY <1>1, <2>1, GoesOnStep
<1>4. CASE ConnectFails(c)
  <2>1. handler[Target][c] # "over" /\ UNCHANGED halves /\ Stage(Target, c, "over")
    BY <1>4 DEF ConnectFails, Over
  <2> QED  BY <1>1, <2>1, OverStep
<1>5. CASE Connected(c)
  <2>1. /\ handler[Target][c] # "over" /\ handler[Target][c] # "bridge"
        /\ \/ StartBridge(Target, c)
           \/ Stage(Target, c, "over") /\ UNCHANGED halves
    BY <1>5 DEF Connected, Over
  <2> QED  BY <1>1, <2>1, GoesOnStep, OverStep
<1> QED  BY <1>2, <1>3, <1>4, <1>5 DEF TargetStep

LEMMA BridgeStreams ==
  ASSUME StreamInv, WrittenWasRead, NEW a \in Agents, NEW c \in Channels, BridgeStep(a, c)
  PROVE  StreamStep
<1>1. TypeOK
  BY DEF StreamInv
<1>2. CASE ReadChunk(a, c)
  <2>1. written' = written
    BY <1>2 DEF ReadChunk
  <2> QED  BY <1>1, <1>2, <2>1, ReadChunkReads, WrittenStaysRead DEF StreamStep
<1>3. CASE ReadEof(a, c)
  <2>1. written' = written /\ taken' = taken
    BY <1>3 DEF ReadEof
  <2> QED  BY <1>1, <1>3, <2>1, ReadEofReadsEnd, WrittenStaysRead DEF StreamStep
<1>4. CASE ReadFails(a, c)
  <2>1. written' = written /\ taken' = taken
    BY <1>4 DEF ReadFails
  <2> QED  BY <1>1, <1>4, <2>1, ReadFailsUnseen, WrittenStaysRead DEF StreamStep
<1>5. CASE WriteNext(a, c)
  <2>1. /\ HalfMoves(a, c) /\ taken' = taken
        /\ \/ written'[a][c] = written[a][c] + 1 /\ written[a][c] + 1 <= taken[Peer(a)][c]
           \/ written' = written
    BY <1>5, WriteNextFacts
  <2>2. WrittenWasRead'
    <3> SUFFICES ASSUME NEW b \in Agents, NEW d \in Channels
                 PROVE  written'[b][d] <= taken'[Peer(b)][d]
      BY DEF WrittenWasRead
    <3>1. written[b][d] <= taken[Peer(b)][d]
      BY DEF WrittenWasRead
    <3>2. CASE b = a /\ d = c
      BY <2>1, <3>1, <3>2
    <3>3. CASE b # a \/ d # c
      BY <2>1, <3>1, <3>3 DEF HalfMoves
    <3> QED  BY <3>2, <3>3
  <2> QED  BY <1>5, <2>2, WriteNextDelivers DEF StreamStep
<1>6. CASE BridgeEnds(a, c)
  <2>1. handler[a][c] # "over" /\ UNCHANGED halves /\ Stage(a, c, "over")
    BY <1>6 DEF BridgeEnds, Over
  <2> QED  BY <2>1, OverStep
<1> QED  BY <1>2, <1>3, <1>4, <1>5, <1>6 DEF BridgeStep

LEMMA TaskStreams ==
  ASSUME StreamInv, WrittenWasRead, NEW a \in Agents, TaskStep(a)
  PROVE  StreamStep
<1>1. TypeOK /\ KindsFit /\ OpenedOnce
  BY DEF StreamInv
<1>2. CASE ReaderReceives(a)
  <2> DEFINE m == Head(inbound[a])
  <2>1. /\ inbound[a] # <<>> /\ UNCHANGED halves
        /\ \/ m.kind = "Incoming" /\ Stage(a, m.chan, "queued")
           \/ UNCHANGED handler
    BY <1>2 DEF ReaderReceives
  <2>2. CASE m.kind = "Incoming" /\ Stage(a, m.chan, "queued")
    <3>1. m.chan \in Channels
      <4>1. inbound[a] \in Seq(Envelope)
        BY <1>1, QueuesAre
      <4>2. m \in Envelope
        BY <2>1, <4>1, TailIndices
      <4> QED  BY <4>2 DEF Envelope
    <3>2. handler[a][m.chan] # "over"
      BY <1>1, <2>1, <2>2, IncomingIsNew
    <3> HIDE DEF m
    <3> QED  BY <2>1, <2>2, <3>1, <3>2, GoesOnStep
  <2>3. CASE UNCHANGED handler
    BY <2>1, <2>3, UnseenStep
  <2> QED  BY <2>1, <2>2, <2>3
<1>3. CASE ~ReaderReceives(a)
  <2>1. UNCHANGED halves /\ UNCHANGED handler
    BY <1>3 DEF TaskStep, WriterSends, WriterFails, WriterNotified, WriterOver, ReaderEnds,
                Keepalive
  <2> QED  BY <2>1, UnseenStep
<1> QED  BY <1>2, <1>3

LEMMA StepsAreStreamSteps ==
  ASSUME StreamInv, WrittenWasRead, [Next]_vars
  PROVE  StreamStep
<1>1. ASSUME NEW c \in Channels, SourceStep(c) \/ TargetStep(c) PROVE StreamStep
  BY <1>1, SourceStreams, TargetStreams
<1>2. ASSUME NEW a \in Agents, NEW c \in Channels, BridgeStep(a, c) PROVE StreamStep
  BY <1>2, BridgeStreams
<1>3. ASSUME NEW a \in Agents, TaskStep(a) PROVE StreamStep
  BY <1>3, TaskStreams
<1>4. ASSUME NEW a \in Agents,
             HubDisconnects(a) \/ \E how \in {"broken", "gone"} : SocketFails(a, how)
      PROVE  StreamStep
  <2>1. UNCHANGED halves /\ UNCHANGED handler
    BY <1>4 DEF HubDisconnects, SocketFails
  <2> QED  BY <2>1, UnseenStep
<1>5. CASE UNCHANGED vars
  <2>1. UNCHANGED halves /\ UNCHANGED handler
    BY <1>5 DEF vars
  <2> QED  BY <2>1, UnseenStep
<1> QED  BY <1>1, <1>2, <1>3, <1>4, <1>5 DEF Next

LEMMA StreamsBegin == Init => Stream!Init /\ WrittenWasRead
<1> SUFFICES ASSUME Init PROVE Stream!Init /\ WrittenWasRead
  OBVIOUS
<1>1. \A e \in StreamEnds :
        /\ taken[e[1]][e[2]] = 0 /\ written[e[1]][e[2]] = 0
        /\ reads[e[1]][e[2]] # "eof" /\ Outcome(e[1], e[2]) = "running"
  BY DEF StreamEnds, Init, Outcome
<1>2. SentAt = [e \in StreamEnds |-> 0] /\ ReceivedAt = [e \in StreamEnds |-> 0]
  BY <1>1 DEF SentAt, ReceivedAt
<1>3. EofAt = [e \in StreamEnds |-> FALSE]
  BY <1>1 DEF EofAt
<1>4. OutcomeAt = [e \in StreamEnds |-> "running"]
  BY <1>1 DEF OutcomeAt
<1>5. WrittenWasRead
  <2>1. \A a \in Agents, c \in Channels : written[a][c] = 0 /\ taken[Peer(a)][c] = 0
    BY PeerFacts DEF Init
  <2> QED  BY <2>1 DEF WrittenWasRead
<1> QED  BY <1>2, <1>3, <1>4, <1>5 DEF Stream!Init

\* Nothing is ever written to a local stream that was not read from the peer's.
THEOREM WrittenWasReadAlways == Spec => []WrittenWasRead
<1>1. StreamInv /\ WrittenWasRead /\ [Next]_vars => WrittenWasRead'
  BY StepsAreStreamSteps DEF StreamStep
<1> QED  BY <1>1, StreamsBegin, StreamInvariant, PTL DEF Spec

\* Every channel over the relay is a reliable stream between the two local streams
\* that it joins, whichever websocket is lost when and whatever the hub then tells
\* whom: each step of the handlers, of the connections' tasks and of the hub is a
\* step of ReliableStream at one end of one channel, or none.
THEOREM RelayIsReliableStream == Spec => ImplementsStream
<1>1. Init => Stream!Init
  BY StreamsBegin
<1>2. StreamInv /\ WrittenWasRead /\ [Next]_vars => [Stream!Next]_Stream!streamVars
  BY StepsAreStreamSteps DEF StreamStep
<1> QED  BY <1>1, <1>2, StreamInvariant, WrittenWasReadAlways, PTL
         DEF Spec, ImplementsStream, Stream!Spec
=============================================================================
