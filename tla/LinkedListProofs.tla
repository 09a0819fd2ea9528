--------------------------- MODULE LinkedListProofs ---------------------------
(***************************************************************************)
(* The lists of include/geekos/list.h are sequences: for every number of   *)
(* lists and nodes and every history of operations, a walk along next from *)
(* the head and one along prev from the tail meet the same nodes, and each *)
(* operation does to that sequence what it is named for.                   *)
(***************************************************************************)
EXTENDS LinkedList, ThreadQueue, SequenceTheorems, FiniteSetTheorems,
        WellFoundedInduction, TLAPS

\* c is laid out along link, from node n to the end.
Laid(c, n, link) ==
    /\ n = IF c = << >> THEN Null ELSE c[1]
    /\ \A i \in 1 .. Len(c) : link[c[i]] = IF i < Len(c) THEN c[i + 1] ELSE Null

\* c from its end.
Backwards(c) == [i \in 1 .. Len(c) |-> c[Len(c) + 1 - i]]

(***************************************************************************)
(* List l holds the nodes of c: its ends and the links of its nodes, in    *)
(* both directions.                                                        *)
(***************************************************************************)
Holds(l, c) ==
    /\ head[l] = IF c = << >> THEN Null ELSE c[1]
    /\ tail[l] = IF c = << >> THEN Null ELSE c[Len(c)]
    /\ \A i \in 1 .. Len(c) :
          /\ next[c[i]] = IF i < Len(c) THEN c[i + 1] ELSE Null
          /\ prev[c[i]] = IF i > 1 THEN c[i - 1] ELSE Null

\* A family of sequences in which no node occurs twice.
Apart(q) ==
    /\ q \in [Lists -> Seq(Nodes)]
    /\ \A l \in Lists : Distinct(q[l])
    /\ \A l, m \in Lists : l # m =>
          \A n \in Nodes : ~(InQueue(n, q[l]) /\ InQueue(n, q[m]))

Represents(q) == Apart(q) /\ \A l \in Lists : Holds(l, q[l])

Types ==
    /\ head \in [Lists -> Nodes \cup {Null}] /\ tail \in [Lists -> Nodes \cup {Null}]
    /\ next \in [Nodes -> Nodes \cup {Null}] /\ prev \in [Nodes -> Nodes \cup {Null}]

\* What the lists are, read from the heads.
Queue == [l \in Lists |-> Contents(l)]

\* The inductive invariant.
IInv == Types /\ Represents(Queue)

-----------------------------------------------------------------------------
\* A sequence without repetitions is not longer than there are nodes.
LEMMA NoLonger ==
    ASSUME NEW c \in Seq(Nodes), Distinct(c)
    PROVE  /\ Cardinality(Nodes) \in Nat /\ Len(c) \in Nat
           /\ Len(c) <= Cardinality(Nodes)
  <1>1. c \in Injection(1 .. Len(c), Nodes)
    <2>1. c \in [1 .. Len(c) -> Nodes]
      BY LenProperties
    <2> QED  BY <2>1 DEF Injection, IsInjective, Distinct
  <1>2. Len(c) \in Nat
    BY LenProperties
  <1>3. Cardinality(1 .. Len(c)) = Len(c)
    BY <1>2, FS_Interval, SMTT(40)
  <1> QED  BY <1>1, <1>2, <1>3, NodeAssumption, FS_Injection, FS_CardinalityType

(***************************************************************************)
(* The walk along a list that is laid out meets its nodes, each once, and  *)
(* ends behind the last one.                                               *)
(***************************************************************************)
LEMMA WayThere ==
    ASSUME NEW c \in Seq(Nodes), Distinct(c), NEW n, NEW link, Laid(c, n, link)
    PROVE  \A k \in Steps :
              Way(n, link)[k] = IF k < Len(c) THEN c[k + 1] ELSE Null
  <1> DEFINE P(g) == g = [k \in Steps |-> IF k = 0 THEN n
                                          ELSE IF g[k - 1] = Null THEN Null
                                          ELSE link[g[k - 1]]]
             f == [k \in Steps |-> IF k < Len(c) THEN c[k + 1] ELSE Null]
             at == Way(n, link)
  <1>0. /\ Cardinality(Nodes) \in Nat /\ Len(c) \in Nat
        /\ \A i \in 1 .. Len(c) : c[i] \in Nodes /\ c[i] # Null
        /\ (c = << >>) <=> (Len(c) = 0)
    BY NoLonger, LenProperties, EmptySeq, NodeAssumption
  <1>1. \A k \in Steps : k # 0 => k - 1 \in Steps
    BY <1>0 DEF Steps
  <1>2. ASSUME NEW k \in Steps, k # 0
        PROVE  f[k] = IF f[k - 1] = Null THEN Null ELSE link[f[k - 1]]
    <2>1. k \in Nat /\ k - 1 \in Nat /\ k - 1 \in Steps /\ (k - 1) + 1 = k
      BY <1>0, <1>1, <1>2 DEF Steps
    <2>2. f[k - 1] = IF k - 1 < Len(c) THEN c[k] ELSE Null
      BY <2>1
    <2>3. f[k] = IF k < Len(c) THEN c[k + 1] ELSE Null
      OBVIOUS
    <2>4. k - 1 < Len(c) => k \in 1 .. Len(c) /\ c[k] # Null
      BY <1>0, <1>2, <2>1
    <2>5. k - 1 < Len(c) => link[c[k]] = IF k < Len(c) THEN c[k + 1] ELSE Null
      BY <2>4 DEF Laid
    <2> HIDE DEF f
    <2>6. CASE k - 1 < Len(c)
      BY <2>2, <2>3, <2>4, <2>5, <2>6
    <2>7. CASE ~(k - 1 < Len(c))
      <3>1. ~(k < Len(c))
        BY <1>0, <2>1, <2>7
      <3> QED  BY <2>2, <2>3, <2>7, <3>1
    <2> QED  BY <2>6, <2>7
  <1>3. 0 \in Steps /\ f[0] = n
    <2>1. 0 \in Steps
      BY <1>0 DEF Steps
    <2>2. f[0] = IF 0 < Len(c) THEN c[1] ELSE Null
      BY <2>1
    <2> QED  BY <1>0, <2>1, <2>2 DEF Laid
  <1>4. P(f)
    <2> DEFINE h == [k \in Steps |-> IF k = 0 THEN n
                                     ELSE IF f[k - 1] = Null THEN Null
                                     ELSE link[f[k - 1]]]
    <2>1. \A k \in Steps : f[k] = h[k]
      <3> HIDE DEF f
      <3> QED  BY <1>2, <1>3
    <2>2. f = [k \in Steps |-> f[k]] /\ h = [k \in Steps |-> h[k]]
      OBVIOUS
    <2>3. f = h
      <3> HIDE DEF f, h
      <3> QED  BY <2>1, <2>2
    <2> QED  BY <2>3
  <1>5. P(at)
    <2>1. at = CHOOSE g : P(g)
      BY DEF Way
    <2> HIDE DEF P, f, at
    <2>2. P(CHOOSE g : P(g))
      BY <1>4, Zenon
    <2> QED  BY <2>1, <2>2
  <1>6. /\ at[0] = n
        /\ \A k \in Steps : k # 0 =>
              at[k] = IF at[k - 1] = Null THEN Null ELSE link[at[k - 1]]
    <2> HIDE DEF at, f
    <2>1. \A k \in Steps : at[k] = IF k = 0 THEN n
                                   ELSE IF at[k - 1] = Null THEN Null
                                   ELSE link[at[k - 1]]
      <3>1. at = [k \in Steps |-> IF k = 0 THEN n
                                  ELSE IF at[k - 1] = Null THEN Null
                                  ELSE link[at[k - 1]]]
        BY <1>5
      <3> DEFINE e(k) == IF k = 0 THEN n
                         ELSE IF at[k - 1] = Null THEN Null ELSE link[at[k - 1]]
      <3>2. at = [k \in Steps |-> e(k)]
        BY <3>1
      <3> HIDE DEF e
      <3>3. \A k \in Steps : at[k] = e(k)
        BY <3>2
      <3> QED  BY <3>3 DEF e
    <2> QED  BY <1>3, <2>1
  <1> HIDE DEF P, f, at
  <1>7. \A k \in Steps : at[k] = f[k]
    <2> DEFINE R == OpToRel(<, Nat)
               T == {k \in Steps : at[k] # f[k]}
    <2>0. IsWellFoundedOn(R, Nat)
      BY NatLessThanWellFounded
    <2>1. T \subseteq Nat
      BY <1>0 DEF Steps
    <2>2. \A i, j \in Nat : << i, j >> \in R <=> i < j
      BY DEF OpToRel
    <2> SUFFICES ASSUME T # {} PROVE FALSE
      OBVIOUS
    <2> HIDE DEF R
    <2>3. PICK k \in T : \A j \in T : ~(<< j, k >> \in R)
      <3> HIDE DEF T
      <3> QED  BY <2>0, <2>1, WFMin
    <2>4. k # 0
      BY <1>3, <1>6
    <2>5. k \in Steps /\ k - 1 \in Steps /\ k \in Nat /\ k - 1 \in Nat
      BY <1>0, <1>1, <2>1, <2>3, <2>4 DEF Steps
    <2>6. << k - 1, k >> \in R
      BY <2>2, <2>5
    <2>7. at[k - 1] = f[k - 1]
      BY <2>3, <2>5, <2>6
    <2>8. at[k] = f[k]
      BY <1>2, <1>6, <2>4, <2>5, <2>7
    <2> QED  BY <2>3, <2>8
  <1> QED  BY <1>7 DEF f, at

\* So the walk returns the nodes of the list, in their order.
LEMMA WalkMeets ==
    ASSUME NEW c \in Seq(Nodes), Distinct(c), NEW n, NEW link, Laid(c, n, link)
    PROVE  Walk(n, link) = c
  <1> DEFINE way == Way(n, link)
             met == {k \in Steps : way[k] # Null}
  <1>1. /\ Cardinality(Nodes) \in Nat /\ Len(c) \in Nat /\ Len(c) <= Cardinality(Nodes)
        /\ \A i \in 1 .. Len(c) : c[i] \in Nodes /\ c[i] # Null
    BY NoLonger, LenProperties, NodeAssumption
  <1>2. \A k \in Steps : way[k] = IF k < Len(c) THEN c[k + 1] ELSE Null
    BY WayThere
  <1>3. Walk(n, link) = [i \in 1 .. Cardinality(met) |-> way[i - 1]]
    BY DEF Walk
  <1> HIDE DEF way
  <1>4. met = 0 .. Len(c) - 1
    <2>1. \A k : k \in Steps <=> k \in Nat /\ k <= Cardinality(Nodes)
      BY <1>1 DEF Steps
    <2>2. \A k : k \in met => k \in 0 .. Len(c) - 1
      BY <1>1, <1>2, <2>1
    <2>3. ASSUME NEW k \in 0 .. Len(c) - 1
          PROVE  k \in met
      <3>1. k \in Steps /\ k < Len(c) /\ k + 1 \in 1 .. Len(c)
        BY <1>1, <2>1
      <3> QED  BY <1>1, <1>2, <3>1
    <2> HIDE DEF met
    <2> QED  BY <2>2, <2>3
  <1>5. Cardinality(met) = Len(c)
    <2> HIDE DEF met
    <2>1. Len(c) - 1 \in Int /\ (0 > Len(c) - 1 => Len(c) = 0) /\ Len(c) - 1 - 0 + 1 = Len(c)
      BY <1>1
    <2>2. Cardinality(0 .. Len(c) - 1) = IF 0 > Len(c) - 1 THEN 0 ELSE Len(c) - 1 - 0 + 1
      BY <2>1, FS_Interval, SMTT(40)
    <2> QED  BY <1>4, <2>1, <2>2
  <1>6. \A i \in 1 .. Len(c) : way[i - 1] = c[i]
    <2> TAKE i \in 1 .. Len(c)
    <2>1. i - 1 \in Steps /\ i - 1 < Len(c) /\ (i - 1) + 1 = i
      BY <1>1 DEF Steps
    <2> QED  BY <1>2, <2>1
  <1>7. Walk(n, link) = [i \in 1 .. Len(c) |-> c[i]]
    <2> HIDE DEF met
    <2> QED  BY <1>3, <1>5, <1>6
  <1>8. c = [i \in 1 .. Len(c) |-> c[i]]
    BY LenProperties
  <1> QED  BY <1>7, <1>8

-----------------------------------------------------------------------------
(***************************************************************************)
(* r is q with x inserted before position p, which is what append, prepend *)
(* and thread_queue_insert_at_priority make of a list.                     *)
(***************************************************************************)
IsInsertion(r, q, p, x) ==
    /\ Len(r) = Len(q) + 1
    /\ \A i \in 1 .. p - 1 : r[i] = q[i]
    /\ r[p] = x
    /\ \A i \in p + 1 .. Len(q) + 1 : r[i] = q[i - 1]

\* An insertion adds x, and nothing else.
LEMMA InsertionMembers ==
    ASSUME NEW S, NEW q \in Seq(S), NEW r \in Seq(S), NEW x \in S,
           NEW p \in 1 .. Len(q) + 1, IsInsertion(r, q, p, x)
    PROVE  /\ r # << >>
           /\ \A t : InQueue(t, r) <=> InQueue(t, q) \/ t = x
           /\ Distinct(q) /\ ~InQueue(x, q) => Distinct(r)
  <1>1. Len(q) \in Nat /\ Len(r) = Len(q) + 1 /\ r # << >>
    BY LenProperties, EmptySeq DEF IsInsertion
  <1>2. \A t : InQueue(t, r) <=> InQueue(t, q) \/ t = x
    <2> TAKE t
    <2>1. ASSUME NEW i \in 1 .. Len(r), r[i] = t
          PROVE  InQueue(t, q) \/ t = x
      <3>1. CASE i < p
        BY <1>1, <2>1, <3>1 DEF IsInsertion, InQueue
      <3>2. CASE i = p
        BY <2>1, <3>2 DEF IsInsertion
      <3>3. CASE i > p
        <4>1. i - 1 \in 1 .. Len(q) /\ q[i - 1] = t
          BY <1>1, <2>1, <3>3 DEF IsInsertion
        <4> QED  BY <4>1 DEF InQueue
      <3> QED  BY <1>1, <3>1, <3>2, <3>3
    <2>2. ASSUME NEW i \in 1 .. Len(q), q[i] = t
          PROVE  InQueue(t, r)
      <3>1. CASE i < p
        BY <1>1, <2>2, <3>1 DEF IsInsertion, InQueue
      <3>2. CASE i >= p
        <4>1. i + 1 \in 1 .. Len(r) /\ i + 1 \in p + 1 .. Len(q) + 1
              /\ (i + 1) - 1 = i
          BY <1>1, <3>2
        <4>2. r[i + 1] = t
          BY <2>2, <4>1 DEF IsInsertion
        <4> QED  BY <4>1, <4>2 DEF InQueue
      <3> QED  BY <1>1, <3>1, <3>2
    <2>3. InQueue(x, r)
      BY <1>1 DEF IsInsertion, InQueue
    <2> QED  BY <2>1, <2>2, <2>3 DEF InQueue
  <1>3. ASSUME Distinct(q), ~InQueue(x, q)
        PROVE  Distinct(r)
    <2> DEFINE k(i) == IF i < p THEN i ELSE i - 1
    <2>1. \A i \in 1 .. Len(r) : i # p =>
              k(i) \in 1 .. Len(q) /\ r[i] = q[k(i)] /\ r[i] # x
      <3> TAKE i \in 1 .. Len(r)
      <3>1. CASE i < p
        BY <1>1, <1>3, <3>1 DEF IsInsertion, InQueue
      <3>2. CASE i > p
        <4>1. i \in p + 1 .. Len(q) + 1 /\ i - 1 \in 1 .. Len(q) /\ k(i) = i - 1
          BY <1>1, <3>2
        <4> QED  BY <1>3, <4>1 DEF IsInsertion, InQueue
      <3> QED  BY <1>1, <3>1, <3>2
    <2>2. ASSUME NEW i \in 1 .. Len(r), NEW j \in 1 .. Len(r), r[i] = r[j]
          PROVE  i = j
      <3>1. CASE i = p \/ j = p
        <4>1. r[p] = x /\ \A h \in 1 .. Len(r) : h # p => r[h] # x
          BY <2>1 DEF IsInsertion
        <4> QED  BY <2>2, <3>1, <4>1
      <3>2. CASE i # p /\ j # p
        <4>1. k(i) = k(j)
          <5> HIDE DEF k
          <5> QED  BY <1>3, <2>1, <2>2, <3>2 DEF Distinct
        <4> QED  BY <1>1, <3>2, <4>1
      <3> QED  BY <3>1, <3>2
    <2> QED  BY <2>2 DEF Distinct
  <1> QED  BY <1>1, <1>2, <1>3

\* Append is an insertion behind the last.
LEMMA AppendIsInsertion ==
    ASSUME NEW S, NEW q \in Seq(S), NEW x \in S
    PROVE  /\ Append(q, x) \in Seq(S)
           /\ Len(q) + 1 \in 1 .. Len(q) + 1
           /\ IsInsertion(Append(q, x), q, Len(q) + 1, x)
  BY AppendProperties, LenProperties DEF IsInsertion

\* A node put in front of a sequence.
LEMMA PrependIsInsertion ==
    ASSUME NEW S, NEW q \in Seq(S), NEW x \in S
    PROVE  /\ << x >> \o q \in Seq(S)
           /\ 1 \in 1 .. Len(q) + 1
           /\ IsInsertion(<< x >> \o q, q, 1, x)
  <1>1. << x >> \in Seq(S) /\ Len(<< x >>) = 1 /\ << x >>[1] = x
    OBVIOUS
  <1>2. Len(q) \in Nat
    BY LenProperties
  <1>3. << x >> \o q \in Seq(S)
        /\ Len(<< x >> \o q) = Len(<< x >>) + Len(q)
        /\ \A i \in 1 .. Len(<< x >>) + Len(q) : (<< x >> \o q)[i] =
               IF i <= Len(<< x >>) THEN << x >>[i] ELSE q[i - Len(<< x >>)]
    BY <1>1, ConcatProperties
  <1> QED  BY <1>1, <1>2, <1>3 DEF IsInsertion

\* InsertAt, at every position up to the one behind the last.
LEMMA InsertAtIsInsertion ==
    ASSUME NEW S, NEW q \in Seq(S), NEW x \in S, NEW p \in 1 .. Len(q) + 1
    PROVE  InsertAt(q, p, x) \in Seq(S) /\ IsInsertion(InsertAt(q, p, x), q, p, x)
  <1> DEFINE a == SubSeq(q, 1, p - 1)
             b == << x >>
             c == SubSeq(q, p, Len(q))
  <1>1. Len(q) \in Nat /\ \A i \in 1 .. Len(q) : q[i] \in S
    BY LenProperties
  <1>2. a \in Seq(S) /\ Len(a) = p - 1 /\ \A i \in 1 .. p - 1 : a[i] = q[i]
    BY <1>1, SubSeqProperties
  <1>3. b \in Seq(S) /\ Len(b) = 1 /\ b[1] = x
    OBVIOUS
  <1>4. /\ c \in Seq(S) /\ Len(c) = Len(q) - p + 1
        /\ \A i \in 1 .. Len(q) - p + 1 : c[i] = q[p + i - 1]
    BY <1>1, SubSeqProperties
  <1> HIDE DEF a, b, c
  <1> DEFINE d == a \o b
             r == d \o c
  <1>5. /\ d \in Seq(S) /\ Len(d) = p
        /\ \A i \in 1 .. p - 1 : d[i] = q[i]
        /\ d[p] = x
    <2>1. /\ d \in Seq(S) /\ Len(d) = Len(a) + Len(b)
          /\ \A i \in 1 .. Len(a) + Len(b) :
                 d[i] = IF i <= Len(a) THEN a[i] ELSE b[i - Len(a)]
      BY <1>2, <1>3, ConcatProperties
    <2> HIDE DEF d
    <2> QED  BY <1>1, <1>2, <1>3, <2>1
  <1>6. InsertAt(q, p, x) = r
    BY DEF InsertAt, a, b, c
  <1> HIDE DEF d
  <1>7. /\ r \in Seq(S) /\ Len(r) = Len(d) + Len(c)
        /\ \A i \in 1 .. Len(d) + Len(c) :
               r[i] = IF i <= Len(d) THEN d[i] ELSE c[i - Len(d)]
    BY <1>4, <1>5, ConcatProperties
  <1> HIDE DEF r
  <1>8. r \in Seq(S) /\ Len(r) = Len(q) + 1 /\ r[p] = x
        /\ \A i \in 1 .. p - 1 : r[i] = q[i]
    BY <1>1, <1>4, <1>5, <1>7
  <1>9. ASSUME NEW i \in p + 1 .. Len(q) + 1
        PROVE  r[i] = q[i - 1]
    <2>1. r[i] = c[i - p] /\ i - p \in 1 .. Len(q) - p + 1
      BY <1>1, <1>4, <1>5, <1>7
    <2> QED  BY <1>1, <1>4, <2>1
  <1> QED  BY <1>6, <1>8, <1>9 DEF IsInsertion

\* An entry is taken off a sequence.
LEMMA RemoveAtProperties ==
    ASSUME NEW S, NEW q \in Seq(S), NEW i \in 1 .. Len(q)
    PROVE  /\ RemoveAt(q, i) \in Seq(S) /\ Len(RemoveAt(q, i)) = Len(q) - 1
           /\ \A j \in 1 .. Len(q) - 1 :
                 RemoveAt(q, i)[j] = q[IF j < i THEN j ELSE j + 1]
  <1> DEFINE a == SubSeq(q, 1, i - 1)
             b == SubSeq(q, i + 1, Len(q))
  <1>1. Len(q) \in Nat /\ i \in Nat
    BY LenProperties
  <1>2. /\ a \in Seq(S) /\ Len(a) = i - 1
        /\ \A j \in 1 .. i - 1 : a[j] = q[j]
    <2>1. \A j \in 1 .. i - 1 : j \in 1 .. Len(q)  BY <1>1
    <2> QED  BY <1>1, <2>1, SubSeqProperties, Z3
  <1>3. /\ b \in Seq(S) /\ Len(b) = Len(q) - i
        /\ \A j \in 1 .. Len(q) - i : b[j] = q[i + j]
    BY <1>1, SubSeqProperties
  <1> HIDE DEF a, b
  <1>4. /\ a \o b \in Seq(S) /\ Len(a \o b) = Len(q) - 1
        /\ \A j \in 1 .. Len(q) - 1 :
              (a \o b)[j] = IF j <= i - 1 THEN a[j] ELSE b[j - (i - 1)]
    <2>1. /\ a \o b \in Seq(S) /\ Len(a \o b) = Len(a) + Len(b)
          /\ \A j \in 1 .. Len(a) + Len(b) :
                (a \o b)[j] = IF j <= Len(a) THEN a[j] ELSE b[j - Len(a)]
      BY <1>2, <1>3, ConcatProperties
    <2>2. Len(a) + Len(b) = Len(q) - 1
      BY <1>1, <1>2, <1>3
    <2> QED  BY <1>2, <2>1, <2>2, Zenon
  <1>5. RemoveAt(q, i) = a \o b
    BY DEF RemoveAt, a, b
  <1>6. ASSUME NEW j \in 1 .. Len(q) - 1
        PROVE  (a \o b)[j] = q[IF j < i THEN j ELSE j + 1]
    <2>1. CASE j < i
      BY <1>1, <1>2, <1>4, <2>1
    <2>2. CASE ~(j < i)
      <3>1. j - (i - 1) \in 1 .. Len(q) - i /\ i + (j - (i - 1)) = j + 1
        BY <1>1, <2>2
      <3>2. (a \o b)[j] = b[j - (i - 1)]
        BY <1>1, <1>4, <2>2
      <3>3. b[j - (i - 1)] = q[i + (j - (i - 1))]
        BY <1>3, <3>1
      <3> QED  BY <2>2, <3>1, <3>2, <3>3
    <2> QED  BY <2>1, <2>2
  <1> QED  BY <1>4, <1>5, <1>6

-----------------------------------------------------------------------------
(***************************************************************************)
(* f is the next links, or the prev links, of a list that holds c.         *)
(***************************************************************************)
NextLinks(c, f) == \A i \in 1 .. Len(c) : f[c[i]] = IF i < Len(c) THEN c[i + 1] ELSE Null
PrevLinks(c, f) == \A i \in 1 .. Len(c) : f[c[i]] = IF i > 1 THEN c[i - 1] ELSE Null

\* Node n is put before position p: the links are f before and g after.
NextIn(c, n, p, f, g) ==
    /\ g[n] = IF p <= Len(c) THEN c[p] ELSE Null
    /\ p > 1 => g[c[p - 1]] = n
    /\ \A i \in 1 .. Len(c) : i # p - 1 => g[c[i]] = f[c[i]]

PrevIn(c, n, p, f, g) ==
    /\ g[n] = IF p > 1 THEN c[p - 1] ELSE Null
    /\ p <= Len(c) => g[c[p]] = n
    /\ \A i \in 1 .. Len(c) : i # p => g[c[i]] = f[c[i]]

\* The node at position p is taken out.
NextOut(c, p, f, g) ==
    /\ p > 1 => g[c[p - 1]] = f[c[p]]
    /\ \A i \in 1 .. Len(c) : i # p - 1 /\ i # p => g[c[i]] = f[c[i]]

PrevOut(c, p, f, g) ==
    /\ p < Len(c) => g[c[p + 1]] = f[c[p]]
    /\ \A i \in 1 .. Len(c) : i # p + 1 /\ i # p => g[c[i]] = f[c[i]]

\* The links after an insertion are those of the longer sequence.
LEMMA NextInserted ==
    ASSUME NEW c \in Seq(Nodes), NEW n, NEW p \in 1 .. Len(c) + 1,
           NEW s, IsInsertion(s, c, p, n),
           NEW f, NEW g, NextLinks(c, f), NextIn(c, n, p, f, g)
    PROVE  NextLinks(s, g)
  <1> USE DEF NextLinks, NextIn
  <1>1. /\ Len(c) \in Nat /\ Len(s) = Len(c) + 1 /\ s[p] = n
        /\ \A i \in 1 .. p - 1 : s[i] = c[i]
        /\ \A i \in p + 1 .. Len(c) + 1 : s[i] = c[i - 1]
    BY LenProperties DEF IsInsertion
  <1> TAKE i \in 1 .. Len(s)
  <1>2. CASE i < p - 1
    <2>1. s[i] = c[i] /\ s[i + 1] = c[i + 1] /\ i \in 1 .. Len(c) /\ i < Len(c) /\ i < Len(s)
          /\ i # p - 1
      BY <1>1, <1>2
    <2> QED  BY <2>1
  <1>3. CASE i = p - 1
    <2>1. s[i] = c[p - 1] /\ s[i + 1] = n /\ p > 1 /\ i < Len(s)
      BY <1>1, <1>3
    <2> QED  BY <2>1
  <1>4. CASE i = p
    <2>1. s[i] = n /\ (i < Len(s) <=> p <= Len(c))
      BY <1>1, <1>4
    <2>2. p <= Len(c) => s[i + 1] = c[p]
      <3> SUFFICES ASSUME p <= Len(c) PROVE s[i + 1] = c[p]
        OBVIOUS
      <3>1. p + 1 \in p + 1 .. Len(c) + 1 /\ (p + 1) - 1 = p
        BY <1>1
      <3> QED  BY <1>1, <1>4, <3>1
    <2> QED  BY <2>1, <2>2
  <1>5. CASE i > p
    <2>1. i - 1 \in 1 .. Len(c) /\ i - 1 # p - 1 /\ i \in p + 1 .. Len(c) + 1
          /\ (i < Len(s) <=> i - 1 < Len(c)) /\ (i - 1) + 1 = i
      BY <1>1, <1>5
    <2>2. g[s[i]] = IF i - 1 < Len(c) THEN c[i] ELSE Null
      BY <1>1, <2>1
    <2>3. i < Len(s) => s[i + 1] = c[i]
      <3> SUFFICES ASSUME i < Len(s) PROVE s[i + 1] = c[i]
        OBVIOUS
      <3>1. i + 1 \in p + 1 .. Len(c) + 1 /\ (i + 1) - 1 = i
        BY <1>1, <1>5
      <3> QED  BY <1>1, <3>1
    <2> QED  BY <2>1, <2>2, <2>3
  <1> QED  BY <1>1, <1>2, <1>3, <1>4, <1>5

\* The same along prev.
LEMMA PrevInserted ==
    ASSUME NEW c \in Seq(Nodes), NEW n, NEW p \in 1 .. Len(c) + 1,
           NEW s, IsInsertion(s, c, p, n),
           NEW f, NEW g, PrevLinks(c, f), PrevIn(c, n, p, f, g)
    PROVE  PrevLinks(s, g)
  <1> USE DEF PrevLinks, PrevIn
  <1>1. /\ Len(c) \in Nat /\ Len(s) = Len(c) + 1 /\ s[p] = n
        /\ \A i \in 1 .. p - 1 : s[i] = c[i]
        /\ \A i \in p + 1 .. Len(c) + 1 : s[i] = c[i - 1]
    BY LenProperties DEF IsInsertion
  <1> TAKE i \in 1 .. Len(s)
  <1>2. CASE i < p
    <2>1. s[i] = c[i] /\ i \in 1 .. Len(c) /\ i # p /\ (i > 1 => s[i - 1] = c[i - 1])
      BY <1>1, <1>2
    <2> QED  BY <2>1
  <1>3. CASE i = p
    <2>1. s[i] = n /\ (i > 1 => s[i - 1] = c[p - 1])
      BY <1>1, <1>3
    <2> QED  BY <1>3, <2>1
  <1>4. CASE i = p + 1
    <2>1. i \in p + 1 .. Len(c) + 1 /\ i - 1 = p /\ i > 1 /\ p <= Len(c)
      BY <1>1, <1>4
    <2>2. s[i] = c[p] /\ s[i - 1] = n
      BY <1>1, <2>1
    <2> QED  BY <2>1, <2>2
  <1>5. CASE i > p + 1
    <2>1. /\ i - 1 \in 1 .. Len(c) /\ i - 1 # p /\ i - 1 > 1 /\ i > 1
          /\ i \in p + 1 .. Len(c) + 1 /\ i - 1 \in p + 1 .. Len(c) + 1
      BY <1>1, <1>5
    <2>2. s[i] = c[i - 1] /\ s[i - 1] = c[i - 1 - 1]
      BY <1>1, <2>1
    <2> QED  BY <2>1, <2>2
  <1> QED  BY <1>1, <1>2, <1>3, <1>4, <1>5

\* The links after a removal are those of the shorter sequence.
LEMMA NextRemoved ==
    ASSUME NEW c \in Seq(Nodes), NEW p \in 1 .. Len(c),
           NEW f, NEW g, NextLinks(c, f), NextOut(c, p, f, g)
    PROVE  NextLinks(RemoveAt(c, p), g)
  <1> USE DEF NextLinks, NextOut
  <1> DEFINE s == RemoveAt(c, p)
  <1>0. /\ Len(c) \in Nat /\ Len(s) = Len(c) - 1
        /\ \A j \in 1 .. Len(c) - 1 : s[j] = c[IF j < p THEN j ELSE j + 1]
    BY LenProperties, RemoveAtProperties
  <1> HIDE DEF s
  <1>1. /\ Len(c) \in Nat /\ Len(s) = Len(c) - 1
        /\ \A j \in 1 .. Len(c) - 1 : j < p => s[j] = c[j]
        /\ \A j \in 1 .. Len(c) - 1 : j >= p => s[j] = c[j + 1]
    <2>1. ASSUME NEW j \in 1 .. Len(c) - 1, j < p  PROVE s[j] = c[j]
      BY <1>0, <2>1
    <2>2. ASSUME NEW j \in 1 .. Len(c) - 1, j >= p  PROVE s[j] = c[j + 1]
      <3>1. ~(j < p)
        BY <1>0, <2>2
      <3> QED  BY <1>0, <3>1
    <2> QED  BY <1>0, <2>1, <2>2
  <1> SUFFICES ASSUME NEW i \in 1 .. Len(s)
               PROVE  g[s[i]] = IF i < Len(s) THEN s[i + 1] ELSE Null
    BY DEF s
  <1>2. CASE i < p - 1
    <2>1. s[i] = c[i] /\ s[i + 1] = c[i + 1] /\ i \in 1 .. Len(c) /\ i < Len(c) /\ i < Len(s)
          /\ i # p - 1 /\ i # p
      BY <1>1, <1>2
    <2> QED  BY <2>1
  <1>3. CASE i = p - 1
    <2>1. s[i] = c[p - 1] /\ p > 1 /\ (i < Len(s) <=> p < Len(c))
          /\ (i < Len(s) => s[i + 1] = c[p + 1])
      BY <1>1, <1>3
    <2> QED  BY <2>1
  <1>4. CASE i >= p
    <2>1. s[i] = c[i + 1] /\ i + 1 \in 1 .. Len(c) /\ i + 1 # p /\ i + 1 # p - 1
          /\ (i < Len(s) <=> i + 1 < Len(c)) /\ (i < Len(s) => s[i + 1] = c[i + 1 + 1])
      BY <1>1, <1>4
    <2> QED  BY <2>1
  <1> QED  BY <1>1, <1>2, <1>3, <1>4

\* The same along prev.
LEMMA PrevRemoved ==
    ASSUME NEW c \in Seq(Nodes), NEW p \in 1 .. Len(c),
           NEW f, NEW g, PrevLinks(c, f), PrevOut(c, p, f, g)
    PROVE  PrevLinks(RemoveAt(c, p), g)
  <1> USE DEF PrevLinks, PrevOut
  <1> DEFINE s == RemoveAt(c, p)
  <1>0. /\ Len(c) \in Nat /\ Len(s) = Len(c) - 1
        /\ \A j \in 1 .. Len(c) - 1 : s[j] = c[IF j < p THEN j ELSE j + 1]
    BY LenProperties, RemoveAtProperties
  <1> HIDE DEF s
  <1>1. /\ Len(c) \in Nat /\ Len(s) = Len(c) - 1
        /\ \A j \in 1 .. Len(c) - 1 : j < p => s[j] = c[j]
        /\ \A j \in 1 .. Len(c) - 1 : j >= p => s[j] = c[j + 1]
    <2>1. ASSUME NEW j \in 1 .. Len(c) - 1, j < p  PROVE s[j] = c[j]
      BY <1>0, <2>1
    <2>2. ASSUME NEW j \in 1 .. Len(c) - 1, j >= p  PROVE s[j] = c[j + 1]
      <3>1. ~(j < p)
        BY <1>0, <2>2
      <3> QED  BY <1>0, <3>1
    <2> QED  BY <1>0, <2>1, <2>2
  <1> SUFFICES ASSUME NEW i \in 1 .. Len(s)
               PROVE  g[s[i]] = IF i > 1 THEN s[i - 1] ELSE Null
    BY DEF s
  <1>2. CASE i < p
    <2>1. s[i] = c[i] /\ i \in 1 .. Len(c) /\ i # p /\ i # p + 1
          /\ (i > 1 => s[i - 1] = c[i - 1])
      BY <1>1, <1>2
    <2> QED  BY <2>1
  <1>3. CASE i = p
    <2>1. s[i] = c[p + 1] /\ p < Len(c) /\ (i > 1 => s[i - 1] = c[p - 1])
      BY <1>1, <1>3
    <2> QED  BY <1>3, <2>1
  <1>4. CASE i > p
    <2>1. s[i] = c[i + 1] /\ i + 1 \in 1 .. Len(c) /\ i + 1 # p /\ i + 1 # p + 1
          /\ i > 1 /\ i + 1 > 1 /\ s[i - 1] = c[i] /\ (i + 1) - 1 = i
      BY <1>1, <1>4
    <2> QED  BY <2>1
  <1> QED  BY <1>1, <1>2, <1>3, <1>4

\* Taking an entry out of a sequence without repetitions adds nothing to it.
LEMMA RemoveMembers ==
    ASSUME NEW c \in Seq(Nodes), NEW p \in 1 .. Len(c), Distinct(c)
    PROVE  /\ Distinct(RemoveAt(c, p))
           /\ \A x : InQueue(x, RemoveAt(c, p)) => InQueue(x, c)
  <1> DEFINE s == RemoveAt(c, p)
             k(j) == IF j < p THEN j ELSE j + 1
  <1>1. /\ Len(c) \in Nat /\ Len(s) = Len(c) - 1
        /\ \A j \in 1 .. Len(c) - 1 : s[j] = c[k(j)]
    BY LenProperties, RemoveAtProperties
  <1>2. \A j \in 1 .. Len(c) - 1 : k(j) \in 1 .. Len(c)
    BY <1>1
  <1>3. \A i, j \in 1 .. Len(c) - 1 : k(i) = k(j) => i = j
    BY <1>1
  <1> HIDE DEF s, k
  <1>4. Distinct(s)
    BY <1>1, <1>2, <1>3 DEF Distinct
  <1>5. \A x : InQueue(x, s) => InQueue(x, c)
    BY <1>1, <1>2 DEF InQueue
  <1> QED  BY <1>4, <1>5 DEF s

-----------------------------------------------------------------------------
\* The members of a list are nodes, each of them once.
LEMMA Members ==
    ASSUME NEW q, Apart(q), NEW l \in Lists
    PROVE  /\ q[l] \in Seq(Nodes) /\ Len(q[l]) \in Nat /\ Distinct(q[l])
           /\ \A i \in 1 .. Len(q[l]) :
                 q[l][i] \in Nodes /\ q[l][i] # Null /\ InQueue(q[l][i], q[l])
           /\ (q[l] = << >>) <=> (Len(q[l]) = 0)
  BY LenProperties, EmptySeq, NodeAssumption DEF Apart, InQueue

\* A node that is in no list may be put into one.
LEMMA InsertApart ==
    ASSUME NEW q, Apart(q), NEW l \in Lists, NEW n \in Nodes,
           \A m \in Lists : ~InQueue(n, q[m]),
           NEW s \in Seq(Nodes), NEW p \in 1 .. Len(q[l]) + 1, IsInsertion(s, q[l], p, n)
    PROVE  Apart([q EXCEPT ![l] = s])
  <1> DEFINE r == [q EXCEPT ![l] = s]
  <1>1. q[l] \in Seq(Nodes) /\ Distinct(q[l])
    BY Members
  <1>2. Distinct(s) /\ \A x : InQueue(x, s) <=> InQueue(x, q[l]) \/ x = n
    BY <1>1, InsertionMembers
  <1>3. /\ r \in [Lists -> Seq(Nodes)] /\ r[l] = s
        /\ \A m \in Lists : m # l => r[m] = q[m]
    BY DEF Apart
  <1> HIDE DEF r
  <1> QED  BY <1>2, <1>3 DEF Apart, r

\* A removal leaves the lists apart.
LEMMA RemoveApart ==
    ASSUME NEW q, Apart(q), NEW l \in Lists, NEW p \in 1 .. Len(q[l])
    PROVE  Apart([q EXCEPT ![l] = RemoveAt(q[l], p)])
  <1> DEFINE s == RemoveAt(q[l], p)
             r == [q EXCEPT ![l] = s]
  <1>1. q[l] \in Seq(Nodes) /\ Distinct(q[l])
    BY Members
  <1>2. s \in Seq(Nodes) /\ Distinct(s) /\ \A x : InQueue(x, s) => InQueue(x, q[l])
    BY <1>1, RemoveMembers, RemoveAtProperties
  <1> HIDE DEF s
  <1>3. /\ r \in [Lists -> Seq(Nodes)] /\ r[l] = s
        /\ \A m \in Lists : m # l => r[m] = q[m]
    BY <1>2 DEF Apart
  <1> HIDE DEF r
  <1>4. Apart(r)
    BY <1>2, <1>3 DEF Apart
  <1> QED  BY <1>4 DEF r, s

\* The nodes of two lists, one behind the other.
LEMMA ConcatMembers ==
    ASSUME NEW c \in Seq(Nodes), NEW d \in Seq(Nodes)
    PROVE  /\ c \o d \in Seq(Nodes) /\ Len(c) \in Nat /\ Len(d) \in Nat
           /\ Len(c \o d) = Len(c) + Len(d)
           /\ \A i \in 1 .. Len(c) : (c \o d)[i] = c[i]
           /\ \A i \in 1 .. Len(d) : (c \o d)[Len(c) + i] = d[i]
           /\ \A x : InQueue(x, c \o d) <=> InQueue(x, c) \/ InQueue(x, d)
  <1> DEFINE s == c \o d
  <1>1. /\ s \in Seq(Nodes) /\ Len(s) = Len(c) + Len(d)
        /\ \A i \in 1 .. Len(c) + Len(d) :
              s[i] = IF i <= Len(c) THEN c[i] ELSE d[i - Len(c)]
    BY ConcatProperties
  <1>2. Len(c) \in Nat /\ Len(d) \in Nat
    BY LenProperties
  <1> HIDE DEF s
  <1>3. \A i \in 1 .. Len(c) : i \in 1 .. Len(s) /\ s[i] = c[i]
    BY <1>1, <1>2
  <1>4. \A i \in 1 .. Len(d) : Len(c) + i \in 1 .. Len(s) /\ s[Len(c) + i] = d[i]
    <2> TAKE i \in 1 .. Len(d)
    <2>1. /\ Len(c) + i \in 1 .. Len(c) + Len(d) /\ ~(Len(c) + i <= Len(c))
          /\ (Len(c) + i) - Len(c) = i
      BY <1>2
    <2> QED  BY <1>1, <2>1
  <1>5. ASSUME NEW i \in 1 .. Len(s)
        PROVE  InQueue(s[i], c) \/ InQueue(s[i], d)
    <2>1. CASE i <= Len(c)
      BY <1>1, <1>2, <2>1 DEF InQueue
    <2>2. CASE ~(i <= Len(c))
      <3>1. i - Len(c) \in 1 .. Len(d) /\ s[i] = d[i - Len(c)]
        BY <1>1, <1>2, <2>2
      <3> QED  BY <3>1 DEF InQueue
    <2> QED  BY <2>1, <2>2
  <1>6. \A x : InQueue(x, s) <=> InQueue(x, c) \/ InQueue(x, d)
    <2> TAKE x
    <2>1. InQueue(x, s) => InQueue(x, c) \/ InQueue(x, d)
      BY <1>5 DEF InQueue
    <2>2. InQueue(x, c) => InQueue(x, s)
      BY <1>3 DEF InQueue
    <2>3. InQueue(x, d) => InQueue(x, s)
      BY <1>4 DEF InQueue
    <2> QED  BY <2>1, <2>2, <2>3
  <1> QED  BY <1>1, <1>2, <1>3, <1>4, <1>6 DEF s

\* So does moving all nodes of one list into another.
LEMMA ConcatApart ==
    ASSUME NEW q, Apart(q), NEW l \in Lists, NEW m \in Lists, l # m
    PROVE  Apart([q EXCEPT ![l] = q[l] \o q[m], ![m] = << >>])
  <1> DEFINE c == q[l]
             d == q[m]
             s == c \o d
             r == [q EXCEPT ![l] = s, ![m] = << >>]
  <1>1. /\ c \in Seq(Nodes) /\ Distinct(c) /\ d \in Seq(Nodes) /\ Distinct(d)
        /\ \A x \in Nodes : ~(InQueue(x, c) /\ InQueue(x, d))
    BY Members DEF Apart
  <1>2. << >> \in Seq(Nodes) /\ \A x : ~InQueue(x, << >>)
    BY DEF InQueue
  <1>3. r[l] = s /\ r[m] = << >> /\ \A h \in Lists : h # l /\ h # m => r[h] = q[h]
    BY DEF Apart
  <1>4. /\ s \in Seq(Nodes) /\ Len(c) \in Nat /\ Len(d) \in Nat
        /\ Len(s) = Len(c) + Len(d)
        /\ \A i \in 1 .. Len(c) : s[i] = c[i]
        /\ \A i \in 1 .. Len(d) : s[Len(c) + i] = d[i]
        /\ \A x : InQueue(x, s) <=> InQueue(x, c) \/ InQueue(x, d)
    BY <1>1, ConcatMembers
  <1>5. r \in [Lists -> Seq(Nodes)]
    BY <1>2, <1>4 DEF Apart
  <1>6. Distinct(<< >>)
    BY DEF Distinct
  <1>9. \A a, b \in Lists : a # b =>
           \A n \in Nodes : ~(InQueue(n, q[a]) /\ InQueue(n, q[b]))
    BY DEF Apart
  <1>10. \A a \in Lists : Distinct(q[a])
    BY DEF Apart
  <1> HIDE DEF r, s, c, d
  <1>7. Distinct(s)
    <2> SUFFICES ASSUME NEW i \in 1 .. Len(s), NEW j \in 1 .. Len(s), s[i] = s[j]
                 PROVE  i = j
      BY DEF Distinct
    <2>0. /\ \A k \in 1 .. Len(c) : c[k] \in Nodes /\ InQueue(c[k], c)
          /\ \A k \in 1 .. Len(d) : d[k] \in Nodes /\ InQueue(d[k], d)
      BY <1>1 DEF InQueue
    <2>1. \A k \in 1 .. Len(s) : ~(k \in 1 .. Len(c)) =>
             k - Len(c) \in 1 .. Len(d) /\ Len(c) + (k - Len(c)) = k
      BY <1>4
    <2>2. CASE i \in 1 .. Len(c) /\ j \in 1 .. Len(c)
      BY <1>1, <1>4, <2>2 DEF Distinct
    <2>3. CASE i \notin 1 .. Len(c) /\ j \notin 1 .. Len(c)
      <3>1. d[i - Len(c)] = d[j - Len(c)]
        BY <1>4, <2>1, <2>3
      <3>2. i - Len(c) = j - Len(c)
        BY <1>1, <2>1, <2>3, <3>1 DEF Distinct
      <3> QED  BY <1>4, <3>2
    <2>4. CASE i \in 1 .. Len(c) /\ j \notin 1 .. Len(c)
      <3>1. s[i] = c[i] /\ s[j] = d[j - Len(c)] /\ j - Len(c) \in 1 .. Len(d)
        BY <1>4, <2>1, <2>4
      <3> QED  BY <1>1, <2>0, <2>4, <3>1
    <2>5. CASE i \notin 1 .. Len(c) /\ j \in 1 .. Len(c)
      <3>1. s[j] = c[j] /\ s[i] = d[i - Len(c)] /\ i - Len(c) \in 1 .. Len(d)
        BY <1>4, <2>1, <2>5
      <3> QED  BY <1>1, <2>0, <2>5, <3>1
    <2> QED  BY <2>2, <2>3, <2>4, <2>5
  <1>8. \A a \in Lists : Distinct(r[a])
    BY <1>3, <1>6, <1>7, <1>10
  <1>11. ASSUME NEW a \in Lists, NEW n \in Nodes, a # l, InQueue(n, r[a])
         PROVE  a # m /\ InQueue(n, q[a]) /\ ~InQueue(n, s)
    <2>1. a # m
      BY <1>2, <1>3, <1>11
    <2>2. InQueue(n, q[a])
      BY <1>3, <1>11, <2>1
    <2>3. ~InQueue(n, c) /\ ~InQueue(n, d)
      BY <1>9, <1>11, <2>1, <2>2 DEF c, d
    <2> QED  BY <1>4, <2>1, <2>2, <2>3
  <1>12. ASSUME NEW a \in Lists, NEW b \in Lists, a # b, NEW n \in Nodes
         PROVE  ~(InQueue(n, r[a]) /\ InQueue(n, r[b]))
    BY <1>3, <1>9, <1>11, <1>12
  <1>13. Apart(r)
    BY <1>5, <1>8, <1>12 DEF Apart
  <1> QED  BY <1>13 DEF r, s, c, d

-----------------------------------------------------------------------------
(***************************************************************************)
(* What an insertion before position p of list l, which holds c, does to   *)
(* the pointers: it sets the ends of the list where n becomes one, the     *)
(* links of n, those of its two neighbours, and no others.                 *)
(***************************************************************************)
LinksIn(c, l, n, p) ==
    /\ head' = IF p = 1 THEN [head EXCEPT ![l] = n] ELSE head
    /\ tail' = IF p = Len(c) + 1 THEN [tail EXCEPT ![l] = n] ELSE tail
    /\ next'[n] = IF p <= Len(c) THEN c[p] ELSE Null
    /\ prev'[n] = IF p > 1 THEN c[p - 1] ELSE Null
    /\ p > 1 => next'[c[p - 1]] = n
    /\ p <= Len(c) => prev'[c[p]] = n
    /\ \A x \in Nodes : x # n /\ (p > 1 => x # c[p - 1]) => next'[x] = next[x]
    /\ \A x \in Nodes : x # n /\ (p <= Len(c) => x # c[p]) => prev'[x] = prev[x]

(***************************************************************************)
(* What taking out the node at position p does: its neighbours get its     *)
(* links, and it may keep or lose them.                                    *)
(***************************************************************************)
LinksOut(c, l, p) ==
    /\ head' = IF p = 1 THEN [head EXCEPT ![l] = next[c[p]]] ELSE head
    /\ tail' = IF p = Len(c) THEN [tail EXCEPT ![l] = prev[c[p]]] ELSE tail
    /\ p > 1 => next'[c[p - 1]] = next[c[p]]
    /\ p < Len(c) => prev'[c[p + 1]] = prev[c[p]]
    /\ \A x \in Nodes : x # c[p] /\ (p > 1 => x # c[p - 1]) => next'[x] = next[x]
    /\ \A x \in Nodes : x # c[p] /\ (p < Len(c) => x # c[p + 1]) => prev'[x] = prev[x]

\* A list whose ends and whose nodes' links are left alone.
LEMMA HoldsStill ==
    ASSUME NEW m, NEW c, Holds(m, c), head'[m] = head[m], tail'[m] = tail[m],
           \A i \in 1 .. Len(c) : next'[c[i]] = next[c[i]] /\ prev'[c[i]] = prev[c[i]]
    PROVE  Holds(m, c)'
  BY DEF Holds

\* The pointer changes of an insertion leave the longer sequence.
LEMMA InsertHolds ==
    ASSUME Types, NEW q, Represents(q), NEW l \in Lists, NEW n \in Nodes,
           \A m \in Lists : ~InQueue(n, q[m]),
           NEW s \in Seq(Nodes), NEW p \in 1 .. Len(q[l]) + 1, IsInsertion(s, q[l], p, n),
           LinksIn(q[l], l, n, p)
    PROVE  Represents([q EXCEPT ![l] = s])'
  <1> DEFINE r == [q EXCEPT ![l] = s]
  <1>0. Apart(q) /\ Apart(r)
    BY InsertApart DEF Represents
  <1>1. r[l] = s /\ \A m \in Lists : m # l => r[m] = q[m]
    BY <1>0 DEF Apart
  <1>2. PICK c : c = q[l]
    OBVIOUS
  <1>3. /\ c \in Seq(Nodes) /\ Len(c) \in Nat /\ Distinct(c)
        /\ \A i \in 1 .. Len(c) : c[i] \in Nodes /\ c[i] # Null /\ InQueue(c[i], c)
        /\ (c = << >>) <=> (Len(c) = 0)
    BY <1>0, <1>2, Members
  <1>4. Holds(l, c) /\ LinksIn(c, l, n, p) /\ ~InQueue(n, c) /\ IsInsertion(s, c, p, n)
        /\ p \in 1 .. Len(c) + 1
    BY <1>2 DEF Represents
  <1> HIDE DEF r
  <1>5. \A i \in 1 .. Len(c) : c[i] # n
    BY <1>4 DEF InQueue
  <1>6. \A i \in 1 .. Len(s) : next'[s[i]] = IF i < Len(s) THEN s[i + 1] ELSE Null
    <2>1. \A j \in 1 .. Len(c) : next[c[j]] = IF j < Len(c) THEN c[j + 1] ELSE Null
      BY <1>4 DEF Holds
    <2>2. ASSUME NEW j \in 1 .. Len(c), j # p - 1
          PROVE  next'[c[j]] = next[c[j]]
      <3>1. p > 1 => p - 1 \in 1 .. Len(c) /\ c[j] # c[p - 1]
        BY <1>3, <1>4, <2>2 DEF Distinct
      <3> QED  BY <1>3, <1>4, <1>5, <3>1 DEF LinksIn
    <2>3. /\ next'[n] = IF p <= Len(c) THEN c[p] ELSE Null
          /\ p > 1 => next'[c[p - 1]] = n
      BY <1>4 DEF LinksIn
    <2>4. PICK f, g : f = next /\ g = next'
      OBVIOUS
    <2>5. \A j \in 1 .. Len(c) : j # p - 1 => g[c[j]] = f[c[j]]
      BY <2>2, <2>4
    <2>6. /\ \A j \in 1 .. Len(c) : f[c[j]] = IF j < Len(c) THEN c[j + 1] ELSE Null
          /\ g[n] = IF p <= Len(c) THEN c[p] ELSE Null
          /\ p > 1 => g[c[p - 1]] = n
      BY <2>1, <2>3, <2>4
    <2>7. NextLinks(c, f) /\ NextIn(c, n, p, f, g)
      BY <2>5, <2>6 DEF NextLinks, NextIn
    <2>8. NextLinks(s, g)
      BY <1>3, <1>4, <2>7, NextInserted
    <2> QED  BY <1>4, <2>4, <2>8 DEF NextLinks
  <1>7. \A i \in 1 .. Len(s) : prev'[s[i]] = IF i > 1 THEN s[i - 1] ELSE Null
    <2>1. \A j \in 1 .. Len(c) : prev[c[j]] = IF j > 1 THEN c[j - 1] ELSE Null
      BY <1>4 DEF Holds
    <2>2. ASSUME NEW j \in 1 .. Len(c), j # p
          PROVE  prev'[c[j]] = prev[c[j]]
      <3>1. p <= Len(c) => p \in 1 .. Len(c) /\ c[j] # c[p]
        BY <1>3, <1>4, <2>2 DEF Distinct
      <3> QED  BY <1>3, <1>4, <1>5, <3>1 DEF LinksIn
    <2>3. /\ prev'[n] = IF p > 1 THEN c[p - 1] ELSE Null
          /\ p <= Len(c) => prev'[c[p]] = n
      BY <1>4 DEF LinksIn
    <2>4. PICK f, g : f = prev /\ g = prev'
      OBVIOUS
    <2>5. \A j \in 1 .. Len(c) : j # p => g[c[j]] = f[c[j]]
      BY <2>2, <2>4
    <2>6. /\ \A j \in 1 .. Len(c) : f[c[j]] = IF j > 1 THEN c[j - 1] ELSE Null
          /\ g[n] = IF p > 1 THEN c[p - 1] ELSE Null
          /\ p <= Len(c) => g[c[p]] = n
      BY <2>1, <2>3, <2>4
    <2>7. PrevLinks(c, f) /\ PrevIn(c, n, p, f, g)
      BY <2>5, <2>6 DEF PrevLinks, PrevIn
    <2>8. PrevLinks(s, g)
      BY <1>3, <1>4, <2>7, PrevInserted
    <2> QED  BY <1>4, <2>4, <2>8 DEF PrevLinks
  <1>8. s # << >> /\ Len(s) = Len(c) + 1
    BY <1>3, <1>4, EmptySeq DEF IsInsertion
  <1>9. head'[l] = s[1]
    <2>1. CASE p = 1
      BY <1>4, <2>1 DEF LinksIn, Types, IsInsertion
    <2>2. CASE p # 1
      <3>1. 1 \in 1 .. p - 1 /\ Len(c) # 0
        BY <1>3, <1>4, <2>2
      <3>2. s[1] = c[1] /\ head[l] = c[1]
        BY <1>3, <1>4, <3>1 DEF IsInsertion, Holds
      <3> QED  BY <1>4, <2>2, <3>2 DEF LinksIn
    <2> QED  BY <2>1, <2>2
  <1>10. tail'[l] = s[Len(s)]
    <2>1. CASE p = Len(c) + 1
      BY <1>4, <1>8, <2>1 DEF LinksIn, Types, IsInsertion
    <2>2. CASE p # Len(c) + 1
      <3>1. Len(c) + 1 \in p + 1 .. Len(c) + 1 /\ Len(c) # 0 /\ (Len(c) + 1) - 1 = Len(c)
        BY <1>3, <1>4, <2>2
      <3>2. s[Len(c) + 1] = c[Len(c)] /\ tail[l] = c[Len(c)]
        BY <1>3, <1>4, <3>1 DEF IsInsertion, Holds
      <3> QED  BY <1>4, <1>8, <2>2, <3>2 DEF LinksIn
    <2> QED  BY <2>1, <2>2
  <1>11. Holds(l, s)'
    BY <1>6, <1>7, <1>8, <1>9, <1>10 DEF Holds
  <1>12. ASSUME NEW m \in Lists, m # l
         PROVE  Holds(m, q[m])'
    <2>1. head'[m] = head[m] /\ tail'[m] = tail[m]
      BY <1>4, <1>12 DEF LinksIn, Types
    <2>2. ASSUME NEW i \in 1 .. Len(q[m])
          PROVE  next'[q[m][i]] = next[q[m][i]] /\ prev'[q[m][i]] = prev[q[m][i]]
      <3>1. q[m][i] \in Nodes /\ InQueue(q[m][i], q[m])
        BY <1>0, Members
      <3>2. q[m][i] # n /\ ~InQueue(q[m][i], c)
        BY <1>0, <1>2, <1>12, <3>1 DEF Apart
      <3>3. (p > 1 => q[m][i] # c[p - 1]) /\ (p <= Len(c) => q[m][i] # c[p])
        <4>1. (p > 1 => p - 1 \in 1 .. Len(c)) /\ (p <= Len(c) => p \in 1 .. Len(c))
          BY <1>3, <1>4
        <4> QED  BY <3>2, <4>1 DEF InQueue
      <3> QED  BY <1>4, <3>1, <3>2, <3>3 DEF LinksIn
    <2>3. Holds(m, q[m])
      BY DEF Represents
    <2> QED  BY <2>1, <2>2, <2>3, HoldsStill
  <1>13. Represents(r)'
    <2>1. \A m \in Lists : Holds(m, r[m])'
      BY <1>1, <1>11, <1>12
    <2> QED  BY <1>0, <2>1 DEF Represents
  <1> QED  BY <1>13 DEF r

\* The pointer changes of a removal leave the shorter one.
LEMMA RemoveHolds ==
    ASSUME Types, NEW q, Represents(q), NEW l \in Lists, NEW p \in 1 .. Len(q[l]),
           LinksOut(q[l], l, p)
    PROVE  Represents([q EXCEPT ![l] = RemoveAt(q[l], p)])'
  <1> DEFINE s == RemoveAt(q[l], p)
             r == [q EXCEPT ![l] = s]
  <1>0. Apart(q) /\ Apart(r)
    BY RemoveApart DEF Represents
  <1>1. r[l] = s /\ \A m \in Lists : m # l => r[m] = q[m]
    BY <1>0 DEF Apart
  <1>2. PICK c : c = q[l]
    OBVIOUS
  <1>3. /\ c \in Seq(Nodes) /\ Len(c) \in Nat /\ Distinct(c)
        /\ \A i \in 1 .. Len(c) : c[i] \in Nodes /\ c[i] # Null /\ InQueue(c[i], c)
        /\ (c = << >>) <=> (Len(c) = 0)
    BY <1>0, <1>2, Members
  <1>4. Holds(l, c) /\ LinksOut(c, l, p) /\ p \in 1 .. Len(c) /\ s = RemoveAt(c, p)
    BY <1>2 DEF Represents
  <1>5. /\ s \in Seq(Nodes) /\ Len(s) = Len(c) - 1
        /\ \A j \in 1 .. Len(c) - 1 : s[j] = c[IF j < p THEN j ELSE j + 1]
        /\ (s = << >>) <=> (Len(s) = 0)
    BY <1>3, <1>4, RemoveAtProperties, EmptySeq
  <1> HIDE DEF r, s
  <1>6. \A i \in 1 .. Len(s) : next'[s[i]] = IF i < Len(s) THEN s[i + 1] ELSE Null
    <2>1. \A j \in 1 .. Len(c) : next[c[j]] = IF j < Len(c) THEN c[j + 1] ELSE Null
      BY <1>4 DEF Holds
    <2>2. ASSUME NEW j \in 1 .. Len(c), j # p - 1, j # p
          PROVE  next'[c[j]] = next[c[j]]
      <3>1. c[j] # c[p] /\ (p > 1 => p - 1 \in 1 .. Len(c) /\ c[j] # c[p - 1])
        BY <1>3, <1>4, <2>2 DEF Distinct
      <3> QED  BY <1>3, <1>4, <3>1 DEF LinksOut
    <2>3. p > 1 => next'[c[p - 1]] = next[c[p]]
      BY <1>4 DEF LinksOut
    <2>4. PICK f, g : f = next /\ g = next'
      OBVIOUS
    <2>5. \A j \in 1 .. Len(c) : j # p - 1 /\ j # p => g[c[j]] = f[c[j]]
      BY <2>2, <2>4
    <2>6. /\ \A j \in 1 .. Len(c) : f[c[j]] = IF j < Len(c) THEN c[j + 1] ELSE Null
          /\ p > 1 => g[c[p - 1]] = f[c[p]]
      BY <2>1, <2>3, <2>4
    <2>7. NextLinks(c, f) /\ NextOut(c, p, f, g)
      BY <2>5, <2>6 DEF NextLinks, NextOut
    <2>8. NextLinks(RemoveAt(c, p), g)
      BY <1>3, <1>4, <2>7, NextRemoved
    <2> QED  BY <1>4, <2>4, <2>8 DEF NextLinks
  <1>7. \A i \in 1 .. Len(s) : prev'[s[i]] = IF i > 1 THEN s[i - 1] ELSE Null
    <2>1. \A j \in 1 .. Len(c) : prev[c[j]] = IF j > 1 THEN c[j - 1] ELSE Null
      BY <1>4 DEF Holds
    <2>2. ASSUME NEW j \in 1 .. Len(c), j # p + 1, j # p
          PROVE  prev'[c[j]] = prev[c[j]]
      <3>1. c[j] # c[p] /\ (p < Len(c) => p + 1 \in 1 .. Len(c) /\ c[j] # c[p + 1])
        BY <1>3, <1>4, <2>2 DEF Distinct
      <3> QED  BY <1>3, <1>4, <3>1 DEF LinksOut
    <2>3. p < Len(c) => prev'[c[p + 1]] = prev[c[p]]
      BY <1>4 DEF LinksOut
    <2>4. PICK f, g : f = prev /\ g = prev'
      OBVIOUS
    <2>5. \A j \in 1 .. Len(c) : j # p + 1 /\ j # p => g[c[j]] = f[c[j]]
      BY <2>2, <2>4
    <2>6. /\ \A j \in 1 .. Len(c) : f[c[j]] = IF j > 1 THEN c[j - 1] ELSE Null
          /\ p < Len(c) => g[c[p + 1]] = f[c[p]]
      BY <2>1, <2>3, <2>4
    <2>7. PrevLinks(c, f) /\ PrevOut(c, p, f, g)
      BY <2>5, <2>6 DEF PrevLinks, PrevOut
    <2>8. PrevLinks(RemoveAt(c, p), g)
      BY <1>3, <1>4, <2>7, PrevRemoved
    <2> QED  BY <1>4, <2>4, <2>8 DEF PrevLinks
  <1>8. /\ next[c[p]] = IF p < Len(c) THEN c[p + 1] ELSE Null
        /\ prev[c[p]] = IF p > 1 THEN c[p - 1] ELSE Null
        /\ head[l] = c[1] /\ tail[l] = c[Len(c)] /\ Len(c) # 0
    BY <1>3, <1>4 DEF Holds
  <1>9. head'[l] = IF s = << >> THEN Null ELSE s[1]
    <2>1. CASE p = 1
      <3>1. head'[l] = IF 1 < Len(c) THEN c[2] ELSE Null
        BY <1>4, <1>8, <2>1 DEF LinksOut, Types
      <3>2. 1 < Len(c) => s[1] = c[2]
        BY <1>3, <1>5, <2>1
      <3>3. (1 < Len(c)) <=> (s # << >>)
        BY <1>3, <1>5, <1>8
      <3> QED  BY <3>1, <3>2, <3>3
    <2>2. CASE p # 1
      <3>1. head'[l] = c[1] /\ 1 < p /\ 1 \in 1 .. Len(c) - 1
        BY <1>3, <1>4, <1>8, <2>2 DEF LinksOut
      <3>2. s[1] = c[1] /\ s # << >>
        BY <1>3, <1>5, <3>1
      <3> QED  BY <3>1, <3>2
    <2> QED  BY <2>1, <2>2
  <1>10. tail'[l] = IF s = << >> THEN Null ELSE s[Len(s)]
    <2>1. CASE p = Len(c)
      <3>1. tail'[l] = IF p > 1 THEN c[p - 1] ELSE Null
        BY <1>4, <1>8, <2>1 DEF LinksOut, Types
      <3>2. p > 1 => s[Len(s)] = c[p - 1]
        <4> SUFFICES ASSUME p > 1 PROVE s[Len(s)] = c[p - 1]
          OBVIOUS
        <4>1. Len(s) = p - 1 /\ p - 1 \in 1 .. Len(c) - 1 /\ p - 1 < p
          BY <1>3, <1>5, <2>1
        <4> QED  BY <1>5, <4>1
      <3>3. (p > 1) <=> (s # << >>)
        BY <1>3, <1>5, <1>8, <2>1
      <3> QED  BY <3>1, <3>2, <3>3
    <2>2. CASE p # Len(c)
      <3>1. tail'[l] = c[Len(c)] /\ Len(c) - 1 \in 1 .. Len(c) - 1 /\ ~(Len(c) - 1 < p)
            /\ (Len(c) - 1) + 1 = Len(c)
        BY <1>3, <1>4, <1>8, <2>2 DEF LinksOut
      <3>2. s[Len(c) - 1] = c[Len(c)] /\ Len(s) # 0
        BY <1>3, <1>5, <3>1
      <3> QED  BY <1>5, <3>1, <3>2
    <2> QED  BY <2>1, <2>2
  <1>11. Holds(l, s)'
    BY <1>6, <1>7, <1>9, <1>10 DEF Holds
  <1>12. ASSUME NEW m \in Lists, m # l
         PROVE  Holds(m, q[m])'
    <2>1. head'[m] = head[m] /\ tail'[m] = tail[m]
      BY <1>4, <1>12 DEF LinksOut, Types
    <2>2. ASSUME NEW i \in 1 .. Len(q[m])
          PROVE  next'[q[m][i]] = next[q[m][i]] /\ prev'[q[m][i]] = prev[q[m][i]]
      <3>1. q[m][i] \in Nodes /\ InQueue(q[m][i], q[m])
        BY <1>0, Members
      <3>2. ~InQueue(q[m][i], c)
        BY <1>0, <1>2, <1>12, <3>1 DEF Apart
      <3>3. q[m][i] # c[p] /\ (p > 1 => q[m][i] # c[p - 1])
            /\ (p < Len(c) => q[m][i] # c[p + 1])
        <4>1. (p > 1 => p - 1 \in 1 .. Len(c)) /\ (p < Len(c) => p + 1 \in 1 .. Len(c))
          BY <1>3, <1>4
        <4> QED  BY <1>4, <3>2, <4>1 DEF InQueue
      <3> QED  BY <1>4, <3>1, <3>3 DEF LinksOut
    <2>3. Holds(m, q[m])
      BY DEF Represents
    <2> QED  BY <2>1, <2>2, <2>3, HoldsStill
  <1>13. Represents(r)'
    <2>1. \A m \in Lists : Holds(m, r[m])'
      BY <1>1, <1>11, <1>12
    <2> QED  BY <1>0, <2>1 DEF Represents
  <1> QED  BY <1>13 DEF r, s

\* What append_all does to the links: those behind the first list's end.
NextJoin(c, d, f, g) ==
    /\ c # << >> => g[c[Len(c)]] = d[1]
    /\ \A i \in 1 .. Len(c) : i # Len(c) => g[c[i]] = f[c[i]]
    /\ \A i \in 1 .. Len(d) : g[d[i]] = f[d[i]]

PrevJoin(c, d, f, g) ==
    /\ g[d[1]] = IF c = << >> THEN f[d[1]] ELSE c[Len(c)]
    /\ \A i \in 1 .. Len(c) : g[c[i]] = f[c[i]]
    /\ \A i \in 1 .. Len(d) : i # 1 => g[d[i]] = f[d[i]]

\* The links after append_all are those of the two sequences in a row.
LEMMA NextJoined ==
    ASSUME NEW c \in Seq(Nodes), NEW d \in Seq(Nodes), d # << >>, NEW f, NEW g,
           NextLinks(c, f), NextLinks(d, f), NextJoin(c, d, f, g)
    PROVE  NextLinks(c \o d, g)
  <1> DEFINE s == c \o d
  <1>1. /\ Len(c) \in Nat /\ Len(d) \in Nat /\ Len(s) = Len(c) + Len(d)
        /\ \A i \in 1 .. Len(c) : s[i] = c[i]
        /\ \A i \in 1 .. Len(d) : s[Len(c) + i] = d[i]
        /\ Len(d) # 0 /\ ((c = << >>) <=> (Len(c) = 0))
    BY ConcatMembers, EmptySeq
  <1> HIDE DEF s
  <1>2. ASSUME NEW i \in 1 .. Len(s)
        PROVE  g[s[i]] = IF i < Len(s) THEN s[i + 1] ELSE Null
    <2>1. CASE i < Len(c)
      <3>1. i \in 1 .. Len(c) /\ i + 1 \in 1 .. Len(c) /\ i # Len(c) /\ i < Len(s)
        BY <1>1, <2>1
      <3> QED  BY <1>1, <2>1, <3>1 DEF NextJoin, NextLinks
    <2>2. CASE i = Len(c)
      <3>1. i \in 1 .. Len(c) /\ 1 \in 1 .. Len(d) /\ i < Len(s) /\ c # << >>
        BY <1>1, <2>2
      <3>2. s[i] = c[Len(c)] /\ s[i + 1] = d[1]
        BY <1>1, <2>2, <3>1
      <3> QED  BY <3>1, <3>2 DEF NextJoin
    <2>3. CASE i > Len(c)
      <3>0. i - Len(c) \in 1 .. Len(d)
        BY <1>1, <2>3
      <3>1. PICK j \in 1 .. Len(d) : j = i - Len(c)
        BY <3>0, Zenon
      <3>2. Len(c) + j = i /\ ((i < Len(s)) <=> (j < Len(d)))
        BY <1>1, <3>1
      <3>3. s[i] = d[j]
        BY <1>1, <3>2
      <3>4. j < Len(d) => s[i + 1] = d[j + 1]
        <4> SUFFICES ASSUME j < Len(d) PROVE s[i + 1] = d[j + 1]
          OBVIOUS
        <4>1. j + 1 \in 1 .. Len(d) /\ Len(c) + (j + 1) = i + 1
          BY <1>1, <3>1
        <4> QED  BY <1>1, <4>1
      <3> QED  BY <3>2, <3>3, <3>4 DEF NextJoin, NextLinks
    <2> QED  BY <1>1, <2>1, <2>2, <2>3
  <1> QED  BY <1>2 DEF NextLinks, s

\* The same along prev.
LEMMA PrevJoined ==
    ASSUME NEW c \in Seq(Nodes), NEW d \in Seq(Nodes), d # << >>, NEW f, NEW g,
           PrevLinks(c, f), PrevLinks(d, f), PrevJoin(c, d, f, g)
    PROVE  PrevLinks(c \o d, g)
  <1> DEFINE s == c \o d
  <1>1. /\ Len(c) \in Nat /\ Len(d) \in Nat /\ Len(s) = Len(c) + Len(d)
        /\ \A i \in 1 .. Len(c) : s[i] = c[i]
        /\ \A i \in 1 .. Len(d) : s[Len(c) + i] = d[i]
        /\ Len(d) # 0 /\ ((c = << >>) <=> (Len(c) = 0))
    BY ConcatMembers, EmptySeq
  <1> HIDE DEF s
  <1>2. ASSUME NEW i \in 1 .. Len(s)
        PROVE  g[s[i]] = IF i > 1 THEN s[i - 1] ELSE Null
    <2>1. CASE i <= Len(c)
      <3>1. i \in 1 .. Len(c) /\ (i > 1 => i - 1 \in 1 .. Len(c))
        BY <1>1, <2>1
      <3>2. s[i] = c[i] /\ (i > 1 => s[i - 1] = c[i - 1])
        BY <1>1, <3>1
      <3>3. g[c[i]] = IF i > 1 THEN c[i - 1] ELSE Null
        BY <3>1 DEF PrevJoin, PrevLinks
      <3> QED  BY <3>2, <3>3
    <2>2. CASE i = Len(c) + 1
      <3>1. 1 \in 1 .. Len(d) /\ s[i] = d[1]
        BY <1>1, <2>2
      <3>2. CASE c = << >>
        <4>1. ~(i > 1)
          BY <1>1, <2>2, <3>2
        <4> QED  BY <3>1, <3>2, <4>1 DEF PrevJoin, PrevLinks
      <3>3. CASE c # << >>
        <4>1. i > 1 /\ i - 1 \in 1 .. Len(c) /\ i - 1 = Len(c)
          BY <1>1, <2>2, <3>3
        <4> QED  BY <1>1, <3>1, <3>3, <4>1 DEF PrevJoin
      <3> QED  BY <3>2, <3>3
    <2>3. CASE i > Len(c) + 1
      <3>0. i - Len(c) \in 1 .. Len(d)
        BY <1>1, <2>3
      <3>1. PICK j \in 1 .. Len(d) : j = i - Len(c)
        BY <3>0, Zenon
      <3>2. /\ Len(c) + j = i /\ i > 1 /\ j > 1 /\ j # 1
            /\ j - 1 \in 1 .. Len(d) /\ Len(c) + (j - 1) = i - 1
        BY <1>1, <2>3, <3>1
      <3>3. s[i] = d[j] /\ s[i - 1] = d[j - 1]
        BY <1>1, <3>2
      <3> QED  BY <3>2, <3>3 DEF PrevJoin, PrevLinks
    <2> QED  BY <1>1, <2>1, <2>2, <2>3
  <1> QED  BY <1>2 DEF PrevLinks, s

\* append_all puts the second list behind the first and leaves it empty.
LEMMA JoinHolds ==
    ASSUME Types, NEW q, Represents(q), NEW l \in Lists, NEW m \in Lists, append_all(l, m)
    PROVE  Represents([q EXCEPT ![l] = q[l] \o q[m], ![m] = << >>])'
  <1> DEFINE r == [q EXCEPT ![l] = q[l] \o q[m], ![m] = << >>]
  <1>0. l # m /\ Apart(q) /\ Apart(r)
    BY ConcatApart DEF Represents, append_all
  <1>1. PICK c, d : c = q[l] /\ d = q[m]
    OBVIOUS
  <1>2. r[l] = c \o d /\ r[m] = << >> /\ \A h \in Lists : h # l /\ h # m => r[h] = q[h]
    BY <1>0, <1>1 DEF Apart
  <1> HIDE DEF r
  <1>3. /\ c \in Seq(Nodes) /\ Len(c) \in Nat /\ Distinct(c)
        /\ \A i \in 1 .. Len(c) : c[i] \in Nodes /\ c[i] # Null /\ InQueue(c[i], c)
        /\ (c = << >>) <=> (Len(c) = 0)
    BY <1>0, <1>1, Members
  <1>4. /\ d \in Seq(Nodes) /\ Len(d) \in Nat /\ Distinct(d)
        /\ \A i \in 1 .. Len(d) : d[i] \in Nodes /\ d[i] # Null /\ InQueue(d[i], d)
        /\ (d = << >>) <=> (Len(d) = 0)
    BY <1>0, <1>1, Members
  <1>5. Holds(l, c) /\ Holds(m, d)
    BY <1>1 DEF Represents
  <1>6. d # << >> /\ head[m] = d[1] /\ tail[m] = d[Len(d)]
    BY <1>5 DEF Holds, append_all
  <1>7. /\ head[l] = (IF c = << >> THEN Null ELSE c[1])
        /\ tail[l] = (IF c = << >> THEN Null ELSE c[Len(c)])
    BY <1>5 DEF Holds
  <1>8. (head[l] = Null) <=> (c = << >>)
    <2>1. c # << >> => 1 \in 1 .. Len(c)
      BY <1>3
    <2> QED  BY <1>3, <1>7, <2>1
  <1>9. \A x \in Nodes : ~(InQueue(x, c) /\ InQueue(x, d))
    BY <1>0, <1>1 DEF Apart
  <1>10. PICK f, g : f = next /\ g = next'
    OBVIOUS
  <1>11. PICK u, v : u = prev /\ v = prev'
    OBVIOUS
  <1>12. /\ f \in [Nodes -> Nodes \cup {Null}] /\ u \in [Nodes -> Nodes \cup {Null}]
         /\ c = << >> => g = f /\ v = u
         /\ c # << >> => /\ g = [f EXCEPT ![c[Len(c)]] = d[1]]
                         /\ v = [u EXCEPT ![d[1]] = c[Len(c)]]
    BY <1>6, <1>7, <1>8, <1>10, <1>11 DEF append_all, Types
  <1>13. NextLinks(c, f) /\ NextLinks(d, f) /\ PrevLinks(c, u) /\ PrevLinks(d, u)
    BY <1>5, <1>10, <1>11 DEF Holds, NextLinks, PrevLinks
  <1>14. (c # << >> => Len(c) \in 1 .. Len(c)) /\ 1 \in 1 .. Len(d)
    BY <1>3, <1>4, <1>6
  <1>15. NextJoin(c, d, f, g)
    <2>1. c # << >> => \A x \in Nodes : x # c[Len(c)] => g[x] = f[x]
      BY <1>12
    <2>2. c # << >> => g[c[Len(c)]] = d[1]
      BY <1>3, <1>12, <1>14
    <2>3. \A i \in 1 .. Len(c) : i # Len(c) => c[i] # c[Len(c)]
      BY <1>3 DEF Distinct
    <2>4. c # << >> => \A i \in 1 .. Len(d) : d[i] # c[Len(c)]
      BY <1>3, <1>4, <1>9, <1>14
    <2> QED  BY <1>3, <1>4, <1>12, <2>1, <2>2, <2>3, <2>4 DEF NextJoin
  <1>16. PrevJoin(c, d, u, v)
    <2>1. c # << >> => \A x \in Nodes : x # d[1] => v[x] = u[x]
      BY <1>12
    <2>2. v[d[1]] = IF c = << >> THEN u[d[1]] ELSE c[Len(c)]
      BY <1>4, <1>12, <1>14
    <2>3. \A i \in 1 .. Len(d) : i # 1 => d[i] # d[1]
      BY <1>4, <1>14 DEF Distinct
    <2>4. \A i \in 1 .. Len(c) : c[i] # d[1]
      BY <1>3, <1>4, <1>9, <1>14
    <2> QED  BY <1>3, <1>4, <1>12, <2>1, <2>2, <2>3, <2>4 DEF PrevJoin
  <1>17. NextLinks(c \o d, g) /\ PrevLinks(c \o d, v)
    BY <1>3, <1>4, <1>6, <1>13, <1>15, <1>16, NextJoined, PrevJoined
  <1>18. /\ head'[l] = IF c = << >> THEN d[1] ELSE c[1]
         /\ tail'[l] = d[Len(d)] /\ head'[m] = Null /\ tail'[m] = Null
         /\ \A h \in Lists : h # l /\ h # m => head'[h] = head[h] /\ tail'[h] = tail[h]
    BY <1>0, <1>6, <1>7, <1>8 DEF append_all, Types
  <1>19. Holds(l, c \o d)'
    <2>1. PICK s : s = c \o d
      OBVIOUS
    <2>2. /\ Len(s) = Len(c) + Len(d)
          /\ \A i \in 1 .. Len(c) : s[i] = c[i]
          /\ \A i \in 1 .. Len(d) : s[Len(c) + i] = d[i]
          /\ s \in Seq(Nodes)
      BY <1>3, <1>4, <2>1, ConcatMembers
    <2>3. s # << >> /\ s[Len(s)] = d[Len(d)]
      BY <1>3, <1>4, <1>6, <2>2, EmptySeq
    <2>4. s[1] = IF c = << >> THEN d[1] ELSE c[1]
      <3>1. CASE c = << >>
        <4>1. Len(c) + 1 = 1
          BY <1>3, <3>1
        <4> QED  BY <1>14, <2>2, <3>1, <4>1
      <3>2. CASE c # << >>
        BY <1>3, <2>2, <3>2
      <3> QED  BY <3>1, <3>2
    <2>5. /\ \A i \in 1 .. Len(s) : next'[s[i]] = IF i < Len(s) THEN s[i + 1] ELSE Null
          /\ \A i \in 1 .. Len(s) : prev'[s[i]] = IF i > 1 THEN s[i - 1] ELSE Null
      BY <1>10, <1>11, <1>17, <2>1 DEF NextLinks, PrevLinks
    <2>6. Holds(l, s)'
      BY <1>18, <2>3, <2>4, <2>5 DEF Holds
    <2> QED  BY <2>1, <2>6
  <1>20. Holds(m, << >>)'
    <2>1. Len(<< >>) = 0 /\ 1 .. 0 = {}
      OBVIOUS
    <2> QED  BY <1>18, <2>1 DEF Holds
  <1>21. ASSUME NEW h \in Lists, h # l, h # m
         PROVE  Holds(h, q[h])'
    <2>1. head'[h] = head[h] /\ tail'[h] = tail[h]
      BY <1>18, <1>21
    <2>2. ASSUME NEW i \in 1 .. Len(q[h])
          PROVE  next'[q[h][i]] = next[q[h][i]] /\ prev'[q[h][i]] = prev[q[h][i]]
      <3>1. q[h][i] \in Nodes /\ InQueue(q[h][i], q[h])
        BY <1>0, Members
      <3>2. ~InQueue(q[h][i], c) /\ ~InQueue(q[h][i], d)
        BY <1>0, <1>1, <1>21, <3>1 DEF Apart
      <3>3. (c # << >> => q[h][i] # c[Len(c)]) /\ q[h][i] # d[1]
        BY <1>14, <3>2 DEF InQueue
      <3> QED  BY <1>10, <1>11, <1>12, <3>1, <3>3
    <2>3. Holds(h, q[h])
      BY DEF Represents
    <2> QED  BY <2>1, <2>2, <2>3, HoldsStill
  <1>22. Represents(r)'
    <2>1. \A h \in Lists : Holds(h, r[h])'
      BY <1>2, <1>19, <1>20, <1>21
    <2> QED  BY <1>0, <2>1 DEF Represents
  <1> QED  BY <1>22 DEF r

-----------------------------------------------------------------------------
(***************************************************************************)
(* A list that is linked in both directions is read the same way from both *)
(* of its ends.                                                            *)
(***************************************************************************)
LEMMA ReadBothWays ==
    ASSUME NEW c \in Seq(Nodes), Distinct(c), NEW h, NEW t, NEW f, NEW g,
           h = (IF c = << >> THEN Null ELSE c[1]),
           t = (IF c = << >> THEN Null ELSE c[Len(c)]),
           NextLinks(c, f), PrevLinks(c, g)
    PROVE  Walk(h, f) = c /\ Walk(t, g) = Backwards(c)
  <1>1. Walk(h, f) = c
    <2>1. Laid(c, h, f)
      BY DEF Laid, NextLinks
    <2> QED  BY <2>1, WalkMeets
  <1>2. PICK b : b = Backwards(c)
    OBVIOUS
  <1>3. /\ Len(c) \in Nat /\ ((c = << >>) <=> (Len(c) = 0))
        /\ \A i \in 1 .. Len(c) : c[i] \in Nodes
    BY LenProperties, EmptySeq
  <1>4. \A i \in 1 .. Len(c) : Len(c) + 1 - i \in 1 .. Len(c)
    BY <1>3
  <1>5. b = [i \in 1 .. Len(c) |-> c[Len(c) + 1 - i]]
    BY <1>2 DEF Backwards
  <1>6. b \in Seq(Nodes) /\ Len(b) = Len(c) /\ \A i \in 1 .. Len(c) : b[i] = c[Len(c) + 1 - i]
    <2>1. b \in [1 .. Len(c) -> Nodes]
      BY <1>3, <1>4, <1>5
    <2>2. b \in Seq(Nodes)
      BY <1>3, <2>1
    <2>3. Len(b) = Len(c)
      BY <1>3, <2>1, <2>2, LenProperties
    <2> QED  BY <1>5, <2>2, <2>3
  <1>7. Distinct(b)
    <2> SUFFICES ASSUME NEW i \in 1 .. Len(c), NEW j \in 1 .. Len(c), b[i] = b[j]
                 PROVE  i = j
      BY <1>6 DEF Distinct
    <2>1. Len(c) + 1 - i = Len(c) + 1 - j
      BY <1>4, <1>6 DEF Distinct
    <2> QED  BY <1>3, <2>1
  <1>8. Laid(b, t, g)
    <2>1. t = IF b = << >> THEN Null ELSE b[1]
      <3>1. (b = << >>) <=> (c = << >>)
        BY <1>3, <1>6, EmptySeq
      <3>2. c # << >> => 1 \in 1 .. Len(c) /\ Len(c) + 1 - 1 = Len(c)
        BY <1>3
      <3> QED  BY <1>6, <3>1, <3>2
    <2>2. ASSUME NEW i \in 1 .. Len(c)
          PROVE  g[b[i]] = IF i < Len(b) THEN b[i + 1] ELSE Null
      <3>1. PICK j \in 1 .. Len(c) : j = Len(c) + 1 - i
        BY <1>4, Zenon
      <3>2. g[b[i]] = IF j > 1 THEN c[j - 1] ELSE Null
        BY <1>6, <3>1 DEF PrevLinks
      <3>3. (i < Len(c)) <=> (j > 1)
        BY <1>3, <3>1
      <3>4. i < Len(c) => i + 1 \in 1 .. Len(c) /\ Len(c) + 1 - (i + 1) = j - 1
        BY <1>3, <3>1
      <3>5. i < Len(c) => b[i + 1] = c[j - 1]
        BY <1>6, <3>4
      <3> QED  BY <1>6, <3>2, <3>3, <3>5
    <2> QED  BY <1>6, <2>1, <2>2 DEF Laid
  <1>9. Walk(t, g) = b
    BY <1>6, <1>7, <1>8, WalkMeets
  <1> QED  BY <1>1, <1>2, <1>9

\* The lists are what they hold, read now.
LEMMA ReadNow ==
    ASSUME NEW q, Represents(q)
    PROVE  /\ Queue = q
           /\ \A l \in Lists : Contents(l) = q[l] /\ Walk(tail[l], prev) = Backwards(q[l])
  <1>1. ASSUME NEW l \in Lists
        PROVE  Contents(l) = q[l] /\ Walk(tail[l], prev) = Backwards(q[l])
    <2>1. q[l] \in Seq(Nodes) /\ Distinct(q[l])
      BY Members DEF Represents
    <2>2. PICK c, h, t, f, g : c = q[l] /\ h = head[l] /\ t = tail[l] /\ f = next /\ g = prev
      OBVIOUS
    <2>3. /\ h = (IF c = << >> THEN Null ELSE c[1])
          /\ t = (IF c = << >> THEN Null ELSE c[Len(c)])
          /\ NextLinks(c, f) /\ PrevLinks(c, g)
      BY <2>2 DEF Represents, Holds, NextLinks, PrevLinks
    <2>4. Walk(h, f) = c /\ Walk(t, g) = Backwards(c)
      BY <2>1, <2>2, <2>3, ReadBothWays
    <2> QED  BY <2>2, <2>4 DEF Contents
  <1>2. q = [l \in Lists |-> q[l]]
    BY DEF Represents, Apart
  <1> QED  BY <1>1, <1>2 DEF Queue

\* And read after a step.
LEMMA ReadNext ==
    ASSUME NEW q, Represents(q)'
    PROVE  Queue' = q
  <1>1. ASSUME NEW l \in Lists
        PROVE  Contents(l)' = q[l]
    <2>1. q[l] \in Seq(Nodes) /\ Distinct(q[l])
      BY Members DEF Represents
    <2>2. PICK c, h, t, f, g : c = q[l] /\ h = head'[l] /\ t = tail'[l] /\ f = next' /\ g = prev'
      OBVIOUS
    <2>3. /\ h = (IF c = << >> THEN Null ELSE c[1])
          /\ t = (IF c = << >> THEN Null ELSE c[Len(c)])
          /\ NextLinks(c, f) /\ PrevLinks(c, g)
      BY <2>2 DEF Represents, Holds, NextLinks, PrevLinks
    <2>4. Walk(h, f) = c
      BY <2>1, <2>2, <2>3, ReadBothWays
    <2> QED  BY <2>2, <2>4 DEF Contents
  <1>2. q = [l \in Lists |-> q[l]]
    BY DEF Represents, Apart
  <1> QED  BY <1>1, <1>2 DEF Queue

(***************************************************************************)
(* What the pointers of list l say of the sequence c it holds.             *)
(***************************************************************************)
LEMMA Ends ==
    ASSUME NEW q, Represents(q), NEW l \in Lists, NEW c, c = q[l]
    PROVE  /\ c \in Seq(Nodes) /\ Len(c) \in Nat /\ Distinct(c)
           /\ \A i \in 1 .. Len(c) : c[i] \in Nodes /\ c[i] # Null
           /\ (c = << >>) <=> (Len(c) = 0)
           /\ (head[l] = Null) <=> (c = << >>)
           /\ c # << >> => /\ head[l] = c[1] /\ tail[l] = c[Len(c)]
                           /\ 1 \in 1 .. Len(c) /\ Len(c) \in 1 .. Len(c)
                           /\ (head[l] = tail[l]) <=> (Len(c) = 1)
           /\ \A i \in 1 .. Len(c) : next[c[i]] = IF i < Len(c) THEN c[i + 1] ELSE Null
           /\ \A i \in 1 .. Len(c) : prev[c[i]] = IF i > 1 THEN c[i - 1] ELSE Null
  <1>1. Apart(q) /\ Holds(l, c)
    BY DEF Represents
  <1>2. /\ c \in Seq(Nodes) /\ Len(c) \in Nat /\ Distinct(c)
        /\ \A i \in 1 .. Len(c) : c[i] \in Nodes /\ c[i] # Null
        /\ (c = << >>) <=> (Len(c) = 0)
    BY <1>1, Members
  <1>3. c # << >> => 1 \in 1 .. Len(c) /\ Len(c) \in 1 .. Len(c)
    BY <1>2
  <1>4. /\ (head[l] = Null) <=> (c = << >>)
        /\ c # << >> => head[l] = c[1] /\ tail[l] = c[Len(c)]
    BY <1>1, <1>2, <1>3 DEF Holds
  <1>5. c # << >> => ((head[l] = tail[l]) <=> (Len(c) = 1))
    BY <1>2, <1>3, <1>4 DEF Distinct
  <1>6. /\ \A i \in 1 .. Len(c) : next[c[i]] = IF i < Len(c) THEN c[i + 1] ELSE Null
        /\ \A i \in 1 .. Len(c) : prev[c[i]] = IF i > 1 THEN c[i - 1] ELSE Null
    BY <1>1 DEF Holds
  <1> QED  BY <1>2, <1>3, <1>4, <1>5, <1>6

\* A node is linked into the lists that hold it.
LEMMA LinkedMembers ==
    ASSUME NEW q, Represents(q), NEW n
    PROVE  /\ \A l \in Lists : Linked(n, l) <=> InQueue(n, q[l])
           /\ Unlinked(n) <=> \A l \in Lists : ~InQueue(n, q[l])
  <1>1. ASSUME NEW l \in Lists
        PROVE  Linked(n, l) <=> InQueue(n, q[l])
    <2>1. Contents(l) = q[l] /\ q[l] \in Seq(Nodes)
      BY ReadNow, Members DEF Represents
    <2>2. DOMAIN q[l] = 1 .. Len(q[l])
      BY <2>1, LenProperties
    <2>3. Linked(n, l) <=> \E i \in DOMAIN q[l] : q[l][i] = n
      BY <2>1 DEF Linked
    <2> QED  BY <2>2, <2>3 DEF InQueue
  <1> QED  BY <1>1 DEF Unlinked

-----------------------------------------------------------------------------
(***************************************************************************)
(* The operations, one by one: what each does to the sequence held by the  *)
(* list it is applied to.  append: the node becomes the last.              *)
(***************************************************************************)
LEMMA AppendOperation ==
    ASSUME Types, NEW q, Represents(q), NEW l \in Lists, NEW n \in Nodes, append(l, n)
    PROVE  Types' /\ Represents([q EXCEPT ![l] = Append(q[l], n)])'
  <1>1. \A m \in Lists : ~InQueue(n, q[m])
    BY LinkedMembers DEF append
  <1>2. PICK c : c = q[l]
    OBVIOUS
  <1>3. /\ c \in Seq(Nodes) /\ Len(c) \in Nat
        /\ \A i \in 1 .. Len(c) : c[i] \in Nodes /\ c[i] # Null
        /\ (c = << >>) <=> (Len(c) = 0)
        /\ (head[l] = Null) <=> (c = << >>)
        /\ c # << >> => tail[l] = c[Len(c)] /\ Len(c) \in 1 .. Len(c)
    BY <1>2, Ends
  <1>4. \A i \in 1 .. Len(c) : c[i] # n
    BY <1>1, <1>2 DEF InQueue
  <1>5. Types'
    <2>1. n \in Nodes \cup {Null} /\ Null \in Nodes \cup {Null} /\ tail[l] \in Nodes \cup {Null}
      BY DEF Types
    <2> QED  BY <2>1 DEF append, Types
  <1>6. LinksIn(c, l, n, Len(c) + 1)
    <2>1. CASE c = << >>
      <3>1. /\ Len(c) + 1 = 1 /\ ~(Len(c) + 1 <= Len(c)) /\ ~(Len(c) + 1 > 1)
        BY <1>3, <2>1
      <3> QED  BY <1>3, <2>1, <3>1 DEF append, LinksIn, Types
    <2>2. CASE c # << >>
      <3>1. /\ Len(c) + 1 # 1 /\ ~(Len(c) + 1 <= Len(c)) /\ Len(c) + 1 > 1
            /\ Len(c) + 1 - 1 = Len(c) /\ c[Len(c)] \in Nodes /\ c[Len(c)] # n
        BY <1>3, <1>4, <2>2
      <3>2. /\ next' = [next EXCEPT ![n] = Null, ![c[Len(c)]] = n]
            /\ prev' = [prev EXCEPT ![n] = c[Len(c)]]
            /\ head' = head /\ tail' = [tail EXCEPT ![l] = n]
        BY <1>3, <2>2 DEF append
      <3> QED  BY <3>1, <3>2 DEF LinksIn, Types
    <2> QED  BY <2>1, <2>2
  <1>7. /\ Append(c, n) \in Seq(Nodes) /\ Len(c) + 1 \in 1 .. Len(c) + 1
        /\ IsInsertion(Append(c, n), c, Len(c) + 1, n)
    BY <1>3, AppendIsInsertion
  <1>8. Represents([q EXCEPT ![l] = Append(c, n)])'
    BY <1>1, <1>2, <1>6, <1>7, InsertHolds
  <1> QED  BY <1>2, <1>5, <1>8

\* prepend: the node becomes the first.
LEMMA PrependOperation ==
    ASSUME Types, NEW q, Represents(q), NEW l \in Lists, NEW n \in Nodes, prepend(l, n)
    PROVE  Types' /\ Represents([q EXCEPT ![l] = << n >> \o q[l]])'
  <1>1. \A m \in Lists : ~InQueue(n, q[m])
    BY LinkedMembers DEF prepend
  <1>2. PICK c : c = q[l]
    OBVIOUS
  <1>3. /\ c \in Seq(Nodes) /\ Len(c) \in Nat
        /\ \A i \in 1 .. Len(c) : c[i] \in Nodes /\ c[i] # Null
        /\ (c = << >>) <=> (Len(c) = 0)
        /\ (head[l] = Null) <=> (c = << >>)
        /\ c # << >> => head[l] = c[1] /\ 1 \in 1 .. Len(c)
    BY <1>2, Ends
  <1>4. \A i \in 1 .. Len(c) : c[i] # n
    BY <1>1, <1>2 DEF InQueue
  <1>5. Types'
    <2>1. n \in Nodes \cup {Null} /\ Null \in Nodes \cup {Null} /\ head[l] \in Nodes \cup {Null}
      BY DEF Types
    <2> QED  BY <2>1 DEF prepend, Types
  <1>6. LinksIn(c, l, n, 1)
    <2>1. CASE c = << >>
      <3>1. Len(c) + 1 = 1 /\ ~(1 <= Len(c)) /\ ~(1 > 1)
        BY <1>3, <2>1
      <3> QED  BY <1>3, <2>1, <3>1 DEF prepend, LinksIn, Types
    <2>2. CASE c # << >>
      <3>1. Len(c) + 1 # 1 /\ 1 <= Len(c) /\ ~(1 > 1) /\ c[1] \in Nodes /\ c[1] # n
        BY <1>3, <1>4, <2>2
      <3>2. /\ next' = [next EXCEPT ![n] = c[1]]
            /\ prev' = [prev EXCEPT ![n] = Null, ![c[1]] = n]
            /\ tail' = tail /\ head' = [head EXCEPT ![l] = n]
        BY <1>3, <2>2 DEF prepend
      <3> QED  BY <3>1, <3>2 DEF LinksIn, Types
    <2> QED  BY <2>1, <2>2
  <1>7. /\ << n >> \o c \in Seq(Nodes) /\ 1 \in 1 .. Len(c) + 1
        /\ IsInsertion(<< n >> \o c, c, 1, n)
    BY <1>3, PrependIsInsertion
  <1>8. Represents([q EXCEPT ![l] = << n >> \o c])'
    BY <1>1, <1>2, <1>6, <1>7, InsertHolds
  <1> QED  BY <1>2, <1>5, <1>8

\* remove_first: the node at the head leaves the list.
LEMMA RemoveFirstOperation ==
    ASSUME Types, NEW q, Represents(q), NEW l \in Lists, remove_first(l)
    PROVE  /\ Types' /\ 1 \in 1 .. Len(q[l])
           /\ Represents([q EXCEPT ![l] = RemoveAt(q[l], 1)])'
  <1>1. PICK c : c = q[l]
    OBVIOUS
  <1>2. /\ c \in Seq(Nodes)
        /\ c # << >> /\ Len(c) \in Nat /\ 1 \in 1 .. Len(c) /\ head[l] = c[1]
        /\ (head[l] = tail[l]) <=> (Len(c) = 1)
        /\ \A i \in 1 .. Len(c) : c[i] \in Nodes
        /\ next[c[1]] = IF 1 < Len(c) THEN c[1 + 1] ELSE Null
        /\ prev[c[1]] = IF 1 > 1 THEN c[1 - 1] ELSE Null
        /\ Distinct(c)
    BY <1>1, Ends DEF remove_first
  <1>0. c \in Seq(Nodes) /\ Len(c) \in Nat /\ 1 \in 1 .. Len(c)
    BY <1>2
  <1>3. CASE Len(c) = 1
    <2>1. /\ head' = [head EXCEPT ![l] = Null] /\ tail' = [tail EXCEPT ![l] = Null]
          /\ next' = next /\ prev' = prev
      BY <1>2, <1>3 DEF remove_first
    <2>2. Types'
      BY <2>1 DEF Types
    <2>3. LinksOut(c, l, 1)
      BY <1>2, <1>3, <2>1 DEF LinksOut
    <2> QED  BY <1>1, <1>2, <2>2, <2>3, RemoveHolds
  <1>4. CASE Len(c) # 1
    <2>5. \A k \in Nat : 1 \in 1 .. k /\ k # 1 => 1 < k /\ 2 \in 1 .. k
      OBVIOUS
    <2>6. 1 < Len(c) /\ 2 \in 1 .. Len(c)
      BY <1>0, <1>4, <2>5, Zenon
    <2>7. 1 < Len(c) /\ 2 \in 1 .. Len(c) /\ ~(1 > 1) /\ 1 + 1 = 2
      BY <2>6
    <2>0. /\ next[c[1]] = c[2] /\ prev[c[1]] = Null /\ c[2] \in Nodes /\ c[1] \in Nodes
          /\ 1 < Len(c) /\ ~(1 > 1) /\ 1 + 1 = 2
      BY <1>2, <2>7
    <2>1. /\ head' = [head EXCEPT ![l] = c[2]] /\ prev' = [prev EXCEPT ![c[2]] = Null]
          /\ tail' = tail /\ next' = next
      BY <1>2, <1>4, <2>0 DEF remove_first
    <2>2. Types'
      BY <2>0, <2>1 DEF Types
    <2>3. LinksOut(c, l, 1)
      BY <1>4, <2>0, <2>1 DEF LinksOut, Types
    <2> QED  BY <1>1, <1>2, <2>2, <2>3, RemoveHolds
  <1> QED  BY <1>3, <1>4

\* remove_last: the node at the tail leaves it.
LEMMA RemoveLastOperation ==
    ASSUME Types, NEW q, Represents(q), NEW l \in Lists, remove_last(l)
    PROVE  /\ Types' /\ Len(q[l]) \in 1 .. Len(q[l])
           /\ Represents([q EXCEPT ![l] = RemoveAt(q[l], Len(q[l]))])'
  <1>1. PICK c : c = q[l]
    OBVIOUS
  <1>2. /\ c \in Seq(Nodes)
        /\ c # << >> /\ Len(c) \in Nat /\ Len(c) \in 1 .. Len(c) /\ tail[l] = c[Len(c)]
        /\ (head[l] = tail[l]) <=> (Len(c) = 1)
        /\ \A i \in 1 .. Len(c) : c[i] \in Nodes
        /\ next[c[Len(c)]] = IF Len(c) < Len(c) THEN c[Len(c) + 1] ELSE Null
        /\ prev[c[Len(c)]] = IF Len(c) > 1 THEN c[Len(c) - 1] ELSE Null
    BY <1>1, Ends DEF remove_last
  <1>0. c \in Seq(Nodes) /\ Len(c) \in Nat /\ Len(c) \in 1 .. Len(c)
    BY <1>2
  <1>3. CASE Len(c) = 1
    <2>1. /\ head' = [head EXCEPT ![l] = Null] /\ tail' = [tail EXCEPT ![l] = Null]
          /\ next' = next /\ prev' = prev
      BY <1>2, <1>3 DEF remove_last
    <2>2. Types'
      BY <2>1 DEF Types
    <2>3. LinksOut(c, l, Len(c))
      BY <1>2, <1>3, <2>1 DEF LinksOut
    <2> QED  BY <1>1, <1>2, <2>2, <2>3, RemoveHolds
  <1>4. CASE Len(c) # 1
    <2>0. /\ prev[c[Len(c)]] = c[Len(c) - 1] /\ next[c[Len(c)]] = Null
          /\ c[Len(c)] \in Nodes /\ c[Len(c) - 1] \in Nodes
          /\ Len(c) > 1 /\ ~(Len(c) < Len(c))
      <3>0. \A k \in Nat : k \in 1 .. k /\ k # 1 => k - 1 \in 1 .. k /\ k > 1 /\ ~(k < k)
        OBVIOUS
      <3>1. Len(c) - 1 \in 1 .. Len(c) /\ Len(c) > 1 /\ ~(Len(c) < Len(c))
        BY <1>0, <1>4, <3>0, Zenon
      <3> QED  BY <1>2, <3>1
    <2>1. /\ tail' = [tail EXCEPT ![l] = c[Len(c) - 1]]
          /\ next' = [next EXCEPT ![c[Len(c) - 1]] = Null]
          /\ head' = head /\ prev' = prev
      BY <1>2, <1>4, <2>0 DEF remove_last
    <2>2. Types'
      BY <2>0, <2>1 DEF Types
    <2>3. LinksOut(c, l, Len(c))
      BY <1>4, <2>0, <2>1 DEF LinksOut, Types
    <2> QED  BY <1>1, <1>2, <2>2, <2>3, RemoveHolds
  <1> QED  BY <1>3, <1>4

\* remove: the given node leaves it, wherever it is.
LEMMA RemoveOperation ==
    ASSUME Types, NEW q, Represents(q), NEW l \in Lists, NEW n \in Nodes, remove(l, n)
    PROVE  /\ Types'
           /\ \E p \in 1 .. Len(q[l]) :
                 q[l][p] = n /\ Represents([q EXCEPT ![l] = RemoveAt(q[l], p)])'
  <1>1. PICK c : c = q[l]
    OBVIOUS
  <1>2. InQueue(n, c)
    BY <1>1, LinkedMembers DEF remove
  <1>3. PICK p \in 1 .. Len(c) : c[p] = n
    BY <1>2 DEF InQueue
  <1>4. /\ Len(c) \in Nat
        /\ \A i \in 1 .. Len(c) : c[i] \in Nodes /\ c[i] # Null
        /\ next[n] = IF p < Len(c) THEN c[p + 1] ELSE Null
        /\ prev[n] = IF p > 1 THEN c[p - 1] ELSE Null
    BY <1>1, <1>3, Ends
  <1>5. (p < Len(c) => p + 1 \in 1 .. Len(c)) /\ (p > 1 => p - 1 \in 1 .. Len(c))
        /\ (p = 1 <=> ~(p > 1)) /\ (p = Len(c) <=> ~(p < Len(c)))
    BY <1>4
  <1>6. ((next[n] = Null) <=> (p = Len(c))) /\ (p < Len(c) => next[n] = c[p + 1])
    BY <1>4, <1>5
  <1>7. ((prev[n] = Null) <=> (p = 1)) /\ (p > 1 => prev[n] = c[p - 1])
    BY <1>4, <1>5
  <1>8. Types'
    <2>1. next[n] \in Nodes \cup {Null} /\ prev[n] \in Nodes \cup {Null}
      BY DEF Types
    <2> QED  BY <2>1 DEF remove, Types
  <1>9. LinksOut(c, l, p)
    <2>1. /\ head' = IF p = 1 THEN [head EXCEPT ![l] = next[c[p]]] ELSE head
          /\ p > 1 => next'[c[p - 1]] = next[c[p]]
          /\ \A x \in Nodes : x # c[p] /\ (p > 1 => x # c[p - 1]) => next'[x] = next[x]
      <3>1. CASE p = 1
        BY <1>3, <1>5, <1>7, <3>1 DEF remove, Types
      <3>2. CASE p > 1
        BY <1>3, <1>4, <1>5, <1>7, <3>2 DEF remove, Types
      <3> QED  BY <1>5, <3>1, <3>2
    <2>2. /\ tail' = IF p = Len(c) THEN [tail EXCEPT ![l] = prev[c[p]]] ELSE tail
          /\ p < Len(c) => prev'[c[p + 1]] = prev[c[p]]
          /\ \A x \in Nodes : x # c[p] /\ (p < Len(c) => x # c[p + 1]) => prev'[x] = prev[x]
      <3>1. CASE p = Len(c)
        BY <1>3, <1>5, <1>6, <3>1 DEF remove, Types
      <3>2. CASE p < Len(c)
        BY <1>3, <1>4, <1>5, <1>6, <3>2 DEF remove, Types
      <3> QED  BY <1>5, <3>1, <3>2
    <2> QED  BY <2>1, <2>2 DEF LinksOut
  <1>10. Represents([q EXCEPT ![l] = RemoveAt(c, p)])'
    BY <1>1, <1>9, RemoveHolds
  <1> QED  BY <1>1, <1>3, <1>8, <1>10

(***************************************************************************)
(* The scan of thread_queue_insert_at_priority stops, from the tail, at    *)
(* the last node that does not come after the new one; there is one, since *)
(* the new node does not come before the head.                             *)
(***************************************************************************)
LEMMA ScanPosition ==
    ASSUME NEW c \in Seq(Nodes), NEW n \in Nodes, c # << >>,
           priority[n] >= priority[c[1]], priority[n] < priority[c[Len(c)]]
    PROVE  LET p == ScanFromTail(c, n, priority)
           IN  /\ p \in 1 .. Len(c) /\ p < Len(c)
               /\ priority[c[p]] <= priority[n]
               /\ \A k \in p + 1 .. Len(c) : priority[n] < priority[c[k]]
  <1> DEFINE R == OpToRel(<, Nat)
             N == Len(c)
             T == {i \in 1 .. N : priority[c[N + 1 - i]] <= priority[n]}
  <1>1. /\ N \in Nat /\ N # 0 /\ \A i \in 1 .. N : c[i] \in Nodes /\ priority[c[i]] \in Nat
        /\ priority[n] \in Nat
    BY LenProperties, EmptySeq, NodeAssumption
  <1> HIDE DEF N
  <1>2. IsWellFoundedOn(R, Nat)
    BY NatLessThanWellFounded
  <1>3. \A i, j \in Nat : << i, j >> \in R <=> i < j
    BY DEF OpToRel
  <1>4. T \subseteq Nat /\ N \in T
    <2>1. N \in 1 .. N /\ N + 1 - N = 1 /\ 1 \in 1 .. N
      BY <1>1
    <2> QED  BY <1>1, <2>1
  <1> HIDE DEF R
  <1>5. PICK i \in T : \A j \in T : ~(<< j, i >> \in R)
    <2> HIDE DEF T
    <2> QED  BY <1>2, <1>4, WFMin
  <1>6. PICK p \in 1 .. N : p = N + 1 - i
    <2>1. N + 1 - i \in 1 .. N
      BY <1>1, <1>5
    <2> QED  BY <2>1, Zenon
  <1>7. priority[c[p]] <= priority[n]
    BY <1>5, <1>6
  <1>8. ASSUME NEW k \in p + 1 .. N
        PROVE  priority[n] < priority[c[k]]
    <2>1. PICK j \in 1 .. N : j = N + 1 - k
      <3>1. N + 1 - k \in 1 .. N
        BY <1>1, <1>6
      <3> QED  BY <3>1, Zenon
    <2>2. j < i /\ k \in 1 .. N /\ N + 1 - j = k /\ i \in Nat /\ j \in Nat
      BY <1>1, <1>4, <1>5, <1>6, <2>1
    <2>3. j \notin T
      BY <1>3, <1>5, <2>2
    <2>4. ~(priority[c[k]] <= priority[n])
      BY <2>2, <2>3
    <2> QED  BY <1>1, <2>2, <2>4
  <1> DEFINE s == ScanFromTail(c, n, priority)
  <1>9. /\ s \in 1 .. N /\ priority[c[s]] <= priority[n]
        /\ \A k \in s + 1 .. N : priority[n] < priority[c[k]]
    BY <1>7, <1>8, Zenon DEF ScanFromTail, N
  <1> HIDE DEF s
  <1>10. s < N
    <2>1. s = N => FALSE
      <3> SUFFICES ASSUME s = N PROVE FALSE
        OBVIOUS
      <3>1. priority[c[N]] <= priority[n] /\ priority[n] < priority[c[N]] /\ N \in 1 .. N
        BY <1>1, <1>9 DEF N
      <3> QED  BY <1>1, <3>1
    <2> QED  BY <1>1, <1>9, <2>1
  <1> QED  BY <1>9, <1>10 DEF s, N

\* The scan along prev stops at the same node.
LEMMA ScanMeets ==
    ASSUME NEW q, Represents(q), NEW l \in Lists, NEW n \in Nodes, q[l] # << >>,
           priority[n] >= priority[q[l][1]], priority[n] < priority[q[l][Len(q[l])]]
    PROVE  Scan(n, tail[l]) = q[l][ScanFromTail(q[l], n, priority)]
  <1>1. PICK c : c = q[l]
    OBVIOUS
  <1>2. /\ c \in Seq(Nodes) /\ Len(c) \in Nat /\ c # << >>
        /\ \A i \in 1 .. Len(c) : c[i] \in Nodes /\ c[i] # Null
        /\ \A i \in 1 .. Len(c) : prev[c[i]] = IF i > 1 THEN c[i - 1] ELSE Null
    BY <1>1, Ends
  <1>3. PICK p : p = ScanFromTail(c, n, priority)
    OBVIOUS
  <1>4. /\ p \in 1 .. Len(c) /\ p < Len(c)
        /\ priority[c[p]] <= priority[n]
        /\ \A k \in p + 1 .. Len(c) : priority[n] < priority[c[k]]
    BY <1>1, <1>2, <1>3, ScanPosition
  <1>5. priority[n] \in Nat /\ \A i \in 1 .. Len(c) : priority[c[i]] \in Nat
    BY <1>2, NodeAssumption
  <1>6. PICK b : b = Walk(tail[l], prev)
    OBVIOUS
  <1>7. b = [i \in 1 .. Len(c) |-> c[Len(c) + 1 - i]]
    BY <1>1, <1>6, ReadNow DEF Backwards
  <1>8. DOMAIN b = 1 .. Len(c) /\ \A i \in 1 .. Len(c) : b[i] = c[Len(c) + 1 - i]
    BY <1>7
  <1> DEFINE stop == {i \in DOMAIN b : priority[n] >= priority[b[i]] \/ prev[b[i]] = Null}
  <1>9. PICK e \in 1 .. Len(c) : e = Len(c) + 1 - p
    <2>1. Len(c) + 1 - p \in 1 .. Len(c)
      BY <1>2, <1>4
    <2> QED  BY <2>1, Zenon
  <1>10. b[e] = c[p] /\ e \in stop
    <2>1. Len(c) + 1 - e = p
      BY <1>2, <1>4, <1>9
    <2>2. b[e] = c[p]
      BY <1>8, <2>1
    <2>3. priority[n] >= priority[c[p]]
      BY <1>4, <1>5
    <2> QED  BY <1>8, <2>2, <2>3
  <1>11. ASSUME NEW j \in stop
         PROVE  j \in Int /\ e <= j
    <2>1. j \in 1 .. Len(c) /\ (priority[n] >= priority[b[j]] \/ prev[b[j]] = Null)
      BY <1>8
    <2>2. PICK k \in 1 .. Len(c) : k = Len(c) + 1 - j
      <3>1. Len(c) + 1 - j \in 1 .. Len(c)
        BY <1>2, <2>1
      <3> QED  BY <3>1, Zenon
    <2>3. priority[n] >= priority[c[k]] \/ prev[c[k]] = Null
      BY <1>8, <2>1, <2>2
    <2> SUFFICES ASSUME ~(e <= j) PROVE FALSE
      BY <2>1
    <2>4. k \in p + 1 .. Len(c) /\ k > 1 /\ k - 1 \in 1 .. Len(c)
      BY <1>2, <1>4, <1>9, <2>1, <2>2, SMTT(40)
    <2>5. prev[c[k]] # Null
      BY <1>2, <2>4
    <2>6. priority[n] < priority[c[k]]
      BY <1>4, <2>4
    <2> QED  BY <1>5, <2>3, <2>5, <2>6
  <1> DEFINE first == CHOOSE i \in stop : \A j \in stop : i <= j
  <1>12. Scan(n, tail[l]) = b[first]
    BY <1>6 DEF Scan
  <1> HIDE DEF stop
  <1>13. first \in stop /\ \A j \in stop : first <= j
    BY <1>10, <1>11
  <1> HIDE DEF first
  <1>14. first = e
    <2>1. first \in Int /\ e <= first /\ first <= e /\ e \in Int
      BY <1>10, <1>11, <1>13
    <2> QED  BY <2>1
  <1> QED  BY <1>1, <1>3, <1>10, <1>12, <1>14

\* thread_queue_insert_at_priority inserts as the sequences of ThreadQueue do.
LEMMA PriorityOperation ==
    ASSUME Types, NEW q, Represents(q), NEW l \in Lists, NEW n \in Nodes,
           insert_at_priority(l, n)
    PROVE  /\ Types'
           /\ Represents([q EXCEPT ![l] =
                             thread_queue_insert_at_priority(q[l], n, priority)])'
  <1>1. PICK c : c = q[l]
    OBVIOUS
  <1>2. /\ c \in Seq(Nodes) /\ Len(c) \in Nat /\ Distinct(c)
        /\ \A i \in 1 .. Len(c) : c[i] \in Nodes /\ c[i] # Null
        /\ (head[l] = Null) <=> (c = << >>)
        /\ c # << >> => /\ head[l] = c[1] /\ tail[l] = c[Len(c)]
                        /\ 1 \in 1 .. Len(c) /\ Len(c) \in 1 .. Len(c)
        /\ \A i \in 1 .. Len(c) : next[c[i]] = IF i < Len(c) THEN c[i + 1] ELSE Null
    BY <1>1, Ends
  <1>3. priority[n] \in Nat /\ \A i \in 1 .. Len(c) : priority[c[i]] \in Nat
    BY <1>2, NodeAssumption
  <1>4. \A m \in Lists : ~InQueue(n, q[m])
    BY LinkedMembers DEF insert_at_priority
  <1>5. CASE (head[l] # Null => priority[n] >= priority[tail[l]]) /\ append(l, n)
    <2>1. thread_queue_insert_at_priority(c, n, priority) = Append(c, n)
      BY <1>2, <1>5 DEF thread_queue_insert_at_priority
    <2> QED  BY <1>1, <1>5, <2>1, AppendOperation
  <1>6. CASE /\ head[l] # Null /\ priority[n] < priority[tail[l]]
             /\ priority[n] < priority[head[l]] /\ prepend(l, n)
    <2>1. c # << >> /\ priority[n] < priority[c[Len(c)]] /\ priority[n] < priority[c[1]]
      BY <1>2, <1>6
    <2>2. ~(priority[n] >= priority[c[Len(c)]])
      BY <1>2, <1>3, <2>1
    <2>3. thread_queue_insert_at_priority(c, n, priority) = << n >> \o c
      BY <2>1, <2>2 DEF thread_queue_insert_at_priority
    <2> QED  BY <1>1, <1>6, <2>3, PrependOperation
  <1>7. CASE /\ head[l] # Null /\ priority[n] < priority[tail[l]]
             /\ priority[n] >= priority[head[l]] /\ InsertAfter(Scan(n, tail[l]), n)
    <2>1. c # << >> /\ priority[n] < priority[c[Len(c)]] /\ priority[n] >= priority[c[1]]
      BY <1>2, <1>7
    <2>2. ~(priority[n] >= priority[c[Len(c)]]) /\ ~(priority[n] < priority[c[1]])
      BY <1>2, <1>3, <2>1
    <2>3. PICK p : p = ScanFromTail(c, n, priority)
      OBVIOUS
    <2>4. p \in 1 .. Len(c) /\ p < Len(c)
      BY <1>2, <2>1, <2>3, ScanPosition
    <2>5. Scan(n, tail[l]) = c[p]
      BY <1>1, <2>1, <2>3, ScanMeets
    <2>6. thread_queue_insert_at_priority(c, n, priority) = InsertAt(c, 1 + p, n)
      BY <2>1, <2>2, <2>3 DEF thread_queue_insert_at_priority
    <2>7. /\ p + 1 \in 1 .. Len(c) /\ p + 1 \in 1 .. Len(c) + 1 /\ 1 + p = p + 1
          /\ p + 1 # 1 /\ p + 1 # Len(c) + 1 /\ p + 1 <= Len(c) /\ p + 1 > 1
          /\ (p + 1) - 1 = p
      BY <1>2, <2>4
    <2>8. next[c[p]] = c[p + 1] /\ c[p] \in Nodes /\ c[p + 1] \in Nodes
      BY <1>2, <2>4, <2>7
    <2>9. c[p] # n /\ c[p + 1] # n
      BY <1>1, <1>4, <2>4, <2>7 DEF InQueue
    <2>10. /\ prev' = [prev EXCEPT ![n] = c[p], ![c[p + 1]] = n]
           /\ next' = [next EXCEPT ![n] = c[p + 1], ![c[p]] = n]
           /\ head' = head /\ tail' = tail
      BY <1>7, <2>5, <2>8 DEF InsertAfter
    <2>11. Types'
      BY <2>8, <2>10 DEF Types
    <2>12. LinksIn(c, l, n, p + 1)
      BY <2>7, <2>8, <2>9, <2>10 DEF LinksIn, Types
    <2>13. InsertAt(c, p + 1, n) \in Seq(Nodes) /\ IsInsertion(InsertAt(c, p + 1, n), c, p + 1, n)
      BY <1>2, <2>7, InsertAtIsInsertion
    <2>14. Represents([q EXCEPT ![l] = InsertAt(c, p + 1, n)])'
      BY <1>1, <1>4, <2>7, <2>12, <2>13, InsertHolds
    <2> QED  BY <1>1, <2>6, <2>7, <2>11, <2>14
  <1> QED  BY <1>5, <1>6, <1>7 DEF insert_at_priority

\* append_all, with the types of the pointers.
LEMMA JoinOperation ==
    ASSUME Types, NEW q, Represents(q), NEW l \in Lists, NEW m \in Lists, append_all(l, m)
    PROVE  /\ Types' /\ l # m
           /\ Represents([q EXCEPT ![l] = q[l] \o q[m], ![m] = << >>])'
  <1>1. /\ head[m] \in Nodes \cup {Null} /\ tail[l] \in Nodes \cup {Null}
        /\ tail[m] \in Nodes \cup {Null} /\ Null \in Nodes \cup {Null}
    BY DEF Types
  <1>2. Types'
    BY <1>1 DEF append_all, Types
  <1> QED  BY <1>2, JoinHolds DEF append_all

-----------------------------------------------------------------------------
(***************************************************************************)
(* What each operation promises, on the sequences read from the heads: an  *)
(* insertion adds its node at its place, a removal takes out the first,    *)
(* the last or the given node and leaves the others in their order,        *)
(* append_all empties the second list behind the first, and no other list  *)
(* changes.                                                                *)
(***************************************************************************)
OperationsKept ==
    /\ \A l \in Lists :
          /\ remove_first(l) => /\ 1 \in DOMAIN Queue[l]
                                /\ Queue' = [Queue EXCEPT ![l] = RemoveAt(Queue[l], 1)]
          /\ remove_last(l) =>
                /\ Len(Queue[l]) \in DOMAIN Queue[l]
                /\ Queue' = [Queue EXCEPT ![l] = RemoveAt(Queue[l], Len(Queue[l]))]
    /\ \A l \in Lists, n \in Nodes :
          /\ append(l, n) => Queue' = [Queue EXCEPT ![l] = Append(Queue[l], n)]
          /\ prepend(l, n) => Queue' = [Queue EXCEPT ![l] = << n >> \o Queue[l]]
          /\ insert_at_priority(l, n) =>
                Queue' = [Queue EXCEPT ![l] =
                             thread_queue_insert_at_priority(Queue[l], n, priority)]
          /\ remove(l, n) =>
                \E p \in DOMAIN Queue[l] :
                    /\ Queue[l][p] = n
                    /\ Queue' = [Queue EXCEPT ![l] = RemoveAt(Queue[l], p)]
    /\ \A l, m \in Lists :
          append_all(l, m) =>
             Queue' = [Queue EXCEPT ![l] = Queue[l] \o Queue[m], ![m] = << >>]

\* The lists hold what is read from them, after a step too.
LEMMA StillRepresents ==
    ASSUME NEW q, Represents(q)'
    PROVE  Queue' = q /\ Represents(Queue)'
  <1>1. Queue' = q
    BY ReadNext
  <1> QED  BY <1>1 DEF Represents, Apart, Holds

\* Cleared lists represent empty sequences.
LEMMA InitHolds == Init => IInv
  <1> SUFFICES ASSUME Init PROVE IInv
    OBVIOUS
  <1>1. PICK q : q = [l \in Lists |-> << >>]
    OBVIOUS
  <1>2. << >> \in Seq(Nodes) /\ Len(<< >>) = 0 /\ 1 .. 0 = {}
    OBVIOUS
  <1>3. Apart(q)
    BY <1>1, <1>2 DEF Apart, Distinct, InQueue
  <1>4. ASSUME NEW l \in Lists
        PROVE  Holds(l, q[l])
    <2>1. q[l] = << >> /\ head[l] = Null /\ tail[l] = Null
      BY <1>1 DEF Init
    <2> QED  BY <1>2, <2>1 DEF Holds
  <1>5. Represents(q)
    BY <1>3, <1>4 DEF Represents
  <1>6. Queue = q
    BY <1>5, ReadNow
  <1>7. Types
    BY DEF Init, Types
  <1> QED  BY <1>5, <1>6, <1>7 DEF IInv

(***************************************************************************)
(* Every operation keeps the representation and its promise.               *)
(***************************************************************************)
LEMMA OperationSteps ==
    ASSUME IInv
    PROVE  OperationsKept /\ (Next => IInv')
  <1>1. PICK q : q = Queue
    OBVIOUS
  <1>2. Types /\ Represents(q)
    BY <1>1 DEF IInv
  <1>3. \A l \in Lists : DOMAIN q[l] = 1 .. Len(q[l])
    BY <1>2, Members, LenProperties DEF Represents
  <1>4. ASSUME NEW l \in Lists, remove_first(l)
        PROVE  /\ 1 \in DOMAIN q[l] /\ Queue' = [q EXCEPT ![l] = RemoveAt(q[l], 1)]
               /\ IInv'
    BY <1>2, <1>3, <1>4, RemoveFirstOperation, StillRepresents DEF IInv
  <1>5. ASSUME NEW l \in Lists, remove_last(l)
        PROVE  /\ Len(q[l]) \in DOMAIN q[l]
               /\ Queue' = [q EXCEPT ![l] = RemoveAt(q[l], Len(q[l]))] /\ IInv'
    BY <1>2, <1>3, <1>5, RemoveLastOperation, StillRepresents DEF IInv
  <1>6. ASSUME NEW l \in Lists, NEW n \in Nodes, append(l, n)
        PROVE  Queue' = [q EXCEPT ![l] = Append(q[l], n)] /\ IInv'
    BY <1>2, <1>6, AppendOperation, StillRepresents DEF IInv
  <1>7. ASSUME NEW l \in Lists, NEW n \in Nodes, prepend(l, n)
        PROVE  Queue' = [q EXCEPT ![l] = << n >> \o q[l]] /\ IInv'
    BY <1>2, <1>7, PrependOperation, StillRepresents DEF IInv
  <1>8. ASSUME NEW l \in Lists, NEW n \in Nodes, insert_at_priority(l, n)
        PROVE  /\ Queue' = [q EXCEPT ![l] =
                               thread_queue_insert_at_priority(q[l], n, priority)]
               /\ IInv'
    BY <1>2, <1>8, PriorityOperation, StillRepresents DEF IInv
  <1>9. ASSUME NEW l \in Lists, NEW n \in Nodes, remove(l, n)
        PROVE  /\ \E p \in DOMAIN q[l] :
                     q[l][p] = n /\ Queue' = [q EXCEPT ![l] = RemoveAt(q[l], p)]
               /\ IInv'
    <2>1. PICK p \in 1 .. Len(q[l]) :
             q[l][p] = n /\ Represents([q EXCEPT ![l] = RemoveAt(q[l], p)])'
      BY <1>2, <1>9, RemoveOperation
    <2>2. Queue' = [q EXCEPT ![l] = RemoveAt(q[l], p)] /\ Represents(Queue)'
      BY <2>1, StillRepresents
    <2>3. Types'
      BY <1>2, <1>9, RemoveOperation
    <2> QED  BY <1>3, <2>1, <2>2, <2>3 DEF IInv
  <1>10. ASSUME NEW l \in Lists, NEW m \in Lists, append_all(l, m)
         PROVE  /\ Queue' = [q EXCEPT ![l] = q[l] \o q[m], ![m] = << >>]
                /\ IInv'
    BY <1>2, <1>10, JoinOperation, StillRepresents DEF IInv
  <1>11. OperationsKept
    <2>1. ASSUME NEW l \in Lists
          PROVE  /\ remove_first(l) =>
                       /\ 1 \in DOMAIN Queue[l]
                       /\ Queue' = [Queue EXCEPT ![l] = RemoveAt(Queue[l], 1)]
                 /\ remove_last(l) =>
                       /\ Len(Queue[l]) \in DOMAIN Queue[l]
                       /\ Queue' = [Queue EXCEPT ![l] = RemoveAt(Queue[l], Len(Queue[l]))]
      BY <1>1, <1>4, <1>5
    <2>2. ASSUME NEW l \in Lists, NEW n \in Nodes
          PROVE  /\ append(l, n) => Queue' = [Queue EXCEPT ![l] = Append(Queue[l], n)]
                 /\ prepend(l, n) => Queue' = [Queue EXCEPT ![l] = << n >> \o Queue[l]]
                 /\ insert_at_priority(l, n) =>
                       Queue' = [Queue EXCEPT ![l] =
                                    thread_queue_insert_at_priority(Queue[l], n, priority)]
      BY <1>1, <1>6, <1>7, <1>8
    <2>3. ASSUME NEW l \in Lists, NEW n \in Nodes
          PROVE  remove(l, n) =>
                    \E p \in DOMAIN Queue[l] :
                        /\ Queue[l][p] = n
                        /\ Queue' = [Queue EXCEPT ![l] = RemoveAt(Queue[l], p)]
      BY <1>1, <1>9
    <2>4. ASSUME NEW l \in Lists, NEW m \in Lists
          PROVE  append_all(l, m) =>
                    Queue' = [Queue EXCEPT ![l] = Queue[l] \o Queue[m], ![m] = << >>]
      BY <1>1, <1>10
    <2> QED  BY <2>1, <2>2, <2>3, <2>4, Zenon DEF OperationsKept
  <1>12. Next => IInv'
    BY <1>4, <1>5, <1>6, <1>7, <1>8, <1>9, <1>10 DEF Next
  <1> QED  BY <1>11, <1>12

\* A step that leaves the pointers alone leaves the lists alone.
LEMMA Unmoved ==
    ASSUME UNCHANGED vars
    PROVE  UNCHANGED Queue /\ (IInv => IInv')
  <1>1. head' = head /\ tail' = tail /\ next' = next /\ prev' = prev
    BY DEF vars
  <1>2. Queue' = Queue
    BY <1>1 DEF Queue, Contents
  <1>3. IInv => IInv'
    BY <1>1, <1>2 DEF IInv, Types, Represents, Apart, Holds
  <1> QED  BY <1>2, <1>3

\* The lists represent sequences, whatever the operations so far.
LEMMA Invariance == Spec => []IInv
  <1>1. IInv /\ [Next]_vars => IInv'
    <2> SUFFICES ASSUME IInv, [Next]_vars PROVE IInv'
      OBVIOUS
    <2>1. CASE Next
      BY <2>1, OperationSteps
    <2>2. CASE UNCHANGED vars
      BY <2>2, Unmoved
    <2> QED  BY <2>1, <2>2
  <1> QED  BY <1>1, InitHolds, PTL DEF Spec

(***************************************************************************)
(* For every set of lists, finite set of nodes and priorities, the walk    *)
(* along prev from a tail meets the nodes of the walk along next from the  *)
(* head, backwards, and neither runs in a circle: the links that list.h    *)
(* leaves in removed nodes never lead a walk astray.                       *)
(***************************************************************************)
THEOREM BothWaysCorrect == Spec => []BothWays
  <1>1. IInv => BothWays
    <2> SUFFICES ASSUME IInv, NEW l \in Lists
                 PROVE  LET forth == Contents(l)
                            back  == Walk(tail[l], prev)
                        IN /\ Len(forth) = Len(back)
                           /\ Len(forth) <= Cardinality(Nodes)
                           /\ \A i \in 1 .. Len(forth) : forth[i] = back[Len(back) + 1 - i]
      BY DEF BothWays
    <2>1. PICK q : q = Queue
      OBVIOUS
    <2>2. Represents(q)
      BY <2>1 DEF IInv
    <2>3. PICK c, b : c = Contents(l) /\ b = Walk(tail[l], prev)
      OBVIOUS
    <2>4. c = q[l] /\ b = Backwards(c)
      BY <2>2, <2>3, ReadNow
    <2>5. c \in Seq(Nodes) /\ Len(c) \in Nat /\ Distinct(c) /\ \A i \in 1 .. Len(c) : c[i] \in Nodes
      BY <2>2, <2>4, Ends
    <2>6. Len(c) <= Cardinality(Nodes)
      BY <2>5, NoLonger
    <2>7. b = [i \in 1 .. Len(c) |-> c[Len(c) + 1 - i]]
      BY <2>4 DEF Backwards
    <2>8. \A i \in 1 .. Len(c) : Len(c) + 1 - i \in 1 .. Len(c) /\ Len(c) + 1 - (Len(c) + 1 - i) = i
      BY <2>5
    <2>9. b \in [1 .. Len(c) -> Nodes]
      BY <2>5, <2>7, <2>8
    <2>10. b \in Seq(Nodes)
      BY <2>5, <2>9
    <2>11. Len(b) = Len(c)
      BY <2>5, <2>9, <2>10, LenProperties
    <2>12. \A i \in 1 .. Len(c) : c[i] = b[Len(b) + 1 - i]
      BY <2>7, <2>8, <2>11
    <2> QED  BY <2>3, <2>6, <2>11, <2>12
  <1> QED  BY <1>1, Invariance, PTL

(***************************************************************************)
(* Every operation of list.h, and thread_queue_insert_at_priority, does to *)
(* the sequence of its list what it is named for.                          *)
(***************************************************************************)
THEOREM OperationsCorrect == Spec => [][OperationsKept]_vars
  <1>1. IInv => OperationsKept
    BY OperationSteps
  <1> QED  BY <1>1, Invariance, PTL

(***************************************************************************)
(* The pointers implement the family of sequences of module Queues, which  *)
(* is how the models of the scheduler, the mutexes and the caches see a    *)
(* list.                                                                   *)
(***************************************************************************)
THEOREM Refinement == Spec => ImplementsQueues
  <1>1. Init => Q!Init
    <2> SUFFICES ASSUME Init PROVE Q!Init
      OBVIOUS
    <2>1. Represents(Queue)
      BY InitHolds DEF IInv
    <2>2. ASSUME NEW l \in Lists
          PROVE  Contents(l) = << >>
      <3>1. PICK q : q = Queue
        OBVIOUS
      <3>2. Represents(q) /\ q[l] = Contents(l)
        BY <2>1, <3>1, ReadNow
      <3>3. head[l] = Null
        BY DEF Init
      <3> QED  BY <3>2, <3>3, Ends
    <2> QED  BY <2>2 DEF Q!Init
  <1>2. IInv /\ [Next]_vars => [Q!Next]_Queue
    <2> SUFFICES ASSUME IInv, [Next]_vars PROVE [Q!Next]_Queue
      OBVIOUS
    <2>1. PICK q : q = Queue
      OBVIOUS
    <2>2. Represents(q) /\ OperationsKept
      BY <2>1, OperationSteps DEF IInv
    <2>3. ASSUME NEW n, Unlinked(n)
          PROVE  Q!Unlinked(n)
      <3>1. \A l \in Lists : ~InQueue(n, q[l])
        BY <2>2, <2>3, LinkedMembers
      <3> QED  BY <2>1, <3>1 DEF Q!Unlinked, Q!Contains, InQueue, Queue
    <2>4. ASSUME NEW l \in Lists, NEW p \in DOMAIN q[l],
                 Queue' = [q EXCEPT ![l] = RemoveAt(q[l], p)]
          PROVE  Q!Next
      <3>1. Q!TakeOut(l)
        BY <2>1, <2>4 DEF Q!TakeOut, Queue, RemoveAt, Q!RemoveAt
      <3> QED  BY <3>1 DEF Q!Next
    <2>5. ASSUME NEW l \in Lists, NEW n \in Nodes,
                 append(l, n) \/ prepend(l, n) \/ insert_at_priority(l, n)
          PROVE  Q!Next
      <3>1. Q!Unlinked(n)
        BY <2>3, <2>5 DEF append, prepend, insert_at_priority
      <3>2. \/ Queue' = [q EXCEPT ![l] = Append(q[l], n)]
            \/ Queue' = [q EXCEPT ![l] = << n >> \o q[l]]
            \/ Queue' = [q EXCEPT ![l] = thread_queue_insert_at_priority(q[l], n, priority)]
        BY <2>1, <2>2, <2>5 DEF OperationsKept
      <3>3. thread_queue_insert_at_priority(q[l], n, priority)
            = Q!thread_queue_insert_at_priority(q[l], n, priority)
        BY DEF thread_queue_insert_at_priority, ScanFromTail, InsertAt,
               Q!thread_queue_insert_at_priority, Q!ScanFromTail, Q!InsertAt
      <3>4. Q!Insert(l, n)
        BY <2>1, <3>1, <3>2, <3>3 DEF Q!Insert, Queue
      <3> QED  BY <3>4 DEF Q!Next
    <2>6. ASSUME NEW l \in Lists, NEW m \in Lists, append_all(l, m)
          PROVE  Q!Next
      <3>1. l # m /\ Queue' = [q EXCEPT ![l] = q[l] \o q[m], ![m] = << >>]
        BY <2>1, <2>2, <2>6 DEF OperationsKept, append_all
      <3>2. Q!AppendAll(l, m)
        BY <2>1, <3>1 DEF Q!AppendAll, Queue
      <3> QED  BY <3>2 DEF Q!Next
    <2>7. CASE \E l \in Lists : remove_first(l) \/ remove_last(l)
      BY <2>1, <2>2, <2>4, <2>7 DEF OperationsKept
    <2>8. CASE \E l \in Lists, n \in Nodes : remove(l, n)
      BY <2>1, <2>2, <2>4, <2>8 DEF OperationsKept
    <2>9. CASE UNCHANGED vars
      BY <2>9, Unmoved
    <2> QED  BY <2>5, <2>6, <2>7, <2>8, <2>9 DEF Next
  <1> QED  BY <1>1, <1>2, Invariance, PTL DEF Spec, ImplementsQueues, Q!Spec, Queue

=============================================================================
