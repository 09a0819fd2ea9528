---------------------------- MODULE ThreadsProofs ----------------------------
(***************************************************************************)
(* The thread subsystem, for every number of jobs, every list of jobs,     *)
(* every priority, every quantum and every choice in the menus: it always  *)
(* has a thread to run, respects g_preemption, keeps every thread on the   *)
(* one queue its state names and the run queue sorted, counts references   *)
(* exactly and frees no thread that is still referred to, loses no wake-up *)
(* and, without RR, fails no assertion.                                    *)
(***************************************************************************)
EXTENDS Threads, SequenceTheorems, WellFoundedInduction, TLAPS

-----------------------------------------------------------------------------
(***************************************************************************)
(* The queues first: what the operations on thread queues do, for queues   *)
(* of every length and every assignment of priorities.                     *)
(***************************************************************************)

(***************************************************************************)
(* thread_queue_append: the queue gains the thread, at its tail, and       *)
(* nothing else; a queue without duplicates stays one if the thread was in *)
(* none.                                                                   *)
(***************************************************************************)
LEMMA AppendQueue ==
    ASSUME NEW S, NEW q \in Seq(S), NEW x \in S
    PROVE  /\ Append(q, x) \in Seq(S)
           /\ Append(q, x) # << >>
           /\ \A t : InQueue(t, Append(q, x)) <=> InQueue(t, q) \/ t = x
           /\ Distinct(q) /\ ~InQueue(x, q) => Distinct(Append(q, x))
  <1> DEFINE r == Append(q, x)
  <1>1. /\ r \in Seq(S) /\ r # << >>
        /\ Len(q) \in Nat /\ Len(r) = Len(q) + 1
        /\ \A i \in 1 .. Len(q) : r[i] = q[i]
        /\ r[Len(q) + 1] = x
    BY AppendProperties, LenProperties
  <1> HIDE DEF r
  <1>2. \A t : InQueue(t, r) <=> InQueue(t, q) \/ t = x
    BY <1>1 DEF InQueue
  <1>3. Distinct(q) /\ ~InQueue(x, q) => Distinct(r)
    BY <1>1 DEF InQueue, Distinct
  <1> QED  BY <1>1, <1>2, <1>3 DEF r

(***************************************************************************)
(* thread_queue_remove_first on a queue that is not empty: the first       *)
(* thread leaves it, and nothing else.                                     *)
(***************************************************************************)
LEMMA RemoveFirstQueue ==
    ASSUME NEW S, NEW q \in Seq(S), q # << >>
    PROVE  /\ Head(q) \in S
           /\ Tail(q) \in Seq(S)
           /\ \A t : InQueue(t, q) <=> t = Head(q) \/ InQueue(t, Tail(q))
           /\ Distinct(q) => Distinct(Tail(q)) /\ ~InQueue(Head(q), Tail(q))
  <1>1. /\ Head(q) \in S /\ Tail(q) \in Seq(S) /\ Head(q) = q[1]
        /\ Len(q) \in Nat \ {0} /\ Len(Tail(q)) = Len(q) - 1
        /\ \A i \in 1 .. Len(Tail(q)) : Tail(q)[i] = q[i + 1]
    BY HeadTailProperties, LenProperties, EmptySeq
  <1>2. \A t : InQueue(t, q) <=> t = Head(q) \/ InQueue(t, Tail(q))
    <2> TAKE t
    <2>1. ASSUME NEW i \in 1 .. Len(q), q[i] = t, i # 1
          PROVE  InQueue(t, Tail(q))
      <3>1. i - 1 \in 1 .. Len(Tail(q)) /\ Tail(q)[i - 1] = q[i]
        BY <1>1, <2>1
      <3> QED  BY <2>1, <3>1 DEF InQueue
    <2>2. ASSUME NEW i \in 1 .. Len(Tail(q)), Tail(q)[i] = t
          PROVE  InQueue(t, q)
      <3>1. i + 1 \in 1 .. Len(q)
        BY <1>1
      <3> QED  BY <1>1, <2>2, <3>1 DEF InQueue
    <2>3. 1 \in 1 .. Len(q)
      BY <1>1
    <2> QED  BY <1>1, <2>1, <2>2, <2>3 DEF InQueue
  <1>3. Distinct(q) => Distinct(Tail(q)) /\ ~InQueue(Head(q), Tail(q))
    BY <1>1 DEF InQueue, Distinct
  <1> QED  BY <1>1, <1>2, <1>3

-----------------------------------------------------------------------------
(***************************************************************************)
(* r is q with x inserted before position p.                               *)
(***************************************************************************)
IsInsertion(r, q, p, x) ==
    /\ Len(r) = Len(q) + 1
    /\ \A i \in 1 .. p - 1 : r[i] = q[i]
    /\ r[p] = x
    /\ \A i \in p + 1 .. Len(q) + 1 : r[i] = q[i - 1]

\* An insertion adds x, and nothing else.
LEMMA InsertionMembers ==
    ASSUME NEW S, NEW q \in Seq(S), NEW r \in Seq(S), NEW x \in S,
           NEW p \in 1 .. Len(q) + 1, IsInsertion(r, q, p, x)
    PROVE  /\ r # << >>
           /\ \A t : InQueue(t, r) <=> InQueue(t, q) \/ t = x
           /\ Distinct(q) /\ ~InQueue(x, q) => Distinct(r)
  <1>1. Len(q) \in Nat /\ Len(r) = Len(q) + 1 /\ r # << >>
    BY LenProperties, EmptySeq DEF IsInsertion
  <1>2. \A t : InQueue(t, r) <=> InQueue(t, q) \/ t = x
    <2> TAKE t
    <2>1. ASSUME NEW i \in 1 .. Len(r), r[i] = t
          PROVE  InQueue(t, q) \/ t = x
      <3>1. CASE i < p
        BY <1>1, <2>1, <3>1 DEF IsInsertion, InQueue
      <3>2. CASE i = p
        BY <2>1, <3>2 DEF IsInsertion
      <3>3. CASE i > p
        <4>1. i - 1 \in 1 .. Len(q) /\ q[i - 1] = t
          BY <1>1, <2>1, <3>3 DEF IsInsertion
        <4> QED  BY <4>1 DEF InQueue
      <3> QED  BY <1>1, <3>1, <3>2, <3>3
    <2>2. ASSUME NEW i \in 1 .. Len(q), q[i] = t
          PROVE  InQueue(t, r)
      <3>1. CASE i < p
        BY <1>1, <2>2, <3>1 DEF IsInsertion, InQueue
      <3>2. CASE i >= p
        <4>1. i + 1 \in 1 .. Len(r) /\ i + 1 \in p + 1 .. Len(q) + 1
              /\ (i + 1) - 1 = i
          BY <1>1, <3>2
        <4>2. r[i + 1] = t
          BY <2>2, <4>1 DEF IsInsertion
        <4> QED  BY <4>1, <4>2 DEF InQueue
      <3> QED  BY <1>1, <3>1, <3>2
    <2>3. InQueue(x, r)
      BY <1>1 DEF IsInsertion, InQueue
    <2> QED  BY <2>1, <2>2, <2>3 DEF InQueue
  <1>3. ASSUME Distinct(q), ~InQueue(x, q)
        PROVE  Distinct(r)
    <2> DEFINE k(i) == IF i < p THEN i ELSE i - 1
    <2>1. \A i \in 1 .. Len(r) : i # p =>
              k(i) \in 1 .. Len(q) /\ r[i] = q[k(i)] /\ r[i] # x
      <3> TAKE i \in 1 .. Len(r)
      <3>1. CASE i < p
        BY <1>1, <1>3, <3>1 DEF IsInsertion, InQueue
      <3>2. CASE i > p
        <4>1. i \in p + 1 .. Len(q) + 1 /\ i - 1 \in 1 .. Len(q) /\ k(i) = i - 1
          BY <1>1, <3>2
        <4> QED  BY <1>3, <4>1 DEF IsInsertion, InQueue
      <3> QED  BY <1>1, <3>1, <3>2
    <2>2. ASSUME NEW i \in 1 .. Len(r), NEW j \in 1 .. Len(r), r[i] = r[j]
          PROVE  i = j
      <3>1. CASE i = p \/ j = p
        <4>1. r[p] = x /\ \A h \in 1 .. Len(r) : h # p => r[h] # x
          BY <2>1 DEF IsInsertion
        <4> QED  BY <2>2, <3>1, <4>1
      <3>2. CASE i # p /\ j # p
        <4>1. k(i) = k(j)
          <5> HIDE DEF k
          <5> QED  BY <1>3, <2>1, <2>2, <3>2 DEF Distinct
        <4> QED  BY <1>1, <3>2, <4>1
      <3> QED  BY <3>1, <3>2
    <2> QED  BY <2>2 DEF Distinct
  <1> QED  BY <1>1, <1>2, <1>3

\* Inserting v into a sorted list of numbers at a place that fits keeps it sorted.
LEMMA SortedInsertion ==
    ASSUME NEW n \in Nat, NEW f \in [1 .. n -> Int], NEW g \in [1 .. n + 1 -> Int],
           NEW p \in 1 .. n + 1, NEW v \in Int,
           \A i \in 1 .. p - 1 : g[i] = f[i],
           g[p] = v,
           \A i \in p + 1 .. n + 1 : g[i] = f[i - 1],
           \A i, j \in 1 .. n : i < j => f[i] <= f[j],
           p > 1 => f[p - 1] <= v,
           p <= n => v <= f[p]
    PROVE  \A i, j \in 1 .. n + 1 : i < j => g[i] <= g[j]
  <1> TAKE i, j \in 1 .. n + 1
  <1>1. ASSUME i < j PROVE g[i] <= g[j]
    <2>1. CASE j <= p
      <3>1. i \in 1 .. p - 1 /\ g[i] = f[i]
        BY <1>1, <2>1
      <3>2. CASE i = p - 1
        BY <1>1, <2>1, <3>1, <3>2
      <3>3. CASE i < p - 1
        <4>1. p - 1 \in 1 .. n /\ i \in 1 .. n /\ f[i] <= f[p - 1]
          BY <3>1, <3>3
        <4>2. j < p => j \in 1 .. p - 1 /\ j \in 1 .. n /\ g[j] = f[j] /\ f[i] <= f[j]
          BY <1>1, <3>1
        <4>3. j = p => g[j] = v /\ f[p - 1] <= v
          BY <3>1
        <4>4. f[i] \in Int /\ f[p - 1] \in Int
          BY <4>1
        <4> QED  BY <2>1, <3>1, <4>1, <4>2, <4>3, <4>4
      <3> QED  BY <3>1, <3>2, <3>3
    <2>2. CASE j > p
      <3>1. j - 1 \in 1 .. n /\ j - 1 \in p .. n /\ g[j] = f[j - 1]
        BY <2>2
      <3>2. v <= f[j - 1]
        <4>1. p \in 1 .. n /\ f[p] \in Int /\ f[j - 1] \in Int /\ v <= f[p]
          BY <3>1
        <4>2. CASE p = j - 1
          BY <4>1, <4>2
        <4>3. CASE p < j - 1
          <5>1. f[p] <= f[j - 1]
            BY <3>1, <4>1, <4>3
          <5> QED  BY <4>1, <5>1
        <4> QED  BY <3>1, <4>2, <4>3
      <3>3. CASE i < p
        <4>1. i \in 1 .. n /\ i \in 1 .. p - 1 /\ g[i] = f[i]
          BY <3>1, <3>3
        <4>2. i < j - 1
          BY <2>2, <3>3
        <4> QED  BY <3>1, <4>1, <4>2
      <3>4. CASE i = p
        BY <3>1, <3>2, <3>4
      <3>5. CASE i > p
        <4>1. i - 1 \in 1 .. n /\ g[i] = f[i - 1] /\ i - 1 < j - 1
          BY <1>1, <3>5
        <4> QED  BY <3>1, <4>1
      <3> QED  BY <3>3, <3>4, <3>5
    <2> QED  BY <2>1, <2>2
  <1> QED  BY <1>1

\* An insertion at a place that fits keeps the queue sorted.
LEMMA InsertionOrdered ==
    ASSUME NEW S, NEW q \in Seq(S), NEW r \in Seq(S), NEW x \in S,
           NEW p \in 1 .. Len(q) + 1, IsInsertion(r, q, p, x),
           NEW prio, \A s \in S : prio[s] \in Int, Ordered(q, prio),
           p > 1 => prio[q[p - 1]] <= prio[x],
           p <= Len(q) => prio[x] <= prio[q[p]]
    PROVE  Ordered(r, prio)
  <1> DEFINE n == Len(q)
             f == [i \in 1 .. n |-> prio[q[i]]]
             g == [i \in 1 .. n + 1 |-> prio[r[i]]]
             v == prio[x]
  <1>1. /\ n \in Nat /\ Len(r) = n + 1 /\ v \in Int
        /\ \A i \in 1 .. n : q[i] \in S
        /\ \A i \in 1 .. n + 1 : r[i] \in S
    BY LenProperties DEF IsInsertion
  <1>2. f \in [1 .. n -> Int] /\ g \in [1 .. n + 1 -> Int] /\ p \in 1 .. n + 1
    BY <1>1
  <1>3. \A i \in 1 .. p - 1 : i \in 1 .. n /\ i \in 1 .. n + 1 /\ g[i] = f[i]
    BY <1>1 DEF IsInsertion
  <1>4. g[p] = v
    BY <1>1 DEF IsInsertion
  <1>5. \A i \in p + 1 .. n + 1 : g[i] = f[i - 1]
    <2> TAKE i \in p + 1 .. n + 1
    <2>1. i \in 1 .. n + 1 /\ i - 1 \in 1 .. n /\ r[i] = q[i - 1]
      BY <1>1 DEF IsInsertion
    <2> QED  BY <2>1
  <1>6. \A i, j \in 1 .. n : i < j => f[i] <= f[j]
    BY DEF Ordered
  <1>7. (p > 1 => f[p - 1] <= v) /\ (p <= n => v <= f[p])
    BY <1>1
  <1> HIDE DEF n, f, g, v
  <1>8. \A i, j \in 1 .. n + 1 : i < j => g[i] <= g[j]
    <2>1. n \in Nat /\ v \in Int /\ \A i \in 1 .. p - 1 : g[i] = f[i]
      BY <1>1, <1>3
    <2> QED  BY <1>2, <1>4, <1>5, <1>6, <1>7, <2>1, SortedInsertion
  <1> QED  BY <1>1, <1>8 DEF Ordered, n, g

-----------------------------------------------------------------------------
\* Append, putting in front and InsertAt are insertions.
LEMMA AppendIsInsertion ==
    ASSUME NEW S, NEW q \in Seq(S), NEW x \in S
    PROVE  /\ Append(q, x) \in Seq(S)
           /\ Len(q) + 1 \in 1 .. Len(q) + 1
           /\ IsInsertion(Append(q, x), q, Len(q) + 1, x)
  BY AppendProperties, LenProperties DEF IsInsertion

LEMMA PrependIsInsertion ==
    ASSUME NEW S, NEW q \in Seq(S), NEW x \in S
    PROVE  /\ << x >> \o q \in Seq(S)
           /\ 1 \in 1 .. Len(q) + 1
           /\ IsInsertion(<< x >> \o q, q, 1, x)
  <1>1. << x >> \in Seq(S) /\ Len(<< x >>) = 1 /\ << x >>[1] = x
    OBVIOUS
  <1>2. Len(q) \in Nat
    BY LenProperties
  <1>3. << x >> \o q \in Seq(S)
        /\ Len(<< x >> \o q) = Len(<< x >>) + Len(q)
        /\ \A i \in 1 .. Len(<< x >>) + Len(q) : (<< x >> \o q)[i] =
               IF i <= Len(<< x >>) THEN << x >>[i] ELSE q[i - Len(<< x >>)]
    BY <1>1, ConcatProperties
  <1> QED  BY <1>1, <1>2, <1>3 DEF IsInsertion

LEMMA InsertAtIsInsertion ==
    ASSUME NEW S, NEW q \in Seq(S), NEW x \in S, NEW p \in 1 .. Len(q) + 1
    PROVE  InsertAt(q, p, x) \in Seq(S) /\ IsInsertion(InsertAt(q, p, x), q, p, x)
  <1> DEFINE a == SubSeq(q, 1, p - 1)
             b == << x >>
             c == SubSeq(q, p, Len(q))
  <1>1. Len(q) \in Nat /\ \A i \in 1 .. Len(q) : q[i] \in S
    BY LenProperties
  <1>2. a \in Seq(S) /\ Len(a) = p - 1 /\ \A i \in 1 .. p - 1 : a[i] = q[i]
    BY <1>1, SubSeqProperties
  <1>3. b \in Seq(S) /\ Len(b) = 1 /\ b[1] = x
    OBVIOUS
  <1>4. /\ c \in Seq(S) /\ Len(c) = Len(q) - p + 1
        /\ \A i \in 1 .. Len(q) - p + 1 : c[i] = q[p + i - 1]
    BY <1>1, SubSeqProperties
  <1> HIDE DEF a, b, c
  <1> DEFINE d == a \o b
             r == d \o c
  <1>5. /\ d \in Seq(S) /\ Len(d) = p
        /\ \A i \in 1 .. p - 1 : d[i] = q[i]
        /\ d[p] = x
    <2>1. /\ d \in Seq(S) /\ Len(d) = Len(a) + Len(b)
          /\ \A i \in 1 .. Len(a) + Len(b) :
                 d[i] = IF i <= Len(a) THEN a[i] ELSE b[i - Len(a)]
      BY <1>2, <1>3, ConcatProperties
    <2> HIDE DEF d
    <2> QED  BY <1>1, <1>2, <1>3, <2>1
  <1>6. InsertAt(q, p, x) = r
    BY DEF InsertAt, a, b, c
  <1> HIDE DEF d
  <1>7. /\ r \in Seq(S) /\ Len(r) = Len(d) + Len(c)
        /\ \A i \in 1 .. Len(d) + Len(c) :
               r[i] = IF i <= Len(d) THEN d[i] ELSE c[i - Len(d)]
    BY <1>4, <1>5, ConcatProperties
  <1> HIDE DEF r
  <1>8. r \in Seq(S) /\ Len(r) = Len(q) + 1 /\ r[p] = x
        /\ \A i \in 1 .. p - 1 : r[i] = q[i]
    BY <1>1, <1>4, <1>5, <1>7
  <1>9. ASSUME NEW i \in p + 1 .. Len(q) + 1
        PROVE  r[i] = q[i - 1]
    <2>1. r[i] = c[i - p] /\ i - p \in 1 .. Len(q) - p + 1
      BY <1>1, <1>4, <1>5, <1>7
    <2> QED  BY <1>1, <1>4, <2>1
  <1> QED  BY <1>6, <1>8, <1>9 DEF IsInsertion

(***************************************************************************)
(* The scan from the tail stops: if the first thread's number is not       *)
(* larger than t's, there is a last such thread.                           *)
(***************************************************************************)
LEMMA ScanStops ==
    ASSUME NEW S, NEW q \in Seq(S), NEW t \in S,
           NEW prio, \A s \in S : prio[s] \in Int,
           q # << >>, prio[q[1]] <= prio[t]
    PROVE  /\ ScanFromTail(q, t, prio) \in 1 .. Len(q)
           /\ prio[q[ScanFromTail(q, t, prio)]] <= prio[t]
           /\ \A k \in ScanFromTail(q, t, prio) + 1 .. Len(q) :
                  prio[t] < prio[q[k]]
  <1>1. /\ Len(q) \in Nat \ {0} /\ prio[t] \in Int
        /\ \A i \in 1 .. Len(q) : prio[q[i]] \in Int
    BY LenProperties, EmptySeq
  <1> DEFINE R == OpToRel(<, Nat)
             T == {n \in Nat : n < Len(q) /\ prio[q[Len(q) - n]] <= prio[t]}
  <1>2. IsWellFoundedOn(R, Nat)
    BY NatLessThanWellFounded
  <1>3. \A m, n \in Nat : << m, n >> \in R <=> m < n
    BY DEF OpToRel
  <1>4. T \subseteq Nat /\ T # {}
    <2>1. Len(q) - 1 \in T
      BY <1>1
    <2> QED  BY <2>1
  <1> HIDE DEF R
  <1>5. PICK n \in T : \A m \in T : ~(<< m, n >> \in R)
    <2> HIDE DEF T
    <2> QED  BY <1>2, <1>4, WFMin
  <1>6. \A m \in T : n <= m
    <2> HIDE DEF T
    <2>1. ASSUME NEW m \in T
          PROVE  m \in Nat /\ n \in Nat /\ ~(m < n)
      BY <1>3, <1>4, <1>5
    <2> QED  BY <2>1
  <1>7. Len(q) - n \in 1 .. Len(q) /\ prio[q[Len(q) - n]] <= prio[t]
    BY <1>1, <1>5
  <1>8. ASSUME NEW k \in Len(q) - n + 1 .. Len(q)
        PROVE  prio[t] < prio[q[k]]
    <2>1. Len(q) - k \in Nat /\ Len(q) - k < n /\ Len(q) - (Len(q) - k) = k
          /\ k \in 1 .. Len(q) /\ Len(q) - k < Len(q)
      BY <1>1, <1>7, <1>5
    <2>2. Len(q) - k \notin T
      BY <1>6, <2>1, <1>5
    <2> QED  BY <1>1, <2>1, <2>2
  <1>9. \E p \in 1 .. Len(q) :
            /\ prio[q[p]] <= prio[t]
            /\ \A k \in p + 1 .. Len(q) : prio[t] < prio[q[k]]
    BY <1>7, <1>8
  <1> QED  BY <1>9 DEF ScanFromTail

-----------------------------------------------------------------------------
(***************************************************************************)
(* thread_queue_insert_at_priority inserts: every thread behind the new    *)
(* one has a strictly larger number, so that threads of one priority are   *)
(* served in the order of their arrival, and the one right in front of it  *)
(* does not.                                                               *)
(***************************************************************************)
THEOREM InsertAtPriority ==
    ASSUME NEW S, NEW q \in Seq(S), NEW t \in S,
           NEW prio, \A s \in S : prio[s] \in Int
    PROVE  LET r == thread_queue_insert_at_priority(q, t, prio)
           IN  /\ r \in Seq(S)
               /\ \E p \in 1 .. Len(q) + 1 :
                      /\ IsInsertion(r, q, p, t)
                      /\ p > 1 => prio[q[p - 1]] <= prio[t]
                      /\ Ordered(q, prio) =>
                             \A k \in p .. Len(q) : prio[t] < prio[q[k]]
  <1> DEFINE r == thread_queue_insert_at_priority(q, t, prio)
             G == /\ r \in Seq(S)
                  /\ \E p \in 1 .. Len(q) + 1 :
                         /\ IsInsertion(r, q, p, t)
                         /\ p > 1 => prio[q[p - 1]] <= prio[t]
                         /\ Ordered(q, prio) =>
                                \A k \in p .. Len(q) : prio[t] < prio[q[k]]
  <1> SUFFICES G  OBVIOUS
  <1>1. /\ Len(q) \in Nat /\ prio[t] \in Int
        /\ \A i \in 1 .. Len(q) : prio[q[i]] \in Int
        /\ q # << >> => Len(q) > 0
        /\ q = << >> => Len(q) = 0
    BY LenProperties, EmptySeq
  <1>2. CASE q = << >> \/ prio[t] >= prio[q[Len(q)]]
    <2>1. r = Append(q, t)
      BY <1>2 DEF thread_queue_insert_at_priority
    <2>2. r \in Seq(S) /\ IsInsertion(r, q, Len(q) + 1, t)
      BY <2>1, AppendIsInsertion
    <2> DEFINE p == Len(q) + 1
    <2>3. p \in 1 .. Len(q) + 1 /\ p - 1 = Len(q) /\ p .. Len(q) = {}
      BY <1>1
    <2>4. p > 1 => prio[q[p - 1]] <= prio[t]
      <3>1. CASE q = << >>
        BY <1>1, <3>1
      <3>2. CASE prio[t] >= prio[q[Len(q)]] /\ q # << >>
        <4>1. Len(q) \in 1 .. Len(q)
          BY <1>1, <3>2
        <4>2. prio[q[Len(q)]] \in Int
          BY <1>1, <4>1
        <4> QED  BY <1>1, <2>3, <3>2, <4>2
      <3> QED  BY <1>2, <3>1, <3>2
    <2> HIDE DEF r
    <2> QED  BY <2>2, <2>3, <2>4
  <1>3. CASE q # << >> /\ prio[t] < prio[q[1]]
                       /\ ~(prio[t] >= prio[q[Len(q)]])
    <2>1. r = << t >> \o q
      BY <1>3 DEF thread_queue_insert_at_priority
    <2>2. r \in Seq(S) /\ IsInsertion(r, q, 1, t)
      BY <2>1, PrependIsInsertion
    <2>3. ASSUME Ordered(q, prio), NEW k \in 1 .. Len(q)
          PROVE  prio[t] < prio[q[k]]
      <3>1. 1 \in 1 .. Len(q) /\ (k = 1 \/ prio[q[1]] <= prio[q[k]])
        BY <1>1, <2>3 DEF Ordered
      <3>2. prio[q[1]] \in Int /\ prio[q[k]] \in Int
        BY <1>1, <3>1
      <3> QED  BY <1>1, <1>3, <3>1, <3>2
    <2> HIDE DEF r
    <2>4. 1 \in 1 .. Len(q) + 1
      BY <1>1
    <2> QED  BY <2>2, <2>3, <2>4
  <1>4. CASE q # << >> /\ ~(prio[t] < prio[q[1]])
                       /\ ~(prio[t] >= prio[q[Len(q)]])
    <2> DEFINE m == ScanFromTail(q, t, prio)
    <2>1. r = InsertAt(q, 1 + m, t)
      BY <1>4 DEF thread_queue_insert_at_priority
    <2>2. prio[q[1]] <= prio[t]
      <3>1. 1 \in 1 .. Len(q)
        BY <1>1, <1>4
      <3>2. prio[q[1]] \in Int
        BY <1>1, <3>1
      <3> QED  BY <1>1, <1>4, <3>2
    <2>3. /\ m \in 1 .. Len(q) /\ prio[q[m]] <= prio[t]
          /\ \A k \in m + 1 .. Len(q) : prio[t] < prio[q[k]]
      BY <1>4, <2>2, ScanStops
    <2> HIDE DEF m
    <2>4. 1 + m \in 1 .. Len(q) + 1 /\ (1 + m) - 1 = m /\ 1 + m = m + 1
      BY <1>1, <2>3
    <2>5. r \in Seq(S) /\ IsInsertion(r, q, 1 + m, t)
      BY <2>1, <2>4, InsertAtIsInsertion
    <2> HIDE DEF r
    <2> QED  BY <2>3, <2>4, <2>5
  <1> QED  BY <1>2, <1>3, <1>4

\* Whichever scheduler is chosen, enqueueing is an insertion.
LEMMA SchedulerInserts ==
    ASSUME NEW S, NEW q \in Seq(S), NEW t \in S,
           NEW prio, \A s \in S : prio[s] \in Int,
           NEW sched
    PROVE  LET r == SCHEDULER(sched, q, t, prio)
           IN  r \in Seq(S) /\ \E p \in 1 .. Len(q) + 1 : IsInsertion(r, q, p, t)
  <1> DEFINE r == SCHEDULER(sched, q, t, prio)
  <1>1. CASE sched \in {"SJF", "PRIORITY"}
    <2>1. r = thread_queue_insert_at_priority(q, t, prio)
      BY <1>1 DEF SCHEDULER
    <2> QED  BY <2>1, InsertAtPriority
  <1>2. CASE sched \notin {"SJF", "PRIORITY"}
    <2>1. r = Append(q, t)
      BY <1>2 DEF SCHEDULER
    <2> QED  BY <2>1, AppendIsInsertion
  <1> QED  BY <1>1, <1>2

(***************************************************************************)
(* Whichever scheduler is chosen, enqueueing a thread adds it to the queue *)
(* once, and loses and duplicates no other.                                *)
(***************************************************************************)
THEOREM SchedulerEnqueues ==
    ASSUME NEW S, NEW q \in Seq(S), NEW t \in S,
           NEW prio, \A s \in S : prio[s] \in Int,
           NEW sched
    PROVE  LET r == SCHEDULER(sched, q, t, prio)
           IN  /\ r \in Seq(S)
               /\ r # << >>
               /\ \A u : InQueue(u, r) <=> InQueue(u, q) \/ u = t
               /\ Distinct(q) /\ ~InQueue(t, q) => Distinct(r)
  <1> DEFINE r == SCHEDULER(sched, q, t, prio)
  <1>1. r \in Seq(S) /\ \E p \in 1 .. Len(q) + 1 : IsInsertion(r, q, p, t)
    BY SchedulerInserts
  <1>2. PICK p \in 1 .. Len(q) + 1 : IsInsertion(r, q, p, t)
    BY <1>1
  <1> HIDE DEF r
  <1>3. /\ r # << >>
        /\ \A u : InQueue(u, r) <=> InQueue(u, q) \/ u = t
        /\ Distinct(q) /\ ~InQueue(t, q) => Distinct(r)
    BY <1>1, <1>2, InsertionMembers
  <1> QED  BY <1>1, <1>3 DEF r

(***************************************************************************)
(* Under SJF and PRIORITY a sorted queue stays sorted when a thread is     *)
(* enqueued.                                                               *)
(***************************************************************************)
THEOREM SchedulerKeepsOrder ==
    ASSUME NEW S, NEW q \in Seq(S), NEW t \in S,
           NEW prio, \A s \in S : prio[s] \in Int,
           NEW sched \in {"SJF", "PRIORITY"}, Ordered(q, prio)
    PROVE  Ordered(SCHEDULER(sched, q, t, prio), prio)
  <1> DEFINE r == thread_queue_insert_at_priority(q, t, prio)
  <1>1. SCHEDULER(sched, q, t, prio) = r
    BY DEF SCHEDULER
  <1>2. r \in Seq(S)
    BY InsertAtPriority
  <1>3. PICK p \in 1 .. Len(q) + 1 :
            /\ IsInsertion(r, q, p, t)
            /\ p > 1 => prio[q[p - 1]] <= prio[t]
            /\ \A k \in p .. Len(q) : prio[t] < prio[q[k]]
    BY InsertAtPriority
  <1> HIDE DEF r
  <1>4. p <= Len(q) => prio[t] <= prio[q[p]]
    <2>1. ASSUME p <= Len(q)
          PROVE  prio[t] < prio[q[p]] /\ prio[q[p]] \in Int
      BY <1>3, <2>1, LenProperties
    <2> QED  BY <2>1
  <1> QED  BY <1>1, <1>2, <1>3, <1>4, InsertionOrdered

\* The first thread leaving a sorted queue leaves it sorted.
LEMMA RemoveFirstOrdered ==
    ASSUME NEW S, NEW q \in Seq(S),
           NEW prio, \A s \in S : prio[s] \in Int,
           q # << >>, Ordered(q, prio)
    PROVE  Ordered(Tail(q), prio)
  <1>1. /\ Len(q) \in Nat \ {0} /\ Len(Tail(q)) = Len(q) - 1
        /\ \A i \in 1 .. Len(Tail(q)) : Tail(q)[i] = q[i + 1]
    BY HeadTailProperties, LenProperties, EmptySeq
  <1>2. \A i \in 1 .. Len(Tail(q)) : i + 1 \in 1 .. Len(q)
    BY <1>1
  <1> QED  BY <1>1, <1>2 DEF Ordered

-----------------------------------------------------------------------------
\* Thread a will be served before thread b.
Before(a, b, q) == \E i, j \in 1 .. Len(q) : i < j /\ q[i] = a /\ q[j] = b

\* Taking the first thread leaves the others in their order.
LEMMA RemoveFirstBefore ==
    ASSUME NEW S, NEW q \in Seq(S), q # << >>, NEW a, NEW b, Before(a, b, q)
    PROVE  Head(q) = a \/ Before(a, b, Tail(q))
  <1>1. /\ Head(q) = q[1]
        /\ Len(q) \in Nat \ {0} /\ Len(Tail(q)) = Len(q) - 1
        /\ \A i \in 1 .. Len(Tail(q)) : Tail(q)[i] = q[i + 1]
    BY HeadTailProperties, LenProperties, EmptySeq
  <1>2. PICK i \in 1 .. Len(q), j \in 1 .. Len(q) : i < j /\ q[i] = a /\ q[j] = b
    BY DEF Before
  <1>3. CASE i = 1
    BY <1>1, <1>2, <1>3
  <1>4. CASE i # 1
    <2>1. /\ i - 1 \in 1 .. Len(Tail(q)) /\ j - 1 \in 1 .. Len(Tail(q)) /\ i - 1 < j - 1
          /\ i - 1 + 1 = i /\ j - 1 + 1 = j
      BY <1>1, <1>2, <1>4
    <2>2. Tail(q)[i - 1] = a /\ Tail(q)[j - 1] = b
      BY <1>1, <1>2, <2>1
    <2> QED  BY <2>1, <2>2 DEF Before
  <1> QED  BY <1>3, <1>4

\* Where a thread of q is after an insertion at position p.
LEMMA InsertionMoves ==
    ASSUME NEW S, NEW q \in Seq(S), NEW r, NEW x, NEW p \in 1 .. Len(q) + 1,
           IsInsertion(r, q, p, x), NEW i \in 1 .. Len(q)
    PROVE  LET k == IF i < p THEN i ELSE i + 1
           IN  k \in 1 .. Len(r) /\ r[k] = q[i]
  <1>1. Len(q) \in Nat /\ Len(r) = Len(q) + 1
    BY LenProperties DEF IsInsertion
  <1>2. CASE i < p
    <2>1. i \in 1 .. p - 1 /\ i \in 1 .. Len(r)
      BY <1>1, <1>2
    <2> QED  BY <1>2, <2>1 DEF IsInsertion
  <1>3. CASE ~(i < p)
    <2>1. i + 1 \in p + 1 .. Len(q) + 1 /\ i + 1 - 1 = i /\ i + 1 \in 1 .. Len(r)
      BY <1>1, <1>3
    <2>2. r[i + 1] = q[i + 1 - 1]
      BY <2>1 DEF IsInsertion
    <2> QED  BY <1>3, <2>1, <2>2
  <1> QED  BY <1>2, <1>3

\* Enqueueing a thread leaves the others in their order.
LEMMA SchedulerKeepsBefore ==
    ASSUME NEW S, NEW q \in Seq(S), NEW t \in S,
           NEW prio, \A s \in S : prio[s] \in Int,
           NEW sched, NEW a, NEW b, Before(a, b, q)
    PROVE  Before(a, b, SCHEDULER(sched, q, t, prio))
  <1> DEFINE r == SCHEDULER(sched, q, t, prio)
  <1>1. PICK p \in 1 .. Len(q) + 1 : IsInsertion(r, q, p, t)
    BY SchedulerInserts
  <1> HIDE DEF r
  <1>2. PICK i \in 1 .. Len(q), j \in 1 .. Len(q) : i < j /\ q[i] = a /\ q[j] = b
    BY DEF Before
  <1>3. PICK k \in 1 .. Len(r) : k = (IF i < p THEN i ELSE i + 1) /\ r[k] = a
    BY <1>1, <1>2, InsertionMoves
  <1>4. PICK l \in 1 .. Len(r) : l = (IF j < p THEN j ELSE j + 1) /\ r[l] = b
    BY <1>1, <1>2, InsertionMoves
  <1>5. k < l
    BY <1>2, <1>3, <1>4, LenProperties
  <1> QED  BY <1>3, <1>4, <1>5 DEF Before, r

(***************************************************************************)
(* Whichever scheduler is chosen, a thread that is enqueued is served      *)
(* after every thread of the same or a more urgent priority that is        *)
(* already there: among equals all four schedulers are first come, first   *)
(* served.                                                                 *)
(***************************************************************************)
THEOREM SchedulerFair ==
    ASSUME NEW S, NEW q \in Seq(S), NEW t \in S,
           NEW prio, \A s \in S : prio[s] \in Int,
           NEW sched, sched \in {"SJF", "PRIORITY"} => Ordered(q, prio),
           NEW a \in S, InQueue(a, q), prio[a] <= prio[t]
    PROVE  Before(a, t, SCHEDULER(sched, q, t, prio))
  <1> DEFINE r == SCHEDULER(sched, q, t, prio)
  <1>1. PICK i \in 1 .. Len(q) : q[i] = a
    BY DEF InQueue
  <1>2. \E p \in 1 .. Len(q) + 1 : IsInsertion(r, q, p, t) /\ i < p
    <2>1. CASE sched \in {"SJF", "PRIORITY"}
      <3>1. r = thread_queue_insert_at_priority(q, t, prio)
        BY <2>1 DEF SCHEDULER
      <3>2. PICK p \in 1 .. Len(q) + 1 :
                /\ IsInsertion(r, q, p, t)
                /\ \A k \in p .. Len(q) : prio[t] < prio[q[k]]
        BY <2>1, <3>1, InsertAtPriority
      <3> HIDE DEF r
      <3>3. ~(prio[t] < prio[q[i]])
        BY <1>1
      <3>4. i \notin p .. Len(q)
        BY <3>2, <3>3
      <3> QED  BY <3>2, <3>4, LenProperties
    <2>2. CASE sched \notin {"SJF", "PRIORITY"}
      <3>1. r = Append(q, t)
        BY <2>2 DEF SCHEDULER
      <3>2. IsInsertion(r, q, Len(q) + 1, t) /\ Len(q) + 1 \in 1 .. Len(q) + 1
        BY <3>1, AppendIsInsertion
      <3> HIDE DEF r
      <3> QED  BY <3>2, LenProperties
    <2> QED  BY <2>1, <2>2
  <1>3. PICK p \in 1 .. Len(q) + 1 : IsInsertion(r, q, p, t) /\ i < p
    BY <1>2
  <1> HIDE DEF r
  <1>4. i \in 1 .. Len(r) /\ r[i] = a
    BY <1>1, <1>3, InsertionMoves
  <1>5. p \in 1 .. Len(r) /\ r[p] = t
    BY <1>3 DEF IsInsertion
  <1> QED  BY <1>3, <1>4, <1>5 DEF Before, r

-----------------------------------------------------------------------------
(***************************************************************************)
(* The subsystem that uses them.                                           *)
(***************************************************************************)

States == {"FREE", "NEW", "READY", "RUNNING", "EXITED"}
AllPC == MainPC \cup IdlePC \cup WorkPC \cup JobPC

\* Every thread executes its own code.
Labels ==
    /\ pc[Main] \in MainPC /\ pc[Idle] \in IdlePC /\ pc[WorkQ] \in WorkPC
    /\ \A c \in Slots : pc[c] \in JobPC

(***************************************************************************)
(* Where the main thread is in run_simulation determines what its local    *)
(* arrays hold: it creates no more jobs than the simulation lists, and     *)
(* waits for none that it did not create.                                  *)
(***************************************************************************)
MainSim ==
    /\ pc[Main] \in Prompts \cup {"mask"} => threads = << >> /\ child = 1
    /\ pc[Main] = "mask" => simulation # << >>
    /\ pc[Main] = "create" => child = 1 /\ Len(threads) < Len(simulation)
    /\ pc[Main] \in {"merge", "yield", "yielded", "join"} => child <= Len(threads)

\* The work queue thread runs an item it has taken.
WorkItem == pc[WorkQ] = "run" => item \in Slots

\* The inductive invariant.
IInv == TypeOK /\ IdleReady /\ Labels /\ MainSim /\ WorkItem

\* The part of it that a context switch or a wake-up touches.
CpuOK ==
    /\ g_current \in Thread /\ s_runqueue \in Seq(Thread)
    /\ state \in [Thread -> States] /\ num_ticks \in 0 .. TickMax
    /\ IdleReady

\* The distinct threads of the kernel.
LEMMA KernelThreads ==
    /\ Main \in Thread /\ Idle \in Thread /\ WorkQ \in Thread
    /\ Main # Idle /\ Main # WorkQ /\ Idle # WorkQ
    /\ Slots \subseteq Thread
    /\ Main \notin Slots /\ Idle \notin Slots /\ WorkQ \notin Slots
  BY ThreadAssumption DEF Thread

LEMMA CpuTyped == ASSUME TypeOK, IdleReady PROVE CpuOK
  BY DEF TypeOK, CpuOK, States

-----------------------------------------------------------------------------
\* thread_make_runnable(t), whichever scheduler is in force.
LEMMA MakeRunnable ==
    ASSUME TypeOK, NEW t \in Thread
    PROVE  /\ RunqueueWith(t) \in Seq(Thread) /\ RunqueueWith(t) # << >>
           /\ \A u : InQueue(u, RunqueueWith(t)) <=> InQueue(u, s_runqueue) \/ u = t
  <1>1. s_runqueue \in Seq(Thread) /\ \A u \in Thread : priority[u] \in Int
    BY DEF TypeOK
  <1> QED  BY <1>1, SchedulerEnqueues DEF RunqueueWith

\* thread_next_runnable and thread_switch_to.
LEMMA Switch ==
    ASSUME NEW rq \in Seq(Thread), rq # << >>, NEW st \in [Thread -> States],
           SwitchTo(rq, st)
    PROVE  /\ g_current' \in Thread /\ s_runqueue' \in Seq(Thread)
           /\ state' \in [Thread -> States] /\ num_ticks' \in 0 .. TickMax
           /\ \A u : InQueue(u, rq) <=> u = g_current' \/ InQueue(u, s_runqueue')
  BY RemoveFirstQueue, BoundAssumption DEF SwitchTo, States

\* A thread other than the idle thread can give the CPU away.
LEMMA Schedule ==
    ASSUME TypeOK, IdleReady, g_current # Idle, thread_schedule
    PROVE  CpuOK'
  <1>1. s_runqueue # << >>
    BY DEF IdleReady, InQueue
  <1>2. s_runqueue \in Seq(Thread) /\ state \in [Thread -> States]
    BY DEF TypeOK, States
  <1> QED  BY <1>1, <1>2, Switch DEF thread_schedule, IdleReady, CpuOK

\* The current thread goes back to the run queue, and the first one runs.
LEMMA Requeue ==
    ASSUME TypeOK, IdleReady, thread_requeue_current
    PROVE  CpuOK'
  <1> DEFINE rq == RunqueueWith(g_current)
             st == [state EXCEPT ![g_current] = "READY"]
  <1>1. g_current \in Thread /\ st \in [Thread -> States]
    BY DEF TypeOK, States
  <1>2. /\ rq \in Seq(Thread) /\ rq # << >>
        /\ \A u : InQueue(u, rq) <=> InQueue(u, s_runqueue) \/ u = g_current
    BY <1>1, MakeRunnable
  <1>3. SwitchTo(rq, st)
    BY DEF thread_requeue_current
  <1> HIDE DEF rq, st
  <1> QED  BY <1>1, <1>2, <1>3, Switch DEF IdleReady, CpuOK

\* The first thread of a queue that is not empty becomes runnable.
LEMMA Wakeup ==
    ASSUME TypeOK, IdleReady, NEW q \in Seq(Thread), q # << >>, thread_wakeup_one(q)
    PROVE  CpuOK' /\ Tail(q) \in Seq(Thread)
  <1>1. Head(q) \in Thread /\ Tail(q) \in Seq(Thread)
    BY RemoveFirstQueue
  <1>2. /\ s_runqueue' \in Seq(Thread)
        /\ \A u : InQueue(u, s_runqueue') <=> InQueue(u, s_runqueue) \/ u = Head(q)
        /\ UNCHANGED << g_current, num_ticks >>
    BY <1>1, MakeRunnable DEF thread_wakeup_one
  <1>3. state' \in [Thread -> States]
    BY <1>1 DEF thread_wakeup_one, TypeOK, States
  <1> QED  BY <1>1, <1>2, <1>3 DEF CpuOK, IdleReady, TypeOK

\* thread_detach(c) by t: what it may change, and to what.
LEMMA Detach ==
    ASSUME TypeOK, IdleReady, NEW c \in Slots, NEW t \in Thread, NEW next \in AllPC,
           NEW iflag \in BOOLEAN, thread_detach(c, t, next, iflag)
    PROVE  /\ CpuOK'
           /\ refcount' \in [Slots -> Nat]
           /\ s_workqueue' \in Seq(Slots) /\ s_waitqueue' \in Seq(Thread)
           /\ intr' \in [Thread -> BOOLEAN]
           /\ \E l \in {next, "halt"} : pc' = [pc EXCEPT ![t] = l]
           /\ UNCHANGED << s_newqueue, waitqueue, priority, fn, statVars, item, intVars,
                           menuVars, g_num_threads, keyVars >>
  <1>1. Append(s_workqueue, c) \in Seq(Slots) /\ s_waitqueue \in Seq(Thread)
    BY AppendQueue DEF TypeOK
  <1>2. CpuOK' /\ s_workqueue' \in Seq(Slots) /\ s_waitqueue' \in Seq(Thread)
    <2>1. CASE UNCHANGED << cpuVars, s_waitqueue >>
      BY <1>1, <2>1, CpuTyped DEF thread_detach, CpuOK, IdleReady, cpuVars, TypeOK
    <2>2. CASE /\ s_waitqueue # << >> /\ thread_wakeup_one(s_waitqueue)
               /\ s_workqueue' = Append(s_workqueue, c)
               /\ s_waitqueue' = Tail(s_waitqueue)
      BY <1>1, <2>2, Wakeup
    <2> QED  BY <2>1, <2>2 DEF thread_detach
  <1>3. refcount' \in [Slots -> Nat]
    <2>1. /\ refcount' = [refcount EXCEPT ![c] = @ - 1]
          /\ refcount[c] > 1 \/ refcount[c] = 1
      BY Zenon DEF thread_detach
    <2>2. refcount \in [Slots -> Nat]
      BY DEF TypeOK
    <2> QED  BY <2>1, <2>2
  <1>4. /\ intr' \in [Thread -> BOOLEAN]
        /\ \E l \in {next, "halt"} : pc' = [pc EXCEPT ![t] = l]
        /\ UNCHANGED << s_newqueue, waitqueue, priority, fn, statVars, item, intVars,
                        menuVars, g_num_threads, keyVars >>
    BY DEF thread_detach, Goto, SetIntr, TypeOK
  <1> QED  BY <1>2, <1>3, <1>4

-----------------------------------------------------------------------------
\* The invariant holds when geekos_main enters its loop.
LEMMA InitIInv == Init => IInv
  <1> SUFFICES ASSUME Init PROVE IInv
    OBVIOUS
  <1> USE KernelThreads, BoundAssumption
  <1>t. time \in [Slots -> SUBSET TimeField] /\ g_numticks \in {0, 1}
    <2>1. time = [c \in Slots |-> {}] /\ g_numticks = 0
      BY DEF Init
    <2>2. time \in [Slots -> SUBSET TimeField]
      BY <2>1, Zenon
    <2> QED  BY <2>1, <2>2
  <1>1. /\ s_runqueue = << Idle, WorkQ >> /\ s_runqueue \in Seq(Thread)
        /\ IdleReady
    <2>1. s_runqueue = << Idle, WorkQ >>
      BY Zenon DEF Init
    <2> QED  BY <2>1 DEF IdleReady, InQueue
  <1>2. << >> \in Seq(Slots) /\ << >> \in Seq(Thread) /\ << >> \in Seq(Job)
    OBVIOUS
  <1>3. state \in [Thread -> States] /\ pc \in [Thread -> AllPC]
    <2>1. state \in [Thread -> States]
      BY DEF Init, States
    <2>2. pc \in [Thread -> AllPC]
      BY DEF Init, AllPC, MainPC, Prompts, JobPC
    <2> QED  BY <2>1, <2>2
  <1>4. priority \in [Thread -> Nat]
    BY DEF Init
  <1>5. intr \in [Thread -> BOOLEAN]
    BY DEF Init
  <1>6. TypeOK
    <2>1. /\ g_current \in Thread /\ s_newqueue \in Seq(Slots)
          /\ s_waitqueue \in Seq(Thread) /\ waitqueue \in [Slots -> Seq(Thread)]
          /\ refcount \in [Slots -> Nat] /\ fn \in [Slots -> {"fn", "toggler", "poet"}]
      BY <1>2 DEF Init
    <2>2. /\ item \in Slots \cup {NoThread} /\ isr \in {"none", "wakeup", "return"}
          /\ g_need_reschedule \in BOOLEAN /\ g_preemption \in BOOLEAN
      BY Zenon DEF Init
    <2>3. /\ g_scheduler \in Scheduler /\ g_quantum \in 0 .. TickMax
          /\ num_ticks \in 0 .. TickMax /\ s_workqueue \in Seq(Slots)
          /\ simulation \in Seq(Job) /\ threads \in Seq(Slots)
          /\ child \in Nat \ {0} /\ g_num_threads \in Nat
          /\ keys \in 0 .. KeyQueueMax /\ keyb_irq \in BOOLEAN
      BY <1>2 DEF Init, Scheduler
    <2> QED  BY <1>t, <1>1, <1>3, <1>4, <1>5, <2>1, <2>2, <2>3 DEF TypeOK, States, AllPC
  <1>7. Labels /\ MainSim /\ WorkItem
    BY DEF Init, Labels, MainSim, WorkItem, MainPC, Prompts, IdlePC, WorkPC, JobPC
  <1> QED  BY <1>1, <1>6, <1>7 DEF IInv

-----------------------------------------------------------------------------
(***************************************************************************)
(* The types of everything that neither a switch nor a program counter     *)
(* decides.                                                                *)
(***************************************************************************)
DataOK ==
    /\ intr \in [Thread -> BOOLEAN]
    /\ s_newqueue \in Seq(Slots) /\ s_waitqueue \in Seq(Thread)
    /\ waitqueue \in [Slots -> Seq(Thread)]
    /\ refcount \in [Slots -> Nat] /\ priority \in [Thread -> Nat]
    /\ fn \in [Slots -> {"fn", "toggler", "poet"}]
    /\ time \in [Slots -> SUBSET TimeField] /\ g_numticks \in {0, 1}
    /\ s_workqueue \in Seq(Slots) /\ item \in Slots \cup {NoThread}
    /\ g_need_reschedule \in BOOLEAN /\ g_preemption \in BOOLEAN
    /\ isr \in {"none", "wakeup", "return"}
    /\ g_scheduler \in Scheduler /\ g_quantum \in 0 .. TickMax
    /\ simulation \in Seq(Job) /\ threads \in Seq(Slots)
    /\ child \in Nat \ {0} /\ g_num_threads \in Nat
    /\ keys \in 0 .. KeyQueueMax /\ keyb_irq \in BOOLEAN

\* The control state.
ControlOK == pc \in [Thread -> AllPC] /\ Labels /\ MainSim /\ WorkItem

LEMMA Split == IInv <=> CpuOK /\ DataOK /\ ControlOK
  BY DEF IInv, TypeOK, CpuOK, DataOK, ControlOK, States, AllPC

LEMMA SplitNext == IInv' <=> CpuOK' /\ DataOK' /\ ControlOK'
  BY Split, PTL

\* A step of a thread that is neither main nor the work queue thread.
LEMMA ControlStep ==
    ASSUME ControlOK, NEW t \in Slots \cup {Idle}, NEW l,
           pc' = [pc EXCEPT ![t] = l],
           t = Idle => l \in IdlePC, t \in Slots => l \in JobPC,
           UNCHANGED << threads, child, simulation, item >>
    PROVE  ControlOK'
  <1>1. t \in Thread /\ t # Main /\ t # WorkQ /\ l \in AllPC
    BY KernelThreads DEF AllPC
  <1>2. pc' \in [Thread -> AllPC] /\ pc'[Main] = pc[Main] /\ pc'[WorkQ] = pc[WorkQ]
    BY <1>1, KernelThreads DEF ControlOK
  <1>3. Labels'
    BY <1>1, <1>2, KernelThreads DEF ControlOK, Labels
  <1>4. MainSim' /\ WorkItem'
    BY <1>2 DEF ControlOK, MainSim, WorkItem
  <1> QED  BY <1>2, <1>3, <1>4 DEF ControlOK

\* A step that moves no program counter.
LEMMA ControlStutter ==
    ASSUME ControlOK, UNCHANGED << pc, threads, child, simulation, item >>
    PROVE  ControlOK'
  BY DEF ControlOK, Labels, MainSim, WorkItem

\* A step of the main thread to a label l.
LEMMA ControlMain ==
    ASSUME ControlOK, NEW l \in MainPC, pc' = [pc EXCEPT ![Main] = l], UNCHANGED item,
           l \in Prompts \cup {"mask"} => threads' = << >> /\ child' = 1,
           l = "mask" => simulation' # << >>,
           l = "create" => child' = 1 /\ Len(threads') < Len(simulation'),
           l \in {"merge", "yield", "yielded", "join"} => child' <= Len(threads')
    PROVE  ControlOK'
  <1>1. /\ pc' \in [Thread -> AllPC] /\ pc'[Main] = l
        /\ \A t \in Thread : t # Main => pc'[t] = pc[t]
    BY KernelThreads DEF ControlOK, AllPC
  <1>2. Labels' /\ WorkItem'
    BY <1>1, KernelThreads DEF ControlOK, Labels, WorkItem
  <1>3. MainSim'
    BY <1>1 DEF MainSim
  <1> QED  BY <1>1, <1>2, <1>3 DEF ControlOK

\* What the clock stamps on a job is a set of fields.
LEMMA Stamped ==
    ASSUME time \in [Slots -> SUBSET TimeField], NEW c \in Slots, NEW f \in TimeField,
           Stamp(c, f)
    PROVE  time' \in [Slots -> SUBSET TimeField]
  <1>1. time[c] \cup {f} \in SUBSET TimeField
    OBVIOUS
  <1> QED  BY <1>1 DEF Stamp

-----------------------------------------------------------------------------
\* The interrupt handlers keep the invariant.
LEMMA InterruptStep ==
    ASSUME IInv, Interrupt \/ Handler
    PROVE  IInv'
  <1>0. CpuOK /\ DataOK /\ ControlOK /\ TypeOK /\ IdleReady
    BY Split DEF IInv
  <1> USE DEF cpuVars, statVars, jobVars, workVars, intVars, menuVars, simVars, keyVars
  <1>1. CASE timer_process_tick
    <2>1. UNCHANGED << g_current, s_runqueue, state, intr, pc, s_newqueue, s_waitqueue,
                       waitqueue, refcount, priority, fn, workVars, g_preemption, menuVars,
                       simVars, keyVars >>
          /\ isr' = "return" /\ g_numticks' = 1
      BY <1>1 DEF timer_process_tick
    <2>t. time' \in [Slots -> SUBSET TimeField]
      <3>1. \A c \in Slots : /\ time[c] \in SUBSET TimeField
                              /\ time[c] \cup {"running"} \in SUBSET TimeField
        BY <1>0 DEF DataOK, TimeField
      <3> QED  BY <1>1, <3>1 DEF timer_process_tick
    <2>2. g_need_reschedule' \in BOOLEAN
      BY <1>1, Zenon DEF timer_process_tick
    <2>3. num_ticks' \in 0 .. TickMax
      BY <1>0, <1>1, BoundAssumption DEF timer_process_tick, CpuOK
    <2>4. CpuOK' /\ DataOK'
      BY <1>0, <2>1, <2>t, <2>2, <2>3 DEF CpuOK, IdleReady, DataOK
    <2>5. ControlOK'
      BY <1>0, <2>1, ControlStutter
    <2> QED  BY <2>4, <2>5, SplitNext
  <1>2. CASE keyboard_int_handler
    <2>1. UNCHANGED << cpuVars, intr, pc, s_newqueue, s_waitqueue, waitqueue,
                       jobVars, workVars, g_need_reschedule, g_preemption,
                       menuVars, simVars, keyb_irq >>
          /\ isr' \in {"none", "wakeup", "return"}
      BY <1>2 DEF keyboard_int_handler
    <2>2. keys' \in 0 .. KeyQueueMax
      BY <1>0, <1>2, BoundAssumption DEF keyboard_int_handler, DataOK
    <2>3. CpuOK' /\ DataOK'
      BY <1>0, <2>1, <2>2 DEF CpuOK, IdleReady, DataOK
    <2>4. ControlOK'
      BY <1>0, <2>1, ControlStutter
    <2> QED  BY <2>3, <2>4, SplitNext
  <1>3. CASE keyboard_wakeup
    <2>1. UNCHANGED << intr, pc, s_newqueue, waitqueue, jobVars, workVars,
                       g_preemption, menuVars, simVars, keyVars >>
      BY <1>3 DEF keyboard_wakeup
    <2>2. /\ CpuOK' /\ s_waitqueue' \in Seq(Thread)
          /\ g_need_reschedule' \in BOOLEAN /\ isr' \in {"none", "wakeup", "return"}
      <3>1. CASE /\ s_waitqueue # << >> /\ thread_wakeup_one(s_waitqueue)
                 /\ s_waitqueue' = Tail(s_waitqueue)
                 /\ UNCHANGED << g_need_reschedule, isr >>
        <4>1. s_waitqueue \in Seq(Thread)
          BY <1>0 DEF DataOK
        <4>2. CpuOK' /\ s_waitqueue' \in Seq(Thread)
          BY <1>0, <3>1, <4>1, Wakeup
        <4> QED  BY <1>0, <3>1, <4>2 DEF DataOK
      <3>2. CASE /\ g_need_reschedule' = TRUE /\ isr' = "return"
                 /\ UNCHANGED << cpuVars, s_waitqueue >>
        BY <1>0, <3>2 DEF CpuOK, IdleReady, DataOK
      <3> QED  BY <1>3, <3>1, <3>2 DEF keyboard_wakeup
    <2>3. DataOK'
      BY <1>0, <2>1, <2>2 DEF DataOK
    <2>4. ControlOK'
      BY <1>0, <2>1, ControlStutter
    <2> QED  BY <2>2, <2>3, <2>4, SplitNext
  <1>4. CASE int_handle_interrupt
    <2>1. UNCHANGED << intr, pc, s_newqueue, s_waitqueue, waitqueue, jobVars,
                       workVars, g_preemption, menuVars, simVars, keyVars >>
          /\ isr' = "none"
      BY <1>4 DEF int_handle_interrupt
    <2>2. CpuOK' /\ g_need_reschedule' \in BOOLEAN
      <3>1. CASE g_need_reschedule' = FALSE /\ thread_requeue_current
        BY <1>0, <3>1, Requeue
      <3>2. CASE UNCHANGED << g_need_reschedule, cpuVars >>
        BY <1>0, <3>2 DEF CpuOK, IdleReady, DataOK
      <3> QED  BY <1>4, <3>1, <3>2 DEF int_handle_interrupt
    <2>3. DataOK'
      BY <1>0, <2>1, <2>2 DEF DataOK
    <2>4. ControlOK'
      BY <1>0, <2>1, ControlStutter
    <2> QED  BY <2>2, <2>3, <2>4, SplitNext
  <1> QED  BY <1>1, <1>2, <1>3, <1>4 DEF Interrupt, Handler

\* The idle thread and the work queue thread keep the invariant.
LEMMA KernelStep ==
    ASSUME IInv, IdleStep \/ WorkStep
    PROVE  IInv'
  <1>0. CpuOK /\ DataOK /\ ControlOK /\ TypeOK /\ IdleReady
    BY Split DEF IInv
  <1> USE DEF cpuVars, statVars, jobVars, workVars, intVars, menuVars, simVars, keyVars
  <1>1. CASE thread_run(Idle) \/ thread_yield_return(Idle)
    <2>1. /\ \E l \in IdlePC : pc' = [pc EXCEPT ![Idle] = l]
          /\ intr' = [intr EXCEPT ![Idle] = TRUE]
          /\ UNCHANGED << cpuVars, s_newqueue, s_waitqueue, waitqueue, jobVars,
                          workVars, intVars, menuVars, simVars, keyVars >>
      <3>1. CASE thread_run(Idle)
        BY <3>1, KernelThreads DEF thread_run, Goto, SetIntr, IdlePC
      <3>2. CASE thread_yield_return(Idle)
        BY <3>2, KernelThreads DEF thread_yield_return, Goto, SetIntr, IdlePC
      <3> QED  BY <1>1, <3>1, <3>2
    <2>2. CpuOK' /\ DataOK'
      BY <1>0, <2>1, KernelThreads DEF CpuOK, IdleReady, DataOK
    <2>3. ControlOK'
      BY <1>0, <2>1, KernelThreads, ControlStep
    <2> QED  BY <2>2, <2>3, SplitNext
  <1>2. CASE thread_yield(Idle)
    <2>1. /\ pc' = [pc EXCEPT ![Idle] = "yielded"]
          /\ intr' = [intr EXCEPT ![Idle] = FALSE]
          /\ thread_requeue_current
          /\ UNCHANGED << s_newqueue, s_waitqueue, waitqueue, jobVars, workVars,
                          intVars, menuVars, simVars, keyVars >>
      BY <1>2 DEF thread_yield, Goto, SetIntr
    <2>2. CpuOK'
      BY <1>0, <2>1, Requeue
    <2>3. DataOK'
      BY <1>0, <2>1, KernelThreads DEF DataOK
    <2>4. ControlOK'
      BY <1>0, <2>1, KernelThreads, ControlStep DEF IdlePC
    <2> QED  BY <2>2, <2>3, <2>4, SplitNext
  <1>3. ASSUME NEW l \in {"loop", "run"}, pc' = [pc EXCEPT ![WorkQ] = l],
               l = "run" => item' \in Slots,
               UNCHANGED << threads, child, simulation >>
        PROVE  ControlOK'
    <2>1. /\ pc' \in [Thread -> AllPC] /\ pc'[WorkQ] = l
          /\ \A t \in Thread : t # WorkQ => pc'[t] = pc[t]
      BY <1>0, <1>3, KernelThreads DEF ControlOK, AllPC, WorkPC
    <2>2. Labels' /\ WorkItem'
      BY <1>0, <1>3, <2>1, KernelThreads DEF ControlOK, Labels, WorkItem, WorkPC
    <2>3. MainSim'
      BY <1>0, <1>3, <2>1, KernelThreads DEF ControlOK, MainSim
    <2> QED  BY <2>1, <2>2, <2>3 DEF ControlOK
  <1>4. CASE thread_run(WorkQ)
    <2>1. /\ pc' = [pc EXCEPT ![WorkQ] = "loop"]
          /\ intr' = [intr EXCEPT ![WorkQ] = TRUE]
          /\ UNCHANGED << cpuVars, s_newqueue, s_waitqueue, waitqueue, jobVars,
                          workVars, intVars, menuVars, simVars, keyVars >>
      BY <1>4, KernelThreads DEF thread_run, Goto, SetIntr
    <2>2. CpuOK' /\ DataOK'
      BY <1>0, <2>1, KernelThreads DEF CpuOK, IdleReady, DataOK
    <2> QED  BY <1>3, <2>1, <2>2, SplitNext
  <1>5. CASE workqueue_wait
    <2>1. /\ g_current = WorkQ /\ thread_schedule
          /\ s_waitqueue' = Append(s_waitqueue, WorkQ)
          /\ intr' = [intr EXCEPT ![WorkQ] = FALSE]
          /\ UNCHANGED << pc, s_newqueue, waitqueue, jobVars, workVars, intVars,
                          menuVars, simVars, keyVars >>
      BY <1>5 DEF workqueue_wait, At, SetIntr
    <2>2. CpuOK'
      BY <1>0, <2>1, KernelThreads, Schedule
    <2>3. s_waitqueue' \in Seq(Thread)
      BY <1>0, <2>1, KernelThreads, AppendQueue DEF DataOK
    <2>4. DataOK'
      BY <1>0, <2>1, <2>3, KernelThreads DEF DataOK
    <2>5. ControlOK'
      BY <1>0, <2>1, ControlStutter
    <2> QED  BY <2>2, <2>4, <2>5, SplitNext
  <1>6. CASE workqueue_next
    <2>1. /\ s_workqueue # << >>
          /\ item' = Head(s_workqueue) /\ s_workqueue' = Tail(s_workqueue)
          /\ pc' = [pc EXCEPT ![WorkQ] = "run"]
          /\ intr' = [intr EXCEPT ![WorkQ] = TRUE]
          /\ UNCHANGED << cpuVars, s_newqueue, s_waitqueue, waitqueue, jobVars,
                          intVars, menuVars, simVars, keyVars >>
      BY <1>6 DEF workqueue_next, Goto, SetIntr
    <2>2. item' \in Slots /\ s_workqueue' \in Seq(Slots)
      BY <1>0, <2>1, RemoveFirstQueue DEF DataOK
    <2>3. CpuOK' /\ DataOK'
      BY <1>0, <2>1, <2>2, KernelThreads DEF CpuOK, IdleReady, DataOK
    <2> QED  BY <1>3, <2>1, <2>2, <2>3, SplitNext
  <1>7. CASE thread_destroy
    <2>1. /\ state' = [state EXCEPT ![item] = "FREE"]
          /\ priority' = [priority EXCEPT ![item] = 0]
          /\ fn' = [fn EXCEPT ![item] = "fn"] /\ time' = [time EXCEPT ![item] = {}]
          /\ pc' = [pc EXCEPT ![item] = "start", ![WorkQ] = "loop"]
          /\ item' = NoThread /\ pc[WorkQ] = "run"
          /\ UNCHANGED << g_current, s_runqueue, num_ticks, intr, s_newqueue,
                          s_waitqueue, waitqueue, refcount, g_numticks, s_workqueue,
                          intVars, menuVars, simVars, keyVars >>
      BY <1>7 DEF thread_destroy, At
    <2>2. item \in Slots /\ item \in Thread /\ item # WorkQ /\ item # Main /\ item # Idle
      BY <1>0, <2>1, KernelThreads DEF ControlOK, WorkItem
    <2>3. CpuOK' /\ DataOK'
      BY <1>0, <2>1, <2>2 DEF CpuOK, IdleReady, DataOK, States
    <2>4. /\ pc' \in [Thread -> AllPC] /\ pc'[WorkQ] = "loop" /\ pc'[item] = "start"
          /\ \A t \in Thread : t # WorkQ /\ t # item => pc'[t] = pc[t]
      BY <1>0, <2>1, <2>2, KernelThreads DEF ControlOK, AllPC, WorkPC
    <2>5. Labels' /\ WorkItem'
      BY <1>0, <2>2, <2>4, KernelThreads DEF ControlOK, Labels, WorkItem, WorkPC, JobPC
    <2>6. MainSim'
      BY <1>0, <2>1, <2>2, <2>4, KernelThreads DEF ControlOK, MainSim
    <2> QED  BY <2>3, <2>4, <2>5, <2>6, SplitNext DEF ControlOK
  <1> QED  BY <1>1, <1>2, <1>4, <1>5, <1>6, <1>7 DEF IdleStep, WorkStep

\* The jobs keep the invariant.
LEMMA JobsStep ==
    ASSUME IInv, NEW t \in Slots, JobStep(t)
    PROVE  IInv'
  <1>0. CpuOK /\ DataOK /\ ControlOK /\ TypeOK /\ IdleReady
    BY Split DEF IInv
  <1>a. t \in Thread /\ t # Main /\ t # Idle /\ t # WorkQ
    BY KernelThreads
  <1> USE DEF cpuVars, statVars, jobVars, workVars, intVars, menuVars, simVars, keyVars
  <1>1. CASE \/ thread_run(t) \/ job_body(t) \/ toggler_end_atomic(t)
             \/ poet_lock(t) \/ poet_preemption_on(t)
    <2>1. /\ \E l \in JobPC : pc' = [pc EXCEPT ![t] = l]
          /\ UNCHANGED << cpuVars, s_newqueue, s_waitqueue, waitqueue, refcount, priority,
                          fn, g_numticks, workVars, g_need_reschedule, isr, menuVars,
                          simVars, keyVars >>
          /\ time' \in [Slots -> SUBSET TimeField]
      <3>0. time \in [Slots -> SUBSET TimeField]
        BY <1>0 DEF DataOK
      <3>1. CASE thread_run(t)
        <4>1. Stamp(t, "first_response")
          BY <3>1 DEF thread_run
        <4>2. time' \in [Slots -> SUBSET TimeField]
          BY <3>0, <4>1, Stamped DEF TimeField
        <4> QED  BY <1>a, <3>1, <4>2 DEF thread_run, Goto, JobPC
      <3>2. CASE job_body(t)
        <4>1. fn[t] \in {"fn", "toggler", "poet"}
          BY <1>0 DEF DataOK
        <4> QED  BY <3>0, <3>2, <4>1 DEF job_body, JobUnchanged, Goto, JobPC
      <3>3. CASE toggler_end_atomic(t) \/ poet_lock(t) \/ poet_preemption_on(t)
        BY <3>0, <3>3 DEF toggler_end_atomic, poet_lock, poet_preemption_on, JobUnchanged,
               Goto, JobPC
      <3> QED  BY <1>1, <3>1, <3>2, <3>3
    <2>2. intr' \in [Thread -> BOOLEAN] /\ g_preemption' \in BOOLEAN
      <3>1. intr \in [Thread -> BOOLEAN] /\ g_preemption \in BOOLEAN
            /\ fn[t] \in {"fn", "toggler", "poet"}
        BY <1>0 DEF DataOK
      <3> QED  BY <1>1, <3>1 DEF thread_run, job_body, toggler_end_atomic, poet_lock,
                   poet_preemption_on, SetIntr
    <2>3. CpuOK' /\ DataOK'
      BY <1>0, <2>1, <2>2 DEF CpuOK, IdleReady, DataOK
    <2>4. ControlOK'
      BY <1>0, <1>a, <2>1, ControlStep
    <2> QED  BY <2>3, <2>4, SplitNext
  <1>2. CASE exit_detach(t)
    <2>1. thread_detach(t, t, "detached", FALSE) /\ UNCHANGED << threads, child >>
      BY <1>2 DEF exit_detach
    <2>2. /\ CpuOK' /\ refcount' \in [Slots -> Nat]
          /\ s_workqueue' \in Seq(Slots) /\ s_waitqueue' \in Seq(Thread)
          /\ intr' \in [Thread -> BOOLEAN]
          /\ \E l \in {"detached", "halt"} : pc' = [pc EXCEPT ![t] = l]
          /\ UNCHANGED << s_newqueue, waitqueue, priority, fn, statVars, item, intVars,
                          menuVars, g_num_threads, keyVars >>
      BY <1>0, <1>a, <2>1, Detach DEF AllPC, JobPC
    <2>3. DataOK'
      BY <1>0, <2>1, <2>2 DEF DataOK
    <2>4. ControlOK'
      BY <1>0, <1>a, <2>1, <2>2, ControlStep DEF JobPC
    <2> QED  BY <2>2, <2>3, <2>4, SplitNext
  <1>3. CASE exit_state(t)
    <2>1. /\ state' = [state EXCEPT ![t] = "EXITED"]
          /\ pc' = [pc EXCEPT ![t] = "exit_wake"] /\ Stamp(t, "termination")
          /\ UNCHANGED << g_current, s_runqueue, num_ticks, intr, s_newqueue,
                          s_waitqueue, waitqueue, refcount, priority, fn, g_numticks,
                          workVars, intVars, menuVars, simVars, keyVars >>
      BY <1>3 DEF exit_state, Goto
    <2>t. time' \in [Slots -> SUBSET TimeField]
      BY <1>0, <2>1, Stamped DEF DataOK, TimeField
    <2>2. CpuOK' /\ DataOK'
      BY <1>0, <1>a, <2>1, <2>t DEF CpuOK, IdleReady, DataOK, States
    <2>3. ControlOK'
      BY <1>0, <1>a, <2>1, ControlStep DEF JobPC
    <2> QED  BY <2>2, <2>3, SplitNext
  <1>4. CASE exit_wakeup(t)
    <2>1. g_current = t
          /\ UNCHANGED << intr, s_newqueue, s_waitqueue, jobVars, workVars, intVars,
                          menuVars, simVars, keyVars >>
      BY <1>4 DEF exit_wakeup, At
    <2>2. CpuOK' /\ waitqueue' \in [Slots -> Seq(Thread)] /\ ControlOK'
      <3>1. CASE /\ waitqueue[t] # << >> /\ thread_wakeup_one(waitqueue[t])
                 /\ waitqueue' = [waitqueue EXCEPT ![t] = Tail(@)] /\ UNCHANGED pc
        <4>1. waitqueue[t] \in Seq(Thread) /\ waitqueue \in [Slots -> Seq(Thread)]
          BY <1>0 DEF DataOK
        <4>2. CpuOK' /\ Tail(waitqueue[t]) \in Seq(Thread)
          BY <1>0, <3>1, <4>1, Wakeup
        <4>3. ControlOK'
          BY <1>0, <2>1, <3>1, ControlStutter
        <4> QED  BY <3>1, <4>1, <4>2, <4>3
      <3>2. CASE /\ thread_schedule /\ UNCHANGED waitqueue
                 /\ pc' = [pc EXCEPT ![t] = "gone"]
        <4>1. CpuOK'
          BY <1>0, <1>a, <2>1, <3>2, Schedule
        <4>2. ControlOK'
          BY <1>0, <1>a, <2>1, <3>2, ControlStep DEF JobPC
        <4> QED  BY <1>0, <3>2, <4>1, <4>2 DEF DataOK
      <3> QED  BY <1>4, <3>1, <3>2 DEF exit_wakeup, Goto
    <2>3. DataOK'
      BY <1>0, <2>1, <2>2 DEF DataOK
    <2> QED  BY <2>2, <2>3, SplitNext
  <1> QED  BY <1>1, <1>2, <1>3, <1>4 DEF JobStep

\* The main thread keeps the invariant: at a prompt ...
LEMMA PromptStep ==
    ASSUME IInv,
           \/ wait_for_key \/ InvalidKey \/ main_menu \/ get_synch_simulation
           \/ get_scheduler \/ get_quantum \/ get_scheduler_simulation \/ ask_for_stats
    PROVE  IInv'
  <1>0. CpuOK /\ DataOK /\ ControlOK /\ TypeOK /\ IdleReady
    BY Split DEF IInv
  <1> USE DEF cpuVars, statVars, jobVars, workVars, intVars, menuVars, simVars, keyVars
  <1>1. CASE wait_for_key
    <2>1. /\ g_current = Main /\ thread_schedule
          /\ s_waitqueue' = Append(s_waitqueue, Main)
          /\ intr' = [intr EXCEPT ![Main] = FALSE]
          /\ UNCHANGED << pc, s_newqueue, waitqueue, jobVars, workVars, intVars,
                          menuVars, simVars, keyVars >>
      BY <1>1 DEF wait_for_key, SetIntr
    <2>2. CpuOK'
      BY <1>0, <2>1, KernelThreads, Schedule
    <2>3. s_waitqueue' \in Seq(Thread)
      BY <1>0, <2>1, KernelThreads, AppendQueue DEF DataOK
    <2>4. DataOK'
      BY <1>0, <2>1, <2>3, KernelThreads DEF DataOK
    <2>5. ControlOK'
      BY <1>0, <2>1, ControlStutter
    <2> QED  BY <2>2, <2>4, <2>5, SplitNext
  <1>2. ASSUME GotKey, g_scheduler' \in Scheduler, g_quantum' \in 0 .. TickMax,
               simulation' \in Seq(Job), ControlOK'
        PROVE  IInv'
    <2>1. /\ keys' = keys - 1 /\ keys > 0
          /\ intr' = [intr EXCEPT ![Main] = TRUE]
          /\ UNCHANGED << cpuVars, s_newqueue, s_waitqueue, waitqueue, jobVars,
                          workVars, intVars, simVars, keyb_irq >>
      BY <1>2 DEF GotKey, SetIntr
    <2>2. keys' \in 0 .. KeyQueueMax
      BY <1>0, <2>1, BoundAssumption DEF DataOK
    <2>3. CpuOK' /\ DataOK'
      BY <1>0, <1>2, <2>1, <2>2, KernelThreads DEF CpuOK, IdleReady, DataOK
    <2> QED  BY <1>2, <2>3, SplitNext
  <1>3. /\ g_scheduler \in Scheduler /\ g_quantum \in 0 .. TickMax
        /\ simulation \in Seq(Job)
    BY <1>0 DEF DataOK
  <1>4. ASSUME NEW l \in MainPC, GotKey, pc' = [pc EXCEPT ![Main] = l],
               l \in Prompts \cup {"mask", "halt"}, l = "mask" => simulation' # << >>
        PROVE  ControlOK'
    <2>1. threads' = << >> /\ child' = 1 /\ item' = item
      BY <1>0, <1>4 DEF GotKey, ControlOK, MainSim
    <2>2. l \notin {"create", "merge", "yield", "yielded", "join"}
      BY <1>4 DEF Prompts
    <2> QED  BY <1>0, <1>4, <2>1, <2>2, ControlMain
  <1>5. CASE InvalidKey
    <2>1. ControlOK'
      BY <1>0, <1>5, ControlStutter DEF InvalidKey, GotKey
    <2> QED  BY <1>2, <1>3, <1>5, <2>1 DEF InvalidKey
  <1>6. CASE main_menu \/ ask_for_stats
    <2>1. /\ GotKey /\ UNCHANGED menuVars
          /\ \E l \in MainPC : l \in Prompts \cup {"mask", "halt"} /\ l # "mask"
                               /\ pc' = [pc EXCEPT ![Main] = l]
      BY <1>6 DEF main_menu, ask_for_stats, Goto, MainPC, Prompts
    <2>2. ControlOK'
      BY <1>4, <2>1
    <2> QED  BY <1>2, <1>3, <2>1, <2>2
  <1>7. CASE get_synch_simulation
    <2>1. /\ GotKey /\ g_scheduler' = "RR" /\ g_quantum' = SynchQuantum
          /\ simulation' \in SynchSims /\ pc' = [pc EXCEPT ![Main] = "mask"]
      BY <1>7 DEF get_synch_simulation, Goto
    <2>2. /\ simulation' \in Seq(Job) /\ simulation' # << >>
          /\ g_scheduler' \in Scheduler /\ g_quantum' \in 0 .. TickMax
      BY <2>1, MenuAssumption, BoundAssumption DEF Scheduler
    <2>3. ControlOK'
      BY <1>4, <2>1, <2>2 DEF MainPC
    <2> QED  BY <1>2, <2>1, <2>2, <2>3
  <1>8. CASE get_scheduler
    <2>1. /\ GotKey /\ g_scheduler' \in Schedulers /\ UNCHANGED << g_quantum, simulation >>
          /\ \E l \in {"quantum", "joblist"} : pc' = [pc EXCEPT ![Main] = l]
      BY <1>8 DEF get_scheduler, Goto
    <2>2. g_scheduler' \in Scheduler
      BY <2>1, MenuAssumption
    <2>3. ControlOK'
      BY <1>4, <2>1 DEF MainPC, Prompts
    <2> QED  BY <1>2, <1>3, <2>1, <2>2, <2>3
  <1>9. CASE get_quantum
    <2>1. /\ GotKey /\ g_quantum' \in Quanta /\ UNCHANGED << g_scheduler, simulation >>
          /\ pc' = [pc EXCEPT ![Main] = "joblist"]
      BY <1>9 DEF get_quantum, Goto
    <2>2. g_quantum' \in 0 .. TickMax
      BY <2>1, BoundAssumption
    <2>3. ControlOK'
      BY <1>4, <2>1 DEF MainPC, Prompts
    <2> QED  BY <1>2, <1>3, <2>1, <2>2, <2>3
  <1>10. CASE get_scheduler_simulation
    <2>1. /\ GotKey /\ simulation' \in SchedulerSims
          /\ UNCHANGED << g_scheduler, g_quantum >>
          /\ pc' = [pc EXCEPT ![Main] = "mask"]
      BY <1>10 DEF get_scheduler_simulation, Goto
    <2>2. simulation' \in Seq(Job) /\ simulation' # << >>
      BY <2>1, MenuAssumption
    <2>3. ControlOK'
      BY <1>4, <2>1, <2>2 DEF MainPC
    <2> QED  BY <1>2, <1>3, <2>1, <2>2, <2>3
  <1> QED  BY <1>1, <1>5, <1>6, <1>7, <1>8, <1>9, <1>10

\* ... and in run_simulation.
LEMMA SimulationStep ==
    ASSUME IInv,
           \/ irq_disable_keyboard \/ \E t \in Slots : thread_create_from_job(t)
           \/ merge_new_with_runnable \/ thread_yield(Main) \/ thread_yield_return(Main)
           \/ wait_for_child \/ calculate_simulation_stat_halt \/ join_child
           \/ irq_enable_keyboard
    PROVE  IInv'
  <1>0. CpuOK /\ DataOK /\ ControlOK /\ TypeOK /\ IdleReady
    BY Split DEF IInv
  <1>a. Main \in Thread /\ Main # Idle
    BY KernelThreads
  <1>b. threads \in Seq(Slots) /\ child \in Nat \ {0} /\ Len(threads) \in Nat
    BY <1>0 DEF DataOK
  <1> USE DEF cpuVars, statVars, jobVars, workVars, intVars, menuVars, simVars, keyVars
  <1>1. CASE irq_disable_keyboard
    <2>1. /\ pc[Main] = "mask" /\ keyb_irq' = FALSE
          /\ pc' = [pc EXCEPT ![Main] = "create"]
          /\ UNCHANGED << cpuVars, intr, s_newqueue, s_waitqueue, waitqueue, jobVars,
                          workVars, intVars, menuVars, simVars, keys >>
      BY <1>1 DEF irq_disable_keyboard, At, Goto
    <2>2. CpuOK' /\ DataOK'
      BY <1>0, <2>1 DEF CpuOK, IdleReady, DataOK
    <2>3. child' = 1 /\ Len(threads') < Len(simulation')
      <3>1. threads = << >> /\ child = 1 /\ simulation # << >> /\ simulation \in Seq(Job)
        BY <1>0, <2>1 DEF ControlOK, MainSim, DataOK
      <3> QED  BY <2>1, <3>1
    <2>4. ControlOK'
      BY <1>0, <2>1, <2>3, ControlMain DEF MainPC, Prompts
    <2> QED  BY <2>2, <2>4, SplitNext
  <1>2. ASSUME NEW t \in Slots, thread_create_from_job(t)
        PROVE  IInv'
    <2> DEFINE job == simulation[Len(threads) + 1]
               more == Len(threads) + 1 < Len(simulation)
    <2>1. /\ pc[Main] = "create"
          /\ refcount' = [refcount EXCEPT ![t] = 2]
          /\ priority' = [priority EXCEPT ![t] = JobPriority(job)]
          /\ fn' = [fn EXCEPT ![t] = job.fn]
          /\ g_num_threads' = g_num_threads + 1
          /\ state' = [state EXCEPT ![t] = "NEW"]
          /\ s_newqueue' = SCHEDULER(g_scheduler, s_newqueue, t, priority')
          /\ threads' = Append(threads, t)
          /\ intr' = [intr EXCEPT ![t] = FALSE]
          /\ pc' = [pc EXCEPT ![Main] = IF more THEN "create" ELSE "merge"]
          /\ Stamp(t, "arrival")
          /\ UNCHANGED << g_current, s_runqueue, num_ticks, s_waitqueue, waitqueue,
                          g_numticks, workVars, intVars, menuVars, child, keyVars >>
      BY <1>2 DEF thread_create_from_job, At, Goto
    <2>2. t \in Thread /\ Slots \subseteq Thread
      BY KernelThreads
    <2>3. child = 1 /\ Len(threads) < Len(simulation) /\ simulation \in Seq(Job)
      BY <1>0, <2>1 DEF ControlOK, MainSim, DataOK
    <2>4. job \in Job
      BY <1>b, <2>3
    <2>5. JobPriority(job) \in Nat /\ job.fn \in {"fn", "toggler", "poet"}
      BY <2>4, BoundAssumption DEF JobPriority, Job
    <2>6. priority' \in [Thread -> Nat] /\ fn' \in [Slots -> {"fn", "toggler", "poet"}]
      <3> HIDE DEF job
      <3> QED  BY <1>0, <2>1, <2>2, <2>5 DEF DataOK
    <2>7. s_newqueue' \in Seq(Slots)
      <3>1. s_newqueue \in Seq(Slots) /\ \A s \in Slots : priority'[s] \in Int
        BY <1>0, <2>2, <2>6 DEF DataOK
      <3> QED  BY <2>1, <3>1, SchedulerEnqueues
    <2>8. threads' \in Seq(Slots) /\ Len(threads') = Len(threads) + 1
      BY <1>b, <2>1, AppendProperties
    <2>9. CpuOK'
      BY <1>0, <2>1, <2>2 DEF CpuOK, IdleReady, States
    <2>10. DataOK'
      <3> HIDE DEF job, more
      <3>1. refcount' \in [Slots -> Nat]
        BY <1>0, <2>1 DEF DataOK
      <3>2. intr' \in [Thread -> BOOLEAN]
        BY <1>0, <2>1 DEF DataOK
      <3>3. g_num_threads' \in Nat
        BY <1>0, <2>1 DEF DataOK
      <3>4. UNCHANGED << s_waitqueue, waitqueue, g_numticks, workVars, intVars, menuVars,
                         child, keyVars >>
        BY <2>1
      <3>5. time' \in [Slots -> SUBSET TimeField]
        BY <1>0, <2>1, Stamped DEF DataOK, TimeField
      <3> QED  BY <1>0, <2>6, <2>7, <2>8, <3>1, <3>2, <3>3, <3>4, <3>5 DEF DataOK
    <2>11. ControlOK'
      <3>1. CASE more
        BY <1>0, <1>b, <2>1, <2>3, <2>8, <3>1, ControlMain DEF MainPC, Prompts
      <3>2. CASE ~more
        BY <1>0, <1>b, <2>1, <2>3, <2>8, <3>2, ControlMain DEF MainPC, Prompts
      <3> QED  BY <3>1, <3>2
    <2> QED  BY <2>9, <2>10, <2>11, SplitNext
  <1>3. CASE merge_new_with_runnable
    <2>1. /\ pc[Main] = "merge"
          /\ UNCHANGED << g_current, num_ticks, s_waitqueue, waitqueue, jobVars,
                          workVars, intVars, menuVars, simVars, keyVars >>
      BY <1>3 DEF merge_new_with_runnable, At
    <2>2. CASE /\ s_newqueue # << >> /\ s_newqueue' = Tail(s_newqueue)
               /\ state' = [state EXCEPT ![Head(s_newqueue)] = "READY"]
               /\ s_runqueue' = RunqueueWith(Head(s_newqueue))
               /\ intr' = [intr EXCEPT ![Main] = FALSE] /\ UNCHANGED pc
      <3>1. Head(s_newqueue) \in Thread /\ Tail(s_newqueue) \in Seq(Slots)
        BY <1>0, <2>2, RemoveFirstQueue, KernelThreads DEF DataOK
      <3>2. /\ s_runqueue' \in Seq(Thread)
            /\ \A u : InQueue(u, s_runqueue) => InQueue(u, s_runqueue')
        BY <1>0, <2>2, <3>1, MakeRunnable
      <3>3. CpuOK' /\ DataOK'
        BY <1>0, <1>a, <2>1, <2>2, <3>1, <3>2 DEF CpuOK, IdleReady, DataOK, States
      <3>4. ControlOK'
        BY <1>0, <2>1, <2>2, ControlStutter
      <3> QED  BY <3>3, <3>4, SplitNext
    <2>3. CASE /\ intr' = [intr EXCEPT ![Main] = TRUE]
               /\ pc' = [pc EXCEPT ![Main] = "yield"]
               /\ UNCHANGED << s_newqueue, state, s_runqueue >>
      <3>1. CpuOK' /\ DataOK'
        BY <1>0, <1>a, <2>1, <2>3 DEF CpuOK, IdleReady, DataOK
      <3>2. child' <= Len(threads')
        BY <1>0, <2>1 DEF ControlOK, MainSim
      <3>3. ControlOK'
        BY <1>0, <2>1, <2>3, <3>2, ControlMain DEF MainPC, Prompts
      <3> QED  BY <3>1, <3>3, SplitNext
    <2> QED  BY <1>3, <2>2, <2>3 DEF merge_new_with_runnable, SetIntr, Goto
  <1>4. CASE thread_yield(Main)
    <2>1. /\ pc[Main] = "yield" /\ pc' = [pc EXCEPT ![Main] = "yielded"]
          /\ intr' = [intr EXCEPT ![Main] = FALSE] /\ thread_requeue_current
          /\ UNCHANGED << s_newqueue, s_waitqueue, waitqueue, jobVars, workVars,
                          intVars, menuVars, simVars, keyVars >>
      BY <1>4 DEF thread_yield, At, Goto, SetIntr
    <2>2. CpuOK'
      BY <1>0, <2>1, Requeue
    <2>3. DataOK'
      BY <1>0, <1>a, <2>1 DEF DataOK
    <2>4. child' <= Len(threads')
      BY <1>0, <2>1 DEF ControlOK, MainSim
    <2>5. ControlOK'
      BY <1>0, <2>1, <2>4, ControlMain DEF MainPC, Prompts
    <2> QED  BY <2>2, <2>3, <2>5, SplitNext
  <1>5. CASE thread_yield_return(Main)
    <2>1. /\ pc[Main] = "yielded" /\ pc' = [pc EXCEPT ![Main] = "join"]
          /\ intr' = [intr EXCEPT ![Main] = TRUE]
          /\ UNCHANGED << cpuVars, s_newqueue, s_waitqueue, waitqueue, jobVars,
                          workVars, intVars, menuVars, simVars, keyVars >>
      BY <1>5 DEF thread_yield_return, At, Goto, SetIntr
    <2>2. CpuOK' /\ DataOK'
      BY <1>0, <1>a, <2>1 DEF CpuOK, IdleReady, DataOK
    <2>3. child' <= Len(threads')
      BY <1>0, <2>1 DEF ControlOK, MainSim
    <2>4. ControlOK'
      BY <1>0, <2>1, <2>3, ControlMain DEF MainPC, Prompts
    <2> QED  BY <2>2, <2>4, SplitNext
  <1>6. ASSUME pc[Main] = "join"
        PROVE  threads[child] \in Slots
    <2>1. child \in 1 .. Len(threads)
      BY <1>0, <1>b, <1>6 DEF ControlOK, MainSim
    <2> QED  BY <1>b, <2>1, ElementOfSeq
  <1>7. CASE wait_for_child
    <2>1. /\ g_current = Main /\ pc[Main] = "join" /\ thread_schedule
          /\ waitqueue' = [waitqueue EXCEPT ![threads[child]] = Append(@, Main)]
          /\ intr' = [intr EXCEPT ![Main] = FALSE]
          /\ UNCHANGED << pc, s_newqueue, s_waitqueue, jobVars, workVars, intVars,
                          menuVars, simVars, keyVars >>
      BY <1>7 DEF wait_for_child, At, SetIntr
    <2>2. CpuOK'
      BY <1>0, <1>a, <2>1, Schedule
    <2>3. waitqueue' \in [Slots -> Seq(Thread)]
      <3>1. waitqueue \in [Slots -> Seq(Thread)]
        BY <1>0 DEF DataOK
      <3>2. Append(waitqueue[threads[child]], Main) \in Seq(Thread)
        BY <1>6, <1>a, <2>1, <3>1, AppendQueue
      <3> QED  BY <2>1, <3>1, <3>2
    <2>4. DataOK'
      BY <1>0, <1>a, <2>1, <2>3 DEF DataOK
    <2>5. ControlOK'
      BY <1>0, <2>1, ControlStutter
    <2> QED  BY <2>2, <2>4, <2>5, SplitNext
  <1>8. CASE join_child
    <2> DEFINE next == IF child < Len(threads) THEN "yield" ELSE "unmask"
    <2>1. /\ pc[Main] = "join" /\ child' = child + 1 /\ UNCHANGED threads
          /\ thread_detach(threads[child], Main, next, TRUE)
      BY <1>8 DEF join_child, At
    <2>2. next \in AllPC
      BY DEF AllPC, MainPC
    <2> HIDE DEF next
    <2>3. /\ CpuOK' /\ refcount' \in [Slots -> Nat]
          /\ s_workqueue' \in Seq(Slots) /\ s_waitqueue' \in Seq(Thread)
          /\ intr' \in [Thread -> BOOLEAN]
          /\ \E l \in {next, "halt"} : pc' = [pc EXCEPT ![Main] = l]
          /\ UNCHANGED << s_newqueue, waitqueue, priority, fn, statVars, item, intVars,
                          menuVars, g_num_threads, keyVars >>
      BY <1>0, <1>6, <1>a, <2>1, <2>2, Detach
    <2>4. DataOK'
      <3>1. threads' \in Seq(Slots) /\ child' \in Nat \ {0}
        BY <1>b, <2>1
      <3> QED  BY <1>0, <2>3, <3>1 DEF DataOK
    <2>5. PICK l \in {next, "halt"} : pc' = [pc EXCEPT ![Main] = l]
      BY <2>3
    <2>6. /\ l \in {"yield", "unmask", "halt"}
          /\ l = "yield" => child' <= Len(threads')
      BY <1>b, <2>1, <2>5 DEF next
    <2>7. ControlOK'
      BY <1>0, <2>3, <2>5, <2>6, ControlMain DEF MainPC, Prompts
    <2> QED  BY <2>3, <2>4, <2>7, SplitNext
  <1>9. CASE irq_enable_keyboard
    <2>1. /\ keyb_irq' = TRUE /\ simulation' = << >> /\ threads' = << >> /\ child' = 1
          /\ pc' = [pc EXCEPT ![Main] = "stats"]
          /\ UNCHANGED << cpuVars, intr, s_newqueue, s_waitqueue, waitqueue, jobVars,
                          workVars, intVars, g_scheduler, g_quantum, g_num_threads, keys >>
      BY <1>9 DEF irq_enable_keyboard, Goto
    <2>2. CpuOK' /\ DataOK'
      BY <1>0, <2>1, SMTT(40) DEF CpuOK, IdleReady, DataOK
    <2>3. ControlOK'
      BY <1>0, <2>1, ControlMain DEF MainPC, Prompts
    <2> QED  BY <2>2, <2>3, SplitNext
  <1>10. CASE calculate_simulation_stat_halt
    <2>1. /\ pc' = [pc EXCEPT ![Main] = "stat_halt"]
          /\ intr' = [intr EXCEPT ![Main] = FALSE]
          /\ UNCHANGED << cpuVars, s_newqueue, s_waitqueue, waitqueue, jobVars, workVars,
                          intVars, menuVars, simVars, keyVars >>
      BY <1>10 DEF calculate_simulation_stat_halt, Goto, SetIntr
    <2>2. CpuOK' /\ DataOK'
      BY <1>0, <1>a, <2>1 DEF CpuOK, IdleReady, DataOK
    <2>3. ControlOK'
      BY <1>0, <2>1, ControlMain DEF MainPC, Prompts
    <2> QED  BY <2>2, <2>3, SplitNext
  <1> QED  BY <1>1, <1>2, <1>3, <1>4, <1>5, <1>7, <1>8, <1>9, <1>10

\* The inductive invariant of the thread subsystem.
LEMMA Invariance == Spec => []IInv
  <1>1. IInv /\ [Next]_vars => IInv'
    <2> SUFFICES ASSUME IInv, [Next]_vars PROVE IInv'
      OBVIOUS
    <2>1. CASE UNCHANGED vars
      <3>1. CpuOK /\ DataOK /\ ControlOK
        BY Split DEF IInv
      <3> USE DEF vars, cpuVars, statVars, jobVars, workVars, intVars, menuVars, simVars, keyVars
      <3>2. CpuOK' /\ DataOK'
        BY <2>1, <3>1 DEF CpuOK, IdleReady, DataOK
      <3>3. ControlOK'
        BY <2>1, <3>1, ControlStutter
      <3> QED  BY <3>2, <3>3, SplitNext
    <2>2. CASE MainStep
      <3>1. CASE \/ wait_for_key \/ InvalidKey \/ main_menu \/ get_synch_simulation
                 \/ get_scheduler \/ get_quantum \/ get_scheduler_simulation
                 \/ ask_for_stats
        BY <3>1, PromptStep
      <3>2. CASE \/ irq_disable_keyboard \/ \E t \in Slots : thread_create_from_job(t)
                 \/ merge_new_with_runnable \/ thread_yield(Main)
                 \/ thread_yield_return(Main) \/ wait_for_child
                 \/ calculate_simulation_stat_halt \/ join_child \/ irq_enable_keyboard
        BY <3>2, SimulationStep, Zenon
      <3> QED  BY <2>2, <3>1, <3>2, Zenon DEF MainStep
    <2> QED  BY <2>1, <2>2, KernelStep, JobsStep, InterruptStep DEF Next, Halt
  <1> QED  BY InitIInv, <1>1, PTL DEF Spec

\* Every variable keeps its type; the key queue in particular never overflows.
THEOREM TypeCorrect == Spec => []TypeOK
  <1>1. IInv => TypeOK
    BY DEF IInv
  <1> QED  BY Invariance, <1>1, PTL

(***************************************************************************)
(* The idle thread is always running or runnable, whatever the scheduler   *)
(* does to the order of the run queue: KASSERT(next) in                    *)
(* thread_next_runnable never fails.                                       *)
(***************************************************************************)
THEOREM AlwaysRunnable == Spec => []IdleReady
  <1>1. IInv => IdleReady
    BY DEF IInv
  <1> QED  BY Invariance, <1>1, PTL

-----------------------------------------------------------------------------
(***************************************************************************)
(* Preemption is off only while the current thread is inside mutex_lock or *)
(* mutex_unlock.                                                           *)
(***************************************************************************)
PreemptOff == g_preemption = TRUE \/ pc[g_current] \in {"locking", "unlocking"}

\* A step taken with preemption off turns it on, or leaves the control alone.
LEMMA WhilePreemptionOff ==
    ASSUME IInv, PreemptOff, g_preemption # TRUE, [Next]_vars
    PROVE  g_current' = g_current /\ (g_preemption' = TRUE \/ UNCHANGED pc)
  <1>1. pc[g_current] \in {"locking", "unlocking"}
    BY DEF PreemptOff
  <1>2. g_current # Main /\ g_current # Idle /\ g_current # WorkQ
    BY <1>1 DEF IInv, Labels, MainPC, IdlePC, WorkPC, Prompts
  <1>3. g_preemption = FALSE
    BY DEF IInv, TypeOK
  <1> USE DEF vars, cpuVars
  <1>4. ~MainStep
    BY <1>2 DEF MainStep, wait_for_key, InvalidKey, main_menu, get_synch_simulation,
         get_scheduler, get_quantum, get_scheduler_simulation, ask_for_stats,
         irq_disable_keyboard, thread_create_from_job, merge_new_with_runnable,
         thread_yield, thread_yield_return, wait_for_child, calculate_simulation_stat_halt,
         join_child, irq_enable_keyboard, GotKey, At
  <1>5. ~IdleStep /\ ~WorkStep
    BY <1>2 DEF IdleStep, WorkStep, thread_run, thread_yield, thread_yield_return,
         workqueue_wait, workqueue_next, thread_destroy, At
  <1>6. ASSUME NEW t \in Slots, JobStep(t)
        PROVE  g_current' = g_current /\ g_preemption' = TRUE
    <2>1. poet_preemption_on(t)
      BY <1>1, <1>6 DEF JobStep, thread_run, job_body, toggler_end_atomic, poet_lock,
           exit_detach, exit_state, exit_wakeup, At
    <2> QED  BY <2>1 DEF poet_preemption_on, JobUnchanged
  <1>7. CASE Interrupt
    BY <1>7 DEF Interrupt, timer_process_tick, keyboard_int_handler
  <1>8. CASE Handler
    BY <1>3, <1>8 DEF Handler, keyboard_wakeup, thread_wakeup_one, int_handle_interrupt
  <1>9. CASE UNCHANGED vars
    BY <1>9
  <1> QED  BY <1>4, <1>5, <1>6, <1>7, <1>8, <1>9 DEF Next, Halt

\* Only mutex_lock and mutex_unlock turn preemption off.
LEMMA WhilePreemptionOn ==
    ASSUME IInv, g_preemption = TRUE, [Next]_vars
    PROVE  PreemptOff'
  <1> USE DEF vars, cpuVars, intVars
  <1>1. CASE MainStep
    <2>1. UNCHANGED g_preemption
      BY <1>1 DEF MainStep, wait_for_key, InvalidKey, main_menu, get_synch_simulation,
           get_scheduler, get_quantum, get_scheduler_simulation, ask_for_stats,
           irq_disable_keyboard, thread_create_from_job, merge_new_with_runnable,
           thread_yield, thread_yield_return, wait_for_child, calculate_simulation_stat_halt,
           join_child, irq_enable_keyboard, GotKey, thread_detach
    <2> QED  BY <2>1 DEF PreemptOff
  <1>2. CASE IdleStep \/ WorkStep
    <2>1. UNCHANGED g_preemption
      BY <1>2 DEF IdleStep, WorkStep, thread_run, thread_yield, thread_yield_return,
           workqueue_wait, workqueue_next, thread_destroy
    <2> QED  BY <2>1 DEF PreemptOff
  <1>3. ASSUME NEW t \in Slots, JobStep(t)
        PROVE  PreemptOff'
    <2>1. CASE job_body(t) \/ poet_lock(t)
      <3>1. t \in Thread /\ pc \in [Thread -> AllPC]
        BY KernelThreads DEF IInv, TypeOK, AllPC
      <3>2. g_current' = t
        BY <2>1 DEF job_body, poet_lock, At, JobUnchanged
      <3>3. \/ UNCHANGED g_preemption
            \/ pc' = [pc EXCEPT ![t] = "locking"] \/ pc' = [pc EXCEPT ![t] = "unlocking"]
        <4>1. CASE poet_lock(t)
          BY <4>1 DEF poet_lock, Goto
        <4>2. CASE job_body(t)
          <5>1. fn[t] \in {"fn", "toggler", "poet"}
            BY DEF IInv, TypeOK
          <5> QED  BY <4>2, <5>1 DEF job_body, Goto
        <4> QED  BY <2>1, <4>1, <4>2
      <3> QED  BY <3>1, <3>2, <3>3 DEF PreemptOff
    <2>2. CASE \/ thread_run(t) \/ toggler_end_atomic(t) \/ exit_detach(t)
               \/ exit_state(t) \/ exit_wakeup(t)
      <3>1. UNCHANGED g_preemption
        BY <2>2 DEF thread_run, toggler_end_atomic, exit_detach, thread_detach,
             exit_state, exit_wakeup
      <3> QED  BY <3>1 DEF PreemptOff
    <2>3. CASE poet_preemption_on(t)
      BY <2>3 DEF poet_preemption_on, PreemptOff
    <2> QED  BY <1>3, <2>1, <2>2, <2>3 DEF JobStep
  <1>4. CASE Interrupt \/ Handler
    <2>1. UNCHANGED g_preemption
      BY <1>4 DEF Interrupt, timer_process_tick, keyboard_int_handler, Handler,
           keyboard_wakeup, int_handle_interrupt
    <2> QED  BY <2>1 DEF PreemptOff
  <1>5. CASE UNCHANGED vars
    BY <1>5 DEF PreemptOff
  <1> QED  BY <1>1, <1>2, <1>3, <1>4, <1>5 DEF Next, Halt

LEMMA PreemptInvariance == Spec => []PreemptOff
  <1>1. Init => PreemptOff
    BY DEF Init, PreemptOff
  <1>2. IInv /\ PreemptOff /\ [Next]_vars => PreemptOff'
    <2> SUFFICES ASSUME IInv, PreemptOff, [Next]_vars PROVE PreemptOff'
      OBVIOUS
    <2>1. CASE g_preemption = TRUE
      BY <2>1, WhilePreemptionOn
    <2>2. CASE g_preemption # TRUE
      BY <2>2, WhilePreemptionOff DEF PreemptOff
    <2> QED  BY <2>1, <2>2
  <1> QED  BY Invariance, <1>1, <1>2, PTL DEF Spec

(***************************************************************************)
(* A thread that turned preemption off keeps the CPU until it turns it on, *)
(* whatever interrupts arrive meanwhile.                                   *)
(***************************************************************************)
THEOREM PreemptionCorrect == Spec => PreemptionRespected
  <1>1. IInv /\ PreemptOff /\ [Next]_vars => [~g_preemption => g_current' = g_current]_vars
    <2> SUFFICES ASSUME IInv, PreemptOff, [Next]_vars, g_preemption = FALSE
                 PROVE  g_current' = g_current
      BY DEF IInv, TypeOK
    <2> QED  BY WhilePreemptionOff
  <1> QED  BY Invariance, PreemptInvariance, <1>1, PTL DEF Spec, PreemptionRespected

-----------------------------------------------------------------------------
(***************************************************************************)
(* The queues, the references and the memory.  This is the second part of  *)
(* the inductive invariant: where each thread is, and who refers to it.    *)
(***************************************************************************)
Live == {"start", "lock", "locking", "body", "critical", "unlocking", "exit"}

\* No code assigns THREAD_WAITING: the state of a thread that sleeps is RUNNING.
Asleep(t) == state[t] = "RUNNING" /\ t # g_current

RunOk ==
    /\ Distinct(s_runqueue)
    /\ \A t \in Thread : state[t] = "READY" <=> InQueue(t, s_runqueue)

NewOk ==
    /\ Distinct(s_newqueue)
    /\ \A t \in Thread : state[t] = "NEW" <=> InQueue(t, s_newqueue)

\* Main sleeps for c to exit.
WaitsFor(c) == waitqueue[c] = << Main >>

\* Who sleeps where.
WaitOk ==
    /\ Distinct(s_waitqueue)
    /\ \A t \in Thread : InQueue(t, s_waitqueue) => t \in {Main, WorkQ} /\ Asleep(t)
    /\ \A c \in Slots : waitqueue[c] = << >> \/ WaitsFor(c)
    /\ Asleep(Main) => InQueue(Main, s_waitqueue) \/ \E c \in Slots : WaitsFor(c)
    /\ Asleep(WorkQ) => InQueue(WorkQ, s_waitqueue)
    /\ InQueue(Main, s_waitqueue) => pc[Main] \in Prompts
    /\ \A c \in Slots : WaitsFor(c) =>
          Asleep(Main) /\ pc[Main] = "join" /\ c = threads[child] /\ pc[c] # "gone"

KernelOk ==
    /\ \A t \in {Main, Idle, WorkQ} : state[t] \in {"READY", "RUNNING"}
    /\ state[g_current] \in {"RUNNING", "EXITED"}
    /\ pc[Main] = "unmask" => child > Len(threads)
    /\ Distinct(threads)

\* The life of a job.
JobOk(c) ==
    /\ state[c] \in {"FREE", "NEW"} => pc[c] = "start"
    /\ state[c] = "READY" => pc[c] \in Live
    /\ state[c] = "RUNNING" => c = g_current /\ pc[c] \in Live \cup {"detached"}
    /\ state[c] = "EXITED" => pc[c] \in {"exit_wake", "gone"}
    /\ c = g_current => pc[c] # "gone"
    /\ pc[c] = "exit_wake" => c = g_current
    /\ pc[c] \in {"detached", "exit_wake"} => intr[c] = FALSE /\ isr = "none"
    /\ state[c] # "FREE" /\ pc[c] # "gone" => ParentHolds(c)
    /\ ParentHolds(c) => state[c] # "FREE"

JobsOk == \A c \in Slots : JobOk(c)

\* A thread that waits for its destruction.
DeadOk ==
    /\ Distinct(s_workqueue) /\ ~InQueue(item, s_workqueue)
    /\ \A c \in Slots : InQueue(c, s_workqueue) \/ c = item =>
          state[c] = "EXITED" /\ pc[c] = "gone" /\ ~ParentHolds(c)

QInv == RunOk /\ NewOk /\ WaitOk /\ KernelOk /\ JobsOk /\ RefcountAccurate /\ DeadOk

\* What refcount ought to be.
Counts(c) ==
    refcount[c] = (IF SelfHolds(c) THEN 1 ELSE 0) + (IF ParentHolds(c) THEN 1 ELSE 0)

\* The parts that most steps need.
LEMMA Known ==
    ASSUME IInv, QInv
    PROVE  /\ g_current \in Thread /\ s_runqueue \in Seq(Thread) /\ s_newqueue \in Seq(Slots)
           /\ s_waitqueue \in Seq(Thread) /\ waitqueue \in [Slots -> Seq(Thread)]
           /\ state \in [Thread -> States] /\ pc \in [Thread -> AllPC]
           /\ intr \in [Thread -> BOOLEAN] /\ refcount \in [Slots -> Nat]
           /\ RunOk /\ NewOk /\ WaitOk /\ KernelOk /\ DeadOk
           /\ \A c \in Slots : JobOk(c) /\ Counts(c)
  BY DEF IInv, QInv, TypeOK, States, AllPC, JobsOk, RefcountAccurate, Counts

-----------------------------------------------------------------------------
(***************************************************************************)
(* The run queue.                                                          *)
(***************************************************************************)
LEMMA EnqueueRun ==
    ASSUME IInv, RunOk, NEW t \in Thread, state[t] # "READY"
    PROVE  LET rq == RunqueueWith(t)
               st == [state EXCEPT ![t] = "READY"]
           IN  /\ rq \in Seq(Thread) /\ rq # << >> /\ Distinct(rq)
               /\ \A u \in Thread : st[u] = "READY" <=> InQueue(u, rq)
  <1>1. /\ s_runqueue \in Seq(Thread) /\ \A u \in Thread : priority[u] \in Int
        /\ state \in [Thread -> States]
    BY DEF IInv, TypeOK, States
  <1>2. ~InQueue(t, s_runqueue) /\ Distinct(s_runqueue)
    BY DEF RunOk
  <1>3. /\ RunqueueWith(t) \in Seq(Thread) /\ RunqueueWith(t) # << >>
        /\ Distinct(RunqueueWith(t))
        /\ \A u : InQueue(u, RunqueueWith(t)) <=> InQueue(u, s_runqueue) \/ u = t
    BY <1>1, <1>2, SchedulerEnqueues DEF RunqueueWith
  <1> QED  BY <1>1, <1>3 DEF RunOk

\* What a switch from the run queue rq and the states st leads to.
Switched(st) ==
    /\ RunOk' /\ g_current' \in Thread /\ st[g_current'] = "READY"
    /\ state'[g_current'] = "RUNNING"
    /\ \A u \in Thread : u # g_current' => state'[u] = st[u]

LEMMA SwitchRun ==
    ASSUME NEW rq \in Seq(Thread), rq # << >>, Distinct(rq), NEW st \in [Thread -> States],
           \A u \in Thread : st[u] = "READY" <=> InQueue(u, rq), SwitchTo(rq, st)
    PROVE  Switched(st)
  <1>1. /\ Head(rq) \in Thread /\ Distinct(Tail(rq)) /\ ~InQueue(Head(rq), Tail(rq))
        /\ \A u : InQueue(u, rq) <=> u = Head(rq) \/ InQueue(u, Tail(rq))
    BY RemoveFirstQueue
  <1>2. /\ g_current' = Head(rq) /\ s_runqueue' = Tail(rq)
        /\ state' = [st EXCEPT ![Head(rq)] = "RUNNING"]
    BY DEF SwitchTo
  <1>3. state'[g_current'] = "RUNNING" /\ \A u \in Thread : u # g_current' => state'[u] = st[u]
    BY <1>1, <1>2
  <1>4. st[g_current'] = "READY" /\ g_current' \in Thread
    BY <1>1, <1>2
  <1>5. RunOk'
    <2>1. \A u \in Thread : state'[u] = "READY" <=> InQueue(u, Tail(rq))
      BY <1>1, <1>2, <1>3
    <2> QED  BY <1>1, <1>2, <2>1 DEF RunOk
  <1> QED  BY <1>3, <1>4, <1>5 DEF Switched

LEMMA Scheduled ==
    ASSUME IInv, RunOk, g_current # Idle, thread_schedule
    PROVE  Switched(state)
  <1>1. s_runqueue \in Seq(Thread) /\ state \in [Thread -> States]
    BY DEF IInv, TypeOK, States
  <1>2. s_runqueue # << >>
    BY DEF IInv, IdleReady, InQueue
  <1>3. Distinct(s_runqueue) /\ \A u \in Thread : state[u] = "READY" <=> InQueue(u, s_runqueue)
    BY DEF RunOk
  <1>4. SwitchTo(s_runqueue, state)
    BY DEF thread_schedule
  <1> QED  BY <1>1, <1>2, <1>3, <1>4, SwitchRun

\* The current thread was runnable and still is, or it still runs.
Requeued ==
    /\ RunOk' /\ g_current' \in Thread /\ state'[g_current'] = "RUNNING"
    /\ g_current' # g_current => state[g_current'] = "READY" /\ state'[g_current] = "READY"
    /\ \A u \in Thread : u # g_current /\ u # g_current' => state'[u] = state[u]

LEMMA RequeueRun ==
    ASSUME IInv, RunOk, state[g_current] = "RUNNING", thread_requeue_current
    PROVE  Requeued
  <1> DEFINE rq == RunqueueWith(g_current)
             st == [state EXCEPT ![g_current] = "READY"]
  <1>1. g_current \in Thread /\ state \in [Thread -> States] /\ st \in [Thread -> States]
    BY DEF IInv, TypeOK, States
  <1>2. /\ rq \in Seq(Thread) /\ rq # << >> /\ Distinct(rq)
        /\ \A u \in Thread : st[u] = "READY" <=> InQueue(u, rq)
    BY <1>1, EnqueueRun
  <1>3. SwitchTo(rq, st)
    BY DEF thread_requeue_current
  <1>4. st[g_current] = "READY" /\ \A u \in Thread : u # g_current => st[u] = state[u]
    BY <1>1
  <1> HIDE DEF rq, st
  <1>5. Switched(st)
    BY <1>1, <1>2, <1>3, SwitchRun
  <1> QED  BY <1>1, <1>4, <1>5 DEF Switched, Requeued

\* Thread h has been woken up.
Woken(h) ==
    /\ RunOk' /\ g_current' = g_current /\ state'[h] = "READY"
    /\ \A u \in Thread : u # h => state'[u] = state[u]

LEMMA WakeupRun ==
    ASSUME IInv, RunOk, NEW q, NEW h \in Thread, h = Head(q), state[h] # "READY",
           thread_wakeup_one(q)
    PROVE  Woken(h)
  <1>1. /\ Distinct(RunqueueWith(h))
        /\ \A u \in Thread : [state EXCEPT ![h] = "READY"][u] = "READY"
                               <=> InQueue(u, RunqueueWith(h))
    BY EnqueueRun
  <1>2. /\ state' = [state EXCEPT ![h] = "READY"] /\ s_runqueue' = RunqueueWith(h)
        /\ g_current' = g_current
    BY DEF thread_wakeup_one
  <1>3. state \in [Thread -> States]
    BY DEF IInv, TypeOK, States
  <1>4. RunOk'
    BY <1>1, <1>2 DEF RunOk
  <1>5. state'[h] = "READY" /\ \A u \in Thread : u # h => state'[u] = state[u]
    BY <1>2, <1>3
  <1> QED  BY <1>2, <1>4, <1>5 DEF Woken

-----------------------------------------------------------------------------
(***************************************************************************)
(* Jobs that a step leaves alone, or that only run.                        *)
(***************************************************************************)
\* Nobody's reference to c changes.
Held(c) == refcount'[c] = refcount[c] /\ (ParentHolds(c)' <=> ParentHolds(c))

LEMMA JobStays ==
    ASSUME NEW c \in Slots, JobOk(c), Counts(c), Held(c),
           state[c] \in States, state'[c] = state[c], pc'[c] = pc[c],
           c # g_current, c # g_current'
    PROVE  JobOk(c)' /\ Counts(c)'
  <1>1. JobOk(c)'
    BY DEF JobOk, Held, Live, States
  <1>2. SelfHolds(c)' <=> SelfHolds(c)
    BY DEF SelfHolds
  <1> QED  BY <1>1, <1>2 DEF Counts, Held

LEMMA JobRuns ==
    ASSUME NEW c \in Slots, JobOk(c), Counts(c), Held(c), pc[c] \in Live, pc'[c] \in Live,
           state[c] \in {"READY", "RUNNING"}, state'[c] \in {"READY", "RUNNING"},
           state'[c] = "RUNNING" => c = g_current'
    PROVE  JobOk(c)' /\ Counts(c)'
  <1>1. JobOk(c)'
    BY DEF JobOk, Held, Live
  <1>2. SelfHolds(c)' <=> SelfHolds(c)
    BY DEF SelfHolds, Live
  <1> QED  BY <1>1, <1>2 DEF Counts, Held

\* A job that is running is at one of the labels of its function, or exiting.
LEMMA CurrentJob ==
    ASSUME IInv, QInv, g_current \in Slots
    PROVE  /\ state[g_current] = "RUNNING" <=> pc[g_current] # "exit_wake"
           /\ pc[g_current] \in Live \cup {"detached", "exit_wake"}
           /\ pc[g_current] \in {"detached", "exit_wake"} =>
                 intr[g_current] = FALSE /\ isr = "none"
  <1>1. KernelOk /\ JobOk(g_current)
    BY Known
  <1>2. state[g_current] \in {"RUNNING", "EXITED"}
    BY <1>1 DEF KernelOk
  <1> QED  BY <1>1, <1>2 DEF JobOk, Live

\* The main thread and the other threads of the kernel, when they run.
LEMMA CurrentKernel ==
    ASSUME IInv, QInv, g_current \notin Slots
    PROVE  state[g_current] = "RUNNING"
  <1>1. KernelOk /\ g_current \in {Main, Idle, WorkQ}
    BY Known DEF Thread
  <1> QED  BY <1>1 DEF KernelOk

\* The new queue, when no thread is or becomes new.
LEMMA NewKept ==
    ASSUME NewOk, s_newqueue' = s_newqueue,
           \A t \in Thread : state'[t] = "NEW" <=> state[t] = "NEW"
    PROVE  NewOk'
  BY DEF NewOk

\* The dead, when nobody joins them or leaves them.
LEMMA DeadKept ==
    ASSUME DeadOk, s_workqueue' = s_workqueue, item' = item,
           \A c \in Slots : /\ ParentHolds(c)' <=> ParentHolds(c)
                            /\ state[c] = "EXITED" /\ pc[c] = "gone" =>
                                  state'[c] = "EXITED" /\ pc'[c] = "gone"
    PROVE  DeadOk'
  <1>1. /\ Distinct(s_workqueue') /\ ~InQueue(item', s_workqueue')
    BY DEF DeadOk
  <1>2. ASSUME NEW c \in Slots, InQueue(c, s_workqueue') \/ c = item'
        PROVE  state'[c] = "EXITED" /\ pc'[c] = "gone" /\ ~ParentHolds(c)'
    BY <1>2 DEF DeadOk
  <1> QED  BY <1>1, <1>2 DEF DeadOk

\* The sleepers, when nobody falls asleep or wakes up.
LEMMA WaitKept ==
    ASSUME WaitOk, s_waitqueue' = s_waitqueue, waitqueue' = waitqueue,
           threads' = threads, child' = child,
           \A t \in Thread : Asleep(t)' <=> Asleep(t),
           \A t \in {Main, WorkQ} : Asleep(t) => pc'[t] = pc[t],
           \A c \in Slots : pc[c] # "gone" /\ WaitsFor(c) => pc'[c] # "gone"
    PROVE  WaitOk'
  <1>1. Main \in Thread /\ WorkQ \in Thread
    BY KernelThreads
  <1>2. \A c \in Slots : WaitsFor(c)' <=> WaitsFor(c)
    BY DEF WaitsFor
  <1>3. /\ Distinct(s_waitqueue')
        /\ \A t \in Thread : InQueue(t, s_waitqueue') => t \in {Main, WorkQ} /\ Asleep(t)'
        /\ \A c \in Slots : waitqueue'[c] = << >> \/ WaitsFor(c)'
    BY <1>2 DEF WaitOk
  <1>4. /\ Asleep(Main)' => InQueue(Main, s_waitqueue') \/ \E c \in Slots : WaitsFor(c)'
        /\ Asleep(WorkQ)' => InQueue(WorkQ, s_waitqueue')
    BY <1>1, <1>2 DEF WaitOk
  <1>5. InQueue(Main, s_waitqueue') => pc'[Main] \in Prompts
    BY <1>1 DEF WaitOk
  <1>6. ASSUME NEW c \in Slots, WaitsFor(c)'
        PROVE  /\ Asleep(Main)' /\ pc'[Main] = "join" /\ c = threads'[child']
               /\ pc'[c] # "gone"
    BY <1>1, <1>2, <1>6 DEF WaitOk
  <1> QED  BY <1>3, <1>4, <1>5, <1>6 DEF WaitOk

-----------------------------------------------------------------------------
(***************************************************************************)
(* Steps of the current thread that move no thread from queue to queue.    *)
(***************************************************************************)
LEMMA ParentStays ==
    ASSUME threads' = threads, child' = child
    PROVE  \A c \in Slots : ParentHolds(c)' <=> ParentHolds(c)
  BY DEF ParentHolds

\* Only the label of the current thread may change, and it does not exit.
MovesOn ==
    /\ \A u \in Thread : u # g_current => pc'[u] = pc[u]
    /\ g_current \in Slots => pc[g_current] \in Live /\ pc'[g_current] \in Live
    /\ pc'[Main] = "unmask" => pc[Main] = "unmask"

LEMMA QuietKept ==
    ASSUME IInv, QInv, MovesOn,
           UNCHANGED << g_current, s_runqueue, state, s_newqueue, s_waitqueue, waitqueue,
                        refcount, s_workqueue, item, threads, child >>
    PROVE  QInv'
  <1>1. /\ g_current' = g_current /\ s_runqueue' = s_runqueue /\ state' = state
        /\ s_newqueue' = s_newqueue /\ s_waitqueue' = s_waitqueue
        /\ waitqueue' = waitqueue /\ refcount' = refcount /\ s_workqueue' = s_workqueue
        /\ item' = item /\ threads' = threads /\ child' = child
    OBVIOUS
  <1>2. /\ g_current \in Thread /\ state \in [Thread -> States]
        /\ RunOk /\ NewOk /\ WaitOk /\ KernelOk /\ DeadOk
        /\ \A c \in Slots : JobOk(c) /\ Counts(c)
    BY Known
  <1>3. \A c \in Slots : Held(c)
    BY <1>1, ParentStays DEF Held
  <1>4. RunOk' /\ NewOk'
    BY <1>1, <1>2 DEF RunOk, NewOk
  <1>5. WaitOk'
    <2>1. \A t \in Thread : Asleep(t)' <=> Asleep(t)
      BY <1>1 DEF Asleep
    <2>2. \A t \in {Main, WorkQ} : Asleep(t) => pc'[t] = pc[t]
      BY KernelThreads DEF Asleep, MovesOn
    <2>3. \A c \in Slots : pc[c] # "gone" => pc'[c] # "gone"
      BY KernelThreads DEF MovesOn, Live
    <2> QED  BY <1>1, <1>2, <2>1, <2>2, <2>3, WaitKept
  <1>6. KernelOk'
    BY <1>1, <1>2 DEF KernelOk, MovesOn
  <1>7. ASSUME NEW c \in Slots  PROVE  JobOk(c)' /\ Counts(c)'
    <2>1. c \in Thread /\ JobOk(c) /\ Counts(c) /\ Held(c) /\ state[c] \in States
      BY <1>2, <1>3, KernelThreads
    <2>2. CASE c # g_current
      BY <1>1, <2>1, <2>2, JobStays DEF MovesOn
    <2>3. CASE c = g_current
      <3>1. pc[c] \in Live /\ pc'[c] \in Live
        BY <2>3 DEF MovesOn
      <3>2. state[c] = "RUNNING"
        BY <2>3, <3>1, CurrentJob DEF Live
      <3> QED  BY <1>1, <2>1, <2>3, <3>1, <3>2, JobRuns
    <2> QED  BY <2>2, <2>3
  <1>8. DeadOk'
    <2>1. \A c \in Slots : state[c] = "EXITED" /\ pc[c] = "gone" =>
                              state'[c] = "EXITED" /\ pc'[c] = "gone"
      BY <1>1, KernelThreads DEF MovesOn, Live
    <2> QED  BY <1>1, <1>2, <1>3, <2>1, DeadKept DEF Held
  <1> QED  BY <1>4, <1>5, <1>6, <1>7, <1>8 DEF QInv, JobsOk, RefcountAccurate, Counts

\* The current thread gives up the CPU and stays runnable.
LEMMA RequeueKept ==
    ASSUME IInv, QInv, MovesOn, thread_requeue_current,
           UNCHANGED << s_newqueue, s_waitqueue, waitqueue,
                        refcount, s_workqueue, item, threads, child >>
    PROVE  QInv'
  <1>1. /\ s_newqueue' = s_newqueue /\ s_waitqueue' = s_waitqueue
        /\ waitqueue' = waitqueue /\ refcount' = refcount /\ s_workqueue' = s_workqueue
        /\ item' = item /\ threads' = threads /\ child' = child
    OBVIOUS
  <1>2. /\ g_current \in Thread /\ state \in [Thread -> States]
        /\ RunOk /\ NewOk /\ WaitOk /\ KernelOk /\ DeadOk
        /\ \A c \in Slots : JobOk(c) /\ Counts(c)
    BY Known
  <1>3. \A c \in Slots : Held(c)
    BY <1>1, ParentStays DEF Held
  <1>4. state[g_current] = "RUNNING"
    BY CurrentJob, CurrentKernel DEF MovesOn, Live
  <1>5. Requeued
    BY <1>2, <1>4, RequeueRun
  <1>6. ASSUME NEW t \in Thread
        PROVE  /\ state'[t] = state[t] \/ (state'[t] \in {"READY", "RUNNING"}
                                           /\ state[t] \in {"READY", "RUNNING"})
               /\ Asleep(t)' <=> Asleep(t)
               /\ t # g_current /\ t # g_current' => state'[t] = state[t]
               /\ t = g_current \/ t = g_current' => /\ state[t] \in {"READY", "RUNNING"}
                                                     /\ state'[t] \in {"READY", "RUNNING"}
               /\ state'[t] = "RUNNING" /\ t # g_current' => t # g_current
    BY <1>2, <1>4, <1>5 DEF Requeued, Asleep
  <1>7. RunOk' /\ NewOk'
    <2>1. \A t \in Thread : state'[t] = "NEW" <=> state[t] = "NEW"
      BY <1>6
    <2> QED  BY <1>1, <1>2, <1>5, <2>1, NewKept DEF Requeued
  <1>8. WaitOk'
    <2>1. \A t \in {Main, WorkQ} : Asleep(t) => pc'[t] = pc[t]
      BY KernelThreads DEF Asleep, MovesOn
    <2>2. \A c \in Slots : pc[c] # "gone" => pc'[c] # "gone"
      BY KernelThreads DEF MovesOn, Live
    <2> QED  BY <1>1, <1>2, <1>6, <2>1, <2>2, WaitKept
  <1>9. KernelOk'
    <2>1. \A t \in {Main, Idle, WorkQ} : state'[t] \in {"READY", "RUNNING"}
      BY <1>2, <1>6, KernelThreads DEF KernelOk
    <2>2. state'[g_current'] = "RUNNING"
      BY <1>5 DEF Requeued
    <2> QED  BY <1>1, <1>2, <2>1, <2>2 DEF KernelOk, MovesOn
  <1>10. ASSUME NEW c \in Slots  PROVE  JobOk(c)' /\ Counts(c)'
    <2>1. c \in Thread /\ JobOk(c) /\ Counts(c) /\ Held(c) /\ state[c] \in States
      BY <1>2, <1>3, KernelThreads
    <2>2. CASE c # g_current /\ c # g_current'
      BY <1>6, <2>1, <2>2, JobStays DEF MovesOn
    <2>3. CASE c = g_current \/ c = g_current'
      <3>1. state[c] \in {"READY", "RUNNING"} /\ state'[c] \in {"READY", "RUNNING"}
        BY <1>6, <2>1, <2>3
      <3>2. pc[c] \in Live /\ pc'[c] \in Live
        <4>1. CASE c = g_current
          BY <4>1 DEF MovesOn
        <4>2. CASE c # g_current
          <5>1. pc'[c] = pc[c] /\ state[c] = "READY"
            BY <1>5, <2>1, <2>3, <4>2 DEF MovesOn, Requeued
          <5> QED  BY <2>1, <5>1 DEF JobOk
        <4> QED  BY <4>1, <4>2
      <3>3. state'[c] = "RUNNING" => c = g_current'
        BY <1>6, <2>1, <2>3
      <3> QED  BY <2>1, <3>1, <3>2, <3>3, JobRuns
    <2> QED  BY <2>2, <2>3
  <1>11. DeadOk'
    <2>1. \A c \in Slots : state[c] = "EXITED" /\ pc[c] = "gone" =>
                              state'[c] = "EXITED" /\ pc'[c] = "gone"
      BY <1>6, KernelThreads DEF MovesOn, Live
    <2> QED  BY <1>1, <1>2, <1>3, <2>1, DeadKept DEF Held
  <1> QED  BY <1>7, <1>8, <1>9, <1>10, <1>11 DEF QInv, JobsOk, RefcountAccurate, Counts

-----------------------------------------------------------------------------
\* A step of a handler, and one that leaves the thread where it is.
LEMMA InPlace ==
    ASSUME IInv, QInv, isr # "none" \/ intr[g_current] # FALSE \/ g_current \notin Slots,
           pc' = pc
    PROVE  MovesOn
  <1>1. g_current \in Slots => pc[g_current] \in Live
    BY CurrentJob
  <1> QED  BY <1>1 DEF MovesOn

\* The current thread goes to label l.
LEMMA GoesTo ==
    ASSUME IInv, QInv, NEW l, l # "unmask", pc' = [pc EXCEPT ![g_current] = l],
           g_current \in Slots => pc[g_current] \in Live /\ l \in Live
    PROVE  MovesOn
  <1>1. g_current \in Thread /\ pc \in [Thread -> AllPC]
    BY Known
  <1>2. pc'[g_current] = l /\ \A u \in Thread : u # g_current => pc'[u] = pc[u]
    BY <1>1
  <1>3. pc'[Main] = "unmask" => pc[Main] = "unmask"
    BY <1>2, KernelThreads
  <1> QED  BY <1>2, <1>3 DEF MovesOn

\* Interrupts, and the way back from their handlers.
LEMMA InterruptKept ==
    ASSUME IInv, QInv, timer_process_tick \/ keyboard_int_handler \/ int_handle_interrupt
    PROVE  QInv'
  <1> USE DEF cpuVars, statVars, jobVars, workVars, intVars, menuVars, simVars, keyVars
  <1>1. CASE timer_process_tick \/ keyboard_int_handler
    <2>1. /\ intr[g_current] /\ pc' = pc
          /\ UNCHANGED << g_current, s_runqueue, state, s_newqueue, s_waitqueue, waitqueue,
                          refcount, s_workqueue, item, threads, child >>
      BY <1>1 DEF timer_process_tick, keyboard_int_handler, InterruptsEnabled
    <2>2. MovesOn
      BY <2>1, InPlace
    <2> QED  BY <2>1, <2>2, QuietKept
  <1>2. CASE int_handle_interrupt
    <2>1. /\ isr = "return" /\ pc' = pc
          /\ UNCHANGED << s_newqueue, s_waitqueue, waitqueue,
                          refcount, s_workqueue, item, threads, child >>
          /\ thread_requeue_current \/ UNCHANGED << g_current, s_runqueue, state >>
      BY <1>2 DEF int_handle_interrupt
    <2>2. MovesOn
      BY <2>1, InPlace
    <2> QED  BY <2>1, <2>2, QuietKept, RequeueKept
  <1> QED  BY <1>1, <1>2

\* thread_yield, its return, and the first step of a thread.
LEMMA YieldKept ==
    ASSUME IInv, QInv, NEW t \in Thread,
           thread_run(t) \/ (t \in {Main, Idle} /\ (thread_yield(t) \/ thread_yield_return(t)))
    PROVE  QInv'
  <1> USE DEF cpuVars, statVars, jobVars, workVars, intVars, menuVars, simVars, keyVars
  <1>1. CASE thread_run(t)
    <2> DEFINE l == CASE t = Idle -> "yield"
                      [] t = WorkQ -> "loop"
                      [] OTHER -> IF fn[t] = "poet" THEN "lock" ELSE "body"
    <2>1. /\ g_current = t /\ pc[t] = "start" /\ pc' = [pc EXCEPT ![t] = l]
          /\ UNCHANGED << g_current, s_runqueue, state, s_newqueue, s_waitqueue, waitqueue,
                          refcount, s_workqueue, item, threads, child >>
      BY <1>1 DEF thread_run, At, Goto
    <2>2. l # "unmask" /\ (t \in Slots => l \in Live)
      BY KernelThreads DEF Live
    <2> HIDE DEF l
    <2>3. MovesOn
      BY <2>1, <2>2, GoesTo DEF Live
    <2> QED  BY <2>1, <2>3, QuietKept
  <1>2. CASE t \in {Main, Idle} /\ thread_yield_return(t)
    <2> DEFINE l == IF t = Main THEN "join" ELSE "yield"
    <2>1. /\ g_current = t /\ t \notin Slots /\ pc' = [pc EXCEPT ![t] = l] /\ l # "unmask"
          /\ UNCHANGED << g_current, s_runqueue, state, s_newqueue, s_waitqueue, waitqueue,
                          refcount, s_workqueue, item, threads, child >>
      BY <1>2, KernelThreads DEF thread_yield_return, At, Goto
    <2> HIDE DEF l
    <2>2. MovesOn
      BY <2>1, GoesTo
    <2> QED  BY <2>1, <2>2, QuietKept
  <1>3. CASE t \in {Main, Idle} /\ thread_yield(t)
    <2>1. /\ g_current = t /\ t \notin Slots /\ pc' = [pc EXCEPT ![t] = "yielded"]
          /\ thread_requeue_current
          /\ UNCHANGED << s_newqueue, s_waitqueue, waitqueue,
                          refcount, s_workqueue, item, threads, child >>
      BY <1>3, KernelThreads DEF thread_yield, At, Goto
    <2>2. MovesOn
      BY <2>1, GoesTo
    <2> QED  BY <2>1, <2>2, RequeueKept
  <1> QED  BY <1>1, <1>2, <1>3

\* A key is read, the keyboard masked, or an assertion about a child's times fails.
LEMMA PromptKept ==
    ASSUME IInv, QInv,
           \/ InvalidKey \/ main_menu \/ get_synch_simulation \/ get_scheduler
           \/ get_quantum \/ get_scheduler_simulation \/ ask_for_stats
           \/ irq_disable_keyboard \/ calculate_simulation_stat_halt
    PROVE  QInv'
  <1> USE DEF cpuVars, statVars, jobVars, workVars, intVars, menuVars, simVars, keyVars
  <1>1. /\ g_current = Main
        /\ UNCHANGED << g_current, s_runqueue, state, s_newqueue, s_waitqueue, waitqueue,
                        refcount, s_workqueue, item, threads, child >>
    BY DEF InvalidKey, main_menu, get_synch_simulation, get_scheduler, get_quantum,
         get_scheduler_simulation, ask_for_stats, irq_disable_keyboard,
         calculate_simulation_stat_halt, GotKey, At
  <1>2. pc' = pc \/ \E l : l # "unmask" /\ pc' = [pc EXCEPT ![Main] = l]
    <2>1. CASE InvalidKey
      BY <2>1 DEF InvalidKey
    <2>2. CASE main_menu
      BY <2>2 DEF main_menu, Goto
    <2>3. CASE get_synch_simulation \/ get_quantum \/ get_scheduler_simulation
      BY <2>3 DEF get_synch_simulation, get_quantum, get_scheduler_simulation, Goto
    <2>4. CASE get_scheduler
      BY <2>4 DEF get_scheduler, Goto
    <2>5. CASE ask_for_stats
      BY <2>5 DEF ask_for_stats, Goto
    <2>6. CASE irq_disable_keyboard \/ calculate_simulation_stat_halt
      BY <2>6 DEF irq_disable_keyboard, calculate_simulation_stat_halt, Goto
    <2> QED  BY <2>1, <2>2, <2>3, <2>4, <2>5, <2>6
  <1>3. MovesOn
    <2>1. CASE pc' = pc
      BY <1>1, <2>1, InPlace, KernelThreads
    <2>2. CASE pc' # pc
      <3>1. PICK l : l # "unmask" /\ pc' = [pc EXCEPT ![Main] = l]
        BY <1>2, <2>2
      <3> QED  BY <1>1, <3>1, GoesTo, KernelThreads
    <2> QED  BY <2>1, <2>2
  <1> QED  BY <1>1, <1>3, QuietKept

\* A job executes its function.
LEMMA FunctionKept ==
    ASSUME IInv, QInv, NEW t \in Slots,
           job_body(t) \/ toggler_end_atomic(t) \/ poet_lock(t) \/ poet_preemption_on(t)
    PROVE  QInv'
  <1> USE DEF cpuVars, statVars, jobVars, workVars, intVars, menuVars, simVars, keyVars
  <1>1. /\ g_current = t /\ pc[t] \in Live
        /\ UNCHANGED << g_current, s_runqueue, state, s_newqueue, s_waitqueue, waitqueue,
                        refcount, s_workqueue, item, threads, child >>
    BY DEF job_body, toggler_end_atomic, poet_lock, poet_preemption_on, At,
         JobUnchanged, Live
  <1>2. \E l \in Live : pc' = [pc EXCEPT ![t] = l]
    <2>1. CASE job_body(t)
      <3>1. fn[t] \in {"fn", "toggler", "poet"}
        BY DEF IInv, TypeOK
      <3> QED  BY <2>1, <3>1 DEF job_body, Goto, Live
    <2>2. CASE toggler_end_atomic(t)
      BY <2>2 DEF toggler_end_atomic, Goto, Live
    <2>3. CASE poet_lock(t)
      BY <2>3 DEF poet_lock, Goto, Live
    <2>4. CASE poet_preemption_on(t)
      BY <2>4 DEF poet_preemption_on, Goto, Live
    <2> QED  BY <2>1, <2>2, <2>3, <2>4
  <1>3. PICK l \in Live : pc' = [pc EXCEPT ![t] = l]
    BY <1>2
  <1>4. MovesOn
    BY <1>1, <1>3, GoesTo DEF Live
  <1> QED  BY <1>1, <1>4, QuietKept

-----------------------------------------------------------------------------
(***************************************************************************)
(* The current thread leaves the CPU, to sleep or for good.                *)
(***************************************************************************)
LEMMA SwitchedAway ==
    ASSUME IInv, QInv, g_current # Idle, thread_schedule
    PROVE  /\ RunOk' /\ g_current' \in Thread /\ g_current' # g_current
           /\ state[g_current'] = "READY" /\ state'[g_current'] = "RUNNING"
           /\ \A u \in Thread :
                 /\ u # g_current' => state'[u] = state[u]
                 /\ Asleep(u)' <=> Asleep(u) \/ (u = g_current /\ state[u] = "RUNNING")
                 /\ state'[u] = "NEW" <=> state[u] = "NEW"
                 /\ state'[u] = "EXITED" <=> state[u] = "EXITED"
  <1>1. Switched(state)
    BY Scheduled DEF QInv
  <1>2. state[g_current] # "READY" /\ g_current \in Thread
    BY Known DEF KernelOk
  <1>3. /\ RunOk' /\ g_current' \in Thread /\ g_current' # g_current
        /\ state[g_current'] = "READY" /\ state'[g_current'] = "RUNNING"
        /\ \A u \in Thread : u # g_current' => state'[u] = state[u]
    BY <1>1, <1>2 DEF Switched
  <1>4. ASSUME NEW u \in Thread
        PROVE  /\ Asleep(u)' <=> Asleep(u) \/ (u = g_current /\ state[u] = "RUNNING")
               /\ state'[u] = "NEW" <=> state[u] = "NEW"
               /\ state'[u] = "EXITED" <=> state[u] = "EXITED"
    BY <1>3 DEF Asleep
  <1> QED  BY <1>3, <1>4

\* What such a step leaves to show: who sleeps, and the job that leaves.
LEMMA LeaveKept ==
    ASSUME IInv, QInv, g_current # Idle, thread_schedule, WaitOk',
           UNCHANGED << s_newqueue, refcount, s_workqueue, item, threads, child >>,
           \A u \in Thread : u # g_current => pc'[u] = pc[u],
           pc'[Main] = pc[Main],
           \A c \in Slots : c = g_current => JobOk(c)' /\ Counts(c)'
    PROVE  QInv'
  <1>1. /\ g_current \in Thread /\ state \in [Thread -> States]
        /\ NewOk /\ KernelOk /\ DeadOk
        /\ \A c \in Slots : JobOk(c) /\ Counts(c)
    BY Known
  <1>2. /\ RunOk' /\ g_current' \in Thread /\ g_current' # g_current
        /\ state[g_current'] = "READY" /\ state'[g_current'] = "RUNNING"
        /\ \A u \in Thread : /\ u # g_current' => state'[u] = state[u]
                             /\ state'[u] = "NEW" <=> state[u] = "NEW"
                             /\ state'[u] = "EXITED" <=> state[u] = "EXITED"
    BY SwitchedAway
  <1>3. \A c \in Slots : Held(c)
    BY ParentStays DEF Held
  <1>4. NewOk'
    BY <1>1, <1>2, NewKept
  <1>5. KernelOk'
    <2>1. \A t \in {Main, Idle, WorkQ} : state'[t] \in {"READY", "RUNNING"}
      BY <1>1, <1>2, KernelThreads DEF KernelOk
    <2> QED  BY <1>1, <1>2, <2>1 DEF KernelOk
  <1>6. ASSUME NEW c \in Slots  PROVE  JobOk(c)' /\ Counts(c)'
    <2>1. c \in Thread /\ JobOk(c) /\ Counts(c) /\ Held(c) /\ state[c] \in States
      BY <1>1, <1>3, KernelThreads
    <2>2. CASE c = g_current
      BY <2>2
    <2>3. CASE c = g_current'
      <3>1. pc[c] \in Live /\ pc'[c] = pc[c]
        BY <1>2, <2>1, <2>3 DEF JobOk
      <3> QED  BY <1>2, <2>1, <2>3, <3>1, JobRuns
    <2>4. CASE c # g_current /\ c # g_current'
      BY <1>2, <2>1, <2>4, JobStays
    <2> QED  BY <2>2, <2>3, <2>4
  <1>7. DeadOk'
    <2>1. \A c \in Slots : state[c] = "EXITED" /\ pc[c] = "gone" =>
                              state'[c] = "EXITED" /\ pc'[c] = "gone"
      <3>1. g_current \in Slots => pc[g_current] # "gone"
        BY <1>1 DEF JobOk
      <3> QED  BY <1>2, <3>1, KernelThreads
    <2> QED  BY <1>1, <1>3, <2>1, DeadKept DEF Held
  <1> QED  BY <1>2, <1>4, <1>5, <1>6, <1>7 DEF QInv, JobsOk, RefcountAccurate, Counts

\* The work queue thread or the main thread falls asleep in s_waitqueue.
LEMMA SleepKept ==
    ASSUME IInv, QInv, workqueue_wait \/ wait_for_key
    PROVE  QInv'
  <1> USE DEF cpuVars, statVars, jobVars, workVars, intVars, menuVars, simVars, keyVars
  <1>1. /\ g_current \in {Main, WorkQ} /\ thread_schedule
        /\ s_waitqueue' = Append(s_waitqueue, g_current)
        /\ UNCHANGED << pc, s_newqueue, waitqueue, refcount, s_workqueue, item,
                        threads, child >>
        /\ g_current = Main => pc[Main] \in Prompts
    BY KernelThreads DEF workqueue_wait, wait_for_key, At
  <1>2. g_current # Idle /\ g_current \notin Slots /\ g_current \in Thread
    BY <1>1, KernelThreads
  <1>3. state[g_current] = "RUNNING"
    BY <1>2, CurrentKernel
  <1>4. /\ \A u \in Thread : Asleep(u)' <=> Asleep(u) \/ u = g_current
    BY <1>1, <1>2, <1>3, SwitchedAway
  <1>5. WaitOk /\ s_waitqueue \in Seq(Thread) /\ ~Asleep(g_current)
    BY Known DEF Asleep
  <1>6. ~InQueue(g_current, s_waitqueue)
    BY <1>2, <1>5 DEF WaitOk
  <1>7. /\ Distinct(s_waitqueue')
        /\ \A t : InQueue(t, s_waitqueue') <=> InQueue(t, s_waitqueue) \/ t = g_current
    BY <1>1, <1>2, <1>5, <1>6, AppendQueue DEF WaitOk
  <1>8. \A c \in Slots : WaitsFor(c)' <=> WaitsFor(c)
    BY <1>1 DEF WaitsFor
  <1>9. WaitOk'
    <2>1. \A t \in Thread : InQueue(t, s_waitqueue') => t \in {Main, WorkQ} /\ Asleep(t)'
      BY <1>1, <1>4, <1>5, <1>7 DEF WaitOk
    <2>2. \A c \in Slots : waitqueue'[c] = << >> \/ WaitsFor(c)'
      BY <1>1, <1>5, <1>8 DEF WaitOk
    <2>3. /\ Asleep(Main)' => InQueue(Main, s_waitqueue') \/ \E c \in Slots : WaitsFor(c)'
          /\ Asleep(WorkQ)' => InQueue(WorkQ, s_waitqueue')
      BY <1>4, <1>5, <1>7, <1>8, KernelThreads DEF WaitOk
    <2>4. InQueue(Main, s_waitqueue') => pc'[Main] \in Prompts
      BY <1>1, <1>5, <1>7 DEF WaitOk
    <2>5. ASSUME NEW c \in Slots, WaitsFor(c)'
          PROVE  /\ Asleep(Main)' /\ pc'[Main] = "join" /\ c = threads'[child']
                 /\ pc'[c] # "gone"
      BY <1>1, <1>4, <1>5, <1>8, <2>5, KernelThreads DEF WaitOk
    <2> QED  BY <1>7, <2>1, <2>2, <2>3, <2>4, <2>5 DEF WaitOk
  <1> QED  BY <1>1, <1>2, <1>9, LeaveKept

\* The main thread and the child it waits for.
LEMMA Child ==
    ASSUME IInv, pc[Main] = "join"
    PROVE  threads[child] \in Slots /\ child \in 1 .. Len(threads) /\ Len(threads) \in Nat
  <1>1. child <= Len(threads) /\ child \in Nat \ {0} /\ threads \in Seq(Slots)
    BY DEF IInv, MainSim, TypeOK
  <1>2. child \in 1 .. Len(threads)
    BY <1>1
  <1> QED  BY <1>1, <1>2

\* The main thread falls asleep until a child exits.
LEMMA WaitForChildKept ==
    ASSUME IInv, QInv, wait_for_child
    PROVE  QInv'
  <1> USE DEF cpuVars, statVars, jobVars, workVars, intVars, menuVars, simVars, keyVars
  <1>1. /\ g_current = Main /\ pc[Main] = "join" /\ state[threads[child]] # "EXITED"
        /\ thread_schedule
        /\ waitqueue' = [waitqueue EXCEPT ![threads[child]] = Append(@, Main)]
        /\ UNCHANGED << pc, s_newqueue, s_waitqueue, refcount, s_workqueue, item,
                        threads, child >>
    BY DEF wait_for_child, At
  <1>2. g_current # Idle /\ g_current \notin Slots /\ g_current \in Thread
    BY <1>1, KernelThreads
  <1>3. state[g_current] = "RUNNING"
    BY <1>2, CurrentKernel
  <1>4. \A u \in Thread : Asleep(u)' <=> Asleep(u) \/ u = Main
    BY <1>1, <1>2, <1>3, SwitchedAway
  <1>5. /\ WaitOk /\ waitqueue \in [Slots -> Seq(Thread)] /\ ~Asleep(Main)
        /\ state \in [Thread -> States] /\ \A c \in Slots : JobOk(c)
    BY <1>1, Known DEF Asleep
  <1>6. PICK d \in Slots : d = threads[child]
    BY <1>1, Child
  <1>7. \A c \in Slots : waitqueue[c] = << >>
    BY <1>5 DEF WaitOk
  <1>8. \A c \in Slots : waitqueue'[c] = IF c = d THEN << Main >> ELSE << >>
    <2>1. waitqueue' = [waitqueue EXCEPT ![d] = Append(waitqueue[d], Main)]
      BY <1>1, <1>6
    <2>2. Append(waitqueue[d], Main) = << Main >>
      <3>1. waitqueue[d] = << >>
        BY <1>7
      <3>2. << >> \in Seq(Thread) /\ Len(<< >>) = 0 /\ Main \in Thread
        BY KernelThreads
      <3>3. Append(<< >>, Main) = << Main >>
        <4>1. /\ Append(<< >>, Main) \in Seq(Thread)
              /\ Len(Append(<< >>, Main)) = 1 /\ Append(<< >>, Main)[1] = Main
          BY <3>2, AppendProperties
        <4> QED  BY <4>1
      <3> QED  BY <3>1, <3>3
    <2> QED  BY <1>5, <1>7, <2>1, <2>2
  <1>9. \A c \in Slots : WaitsFor(c)' <=> c = d
    BY <1>8 DEF WaitsFor
  <1>10. pc[d] # "gone"
    <2>1. state[d] \in States /\ state[d] # "EXITED" /\ JobOk(d)
      BY <1>1, <1>5, <1>6, KernelThreads
    <2> QED  BY <2>1 DEF JobOk, States, Live
  <1>11. WaitOk'
    <2>1. /\ Distinct(s_waitqueue')
          /\ \A t \in Thread : InQueue(t, s_waitqueue') => t \in {Main, WorkQ} /\ Asleep(t)'
      BY <1>1, <1>4, <1>5 DEF WaitOk
    <2>2. \A c \in Slots : waitqueue'[c] = << >> \/ WaitsFor(c)'
      BY <1>8, <1>9
    <2>3. \E c \in Slots : WaitsFor(c)'
      BY <1>9
    <2>4. Asleep(WorkQ)' => InQueue(WorkQ, s_waitqueue')
      BY <1>1, <1>4, <1>5, KernelThreads DEF WaitOk
    <2>5. ~InQueue(Main, s_waitqueue')
      BY <1>1, <1>5, KernelThreads DEF WaitOk
    <2>6. ASSUME NEW c \in Slots, WaitsFor(c)'
          PROVE  /\ Asleep(Main)' /\ pc'[Main] = "join" /\ c = threads'[child']
                 /\ pc'[c] # "gone"
      BY <1>1, <1>4, <1>6, <1>9, <1>10, <2>6, KernelThreads
    <2> QED  BY <2>1, <2>2, <2>3, <2>4, <2>5, <2>6 DEF WaitOk
  <1> QED  BY <1>1, <1>2, <1>11, LeaveKept

-----------------------------------------------------------------------------
(***************************************************************************)
(* A thread h of the kernel is woken up, and nothing else happens.         *)
(***************************************************************************)
LEMMA WokenKept ==
    ASSUME IInv, QInv, NEW h \in {Main, WorkQ}, Asleep(h), Woken(h), WaitOk',
           UNCHANGED << pc, intr, isr, s_newqueue, refcount, s_workqueue, item,
                        threads, child >>
    PROVE  QInv'
  <1>1. /\ g_current \in Thread /\ state \in [Thread -> States]
        /\ NewOk /\ KernelOk /\ DeadOk
        /\ \A c \in Slots : JobOk(c) /\ Counts(c)
    BY Known
  <1>2. h \in Thread /\ h \notin Slots
    BY KernelThreads
  <1>3. /\ RunOk' /\ g_current' = g_current /\ state'[h] = "READY"
        /\ state[h] = "RUNNING" /\ h # g_current
        /\ \A u \in Thread : u # h => state'[u] = state[u]
    BY DEF Woken, Asleep
  <1>4. \A c \in Slots : c \in Thread /\ state'[c] = state[c] /\ Held(c)
    BY <1>2, <1>3, ParentStays, KernelThreads DEF Held
  <1>5. NewOk'
    <2>1. \A t \in Thread : state'[t] = "NEW" <=> state[t] = "NEW"
      BY <1>3
    <2> QED  BY <1>1, <2>1, NewKept
  <1>6. KernelOk'
    <2>1. \A t \in {Main, Idle, WorkQ} : state'[t] \in {"READY", "RUNNING"}
      BY <1>1, <1>3, KernelThreads DEF KernelOk
    <2> QED  BY <1>1, <1>3, <2>1 DEF KernelOk
  <1>7. ASSUME NEW c \in Slots  PROVE  JobOk(c)' /\ Counts(c)'
    <2>1. /\ JobOk(c) /\ Counts(c) /\ Held(c) /\ state'[c] = state[c] /\ pc'[c] = pc[c]
          /\ intr'[c] = intr[c] /\ isr' = isr /\ g_current' = g_current
      BY <1>1, <1>3, <1>4
    <2>2. JobOk(c)'
      BY <2>1 DEF JobOk, Held
    <2>3. SelfHolds(c)' <=> SelfHolds(c)
      BY <2>1 DEF SelfHolds
    <2> QED  BY <2>1, <2>2, <2>3 DEF Counts, Held
  <1>8. DeadOk'
    BY <1>1, <1>4, DeadKept DEF Held
  <1> QED  BY <1>3, <1>5, <1>6, <1>7, <1>8 DEF QInv, JobsOk, RefcountAccurate, Counts

\* What taking the first thread from s_waitqueue leaves of it.
LEMMA WakeFirst ==
    ASSUME IInv, QInv, s_waitqueue # << >>, s_waitqueue' = Tail(s_waitqueue),
           thread_wakeup_one(s_waitqueue)
    PROVE  \E h \in {Main, WorkQ} :
              /\ Asleep(h) /\ Woken(h) /\ InQueue(h, s_waitqueue) /\ ~Asleep(h)'
              /\ h = Head(s_waitqueue) /\ Distinct(s_waitqueue')
              /\ \A u : InQueue(u, s_waitqueue') <=> InQueue(u, s_waitqueue) /\ u # h
              /\ \A u \in Thread : u # h => (Asleep(u)' <=> Asleep(u))
  <1>1. WaitOk /\ RunOk /\ s_waitqueue \in Seq(Thread)
    BY Known
  <1>2. PICK h \in Thread : h = Head(s_waitqueue)
    BY <1>1, RemoveFirstQueue
  <1>3. /\ Distinct(s_waitqueue') /\ InQueue(h, s_waitqueue)
        /\ \A u : InQueue(u, s_waitqueue') <=> InQueue(u, s_waitqueue) /\ u # h
    BY <1>1, <1>2, RemoveFirstQueue DEF WaitOk
  <1>4. h \in {Main, WorkQ} /\ Asleep(h)
    BY <1>1, <1>3 DEF WaitOk
  <1>5. Woken(h)
    BY <1>1, <1>2, <1>4, WakeupRun DEF Asleep
  <1>6. ~Asleep(h)' /\ \A u \in Thread : u # h => (Asleep(u)' <=> Asleep(u))
    BY <1>5 DEF Woken, Asleep
  <1> QED  BY <1>2, <1>3, <1>4, <1>5, <1>6

\* The keyboard's handler wakes up one sleeper, or none is left.
LEMMA KeyboardKept ==
    ASSUME IInv, QInv, keyboard_wakeup
    PROVE  QInv'
  <1> USE DEF cpuVars, statVars, jobVars, workVars, intVars, menuVars, simVars, keyVars
  <1>1. /\ isr = "wakeup"
        /\ UNCHANGED << pc, intr, s_newqueue, waitqueue, refcount, s_workqueue, item,
                        threads, child >>
    BY DEF keyboard_wakeup
  <1>2. CASE s_waitqueue = << >>
    <2>1. UNCHANGED << g_current, s_runqueue, state, s_waitqueue >>
      BY <1>2 DEF keyboard_wakeup
    <2>2. MovesOn
      BY <1>1, InPlace
    <2> QED  BY <1>1, <2>1, <2>2, QuietKept
  <1>3. CASE s_waitqueue # << >>
    <2>1. /\ thread_wakeup_one(s_waitqueue) /\ s_waitqueue' = Tail(s_waitqueue)
          /\ UNCHANGED isr
      BY <1>3 DEF keyboard_wakeup
    <2>2. PICK h \in {Main, WorkQ} :
              /\ Asleep(h) /\ Woken(h) /\ InQueue(h, s_waitqueue) /\ ~Asleep(h)'
              /\ Distinct(s_waitqueue')
              /\ \A u : InQueue(u, s_waitqueue') <=> InQueue(u, s_waitqueue) /\ u # h
              /\ \A u \in Thread : u # h => (Asleep(u)' <=> Asleep(u))
      BY <1>3, <2>1, WakeFirst
    <2>3. WaitOk
      BY Known
    <2>4. \A c \in Slots : /\ WaitsFor(c)' <=> WaitsFor(c)
                           /\ WaitsFor(c) => h # Main
      <3>1. \A c \in Slots : WaitsFor(c)' <=> WaitsFor(c)
        BY <1>1 DEF WaitsFor
      <3>2. ASSUME NEW c \in Slots, WaitsFor(c), h = Main  PROVE FALSE
        BY <2>2, <2>3, <3>2 DEF WaitOk, Prompts
      <3> QED  BY <3>1, <3>2
    <2>5. WaitOk'
      <3>1. \A t \in Thread : InQueue(t, s_waitqueue') => t \in {Main, WorkQ} /\ Asleep(t)'
        BY <2>2, <2>3 DEF WaitOk
      <3>2. \A c \in Slots : waitqueue'[c] = << >> \/ WaitsFor(c)'
        BY <1>1, <2>3, <2>4 DEF WaitOk
      <3>3. /\ Asleep(Main)' => InQueue(Main, s_waitqueue') \/ \E c \in Slots : WaitsFor(c)'
            /\ Asleep(WorkQ)' => InQueue(WorkQ, s_waitqueue')
        BY <2>2, <2>3, <2>4, KernelThreads DEF WaitOk
      <3>4. InQueue(Main, s_waitqueue') => pc'[Main] \in Prompts
        BY <1>1, <2>2, <2>3 DEF WaitOk
      <3>5. ASSUME NEW c \in Slots, WaitsFor(c)'
            PROVE  /\ Asleep(Main)' /\ pc'[Main] = "join" /\ c = threads'[child']
                   /\ pc'[c] # "gone"
        BY <1>1, <2>2, <2>3, <2>4, <3>5, KernelThreads DEF WaitOk
      <3> QED  BY <2>2, <3>1, <3>2, <3>3, <3>4, <3>5 DEF WaitOk
    <2> QED  BY <1>1, <2>1, <2>2, <2>5, WokenKept
  <1> QED  BY <1>2, <1>3

\* thread_exit wakes up the parent, and then leaves the CPU for good.
LEMMA ExitWakeupKept ==
    ASSUME IInv, QInv, NEW t \in Slots, exit_wakeup(t)
    PROVE  QInv'
  <1> USE DEF cpuVars, statVars, jobVars, workVars, intVars, menuVars, simVars, keyVars
  <1>1. /\ g_current = t /\ pc[t] = "exit_wake"
        /\ UNCHANGED << intr, isr, s_newqueue, s_waitqueue, refcount, s_workqueue, item,
                        threads, child >>
    BY DEF exit_wakeup, At
  <1>2. /\ WaitOk /\ RunOk /\ pc \in [Thread -> AllPC] /\ JobOk(t) /\ Counts(t)
        /\ waitqueue \in [Slots -> Seq(Thread)] /\ t \in Thread
        /\ t # Main /\ t # Idle /\ t # WorkQ
    BY Known, KernelThreads
  <1>3. state[t] = "EXITED" /\ ParentHolds(t) /\ ~SelfHolds(t)
    <2>1. state[t] \in {"RUNNING", "EXITED"}
      BY <1>1, Known DEF KernelOk
    <2>2. state[t] = "EXITED"
      BY <1>1, <1>2, <2>1 DEF JobOk, Live
    <2> QED  BY <1>1, <1>2, <2>2 DEF JobOk, SelfHolds
  <1>4. refcount[t] = 1
    BY <1>2, <1>3 DEF Counts
  <1>5. CASE waitqueue[t] # << >>
    <2>1. /\ thread_wakeup_one(waitqueue[t]) /\ UNCHANGED pc
          /\ waitqueue' = [waitqueue EXCEPT ![t] = Tail(@)]
      BY <1>4, <1>5 DEF exit_wakeup
    <2>2. WaitsFor(t) /\ Asleep(Main) /\ waitqueue[t] = << Main >>
      BY <1>2, <1>5 DEF WaitOk, WaitsFor
    <2>3. Head(waitqueue[t]) = Main /\ Tail(waitqueue[t]) = << >>
      BY <2>2
    <2>4. Woken(Main)
      BY <1>2, <2>1, <2>2, <2>3, WakeupRun, KernelThreads DEF Asleep
    <2>5. ~Asleep(Main)' /\ \A u \in Thread : u # Main => (Asleep(u)' <=> Asleep(u))
      BY <2>4 DEF Woken, Asleep
    <2>6. /\ \A c \in Slots : waitqueue'[c] = IF c = t THEN << >> ELSE waitqueue[c]
          /\ \A c \in Slots : WaitsFor(c) => c = t
      <3>1. \A c \in Slots : WaitsFor(c) => c = threads[child]
        BY <1>2 DEF WaitOk
      <3> QED  BY <1>2, <2>1, <2>2, <2>3, <3>1
    <2>7. \A c \in Slots : waitqueue'[c] = << >> /\ ~WaitsFor(c)'
      <3>1. \A c \in Slots : waitqueue'[c] = << >>
        BY <1>2, <2>6 DEF WaitOk
      <3>2. << >> # << Main >>
        OBVIOUS
      <3> QED  BY <3>1, <3>2 DEF WaitsFor
    <2>8. pc[Main] = "join" /\ ~InQueue(Main, s_waitqueue)
      BY <1>2, <2>2 DEF WaitOk, Prompts
    <2>9. WaitOk'
      BY <1>1, <1>2, <2>1, <2>5, <2>7, <2>8, KernelThreads DEF WaitOk
    <2> QED  BY <1>1, <2>1, <2>2, <2>4, <2>9, WokenKept
  <1>6. CASE waitqueue[t] = << >>
    <2>1. thread_schedule /\ pc' = [pc EXCEPT ![t] = "gone"] /\ UNCHANGED waitqueue
      BY <1>6 DEF exit_wakeup, Goto
    <2>2. pc'[t] = "gone" /\ \A u \in Thread : u # t => pc'[u] = pc[u]
      BY <1>2, <2>1
    <2>3. /\ g_current' # t /\ state'[t] = "EXITED"
          /\ \A u \in Thread : Asleep(u)' <=> Asleep(u)
      BY <1>1, <1>2, <1>3, <2>1, SwitchedAway
    <2>4. WaitOk'
      <3>1. \A c \in Slots : pc[c] # "gone" /\ WaitsFor(c) => pc'[c] # "gone"
        <4>1. ~WaitsFor(t)
          BY <1>6 DEF WaitsFor
        <4> QED  BY <2>2, <4>1, KernelThreads
      <3>2. pc'[Main] = pc[Main] /\ pc'[WorkQ] = pc[WorkQ]
        BY <1>2, <2>2, KernelThreads
      <3> QED  BY <1>1, <1>2, <2>1, <2>3, <3>1, <3>2, WaitKept
    <2>5. JobOk(t)' /\ Counts(t)'
      <3>1. ParentHolds(t)' /\ refcount'[t] = refcount[t]
        BY <1>1, <1>3, ParentStays
      <3>2. JobOk(t)'
        BY <2>2, <2>3, <3>1 DEF JobOk
      <3>3. ~SelfHolds(t)'
        BY <2>2 DEF SelfHolds
      <3> QED  BY <1>4, <3>1, <3>2, <3>3 DEF Counts
    <2>6. pc'[Main] = pc[Main]
      BY <1>2, <2>2, KernelThreads
    <2> QED  BY <1>1, <1>2, <2>1, <2>2, <2>4, <2>5, <2>6, LeaveKept
  <1> QED  BY <1>5, <1>6

-----------------------------------------------------------------------------
(***************************************************************************)
(* thread_exit, up to the wake-up of the parent.                           *)
(***************************************************************************)
LEMMA ExitingJob ==
    ASSUME IInv, QInv, NEW t \in Slots, g_current = t, pc[t] = "exit"
    PROVE  state[t] = "RUNNING" /\ ParentHolds(t) /\ SelfHolds(t) /\ refcount[t] = 2
  <1>1. JobOk(t) /\ Counts(t)
    BY Known
  <1>2. state[t] = "RUNNING"
    BY CurrentJob
  <1>3. ParentHolds(t) /\ SelfHolds(t)
    BY <1>1, <1>2 DEF JobOk, SelfHolds
  <1> QED  BY <1>1, <1>2, <1>3 DEF Counts

LEMMA ExitDetachKept ==
    ASSUME IInv, QInv, NEW t \in Slots, exit_detach(t)
    PROVE  QInv'
  <1> USE DEF cpuVars, statVars, jobVars, workVars, intVars, menuVars, simVars, keyVars
  <1>1. /\ g_current = t /\ pc[t] = "exit" /\ isr = "none"
        /\ refcount' = [refcount EXCEPT ![t] = @ - 1]
        /\ UNCHANGED << s_newqueue, waitqueue, item, isr, threads, child >>
    BY DEF exit_detach, thread_detach, At
  <1>2. /\ t \in Thread /\ state \in [Thread -> States] /\ pc \in [Thread -> AllPC]
        /\ intr \in [Thread -> BOOLEAN] /\ refcount \in [Slots -> Nat]
        /\ RunOk /\ NewOk /\ WaitOk /\ KernelOk /\ DeadOk
        /\ \A c \in Slots : JobOk(c) /\ Counts(c)
    BY Known, KernelThreads
  <1>3. state[t] = "RUNNING" /\ ParentHolds(t)
    BY <1>1, ExitingJob
  <1>4. refcount[t] = 2
    BY <1>1, ExitingJob
  <1>5. /\ pc' = [pc EXCEPT ![t] = "detached"] /\ intr' = [intr EXCEPT ![t] = FALSE]
        /\ UNCHANGED << g_current, s_runqueue, state, s_workqueue, s_waitqueue >>
    BY <1>4 DEF exit_detach, thread_detach, Goto, SetIntr
  <1>6. pc'[t] = "detached" /\ \A u \in Thread : u # t => pc'[u] = pc[u]
    BY <1>2, <1>5
  <1>7. refcount'[t] = 1 /\ \A c \in Slots : c # t => refcount'[c] = refcount[c]
    BY <1>1, <1>2, <1>4
  <1>8. intr'[t] = FALSE
    BY <1>2, <1>5
  <1>9. RunOk' /\ NewOk'
    BY <1>1, <1>2, <1>5 DEF RunOk, NewOk
  <1>10. KernelOk'
    BY <1>1, <1>2, <1>5, <1>6, KernelThreads DEF KernelOk
  <1>11. WaitOk'
    <2>1. \A u \in Thread : Asleep(u)' <=> Asleep(u)
      BY <1>5 DEF Asleep
    <2>2. pc'[Main] = pc[Main] /\ pc'[WorkQ] = pc[WorkQ]
      BY <1>6, KernelThreads
    <2>3. \A c \in Slots : pc[c] # "gone" => pc'[c] # "gone"
      BY <1>6, KernelThreads
    <2> QED  BY <1>1, <1>2, <1>5, <2>1, <2>2, <2>3, WaitKept
  <1>12. ASSUME NEW c \in Slots  PROVE  JobOk(c)' /\ Counts(c)'
    <2>1. /\ JobOk(c) /\ Counts(c) /\ state[c] \in States /\ state'[c] = state[c]
          /\ ParentHolds(c)' <=> ParentHolds(c)
      BY <1>1, <1>2, <1>5, ParentStays, KernelThreads
    <2>2. CASE c # t
      BY <1>1, <1>5, <1>6, <1>7, <2>1, <2>2, JobStays, KernelThreads DEF Held
    <2>3. CASE c = t
      <3>1. JobOk(t)'
        BY <1>1, <1>3, <1>5, <1>6, <1>8, <2>1, <2>3 DEF JobOk
      <3>2. ~SelfHolds(t)'
        BY <1>6 DEF SelfHolds
      <3> QED  BY <1>3, <1>7, <2>1, <2>3, <3>1, <3>2 DEF Counts
    <2> QED  BY <2>2, <2>3
  <1>13. DeadOk'
    <2>1. \A c \in Slots : pc[c] = "gone" => pc'[c] = "gone"
      BY <1>1, <1>6, KernelThreads
    <2> QED  BY <1>1, <1>2, <1>5, <2>1, ParentStays, DeadKept
  <1> QED  BY <1>9, <1>10, <1>11, <1>12, <1>13 DEF QInv, JobsOk, RefcountAccurate, Counts

\* The thread is EXITED before its parent is woken up.
LEMMA ExitStateKept ==
    ASSUME IInv, QInv, NEW t \in Slots, exit_state(t)
    PROVE  QInv'
  <1> USE DEF cpuVars, statVars, jobVars, workVars, intVars, menuVars, simVars, keyVars
  <1>1. /\ g_current = t /\ pc[t] = "detached" /\ isr = "none"
        /\ state' = [state EXCEPT ![t] = "EXITED"] /\ pc' = [pc EXCEPT ![t] = "exit_wake"]
        /\ UNCHANGED << g_current, s_runqueue, intr, isr, s_newqueue, s_waitqueue,
                        waitqueue, refcount, s_workqueue, item, threads, child >>
    BY DEF exit_state, At, Goto
  <1>2. /\ t \in Thread /\ state \in [Thread -> States] /\ pc \in [Thread -> AllPC]
        /\ RunOk /\ NewOk /\ WaitOk /\ KernelOk /\ DeadOk
        /\ \A c \in Slots : JobOk(c) /\ Counts(c)
    BY Known, KernelThreads
  <1>3. state[t] = "RUNNING" /\ intr[t] = FALSE
    BY <1>1, CurrentJob
  <1>4. /\ state'[t] = "EXITED" /\ pc'[t] = "exit_wake"
        /\ \A u \in Thread : u # t => state'[u] = state[u] /\ pc'[u] = pc[u]
    BY <1>1, <1>2
  <1>5. RunOk' /\ NewOk'
    BY <1>1, <1>2, <1>3, <1>4 DEF RunOk, NewOk
  <1>6. KernelOk'
    <2>1. /\ \A u \in {Main, Idle, WorkQ} : state'[u] \in {"READY", "RUNNING"}
          /\ pc'[Main] = pc[Main]
      BY <1>2, <1>4, KernelThreads DEF KernelOk
    <2> QED  BY <1>1, <1>2, <1>4, <2>1 DEF KernelOk
  <1>7. WaitOk'
    <2>1. \A u \in Thread : Asleep(u)' <=> Asleep(u)
      BY <1>1, <1>4 DEF Asleep
    <2>2. pc'[Main] = pc[Main] /\ pc'[WorkQ] = pc[WorkQ]
      BY <1>4, KernelThreads
    <2>3. \A c \in Slots : pc[c] # "gone" => pc'[c] # "gone"
      BY <1>4, KernelThreads
    <2> QED  BY <1>1, <1>2, <2>1, <2>2, <2>3, WaitKept
  <1>8. ASSUME NEW c \in Slots  PROVE  JobOk(c)' /\ Counts(c)'
    <2>1. /\ JobOk(c) /\ Counts(c) /\ state[c] \in States /\ Held(c)
      BY <1>1, <1>2, ParentStays, KernelThreads DEF Held
    <2>2. CASE c # t
      BY <1>1, <1>4, <2>1, <2>2, JobStays, KernelThreads
    <2>3. CASE c = t
      <3>1. ParentHolds(t) /\ ~SelfHolds(t)
        BY <1>1, <1>3, <2>1, <2>3 DEF JobOk, SelfHolds
      <3>2. JobOk(t)'
        BY <1>1, <1>3, <1>4, <2>1, <2>3, <3>1 DEF JobOk, Held
      <3>3. ~SelfHolds(t)'
        BY <1>4 DEF SelfHolds
      <3> QED  BY <2>1, <2>3, <3>1, <3>2, <3>3 DEF Counts, Held
    <2> QED  BY <2>2, <2>3
  <1>9. DeadOk'
    <2>1. \A c \in Slots : state[c] = "EXITED" /\ pc[c] = "gone" =>
                              state'[c] = "EXITED" /\ pc'[c] = "gone"
      BY <1>1, <1>4, KernelThreads
    <2> QED  BY <1>1, <1>2, <2>1, ParentStays, DeadKept
  <1> QED  BY <1>5, <1>6, <1>7, <1>8, <1>9 DEF QInv, JobsOk, RefcountAccurate, Counts

-----------------------------------------------------------------------------
(***************************************************************************)
(* The work queue thread.                                                  *)
(***************************************************************************)
LEMMA WorkqueueNextKept ==
    ASSUME IInv, QInv, workqueue_next
    PROVE  QInv'
  <1> USE DEF cpuVars, statVars, jobVars, workVars, intVars, menuVars, simVars, keyVars
  <1>1. /\ g_current = WorkQ /\ s_workqueue # << >>
        /\ item' = Head(s_workqueue) /\ s_workqueue' = Tail(s_workqueue)
        /\ pc' = [pc EXCEPT ![WorkQ] = "run"]
        /\ UNCHANGED << g_current, s_runqueue, state, s_newqueue, s_waitqueue,
                        waitqueue, refcount, threads, child >>
    BY DEF workqueue_next, At, Goto
  <1>2. /\ state \in [Thread -> States] /\ pc \in [Thread -> AllPC]
        /\ RunOk /\ NewOk /\ WaitOk /\ KernelOk /\ DeadOk
        /\ \A c \in Slots : JobOk(c) /\ Counts(c)
    BY Known
  <1>3. \A u \in Thread : u # WorkQ => pc'[u] = pc[u]
    BY <1>1, <1>2
  <1>4. \A c \in Slots : pc'[c] = pc[c] /\ c # WorkQ /\ c \in Thread /\ Held(c)
    BY <1>1, <1>3, ParentStays, KernelThreads DEF Held
  <1>5. RunOk' /\ NewOk'
    BY <1>1, <1>2 DEF RunOk, NewOk
  <1>6. KernelOk'
    BY <1>1, <1>2, <1>3, KernelThreads DEF KernelOk
  <1>7. WaitOk'
    <2>1. \A u \in Thread : Asleep(u)' <=> Asleep(u)
      BY <1>1 DEF Asleep
    <2>2. \A u \in {Main, WorkQ} : Asleep(u) => pc'[u] = pc[u]
      BY <1>1, <1>3, KernelThreads DEF Asleep
    <2> QED  BY <1>1, <1>2, <1>4, <2>1, <2>2, WaitKept
  <1>8. ASSUME NEW c \in Slots  PROVE  JobOk(c)' /\ Counts(c)'
    BY <1>1, <1>2, <1>4, JobStays
  <1>9. DeadOk'
    <2>1. s_workqueue \in Seq(Slots)
      BY DEF IInv, TypeOK
    <2>2. /\ Distinct(s_workqueue') /\ ~InQueue(item', s_workqueue')
          /\ \A c : InQueue(c, s_workqueue') \/ c = item' => InQueue(c, s_workqueue)
      BY <1>1, <1>2, <2>1, RemoveFirstQueue DEF DeadOk
    <2>3. ASSUME NEW c \in Slots, InQueue(c, s_workqueue') \/ c = item'
          PROVE  state'[c] = "EXITED" /\ pc'[c] = "gone" /\ ~ParentHolds(c)'
      BY <1>1, <1>2, <1>4, <2>2, <2>3 DEF DeadOk, Held
    <2> QED  BY <2>2, <2>3 DEF DeadOk
  <1> QED  BY <1>5, <1>6, <1>7, <1>8, <1>9 DEF QInv, JobsOk, RefcountAccurate, Counts

\* The item the work queue thread destroys is dead.
LEMMA ItemDead ==
    ASSUME IInv, QInv, pc[WorkQ] = "run"
    PROVE  /\ item \in Slots /\ state[item] = "EXITED" /\ pc[item] = "gone"
           /\ ~ParentHolds(item) /\ refcount[item] = 0
  <1>1. item \in Slots
    BY DEF IInv, WorkItem
  <1>2. state[item] = "EXITED" /\ pc[item] = "gone" /\ ~ParentHolds(item) /\ Counts(item)
    BY <1>1, Known DEF DeadOk
  <1> QED  BY <1>1, <1>2 DEF Counts, SelfHolds

LEMMA DestroyKept ==
    ASSUME IInv, QInv, thread_destroy
    PROVE  QInv'
  <1> USE DEF cpuVars, statVars, jobVars, workVars, intVars, menuVars, simVars, keyVars
  <1>1. /\ g_current = WorkQ /\ pc[WorkQ] = "run" /\ item' = NoThread
        /\ UNCHANGED << g_current, s_runqueue, s_newqueue, s_waitqueue,
                        waitqueue, refcount, s_workqueue, threads, child >>
    BY DEF thread_destroy, At
  <1>2. PICK d \in Slots : /\ d = item /\ state[d] = "EXITED" /\ pc[d] = "gone"
                           /\ ~ParentHolds(d) /\ refcount[d] = 0
    BY <1>1, ItemDead
  <1>3. /\ state \in [Thread -> States] /\ pc \in [Thread -> AllPC] /\ d \in Thread
        /\ RunOk /\ NewOk /\ WaitOk /\ KernelOk /\ DeadOk
        /\ \A c \in Slots : JobOk(c) /\ Counts(c)
    BY Known, KernelThreads
  <1>4. state'[d] = "FREE" /\ \A u \in Thread : u # d => state'[u] = state[u]
    <2>1. state' = [state EXCEPT ![d] = "FREE"]
      BY <1>2 DEF thread_destroy
    <2> QED  BY <1>3, <2>1
  <1>5. pc'[d] = "start" /\ \A u \in Thread : u # d /\ u # WorkQ => pc'[u] = pc[u]
    <2>1. pc' = [pc EXCEPT ![d] = "start", ![WorkQ] = "loop"]
      BY <1>2 DEF thread_destroy
    <2> QED  BY <1>3, <2>1, KernelThreads
  <1>6. \A c \in Slots : c # WorkQ /\ c \in Thread /\ Held(c)
    BY <1>1, ParentStays, KernelThreads DEF Held
  <1>7. RunOk' /\ NewOk'
    BY <1>1, <1>2, <1>3, <1>4 DEF RunOk, NewOk
  <1>8. KernelOk'
    <2>1. /\ \A t \in {Main, Idle, WorkQ} : state'[t] = state[t]
          /\ pc'[Main] = pc[Main]
      BY <1>4, <1>5, KernelThreads
    <2> QED  BY <1>1, <1>3, <2>1 DEF KernelOk
  <1>9. WaitOk'
    <2>1. \A u \in Thread : Asleep(u)' <=> Asleep(u)
      BY <1>1, <1>2, <1>4 DEF Asleep
    <2>2. \A u \in {Main, WorkQ} : Asleep(u) => pc'[u] = pc[u]
      BY <1>1, <1>5, KernelThreads DEF Asleep
    <2>3. \A c \in Slots : pc[c] # "gone" => pc'[c] # "gone"
      BY <1>5, <1>6
    <2> QED  BY <1>1, <1>3, <2>1, <2>2, <2>3, WaitKept
  <1>10. ASSUME NEW c \in Slots  PROVE  JobOk(c)' /\ Counts(c)'
    <2>1. CASE c # d
      BY <1>1, <1>3, <1>4, <1>5, <1>6, <2>1, JobStays
    <2>2. CASE c = d
      <3>1. ~ParentHolds(d)' /\ refcount'[d] = 0
        BY <1>1, <1>2, <1>6 DEF Held
      <3>2. JobOk(d)'
        BY <1>1, <1>4, <1>5, <1>6, <3>1 DEF JobOk
      <3>3. ~SelfHolds(d)'
        BY <1>4 DEF SelfHolds
      <3> QED  BY <2>2, <3>1, <3>2, <3>3 DEF Counts
    <2> QED  BY <2>1, <2>2
  <1>11. DeadOk'
    <2>1. s_workqueue \in Seq(Slots) /\ NoThread \notin Slots
      BY ThreadAssumption DEF IInv, TypeOK
    <2>2. ~InQueue(NoThread, s_workqueue) /\ ~InQueue(d, s_workqueue)
      BY <1>2, <1>3, <2>1 DEF InQueue, DeadOk
    <2>3. ASSUME NEW c \in Slots, InQueue(c, s_workqueue') \/ c = item'
          PROVE  state'[c] = "EXITED" /\ pc'[c] = "gone" /\ ~ParentHolds(c)'
      <3>1. InQueue(c, s_workqueue) /\ c # d
        BY <1>1, <2>1, <2>2, <2>3
      <3>2. state[c] = "EXITED" /\ pc[c] = "gone" /\ ~ParentHolds(c)
        BY <1>3, <3>1 DEF DeadOk
      <3> QED  BY <1>4, <1>5, <1>6, <3>1, <3>2 DEF Held
    <2> QED  BY <1>1, <1>3, <2>2, <2>3 DEF DeadOk
  <1> QED  BY <1>7, <1>8, <1>9, <1>10, <1>11 DEF QInv, JobsOk, RefcountAccurate, Counts

-----------------------------------------------------------------------------
(***************************************************************************)
(* run_simulation.  The main thread has the CPU, so it sleeps nowhere.     *)
(***************************************************************************)
LEMMA MainAwake ==
    ASSUME IInv, QInv, g_current = Main
    PROVE  /\ \A c \in Slots : waitqueue[c] = << >> /\ ~WaitsFor(c) /\ c # g_current
           /\ \A t \in Thread : InQueue(t, s_waitqueue) => t = WorkQ
           /\ Asleep(WorkQ) => InQueue(WorkQ, s_waitqueue)
           /\ \A t \in Thread : InQueue(t, s_waitqueue) => Asleep(t)
           /\ Distinct(s_waitqueue) /\ ~InQueue(Main, s_waitqueue)
  <1>1. WaitOk /\ ~Asleep(Main)
    BY Known DEF Asleep
  <1> QED  BY <1>1, KernelThreads DEF WaitOk

\* It falls not asleep, and wakes up nobody.
LEMMA MainRuns ==
    ASSUME IInv, QInv, g_current = Main, g_current' = Main, s_waitqueue' = s_waitqueue,
           waitqueue' = waitqueue, state'[WorkQ] = state[WorkQ]
    PROVE  WaitOk'
  <1>1. ~Asleep(Main)' /\ (Asleep(WorkQ)' <=> Asleep(WorkQ))
    BY DEF Asleep
  <1>2. \A c \in Slots : waitqueue'[c] = << >> /\ ~WaitsFor(c)'
    BY MainAwake DEF WaitsFor
  <1>3. \A t \in Thread : InQueue(t, s_waitqueue') => t = WorkQ /\ Asleep(t)'
    BY <1>1, MainAwake
  <1>4. /\ Distinct(s_waitqueue') /\ ~InQueue(Main, s_waitqueue')
        /\ Asleep(WorkQ)' => InQueue(WorkQ, s_waitqueue')
    BY <1>1, MainAwake
  <1> QED  BY <1>1, <1>2, <1>3, <1>4 DEF WaitOk

\* Jobs that a step of the main thread leaves alone.
LEMMA OtherJob ==
    ASSUME IInv, QInv, g_current = Main, g_current' = Main, NEW c \in Slots,
           state'[c] = state[c], pc'[c] = pc[c], Held(c)
    PROVE  JobOk(c)' /\ Counts(c)'
  <1>1. state[c] \in States /\ JobOk(c) /\ Counts(c) /\ c # Main
    BY Known, KernelThreads
  <1> QED  BY <1>1, JobStays

LEMMA CreateKept ==
    ASSUME IInv, QInv, NEW t \in Slots, thread_create_from_job(t)
    PROVE  QInv'
  <1> USE DEF cpuVars, statVars, jobVars, workVars, intVars, menuVars, simVars, keyVars
  <1>1. /\ g_current = Main /\ pc[Main] = "create" /\ state[t] = "FREE"
        /\ UNCHANGED << g_current, s_runqueue, s_waitqueue, waitqueue, s_workqueue,
                        item, child >>
    BY DEF thread_create_from_job, At
  <1>2. /\ refcount' = [refcount EXCEPT ![t] = 2] /\ state' = [state EXCEPT ![t] = "NEW"]
        /\ s_newqueue' = SCHEDULER(g_scheduler, s_newqueue, t, priority')
        /\ threads' = Append(threads, t)
        /\ pc' = [pc EXCEPT ![Main] =
                     IF Len(threads) + 1 < Len(simulation) THEN "create" ELSE "merge"]
    BY DEF thread_create_from_job, Goto
  <1>3. /\ state \in [Thread -> States] /\ pc \in [Thread -> AllPC]
        /\ refcount \in [Slots -> Nat] /\ s_newqueue \in Seq(Slots) /\ t \in Thread
        /\ RunOk /\ NewOk /\ KernelOk /\ DeadOk
        /\ \A c \in Slots : JobOk(c) /\ Counts(c)
    BY Known, KernelThreads
  <1>4. state'[t] = "NEW" /\ \A u \in Thread : u # t => state'[u] = state[u]
    BY <1>2, <1>3
  <1>5. pc'[Main] \in {"create", "merge"} /\ \A u \in Thread : u # Main => pc'[u] = pc[u]
    BY <1>2, <1>3, KernelThreads
  <1>6. refcount'[t] = 2 /\ \A c \in Slots : c # t => refcount'[c] = refcount[c]
    BY <1>2, <1>3
  <1>7. \A c \in Slots : c \in Thread /\ c # Main
    BY KernelThreads
  <1>8. /\ \A c : InQueue(c, threads') <=> InQueue(c, threads) \/ c = t
        /\ \A c \in Slots : ParentHolds(c) <=> InQueue(c, threads)
        /\ \A c \in Slots : ParentHolds(c)' <=> InQueue(c, threads')
        /\ ~InQueue(t, threads) => Distinct(threads')
    <2>1. threads \in Seq(Slots) /\ child = 1
      BY <1>1 DEF IInv, TypeOK, MainSim
    <2>2. \A c \in Slots : /\ ParentHolds(c) <=> InQueue(c, threads)
                           /\ ParentHolds(c)' <=> InQueue(c, threads')
      BY <1>1, <2>1 DEF ParentHolds, InQueue
    <2> QED  BY <1>2, <1>3, <2>1, <2>2, AppendQueue DEF KernelOk
  <1>9. ~ParentHolds(t) /\ pc[t] = "start"
    BY <1>1, <1>3 DEF JobOk
  <1>10. RunOk'
    BY <1>1, <1>3, <1>4 DEF RunOk
  <1>11. NewOk'
    <2>1. \A c \in Slots : priority'[c] \in Int
      <3>1. IInv'
        BY SimulationStep
      <3>2. priority' \in [Thread -> Nat]
        BY <3>1 DEF IInv, TypeOK
      <3> QED  BY <1>7, <3>2
    <2>2. Distinct(s_newqueue) /\ ~InQueue(t, s_newqueue)
      BY <1>1, <1>3 DEF NewOk
    <2>3. /\ Distinct(s_newqueue')
          /\ \A u : InQueue(u, s_newqueue') <=> InQueue(u, s_newqueue) \/ u = t
      BY <1>2, <1>3, <2>1, <2>2, SchedulerEnqueues
    <2> QED  BY <1>3, <1>4, <2>3 DEF NewOk
  <1>12. WaitOk'
    BY <1>1, <1>4, <1>7, MainRuns, KernelThreads
  <1>13. KernelOk'
    <2>1. \A u \in {Main, Idle, WorkQ} : state'[u] = state[u]
      BY <1>4, KernelThreads
    <2> QED  BY <1>1, <1>3, <1>5, <1>8, <1>9, <2>1 DEF KernelOk
  <1>14. ASSUME NEW c \in Slots  PROVE  JobOk(c)' /\ Counts(c)'
    <2>1. CASE c # t
      <3>1. Held(c)
        BY <1>6, <1>8, <2>1 DEF Held
      <3> QED  BY <1>1, <1>4, <1>5, <1>7, <2>1, <3>1, OtherJob
    <2>2. CASE c = t
      <3>1. ParentHolds(t)' /\ pc'[t] = "start"
        BY <1>5, <1>7, <1>8, <1>9
      <3>2. JobOk(t)' /\ SelfHolds(t)'
        BY <1>1, <1>4, <1>7, <3>1 DEF JobOk, SelfHolds
      <3> QED  BY <1>6, <2>2, <3>1, <3>2 DEF Counts
    <2> QED  BY <2>1, <2>2
  <1>15. DeadOk'
    <2>1. ASSUME NEW c \in Slots, InQueue(c, s_workqueue') \/ c = item'
          PROVE  state'[c] = "EXITED" /\ pc'[c] = "gone" /\ ~ParentHolds(c)'
      <3>1. state[c] = "EXITED" /\ pc[c] = "gone" /\ ~ParentHolds(c)
        BY <1>1, <1>3, <2>1 DEF DeadOk
      <3>2. c # t
        BY <1>1, <3>1
      <3> QED  BY <1>4, <1>5, <1>7, <1>8, <3>1, <3>2
    <2> QED  BY <1>1, <1>3, <2>1 DEF DeadOk
  <1> QED  BY <1>10, <1>11, <1>12, <1>13, <1>14, <1>15
             DEF QInv, JobsOk, RefcountAccurate, Counts

\* One new thread becomes runnable, or none is left.
LEMMA MergeKept ==
    ASSUME IInv, QInv, merge_new_with_runnable
    PROVE  QInv'
  <1> USE DEF cpuVars, statVars, jobVars, workVars, intVars, menuVars, simVars, keyVars
  <1>1. /\ g_current = Main
        /\ UNCHANGED << g_current, s_waitqueue, waitqueue, refcount, s_workqueue,
                        item, threads, child >>
    BY DEF merge_new_with_runnable, At
  <1>2. CASE s_newqueue = << >>
    <2>1. /\ pc' = [pc EXCEPT ![Main] = "yield"]
          /\ UNCHANGED << s_newqueue, state, s_runqueue >>
      BY <1>2 DEF merge_new_with_runnable, Goto
    <2>2. MovesOn
      BY <1>1, <2>1, GoesTo, KernelThreads
    <2> QED  BY <1>1, <2>1, <2>2, QuietKept
  <1>3. CASE s_newqueue # << >>
    <2>1. /\ s_newqueue' = Tail(s_newqueue) /\ UNCHANGED pc
          /\ state' = [state EXCEPT ![Head(s_newqueue)] = "READY"]
          /\ s_runqueue' = RunqueueWith(Head(s_newqueue))
      BY <1>3 DEF merge_new_with_runnable
    <2>2. /\ state \in [Thread -> States] /\ s_newqueue \in Seq(Slots)
          /\ RunOk /\ NewOk /\ KernelOk /\ DeadOk
          /\ \A c \in Slots : JobOk(c) /\ Counts(c)
      BY Known
    <2>3. PICK h \in Slots : h = Head(s_newqueue)
      BY <1>3, <2>2, RemoveFirstQueue
    <2>4. /\ Distinct(s_newqueue') /\ InQueue(h, s_newqueue)
          /\ \A u : InQueue(u, s_newqueue') <=> InQueue(u, s_newqueue) /\ u # h
      BY <1>3, <2>1, <2>2, <2>3, RemoveFirstQueue DEF NewOk
    <2>5. h \in Thread /\ state[h] = "NEW" /\ \A c \in Slots : c \in Thread /\ c # Main
      BY <2>2, <2>4, KernelThreads DEF NewOk
    <2>6. state'[h] = "READY" /\ \A u \in Thread : u # h => state'[u] = state[u]
      BY <2>1, <2>2, <2>3, <2>5
    <2>7. RunOk'
      <3>1. /\ Distinct(RunqueueWith(h))
            /\ \A u \in Thread : [state EXCEPT ![h] = "READY"][u] = "READY"
                                   <=> InQueue(u, RunqueueWith(h))
        BY <2>2, <2>5, EnqueueRun
      <3> QED  BY <2>1, <2>3, <3>1 DEF RunOk
    <2>8. NewOk'
      BY <2>2, <2>4, <2>6 DEF NewOk
    <2>9. WaitOk'
      BY <1>1, <2>3, <2>6, MainRuns, KernelThreads
    <2>10. KernelOk'
      <3>1. \A u \in {Main, Idle, WorkQ} : state'[u] = state[u]
        BY <2>3, <2>6, KernelThreads
      <3> QED  BY <1>1, <2>1, <2>2, <3>1 DEF KernelOk
    <2>11. ASSUME NEW c \in Slots  PROVE  JobOk(c)' /\ Counts(c)'
      <3>1. Held(c) /\ pc'[c] = pc[c]
        BY <1>1, <2>1, ParentStays DEF Held
      <3>2. CASE c # h
        BY <1>1, <2>5, <2>6, <3>1, <3>2, OtherJob
      <3>3. CASE c = h
        <4>1. pc[h] = "start" /\ ParentHolds(h) /\ Counts(h)
          BY <2>2, <2>5 DEF JobOk
        <4>2. JobOk(h)'
          BY <1>1, <2>5, <2>6, <3>1, <3>3, <4>1 DEF JobOk, Held, Live
        <4>3. SelfHolds(h) /\ SelfHolds(h)'
          BY <2>5, <2>6, <3>1, <3>3, <4>1 DEF SelfHolds
        <4> QED  BY <3>1, <3>3, <4>1, <4>2, <4>3 DEF Counts, Held
      <3> QED  BY <3>2, <3>3
    <2>12. DeadOk'
      <3>1. \A c \in Slots : state[c] = "EXITED" => state'[c] = "EXITED"
        BY <2>5, <2>6
      <3> QED  BY <1>1, <2>1, <2>2, <3>1, ParentStays, DeadKept
    <2> QED  BY <2>7, <2>8, <2>9, <2>10, <2>11, <2>12
               DEF QInv, JobsOk, RefcountAccurate, Counts
  <1> QED  BY <1>2, <1>3

\* The local array goes out of scope when the main thread has joined every child.
LEMMA UnmaskKept ==
    ASSUME IInv, QInv, irq_enable_keyboard
    PROVE  QInv'
  <1> USE DEF cpuVars, statVars, jobVars, workVars, intVars, menuVars, simVars, keyVars
  <1>1. /\ g_current = Main /\ pc[Main] = "unmask" /\ threads' = << >> /\ child' = 1
        /\ pc' = [pc EXCEPT ![Main] = "stats"]
        /\ UNCHANGED << g_current, s_runqueue, state, s_newqueue, s_waitqueue, waitqueue,
                        refcount, s_workqueue, item >>
    BY DEF irq_enable_keyboard, At, Goto
  <1>2. /\ state \in [Thread -> States] /\ pc \in [Thread -> AllPC]
        /\ RunOk /\ NewOk /\ KernelOk /\ DeadOk
    BY Known
  <1>3. pc'[Main] = "stats" /\ \A u \in Thread : u # Main => pc'[u] = pc[u]
    BY <1>1, <1>2, KernelThreads
  <1>4. \A c \in Slots : ~ParentHolds(c) /\ ~ParentHolds(c)'
    <2>1. child \in Nat /\ Len(threads) \in Nat /\ child > Len(threads)
      BY <1>1, <1>2 DEF IInv, TypeOK, KernelOk
    <2>2. \A k : k \notin child .. Len(threads)
      BY <2>1
    <2>3. \A k : k \notin child' .. Len(threads')
      BY <1>1
    <2> QED  BY <2>2, <2>3 DEF ParentHolds
  <1>5. \A c \in Slots : Held(c) /\ c \in Thread /\ c # Main
    BY <1>1, <1>4, KernelThreads DEF Held
  <1>6. RunOk' /\ NewOk' /\ WaitOk'
    BY <1>1, <1>2, MainRuns DEF RunOk, NewOk
  <1>7. KernelOk'
    <2>1. Distinct(threads')
      BY <1>1 DEF Distinct
    <2> QED  BY <1>1, <1>2, <1>3, <2>1 DEF KernelOk
  <1>8. ASSUME NEW c \in Slots  PROVE  JobOk(c)' /\ Counts(c)'
    BY <1>1, <1>3, <1>5, OtherJob
  <1>9. DeadOk'
    BY <1>1, <1>2, <1>3, <1>4, <1>5, DeadKept
  <1> QED  BY <1>6, <1>7, <1>8, <1>9 DEF QInv, JobsOk, RefcountAccurate, Counts

(***************************************************************************)
(* The main thread drops its reference to an exited child: the last one,   *)
(* so the child goes to the work queue.                                    *)
(***************************************************************************)
LEMMA JoinedChild ==
    ASSUME IInv, QInv, join_child
    PROVE  \E d \in Slots :
              /\ d = threads[child] /\ state[d] = "EXITED" /\ pc[d] = "gone"
              /\ ParentHolds(d) /\ refcount[d] = 1
              /\ ~ParentHolds(d)'
              /\ \A c \in Slots : c # d => (ParentHolds(c)' <=> ParentHolds(c))
  <1>1. /\ g_current = Main /\ pc[Main] = "join" /\ state[threads[child]] = "EXITED"
        /\ child' = child + 1 /\ threads' = threads
    BY DEF join_child, At
  <1>2. PICK d \in Slots : d = threads[child]
    BY <1>1, Child
  <1>3. child \in 1 .. Len(threads) /\ Len(threads) \in Nat
    BY <1>1, Child
  <1>4. JobOk(d) /\ Counts(d) /\ d # Main /\ Distinct(threads)
    BY Known, KernelThreads DEF KernelOk
  <1>5. pc[d] = "gone" /\ state[d] = "EXITED"
    BY <1>1, <1>2, <1>4 DEF JobOk
  <1>6. child \in child .. Len(threads) /\ child' .. Len(threads') = child + 1 .. Len(threads)
    BY <1>1, <1>3
  <1>7. ParentHolds(d)
    BY <1>2, <1>6 DEF ParentHolds
  <1>8. refcount[d] = 1
    BY <1>4, <1>5, <1>7 DEF Counts, SelfHolds
  <1>9. ~ParentHolds(d)'
    <2> SUFFICES ASSUME NEW k \in child + 1 .. Len(threads), threads[k] = d
                 PROVE  FALSE
      BY <1>1, <1>6 DEF ParentHolds
    <2>1. k \in 1 .. Len(threads) /\ k # child
      BY <1>3
    <2> QED  BY <1>2, <1>3, <1>4, <2>1 DEF Distinct
  <1>10. ASSUME NEW c \in Slots, c # d  PROVE  ParentHolds(c)' <=> ParentHolds(c)
    <2>1. \A k \in child .. Len(threads) : threads[k] = c => k \in child + 1 .. Len(threads)
      BY <1>2, <1>3, <1>10
    <2>2. \A k \in child + 1 .. Len(threads) : k \in child .. Len(threads)
      BY <1>3
    <2> QED  BY <1>1, <1>6, <2>1, <2>2 DEF ParentHolds
  <1> QED  BY <1>2, <1>5, <1>7, <1>8, <1>9, <1>10

LEMMA JoinKept ==
    ASSUME IInv, QInv, join_child
    PROVE  QInv'
  <1> USE DEF cpuVars, statVars, jobVars, workVars, intVars, menuVars, simVars, keyVars
  <1>1. PICK d \in Slots :
              /\ d = threads[child] /\ state[d] = "EXITED" /\ pc[d] = "gone"
              /\ ParentHolds(d) /\ refcount[d] = 1
              /\ ~ParentHolds(d)'
              /\ \A c \in Slots : c # d => (ParentHolds(c)' <=> ParentHolds(c))
    BY JoinedChild
  <1>2. /\ g_current = Main /\ pc[Main] = "join"
        /\ child' = child + 1 /\ threads' = threads
        /\ thread_detach(d, Main, IF child < Len(threads) THEN "yield" ELSE "unmask", TRUE)
    BY <1>1 DEF join_child, At
  <1>3. /\ state \in [Thread -> States] /\ pc \in [Thread -> AllPC]
        /\ refcount \in [Slots -> Nat]
        /\ RunOk /\ NewOk /\ KernelOk /\ DeadOk
        /\ \A c \in Slots : c \in Thread /\ c # Main /\ c # WorkQ
    BY Known, KernelThreads
  <1>4. /\ refcount' = [refcount EXCEPT ![d] = @ - 1]
        /\ s_workqueue' = Append(s_workqueue, d)
        /\ UNCHANGED << s_newqueue, waitqueue, item >>
        /\ \/ /\ s_waitqueue # << >> /\ thread_wakeup_one(s_waitqueue)
              /\ s_waitqueue' = Tail(s_waitqueue)
           \/ UNCHANGED << g_current, s_runqueue, state, s_waitqueue >>
    <2>1. ~(refcount[d] > 1)
      BY <1>1
    <2>2. /\ refcount' = [refcount EXCEPT ![d] = @ - 1]
          /\ UNCHANGED << s_newqueue, waitqueue, item >>
      BY <1>2, Zenon DEF thread_detach
    <2>3. /\ s_workqueue' = Append(s_workqueue, d)
          /\ \/ /\ s_waitqueue # << >> /\ thread_wakeup_one(s_waitqueue)
                /\ s_waitqueue' = Tail(s_waitqueue)
             \/ UNCHANGED << cpuVars, s_waitqueue >>
      BY <1>2, <2>1, Zenon DEF thread_detach
    <2> QED  BY <2>2, <2>3
  <1>5. refcount'[d] = 0 /\ \A c \in Slots : c # d => refcount'[c] = refcount[c]
    BY <1>1, <1>3, <1>4
  <1>6. \E l : /\ pc' = [pc EXCEPT ![Main] = l]
               /\ l = "unmask" => ~(child < Len(threads))
    BY <1>2 DEF thread_detach, Goto
  <1>7. /\ pc'[Main] = "unmask" => ~(child < Len(threads))
        /\ \A u \in Thread : u # Main => pc'[u] = pc[u]
    BY <1>3, <1>6, KernelThreads
  <1>8. /\ RunOk' /\ WaitOk' /\ g_current' = Main /\ state'[Main] = state[Main]
        /\ state'[WorkQ] \in {state[WorkQ], "READY"}
        /\ \A u \in Thread : u # WorkQ => state'[u] = state[u]
    <2>1. CASE UNCHANGED << g_current, s_runqueue, state, s_waitqueue >>
      <3>1. WaitOk'
        BY <1>2, <1>4, <2>1, MainRuns
      <3>2. RunOk'
        BY <1>3, <2>1 DEF RunOk
      <3> QED  BY <1>2, <2>1, <3>1, <3>2
    <2>2. CASE /\ s_waitqueue # << >> /\ thread_wakeup_one(s_waitqueue)
               /\ s_waitqueue' = Tail(s_waitqueue)
      <3>1. PICK h \in {Main, WorkQ} :
              /\ Asleep(h) /\ Woken(h) /\ InQueue(h, s_waitqueue) /\ ~Asleep(h)'
              /\ Distinct(s_waitqueue')
              /\ \A u : InQueue(u, s_waitqueue') <=> InQueue(u, s_waitqueue) /\ u # h
        BY <2>2, WakeFirst
      <3>2. h = WorkQ
        BY <1>2, <3>1 DEF Asleep
      <3>3. /\ RunOk' /\ g_current' = Main /\ state'[WorkQ] = "READY"
            /\ \A u \in Thread : u # WorkQ => state'[u] = state[u]
        BY <1>2, <3>1, <3>2 DEF Woken
      <3>4. \A t \in Thread : ~InQueue(t, s_waitqueue')
        BY <1>2, <3>1, <3>2, MainAwake
      <3>5. \A c \in Slots : waitqueue'[c] = << >> /\ ~WaitsFor(c)'
        BY <1>2, <1>4, MainAwake DEF WaitsFor
      <3>6. ~Asleep(Main)' /\ ~Asleep(WorkQ)'
        BY <3>1, <3>2, <3>3 DEF Asleep
      <3>7. WaitOk'
        BY <3>1, <3>4, <3>5, <3>6, KernelThreads DEF WaitOk
      <3> QED  BY <3>3, <3>7, KernelThreads
    <2> QED  BY <1>4, <2>1, <2>2
  <1>9. NewOk'
    <2>1. \A t \in Thread : state'[t] = "NEW" <=> state[t] = "NEW"
      <3>1. state[WorkQ] \in {"READY", "RUNNING"}
        BY <1>3 DEF KernelOk
      <3> QED  BY <1>8, <3>1
    <2> QED  BY <1>3, <1>4, <2>1, NewKept
  <1>10. KernelOk'
    <2>1. \A t \in {Main, Idle, WorkQ} : state'[t] \in {"READY", "RUNNING"}
      BY <1>3, <1>8, KernelThreads DEF KernelOk
    <2>2. state'[g_current'] = "RUNNING"
      BY <1>2, <1>3, <1>8, CurrentKernel, KernelThreads
    <2>3. pc'[Main] = "unmask" => child' > Len(threads')
      BY <1>2, <1>7, Child
    <2> QED  BY <1>2, <1>3, <2>1, <2>2, <2>3 DEF KernelOk
  <1>11. ASSUME NEW c \in Slots  PROVE  JobOk(c)' /\ Counts(c)'
    <2>1. state'[c] = state[c] /\ pc'[c] = pc[c]
      BY <1>3, <1>7, <1>8
    <2>2. CASE c # d
      <3>1. Held(c)
        BY <1>1, <1>5, <2>2 DEF Held
      <3> QED  BY <1>2, <1>8, <2>1, <2>2, <3>1, OtherJob
    <2>3. CASE c = d
      <3>1. JobOk(d)'
        BY <1>1, <1>3, <1>8, <2>1, <2>3 DEF JobOk
      <3>2. ~SelfHolds(d)'
        BY <1>1, <2>1, <2>3 DEF SelfHolds
      <3> QED  BY <1>1, <1>5, <2>3, <3>1, <3>2 DEF Counts
    <2> QED  BY <2>2, <2>3
  <1>12. DeadOk'
    <2>1. s_workqueue \in Seq(Slots)
      BY DEF IInv, TypeOK
    <2>2. ~InQueue(d, s_workqueue) /\ d # item
      BY <1>1, <1>3 DEF DeadOk
    <2>3. /\ Distinct(s_workqueue')
          /\ \A u : InQueue(u, s_workqueue') <=> InQueue(u, s_workqueue) \/ u = d
      BY <1>3, <1>4, <2>1, <2>2, AppendQueue DEF DeadOk
    <2>4. ASSUME NEW c \in Slots, InQueue(c, s_workqueue') \/ c = item'
          PROVE  state'[c] = "EXITED" /\ pc'[c] = "gone" /\ ~ParentHolds(c)'
      <3>1. state[c] = "EXITED" /\ pc[c] = "gone" /\ (c = d \/ ~ParentHolds(c))
        BY <1>1, <1>3, <1>4, <2>3, <2>4 DEF DeadOk
      <3> QED  BY <1>1, <1>3, <1>7, <1>8, <3>1
    <2> QED  BY <1>3, <1>4, <2>2, <2>3, <2>4 DEF DeadOk
  <1> QED  BY <1>8, <1>9, <1>10, <1>11, <1>12 DEF QInv, JobsOk, RefcountAccurate, Counts

-----------------------------------------------------------------------------
\* When geekos_main enters its loop.
LEMMA InitQ == Init => QInv
  <1> SUFFICES ASSUME Init PROVE QInv
    OBVIOUS
  <1>1. /\ g_current = Main /\ s_runqueue = << Idle, WorkQ >> /\ s_newqueue = << >>
        /\ s_waitqueue = << >> /\ \A c \in Slots : waitqueue[c] = << >> /\ refcount[c] = 0
        /\ s_workqueue = << >> /\ item = NoThread /\ threads = << >> /\ child = 1
        /\ pc[Main] = "mode" /\ \A c \in Slots : pc[c] = "start"
    BY KernelThreads DEF Init
  <1>2. /\ state[Main] = "RUNNING" /\ state[Idle] = "READY" /\ state[WorkQ] = "READY"
        /\ \A c \in Slots : state[c] = "FREE"
    BY KernelThreads DEF Init
  <1>3. \A t \in Thread : t \in {Main, Idle, WorkQ} \/ t \in Slots
    BY DEF Thread
  <1>4. \A t : ~InQueue(t, << >>)
    BY DEF InQueue
  <1>5. Distinct(<< >>)
    BY DEF Distinct
  <1>6. RunOk
    <2>1. \A t : InQueue(t, s_runqueue) <=> t = Idle \/ t = WorkQ
      BY <1>1 DEF InQueue
    <2>2. Distinct(s_runqueue)
      BY <1>1, KernelThreads DEF Distinct
    <2> QED  BY <1>2, <1>3, <2>1, <2>2, KernelThreads DEF RunOk
  <1>7. NewOk
    BY <1>1, <1>2, <1>3, <1>4, <1>5 DEF NewOk
  <1>8. WaitOk
    <2>1. ~Asleep(Main) /\ ~Asleep(WorkQ)
      BY <1>1, <1>2 DEF Asleep
    <2>2. \A c \in Slots : ~WaitsFor(c)
      BY <1>1 DEF WaitsFor
    <2> QED  BY <1>1, <1>4, <1>5, <2>1, <2>2 DEF WaitOk
  <1>9. KernelOk
    BY <1>1, <1>2, <1>5 DEF KernelOk
  <1>10. ASSUME NEW c \in Slots  PROVE  JobOk(c) /\ Counts(c)
    <2>1. ~ParentHolds(c) /\ ~SelfHolds(c)
      BY <1>1, <1>2 DEF ParentHolds, SelfHolds
    <2> QED  BY <1>1, <1>2, <2>1, KernelThreads DEF JobOk, Counts
  <1>11. DeadOk
    BY <1>1, <1>4, <1>5, ThreadAssumption DEF DeadOk
  <1> QED  BY <1>6, <1>7, <1>8, <1>9, <1>10, <1>11 DEF QInv, JobsOk, RefcountAccurate, Counts

\* Every step keeps it.
LEMMA NextQ == IInv /\ QInv /\ [Next]_vars => QInv'
  <1> SUFFICES ASSUME IInv, QInv, [Next]_vars PROVE QInv'
    OBVIOUS
  <1>1. CASE UNCHANGED vars
    <2>1. UNCHANGED << g_current, s_runqueue, state, s_newqueue, s_waitqueue, waitqueue,
                       refcount, s_workqueue, item, threads, child, pc, intr, isr >>
      BY <1>1 DEF vars, cpuVars, statVars, jobVars, workVars, intVars, menuVars, simVars
    <2>2. UNCHANGED << RunOk, NewOk, KernelOk, DeadOk >>
      BY <2>1 DEF RunOk, NewOk, KernelOk, DeadOk, ParentHolds
    <2>3. UNCHANGED << WaitOk >>
      BY <2>1 DEF WaitOk, WaitsFor, Asleep
    <2>4. UNCHANGED << JobsOk, RefcountAccurate >>
      BY <2>1 DEF JobsOk, JobOk, RefcountAccurate, ParentHolds, SelfHolds
    <2> QED  BY <2>2, <2>3, <2>4 DEF QInv
  <1>2. CASE MainStep
    <2>1. CASE wait_for_key
      BY <2>1, SleepKept
    <2>2. CASE \/ InvalidKey \/ main_menu \/ get_synch_simulation \/ get_scheduler
               \/ get_quantum \/ get_scheduler_simulation \/ ask_for_stats
               \/ irq_disable_keyboard \/ calculate_simulation_stat_halt
      BY <2>2, PromptKept
    <2>3. CASE \E t \in Slots : thread_create_from_job(t)
      BY <2>3, CreateKept
    <2>4. CASE merge_new_with_runnable
      BY <2>4, MergeKept
    <2>5. CASE thread_yield(Main) \/ thread_yield_return(Main)
      BY <2>5, YieldKept, KernelThreads
    <2>6. CASE wait_for_child
      BY <2>6, WaitForChildKept
    <2>7. CASE join_child
      BY <2>7, JoinKept
    <2>8. CASE irq_enable_keyboard
      BY <2>8, UnmaskKept
    <2> QED  BY <1>2, <2>1, <2>2, <2>3, <2>4, <2>5, <2>6, <2>7, <2>8, Zenon DEF MainStep
  <1>3. CASE IdleStep
    BY <1>3, YieldKept, KernelThreads DEF IdleStep
  <1>4. CASE WorkStep
    <2>1. CASE thread_run(WorkQ)
      BY <2>1, YieldKept, KernelThreads
    <2> QED  BY <1>4, <2>1, SleepKept, WorkqueueNextKept, DestroyKept DEF WorkStep
  <1>5. ASSUME NEW t \in Slots, JobStep(t)  PROVE QInv'
    <2>1. CASE thread_run(t)
      BY <2>1, YieldKept, KernelThreads
    <2>2. CASE job_body(t) \/ toggler_end_atomic(t) \/ poet_lock(t) \/ poet_preemption_on(t)
      BY <2>2, FunctionKept
    <2> QED  BY <1>5, <2>1, <2>2, ExitDetachKept, ExitStateKept, ExitWakeupKept DEF JobStep
  <1>6. CASE Interrupt \/ Handler
    BY <1>6, InterruptKept, KeyboardKept DEF Interrupt, Handler
  <1> QED  BY <1>1, <1>2, <1>3, <1>4, <1>5, <1>6, Zenon DEF Next, Halt

LEMMA QInvariance == Spec => [](IInv /\ QInv)
  <1>1. IInv /\ QInv /\ [Next]_vars => QInv'
    BY NextQ
  <1> QED  BY Invariance, InitQ, <1>1, PTL DEF Spec

-----------------------------------------------------------------------------
(***************************************************************************)
(* What the invariant means for the queues.                                *)
(***************************************************************************)
LEMMA QueueIs ==
    /\ Queue("run") = s_runqueue /\ Queue("new") = s_newqueue /\ Queue("wait") = s_waitqueue
    /\ \A c \in Slots : Queue(c) = waitqueue[c]
  <1>1. Queue("run") = s_runqueue /\ Queue("new") = s_newqueue /\ Queue("wait") = s_waitqueue
    BY DEF Queue
  <1>2. \A c \in Slots : c # "run" /\ c # "new" /\ c # "wait"
    BY ThreadAssumption
  <1> QED  BY <1>1, <1>2 DEF Queue

\* The state of a thread says in which queue it can be.
LEMMA InWhichQueue ==
    ASSUME IInv, QInv, NEW n \in QueueNames, NEW t \in Thread, InQueue(t, Queue(n))
    PROVE  \/ n = "run" /\ state[t] = "READY"
           \/ n = "new" /\ state[t] = "NEW"
           \/ n = "wait" /\ Asleep(t) /\ (t = Main => pc[Main] \in Prompts)
           \/ /\ n \in Slots /\ n = threads[child] /\ t = Main
              /\ Asleep(t) /\ pc[Main] = "join"
  <1>1. RunOk /\ NewOk /\ WaitOk
    BY Known
  <1>2. n \in {"run", "new", "wait"} \/ n \in Slots
    BY DEF QueueNames
  <1>3. CASE n = "run" \/ n = "new"
    BY <1>1, <1>3, QueueIs DEF RunOk, NewOk
  <1>4. CASE n = "wait"
    BY <1>1, <1>4, QueueIs DEF WaitOk
  <1>5. CASE n \in Slots
    <2>1. Queue(n) = waitqueue[n] /\ waitqueue[n] # << >>
      BY <1>5, QueueIs DEF InQueue
    <2>2. WaitsFor(n) /\ Queue(n) = << Main >>
      BY <1>1, <1>5, <2>1 DEF WaitOk, WaitsFor
    <2>3. t = Main
      BY <2>2 DEF InQueue
    <2> QED  BY <1>1, <1>5, <2>2, <2>3 DEF WaitOk
  <1> QED  BY <1>2, <1>3, <1>4, <1>5

\* One queue per thread.
LEMMA OneQueueHolds == ASSUME IInv, QInv PROVE OneQueue
  <1>1. ASSUME NEW n \in QueueNames  PROVE  Distinct(Queue(n)) /\ ~InQueue(g_current, Queue(n))
    <2>1. ~InQueue(g_current, Queue(n))
      <3>1. g_current \in Thread /\ state[g_current] \in {"RUNNING", "EXITED"}
        BY Known DEF KernelOk
      <3> QED  BY <3>1, InWhichQueue DEF Asleep
    <2>2. RunOk /\ NewOk /\ WaitOk
      BY Known
    <2>3. CASE n = "run" \/ n = "new" \/ n = "wait"
      <3>1. Distinct(s_runqueue) /\ Distinct(s_newqueue) /\ Distinct(s_waitqueue)
        BY <2>2 DEF RunOk, NewOk, WaitOk
      <3>2. Queue(n) = s_runqueue \/ Queue(n) = s_newqueue \/ Queue(n) = s_waitqueue
        BY <2>3, QueueIs
      <3> QED  BY <2>1, <3>1, <3>2
    <2>4. CASE n \in Slots
      <3>1. Queue(n) = << >> \/ Queue(n) = << Main >>
        BY <2>2, <2>4, QueueIs DEF WaitOk, WaitsFor
      <3>2. Distinct(<< >>)
        BY DEF Distinct
      <3>3. Distinct(<< Main >>)
        BY DEF Distinct
      <3> QED  BY <2>1, <3>1, <3>2, <3>3
    <2> QED  BY <2>3, <2>4 DEF QueueNames
  <1>2. ASSUME NEW m \in QueueNames, NEW n \in QueueNames, NEW t \in Thread,
               InQueue(t, Queue(m)), InQueue(t, Queue(n))
        PROVE  m = n
    <2>1. \A l \in {m, n} :
             \/ l = "run" /\ state[t] = "READY"
             \/ l = "new" /\ state[t] = "NEW"
             \/ l = "wait" /\ state[t] = "RUNNING" /\ (t = Main => pc[Main] # "join")
             \/ l = threads[child] /\ state[t] = "RUNNING" /\ t = Main /\ pc[Main] = "join"
      BY <1>2, InWhichQueue DEF Asleep, Prompts
    <2> QED  BY <2>1
  <1> QED  BY <1>1, <1>2 DEF OneQueue

\* No thread is lost.
LEMMA NoThreadLostHolds == ASSUME IInv, QInv PROVE NoThreadLost
  <1> SUFFICES ASSUME NEW t \in Thread, state[t] # "FREE", pc[t] # "gone", t # g_current
               PROVE  \E n \in QueueNames : InQueue(t, Queue(n))
    BY DEF NoThreadLost
  <1>1. /\ RunOk /\ NewOk /\ WaitOk /\ KernelOk /\ state[t] \in States
        /\ t \in Slots => JobOk(t)
    BY Known
  <1>2. "run" \in QueueNames /\ "new" \in QueueNames /\ "wait" \in QueueNames
        /\ Slots \subseteq QueueNames
    BY DEF QueueNames
  <1>3. CASE state[t] = "READY"
    BY <1>1, <1>2, <1>3, QueueIs DEF RunOk
  <1>4. CASE state[t] = "NEW"
    BY <1>1, <1>2, <1>4, QueueIs DEF NewOk
  <1>5. CASE state[t] = "RUNNING" /\ t \notin Slots
    <2>1. Asleep(t)
      BY <1>5 DEF Asleep
    <2>2. t # Idle
      BY <1>1, <1>5 DEF IInv, IdleReady, RunOk
    <2>3. CASE t = Main
      <3>1. InQueue(Main, s_waitqueue) \/ \E c \in Slots : waitqueue[c] = << Main >>
        BY <1>1, <2>1, <2>3 DEF WaitOk, WaitsFor
      <3>2. InQueue(Main, << Main >>)
        BY DEF InQueue
      <3> QED  BY <1>2, <2>3, <3>1, <3>2, QueueIs
    <2>4. CASE t = WorkQ
      BY <1>1, <1>2, <2>1, <2>4, QueueIs DEF WaitOk
    <2> QED  BY <1>5, <2>2, <2>3, <2>4 DEF Thread
  <1>6. CASE t \in Slots
    BY <1>1, <1>3, <1>4, <1>6 DEF JobOk, States
  <1>7. t \notin Slots => state[t] \in {"READY", "RUNNING"}
    BY <1>1 DEF KernelOk, Thread
  <1> QED  BY <1>3, <1>5, <1>6, <1>7

(***************************************************************************)
(* The queues share one pair of links per thread.  Whatever the threads    *)
(* and the interrupts do, a thread is in at most one of them and there     *)
(* once, the current thread in none, every other live thread in one, and   *)
(* thread->state tells which.                                              *)
(***************************************************************************)
THEOREM QueuesCorrect == Spec => []QueuesConsistent
  <1>1. IInv /\ QInv => QueuesConsistent
    BY OneQueueHolds, NoThreadLostHolds
       DEF QueuesConsistent, StateMatchesQueue, QInv, RunOk, NewOk
  <1> QED  BY QInvariance, <1>1, PTL

(***************************************************************************)
(* thread_detach never miscounts: a job's refcount is 1 for the thread     *)
(* itself until thread_exit drops it, plus 1 for the parent until          *)
(* thread_join drops it.                                                   *)
(***************************************************************************)
THEOREM RefcountCorrect == Spec => []RefcountAccurate
  <1>1. QInv => RefcountAccurate
    BY DEF QInv
  <1> QED  BY QInvariance, <1>1, PTL

-----------------------------------------------------------------------------
\* Main sleeps for nobody whose memory it no longer refers to.
LEMMA WaitedForIsHeld ==
    ASSUME IInv, QInv, NEW c \in Slots, WaitsFor(c)
    PROVE  ParentHolds(c)
  <1>1. pc[Main] = "join" /\ c = threads[child]
    BY Known DEF WaitOk
  <1>2. child \in child .. Len(threads)
    BY <1>1, Child
  <1> QED  BY <1>1, <1>2 DEF ParentHolds

\* The threads that wait for their destruction.
LEMMA DoomedAre ==
    ASSUME IInv, QInv, NEW c \in Doomed
    PROVE  /\ c \in Slots /\ (InQueue(c, s_workqueue) \/ c = item)
           /\ state[c] = "EXITED" /\ pc[c] = "gone" /\ ~ParentHolds(c)
           /\ refcount[c] = 0 /\ waitqueue[c] = << >> /\ c # g_current
  <1>1. s_workqueue \in Seq(Slots) /\ item \in Slots \cup {NoThread}
    BY DEF IInv, TypeOK
  <1>2. c \in Slots /\ (InQueue(c, s_workqueue) \/ c = item)
    BY <1>1 DEF Doomed, ToSet, InQueue
  <1>3. DeadOk /\ WaitOk /\ JobOk(c) /\ Counts(c)
    BY <1>2, Known
  <1>4. state[c] = "EXITED" /\ pc[c] = "gone" /\ ~ParentHolds(c)
    BY <1>2, <1>3 DEF DeadOk
  <1>5. refcount[c] = 0
    BY <1>3, <1>4 DEF Counts, SelfHolds
  <1>6. waitqueue[c] = << >>
    BY <1>2, <1>3, <1>4, WaitedForIsHeld DEF WaitOk
  <1> QED  BY <1>2, <1>3, <1>4, <1>5, <1>6 DEF JobOk

(***************************************************************************)
(* Nobody uses a freed struct thread: it is not current, in no queue, not  *)
(* held by its parent and nobody sleeps in it; and what thread_destroy     *)
(* will free is dead, unreferenced and queued once.                        *)
(***************************************************************************)
THEOREM MemoryCorrect == Spec => []NoDanglingReference
  <1>1. IInv /\ QInv => NoDanglingReference
    <2> SUFFICES ASSUME IInv, QInv PROVE NoDanglingReference
      OBVIOUS
    <2>1. WaitOk /\ KernelOk /\ DeadOk /\ \A c \in Slots : JobOk(c)
      BY Known
    <2>2. ASSUME NEW c \in Slots, state[c] = "FREE"
          PROVE  /\ c # g_current /\ c \notin Doomed /\ ~ParentHolds(c)
                 /\ waitqueue[c] = << >>
                 /\ \A n \in QueueNames : ~InQueue(c, Queue(n))
      <3>1. c # g_current /\ ~ParentHolds(c)
        BY <2>1, <2>2 DEF KernelOk, JobOk
      <3>2. c \notin Doomed
        BY <2>2, DoomedAre
      <3>3. waitqueue[c] = << >>
        BY <2>1, <3>1, WaitedForIsHeld DEF WaitOk
      <3>4. \A n \in QueueNames : ~InQueue(c, Queue(n))
        BY <2>2, InWhichQueue, KernelThreads DEF Asleep
      <3> QED  BY <3>1, <3>2, <3>3, <3>4
    <2>3. DOMAIN s_workqueue = 1 .. Len(s_workqueue)
      BY DEF IInv, TypeOK
    <2>4. \A i, j \in DOMAIN s_workqueue : s_workqueue[i] = s_workqueue[j] => i = j
      BY <2>1, <2>3 DEF DeadOk, Distinct
    <2>5. \A i \in DOMAIN s_workqueue : s_workqueue[i] # item
      BY <2>1, <2>3 DEF DeadOk, InQueue
    <2>6. \A c \in Doomed : /\ state[c] = "EXITED" /\ refcount[c] = 0
                            /\ waitqueue[c] = << >> /\ c # g_current
      BY DoomedAre
    <2> QED  BY <2>2, <2>4, <2>5, <2>6 DEF NoDanglingReference
  <1> QED  BY QInvariance, <1>1, PTL

-----------------------------------------------------------------------------
(***************************************************************************)
(* How a step changes thread->state and the run queue.                     *)
(***************************************************************************)
Enqueues ==
    \E h \in Thread : state' = [state EXCEPT ![h] = "READY"] /\ s_runqueue' = RunqueueWith(h)

Exits == \E h \in Slots : state' = [state EXCEPT ![h] = "EXITED"] /\ s_runqueue' = s_runqueue

QueueStep ==
    \/ UNCHANGED << state, s_runqueue >>
    \/ g_current # Idle /\ thread_schedule
    \/ thread_requeue_current
    \/ Enqueues \/ Exits

\* thread_wakeup_one on a queue that is not empty.
LEMMA WakeEnqueues ==
    ASSUME NEW q \in Seq(Thread), q # << >>, thread_wakeup_one(q)
    PROVE  Enqueues
  <1>1. Head(q) \in Thread
    BY RemoveFirstQueue
  <1> QED  BY <1>1 DEF thread_wakeup_one, Enqueues

LEMMA DetachStep ==
    ASSUME IInv, NEW c, NEW t, NEW next, NEW iflag, thread_detach(c, t, next, iflag)
    PROVE  QueueStep /\ UNCHANGED << priority, g_scheduler >>
  <1>1. s_waitqueue \in Seq(Thread)
    BY DEF IInv, TypeOK
  <1>2. UNCHANGED << priority, g_scheduler >>
    BY DEF thread_detach, menuVars
  <1>3. \/ UNCHANGED cpuVars
        \/ s_waitqueue # << >> /\ thread_wakeup_one(s_waitqueue)
    BY Zenon DEF thread_detach
  <1> QED  BY <1>1, <1>2, <1>3, WakeEnqueues DEF QueueStep, cpuVars

LEMMA QueueSteps ==
    ASSUME IInv, [Next]_vars
    PROVE  \/ thread_destroy \/ \E t \in Slots : thread_create_from_job(t)
           \/ get_scheduler \/ get_synch_simulation
           \/ QueueStep /\ UNCHANGED << priority, g_scheduler >>
  <1> USE DEF cpuVars, statVars, jobVars, workVars, intVars, menuVars, simVars, keyVars
  <1>1. CASE UNCHANGED vars
    BY <1>1 DEF vars, QueueStep
  <1>2. CASE MainStep
    <2>1. CASE wait_for_key \/ wait_for_child
      BY <2>1, KernelThreads DEF wait_for_key, wait_for_child, At, QueueStep
    <2>2. CASE \/ InvalidKey \/ main_menu \/ get_quantum \/ get_scheduler_simulation
               \/ ask_for_stats \/ irq_disable_keyboard \/ irq_enable_keyboard
               \/ thread_yield_return(Main) \/ calculate_simulation_stat_halt
      BY <2>2 DEF InvalidKey, main_menu, get_quantum, get_scheduler_simulation, GotKey,
           ask_for_stats, irq_disable_keyboard, irq_enable_keyboard, thread_yield_return,
           calculate_simulation_stat_halt, QueueStep
    <2>3. CASE thread_yield(Main)
      BY <2>3 DEF thread_yield, QueueStep
    <2>4. CASE merge_new_with_runnable
      <3>1. s_newqueue \in Seq(Slots) /\ UNCHANGED << priority, g_scheduler >>
        BY <2>4 DEF merge_new_with_runnable, IInv, TypeOK
      <3>2. CASE s_newqueue = << >>
        BY <2>4, <3>1, <3>2 DEF merge_new_with_runnable, QueueStep
      <3>3. CASE s_newqueue # << >>
        <4>1. Head(s_newqueue) \in Thread
          BY <3>1, <3>3, RemoveFirstQueue, KernelThreads
        <4> QED  BY <2>4, <3>1, <3>3, <4>1 DEF merge_new_with_runnable, QueueStep, Enqueues
      <3> QED  BY <3>2, <3>3
    <2>5. CASE join_child
      BY <2>5, DetachStep DEF join_child
    <2> QED  BY <1>2, <2>1, <2>2, <2>3, <2>4, <2>5, Zenon DEF MainStep
  <1>3. CASE IdleStep
    BY <1>3 DEF IdleStep, thread_run, thread_yield, thread_yield_return, QueueStep
  <1>4. CASE WorkStep
    <2>1. CASE thread_run(WorkQ) \/ workqueue_next
      BY <2>1 DEF thread_run, workqueue_next, QueueStep
    <2>2. CASE workqueue_wait
      BY <2>2, KernelThreads DEF workqueue_wait, At, QueueStep
    <2> QED  BY <1>4, <2>1, <2>2 DEF WorkStep
  <1>5. ASSUME NEW t \in Slots, JobStep(t)
        PROVE  QueueStep /\ UNCHANGED << priority, g_scheduler >>
    <2>1. CASE \/ thread_run(t) \/ job_body(t) \/ toggler_end_atomic(t) \/ poet_lock(t)
               \/ poet_preemption_on(t)
      BY <2>1 DEF thread_run, job_body, toggler_end_atomic, poet_lock, poet_preemption_on,
           JobUnchanged, QueueStep
    <2>2. CASE exit_detach(t)
      BY <2>2, DetachStep DEF exit_detach
    <2>3. CASE exit_state(t)
      BY <2>3 DEF exit_state, QueueStep, Exits
    <2>4. CASE exit_wakeup(t)
      <3>1. /\ g_current # Idle /\ waitqueue[t] \in Seq(Thread)
            /\ UNCHANGED << priority, g_scheduler >>
        BY <2>4, KernelThreads DEF exit_wakeup, At, IInv, TypeOK
      <3>2. \/ waitqueue[t] # << >> /\ thread_wakeup_one(waitqueue[t])
            \/ thread_schedule
        BY <2>4 DEF exit_wakeup
      <3> QED  BY <3>1, <3>2, WakeEnqueues DEF QueueStep
    <2> QED  BY <1>5, <2>1, <2>2, <2>3, <2>4 DEF JobStep
  <1>6. CASE Interrupt
    BY <1>6 DEF Interrupt, timer_process_tick, keyboard_int_handler, QueueStep
  <1>7. CASE Handler
    <2>1. CASE int_handle_interrupt
      BY <2>1 DEF int_handle_interrupt, QueueStep
    <2>2. CASE keyboard_wakeup
      <3>1. s_waitqueue \in Seq(Thread) /\ UNCHANGED << priority, g_scheduler >>
        BY <2>2 DEF keyboard_wakeup, IInv, TypeOK
      <3>2. \/ s_waitqueue # << >> /\ thread_wakeup_one(s_waitqueue)
            \/ UNCHANGED << state, s_runqueue >>
        BY <2>2 DEF keyboard_wakeup
      <3> QED  BY <3>1, <3>2, WakeEnqueues DEF QueueStep
    <2> QED  BY <1>7, <2>1, <2>2 DEF Handler
  <1> QED  BY <1>1, <1>2, <1>3, <1>4, <1>5, <1>6, <1>7, Zenon DEF Next, Halt

(***************************************************************************)
(* thread_destroy frees a struct thread only when its thread has left the  *)
(* CPU for good and lost its last reference; no other step frees one.      *)
(***************************************************************************)
THEOREM DestroyCorrect == Spec => OnlyDeadDestroyed
  <1> DEFINE Dead(c) == state[c] = "EXITED" /\ refcount[c] = 0 /\ pc[c] = "gone"
                          /\ c # g_current
             Safe == \A c \in Slots : state[c] # "FREE" /\ state'[c] = "FREE" => Dead(c)
  <1>1. IInv /\ QInv /\ [Next]_vars => [Safe]_vars
    <2> SUFFICES ASSUME IInv, QInv, [Next]_vars, NEW c \in Slots,
                        state[c] # "FREE", state'[c] = "FREE"
                 PROVE  Dead(c)
      OBVIOUS
    <2>1. state \in [Thread -> States] /\ c \in Thread /\ g_current \in Thread
      BY Known, KernelThreads
    <2>2. CASE thread_destroy
      <3>1. /\ g_current = WorkQ /\ pc[WorkQ] = "run"
            /\ state' = [state EXCEPT ![item] = "FREE"]
        BY <2>2 DEF thread_destroy, At
      <3>2. c = item
        BY <2>1, <3>1
      <3> QED  BY <3>1, <3>2, ItemDead, KernelThreads
    <2>3. CASE \E t \in Slots : thread_create_from_job(t)
      BY <2>1, <2>3 DEF thread_create_from_job
    <2>4. CASE get_scheduler \/ get_synch_simulation
      BY <2>4 DEF get_scheduler, get_synch_simulation, GotKey, cpuVars
    <2>5. CASE QueueStep
      <3>1. CASE UNCHANGED << state, s_runqueue >>
        BY <3>1
      <3>2. CASE thread_schedule
        BY <2>1, <3>2 DEF thread_schedule, SwitchTo
      <3>3. CASE thread_requeue_current
        BY <2>1, <3>3 DEF thread_requeue_current, SwitchTo
      <3>4. CASE Enqueues \/ Exits
        BY <2>1, <3>4 DEF Enqueues, Exits
      <3> QED  BY <2>5, <3>1, <3>2, <3>3, <3>4 DEF QueueStep
    <2> QED  BY <2>2, <2>3, <2>4, <2>5, QueueSteps
  <1> QED  BY QInvariance, <1>1, PTL DEF Spec, OnlyDeadDestroyed

-----------------------------------------------------------------------------
(***************************************************************************)
(* The order of the run queue.                                             *)
(***************************************************************************)
KernelPriorities == \A t \in {Main, Idle, WorkQ} : priority[t] = DEFAULT_PRIORITY

\* The steps that do not touch a priority.
LEMMA QueueStepOrdered ==
    ASSUME IInv, RunqueueOrdered, QueueStep, UNCHANGED << priority, g_scheduler >>
    PROVE  RunqueueOrdered'
  <1> SUFFICES ASSUME g_scheduler \in {"SJF", "PRIORITY"}
               PROVE  Ordered(s_runqueue', priority)
    BY DEF RunqueueOrdered
  <1>1. /\ Ordered(s_runqueue, priority) /\ s_runqueue \in Seq(Thread)
        /\ \A u \in Thread : priority[u] \in Int
        /\ g_current \in Thread /\ TypeOK
    BY DEF RunqueueOrdered, IInv, TypeOK
  <1>2. \A t \in Thread : Ordered(RunqueueWith(t), priority)
    BY <1>1, SchedulerKeepsOrder DEF RunqueueWith
  <1>3. CASE UNCHANGED << state, s_runqueue >> \/ Exits
    BY <1>1, <1>3 DEF Exits
  <1>4. CASE g_current # Idle /\ thread_schedule
    <2>1. s_runqueue # << >>
      BY <1>4 DEF IInv, IdleReady, InQueue
    <2>2. s_runqueue' = Tail(s_runqueue)
      BY <1>4 DEF thread_schedule, SwitchTo
    <2> QED  BY <1>1, <2>1, <2>2, RemoveFirstOrdered
  <1>5. CASE thread_requeue_current
    <2> DEFINE rq == RunqueueWith(g_current)
    <2>1. rq \in Seq(Thread) /\ rq # << >> /\ Ordered(rq, priority)
      BY <1>1, <1>2, MakeRunnable
    <2>2. s_runqueue' = Tail(rq)
      BY <1>5 DEF thread_requeue_current, SwitchTo
    <2> HIDE DEF rq
    <2> QED  BY <1>1, <2>1, <2>2, RemoveFirstOrdered
  <1>6. CASE Enqueues
    BY <1>2, <1>6 DEF Enqueues
  <1> QED  BY <1>3, <1>4, <1>5, <1>6 DEF QueueStep

\* A priority changes only while its thread is not in the run queue.
LEMMA OtherPriority ==
    ASSUME NEW d, ~InQueue(d, s_runqueue), RunqueueOrdered, IInv,
           UNCHANGED << s_runqueue, g_scheduler >>,
           \A u \in Thread : u # d => priority'[u] = priority[u]
    PROVE  RunqueueOrdered'
  <1> SUFFICES ASSUME g_scheduler \in {"SJF", "PRIORITY"}
               PROVE  Ordered(s_runqueue, priority')
    BY DEF RunqueueOrdered
  <1>1. Ordered(s_runqueue, priority) /\ s_runqueue \in Seq(Thread)
    BY DEF RunqueueOrdered, IInv, TypeOK
  <1>2. \A i \in 1 .. Len(s_runqueue) : priority'[s_runqueue[i]] = priority[s_runqueue[i]]
    BY <1>1 DEF InQueue
  <1> QED  BY <1>1, <1>2 DEF Ordered

\* When the scheduler is chosen, only the threads of the kernel are runnable.
LEMMA OnlyKernelRunnable ==
    ASSUME IInv, QInv, threads = << >>
    PROVE  \A i \in 1 .. Len(s_runqueue) : s_runqueue[i] \in {Main, Idle, WorkQ}
  <1> SUFFICES ASSUME NEW i \in 1 .. Len(s_runqueue), s_runqueue[i] \in Slots  PROVE FALSE
    <2>1. s_runqueue \in Seq(Thread)
      BY Known
    <2> QED  BY <2>1 DEF Thread
  <1>1. PICK c \in Slots : c = s_runqueue[i]
    OBVIOUS
  <1>2. c \in Thread /\ InQueue(c, s_runqueue)
    BY <1>1, KernelThreads DEF InQueue
  <1>3. state[c] = "READY" /\ JobOk(c)
    BY <1>2, Known DEF RunOk
  <1>4. ParentHolds(c)
    BY <1>3 DEF JobOk, Live
  <1>5. \A k : k \notin child .. Len(threads)
    <2>1. child \in Nat \ {0}
      BY DEF IInv, TypeOK
    <2> QED  BY <2>1
  <1> QED  BY <1>4, <1>5 DEF ParentHolds

LEMMA OrderInvariance == Spec => [](RunqueueOrdered /\ KernelPriorities)
  <1> DEFINE OInv == RunqueueOrdered /\ KernelPriorities
  <1>1. Init => OInv
    BY KernelThreads DEF Init, RunqueueOrdered, KernelPriorities
  <1>2. IInv /\ QInv /\ OInv /\ [Next]_vars => OInv'
    <2> SUFFICES ASSUME IInv, QInv, RunqueueOrdered, KernelPriorities, [Next]_vars
                 PROVE  RunqueueOrdered' /\ KernelPriorities'
      OBVIOUS
    <2>1. /\ priority \in [Thread -> Nat] /\ s_runqueue \in Seq(Thread) /\ RunOk
          /\ \A c \in Slots : c \in Thread /\ c \notin {Main, Idle, WorkQ}
      BY Known, KernelThreads DEF IInv, TypeOK
    <2>2. CASE QueueStep /\ UNCHANGED << priority, g_scheduler >>
      BY <2>2, QueueStepOrdered DEF KernelPriorities
    <2>3. ASSUME NEW d \in Slots, state[d] # "READY", NEW p,
                 priority' = [priority EXCEPT ![d] = p], UNCHANGED << s_runqueue, g_scheduler >>
          PROVE  RunqueueOrdered' /\ KernelPriorities'
      <3>1. \A u \in Thread : u # d => priority'[u] = priority[u]
        BY <2>1, <2>3
      <3>2. KernelPriorities'
        BY <2>1, <3>1, KernelThreads DEF KernelPriorities
      <3>3. ~InQueue(d, s_runqueue)
        BY <2>1, <2>3 DEF RunOk
      <3> QED  BY <2>3, <3>1, <3>2, <3>3, OtherPriority
    <2>4. CASE thread_destroy
      <3>1. item \in Slots /\ state[item] = "EXITED"
        BY <2>4, ItemDead DEF thread_destroy, At
      <3>2. priority' = [priority EXCEPT ![item] = 0] /\ UNCHANGED << s_runqueue, g_scheduler >>
        BY <2>4 DEF thread_destroy, menuVars
      <3> QED  BY <2>3, <3>1, <3>2
    <2>5. CASE \E t \in Slots : thread_create_from_job(t)
      <3>1. PICK t \in Slots : thread_create_from_job(t)
        BY <2>5
      <3>2. /\ state[t] = "FREE" /\ UNCHANGED << s_runqueue, g_scheduler >>
            /\ priority' = [priority EXCEPT ![t] = JobPriority(simulation[Len(threads) + 1])]
        BY <3>1 DEF thread_create_from_job, menuVars
      <3> QED  BY <2>3, <3>2
    <2>6. CASE get_synch_simulation
      <3>1. g_scheduler' = "RR" /\ priority' = priority
        BY <2>6 DEF get_synch_simulation, GotKey, jobVars
      <3> QED  BY <3>1 DEF RunqueueOrdered, KernelPriorities
    <2>7. CASE get_scheduler
      <3>1. pc[Main] = "scheduler" /\ UNCHANGED << s_runqueue, priority >>
        BY <2>7 DEF get_scheduler, At, GotKey, jobVars, cpuVars
      <3>2. threads = << >>
        BY <3>1 DEF IInv, MainSim, Prompts
      <3>3. \A i \in 1 .. Len(s_runqueue) : priority[s_runqueue[i]] = DEFAULT_PRIORITY
        BY <3>2, OnlyKernelRunnable DEF KernelPriorities
      <3>4. Ordered(s_runqueue, priority)
        BY <3>3, BoundAssumption DEF Ordered
      <3> QED  BY <3>1, <3>4 DEF RunqueueOrdered, KernelPriorities
    <2> QED  BY <2>2, <2>4, <2>5, <2>6, <2>7, QueueSteps
  <1> QED  BY QInvariance, <1>1, <1>2, PTL DEF Spec

(***************************************************************************)
(* SJF and PRIORITY: the run queue is sorted at every moment.  A change of *)
(* the scheduler finds no job in it, and a job's priority never changes    *)
(* while it is there.                                                      *)
(***************************************************************************)
THEOREM OrderCorrect == Spec => []RunqueueOrdered
  BY OrderInvariance, PTL

-----------------------------------------------------------------------------
(***************************************************************************)
(* Wake-ups are not lost, although the work queue thread and the keyboard's*)
(* reader sleep in one queue and thread_detach wakes up only one of them.  *)
(***************************************************************************)
Settles ==
    /\ \A t \in {Main, WorkQ} : InQueue(t, s_waitqueue') => InQueue(t, s_waitqueue)
    /\ s_workqueue' # << >> => s_workqueue # << >>
    /\ keys' > 0 => keys > 0
    /\ isr' # "wakeup" => isr # "wakeup"

LEMMA SettlesKept ==
    ASSUME NoLostKey, NoLostWork, Settles
    PROVE  NoLostKey' /\ NoLostWork'
  BY DEF NoLostKey, NoLostWork, Settles

\* The steps that neither put a thread to sleep nor work or keys in a queue.
LEMMA CalmSteps ==
    ASSUME IInv, QInv,
           \/ UNCHANGED vars
           \/ InvalidKey \/ main_menu \/ get_synch_simulation \/ get_scheduler
           \/ get_quantum \/ get_scheduler_simulation \/ ask_for_stats
           \/ irq_disable_keyboard \/ \E t \in Slots : thread_create_from_job(t)
           \/ merge_new_with_runnable \/ thread_yield(Main) \/ thread_yield_return(Main)
           \/ wait_for_child \/ calculate_simulation_stat_halt \/ irq_enable_keyboard
           \/ IdleStep \/ thread_run(WorkQ) \/ workqueue_next \/ thread_destroy
           \/ \E t \in Slots : JobStep(t)
           \/ timer_process_tick \/ int_handle_interrupt
    PROVE  Settles
  <1> USE DEF cpuVars, statVars, jobVars, workVars, intVars, menuVars, simVars, keyVars
  <1>1. keys \in Nat
    BY BoundAssumption DEF IInv, TypeOK
  <1>2. CASE UNCHANGED << s_waitqueue, s_workqueue, keys, isr >>
    BY <1>2 DEF Settles
  <1>3. CASE GotKey
    <2>1. keys > 0 /\ UNCHANGED << s_waitqueue, s_workqueue, isr >>
      BY <1>3 DEF GotKey
    <2> QED  BY <2>1 DEF Settles
  <1>4. CASE \/ InvalidKey \/ main_menu \/ get_synch_simulation \/ get_scheduler
             \/ get_quantum \/ get_scheduler_simulation \/ ask_for_stats
    BY <1>3, <1>4 DEF InvalidKey, main_menu, get_synch_simulation, get_scheduler,
         get_quantum, get_scheduler_simulation, ask_for_stats
  <1>5. CASE \/ irq_disable_keyboard \/ \E t \in Slots : thread_create_from_job(t)
             \/ merge_new_with_runnable \/ thread_yield(Main) \/ thread_yield_return(Main)
             \/ wait_for_child \/ calculate_simulation_stat_halt \/ irq_enable_keyboard
             \/ UNCHANGED vars
    BY <1>2, <1>5 DEF irq_disable_keyboard, thread_create_from_job,
         merge_new_with_runnable, thread_yield, thread_yield_return, wait_for_child,
         calculate_simulation_stat_halt, irq_enable_keyboard, vars
  <1>6. CASE IdleStep \/ thread_run(WorkQ) \/ thread_destroy
    BY <1>2, <1>6 DEF IdleStep, thread_run, thread_yield, thread_yield_return, thread_destroy
  <1>7. CASE workqueue_next
    <2>1. s_workqueue # << >> /\ UNCHANGED << s_waitqueue, keys, isr >>
      BY <1>7 DEF workqueue_next
    <2> QED  BY <2>1 DEF Settles
  <1>8. CASE timer_process_tick \/ int_handle_interrupt
    <2>1. isr # "wakeup" /\ UNCHANGED << s_waitqueue, s_workqueue, keys >>
      BY <1>8 DEF timer_process_tick, InterruptsEnabled, int_handle_interrupt
    <2> QED  BY <2>1 DEF Settles
  <1>9. ASSUME NEW t \in Slots, JobStep(t)  PROVE Settles
    <2>1. CASE exit_detach(t)
      <3>1. refcount[t] = 2
        BY <2>1, ExitingJob DEF exit_detach, At
      <3> QED  BY <1>2, <2>1, <3>1 DEF exit_detach, thread_detach
    <2>2. CASE ~exit_detach(t)
      BY <1>2, <1>9, <2>2 DEF JobStep, thread_run, job_body, toggler_end_atomic, poet_lock,
           poet_preemption_on, exit_state, exit_wakeup, JobUnchanged
    <2> QED  BY <2>1, <2>2
  <1> QED  BY <1>4, <1>5, <1>6, <1>7, <1>8, <1>9, Zenon

\* When the main thread joins a child, nobody sleeps in s_waitqueue any more.
LEMMA JoinWakes ==
    ASSUME IInv, QInv, join_child
    PROVE  \A t \in {Main, WorkQ} : ~InQueue(t, s_waitqueue')
  <1>1. PICK d \in Slots : d = threads[child] /\ refcount[d] = 1
    BY JoinedChild
  <1>2. /\ g_current = Main
        /\ thread_detach(d, Main, IF child < Len(threads) THEN "yield" ELSE "unmask", TRUE)
    BY <1>1 DEF join_child, At
  <1>3. ~(refcount[d] > 1)
    BY <1>1
  <1>4. \/ s_waitqueue' = s_waitqueue /\ s_waitqueue = << >>
        \/ /\ s_waitqueue # << >> /\ thread_wakeup_one(s_waitqueue)
           /\ s_waitqueue' = Tail(s_waitqueue)
    BY <1>2, <1>3, Zenon DEF thread_detach
  <1>5. CASE s_waitqueue' = s_waitqueue /\ s_waitqueue = << >>
    BY <1>5 DEF InQueue
  <1>6. CASE /\ s_waitqueue # << >> /\ thread_wakeup_one(s_waitqueue)
             /\ s_waitqueue' = Tail(s_waitqueue)
    <2>1. PICK h \in {Main, WorkQ} :
             /\ InQueue(h, s_waitqueue)
             /\ \A u : InQueue(u, s_waitqueue') <=> InQueue(u, s_waitqueue) /\ u # h
      BY <1>6, WakeFirst
    <2> QED  BY <1>2, <2>1, MainAwake, KernelThreads
  <1> QED  BY <1>4, <1>5, <1>6

LEMMA WakeupsKept ==
    ASSUME IInv, QInv, NoLostKey, NoLostWork, [Next]_vars
    PROVE  NoLostKey' /\ NoLostWork'
  <1> USE DEF cpuVars, statVars, jobVars, workVars, intVars, menuVars, simVars, keyVars
  <1>0. s_waitqueue \in Seq(Thread) /\ Main \in Thread /\ WorkQ \in Thread /\ Main # WorkQ
    BY Known, KernelThreads
  <1>1. CASE wait_for_key
    <2>1. /\ keys' = 0 /\ s_workqueue' = s_workqueue
          /\ s_waitqueue' = Append(s_waitqueue, Main)
      BY <1>1 DEF wait_for_key
    <2>2. InQueue(WorkQ, s_waitqueue') => InQueue(WorkQ, s_waitqueue)
      BY <1>0, <2>1, AppendQueue
    <2> QED  BY <2>1, <2>2 DEF NoLostKey, NoLostWork
  <1>2. CASE workqueue_wait
    <2>1. /\ s_workqueue' = << >> /\ keys' = keys /\ isr' = isr
          /\ s_waitqueue' = Append(s_waitqueue, WorkQ)
      BY <1>2 DEF workqueue_wait
    <2>2. InQueue(Main, s_waitqueue') => InQueue(Main, s_waitqueue)
      BY <1>0, <2>1, AppendQueue
    <2> QED  BY <2>1, <2>2 DEF NoLostKey, NoLostWork
  <1>3. CASE join_child
    BY <1>3, JoinWakes DEF NoLostKey, NoLostWork
  <1>4. CASE keyboard_int_handler
    <2>1. /\ isr = "none" /\ (isr' = "wakeup" \/ keys' = keys)
          /\ UNCHANGED << s_waitqueue, s_workqueue >>
      BY <1>4 DEF keyboard_int_handler, InterruptsEnabled
    <2> QED  BY <2>1 DEF NoLostKey, NoLostWork
  <1>5. CASE keyboard_wakeup
    <2>1. s_workqueue' = s_workqueue /\ keys' = keys /\ isr = "wakeup"
      BY <1>5 DEF keyboard_wakeup
    <2>2. CASE s_waitqueue = << >>
      <3>1. s_waitqueue' = << >>
        BY <1>5, <2>2 DEF keyboard_wakeup
      <3>2. \A t : ~InQueue(t, << >>)
        BY DEF InQueue
      <3> QED  BY <3>1, <3>2 DEF NoLostKey, NoLostWork
    <2>3. CASE s_waitqueue # << >>
      <3>1. s_waitqueue' = Tail(s_waitqueue) /\ isr' = isr
        BY <1>5, <2>3 DEF keyboard_wakeup
      <3>2. \A t : InQueue(t, s_waitqueue') => InQueue(t, s_waitqueue)
        BY <1>0, <2>3, <3>1, RemoveFirstQueue
      <3> QED  BY <2>1, <3>1, <3>2 DEF NoLostKey, NoLostWork
    <2> QED  BY <2>2, <2>3
  <1>6. CASE ~( \/ wait_for_key \/ workqueue_wait \/ join_child
                \/ keyboard_int_handler \/ keyboard_wakeup)
    <2>1. Settles
      BY <1>6, CalmSteps, Zenon DEF Next, MainStep, WorkStep, Interrupt, Handler, Halt
    <2> QED  BY <2>1, SettlesKept
  <1> QED  BY <1>1, <1>2, <1>3, <1>4, <1>5, <1>6

LEMMA WakeupInvariance == Spec => [](NoLostKey /\ NoLostWork)
  <1>1. Init => NoLostKey /\ NoLostWork
    BY DEF Init, NoLostKey, NoLostWork
  <1>2. IInv /\ QInv /\ NoLostKey /\ NoLostWork /\ [Next]_vars => NoLostKey' /\ NoLostWork'
    BY WakeupsKept
  <1> QED  BY QInvariance, <1>1, <1>2, PTL DEF Spec

(***************************************************************************)
(* The main thread never sleeps in wait_for_key while a key is available,  *)
(* once the handler that queued it has run its wake-up loop.               *)
(***************************************************************************)
THEOREM KeysCorrect == Spec => []NoLostKey
  BY WakeupInvariance, PTL

(***************************************************************************)
(* workqueue_schedule_work's single wake-up reaches the work queue thread: *)
(* it never sleeps while an item is queued.                                *)
(***************************************************************************)
THEOREM WorkCorrect == Spec => []NoLostWork
  BY WakeupInvariance, PTL

-----------------------------------------------------------------------------
(***************************************************************************)
(* Without RR.  The kernel can fail an assertion under RR: thread_detach   *)
(* wakes up the work queue thread, and the queue it sleeps in may be empty.*)
(* Under the other schedulers the yield before every thread_join lets that *)
(* thread finish and fall asleep first.                                    *)
(***************************************************************************)
Cooperative == "RR" \notin Schedulers /\ SynchSims = {}

\* Outside run_simulation, where the keyboard's interrupt is unmasked.
Outside == pc[Main] \in Prompts \cup {"mask", "halt"} /\ threads = << >>

\* A switch is asked for by the keyboard only, and not while jobs exist.
CoopOk ==
    /\ g_scheduler # "RR"
    /\ isr = "wakeup" => keyb_irq
    /\ g_need_reschedule = TRUE => isr = "return" /\ keyb_irq
    /\ keyb_irq => Outside

(***************************************************************************)
(* The work queue thread sleeps while the main thread is in thread_join,   *)
(* because it gets the CPU before the main thread returns from the yield.  *)
(***************************************************************************)
WorkDone ==
    /\ pc[Main] = "join" => Asleep(WorkQ)
    /\ pc[Main] = "yielded" => \/ Asleep(WorkQ) \/ g_current = WorkQ
                               \/ Before(WorkQ, Main, s_runqueue)

HaltOk == pc[Main] = "halt" => intr[Main] = TRUE

CInv == CoopOk /\ WorkDone /\ HaltOk

\* Outside run_simulation no job has the CPU.
LEMMA NoJobOutside ==
    ASSUME IInv, QInv, Outside
    PROVE  g_current \notin Slots
  <1> SUFFICES ASSUME g_current \in Slots PROVE FALSE
    OBVIOUS
  <1>1. PICK c \in Slots : c = g_current
    OBVIOUS
  <1>2. JobOk(c) /\ state[c] \in {"RUNNING", "EXITED"}
    BY <1>1, Known DEF KernelOk
  <1>3. ParentHolds(c)
    BY <1>1, <1>2 DEF JobOk
  <1>4. \A k : k \notin child .. Len(threads)
    <2>1. child \in Nat \ {0} /\ threads = << >>
      BY DEF IInv, TypeOK, Outside
    <2> QED  BY <2>1
  <1> QED  BY <1>3, <1>4 DEF ParentHolds

\* A thread's own steps are taken with no handler and no switch pending.
LEMMA CoopFrame ==
    ASSUME CoopOk, isr = "none", isr' = isr, g_need_reschedule' = g_need_reschedule,
           g_scheduler' # "RR", keyb_irq' => Outside'
    PROVE  CoopOk'
  BY DEF CoopOk

\* The steps of the main thread: it masks the keyboard before it creates a job.
LEMMA MainCoop ==
    ASSUME Cooperative, IInv, QInv, CoopOk, MainStep
    PROVE  CoopOk'
  <1> USE DEF cpuVars, statVars, jobVars, workVars, intVars, menuVars, simVars, keyVars
  <1>0. /\ pc \in [Thread -> AllPC] /\ Main \in Thread
        /\ \A t \in Slots : t # Main
    BY Known, KernelThreads
  <1>1. isr = "none" /\ isr' = isr /\ g_need_reschedule' = g_need_reschedule
    BY DEF MainStep, wait_for_key, InvalidKey, main_menu, get_synch_simulation,
         get_scheduler, get_quantum, get_scheduler_simulation, ask_for_stats,
         irq_disable_keyboard, thread_create_from_job, merge_new_with_runnable,
         thread_yield, thread_yield_return, wait_for_child,
         calculate_simulation_stat_halt, join_child, irq_enable_keyboard, GotKey, At,
         thread_detach
  <1>2. CASE wait_for_key
    <2>1. UNCHANGED << pc, threads, keyb_irq, g_scheduler >>
      BY <1>2 DEF wait_for_key
    <2> QED  BY <1>1, <2>1, CoopFrame DEF CoopOk, Outside
  <1>3. CASE \/ InvalidKey \/ main_menu \/ get_synch_simulation \/ get_scheduler
             \/ get_quantum \/ get_scheduler_simulation \/ ask_for_stats
    <2>1. threads' = threads /\ keyb_irq' = keyb_irq
      BY <1>3 DEF InvalidKey, main_menu, get_synch_simulation, get_scheduler, get_quantum,
           get_scheduler_simulation, ask_for_stats, GotKey
    <2>2. g_scheduler' # "RR"
      BY <1>3 DEF InvalidKey, main_menu, get_synch_simulation, get_scheduler, get_quantum,
           get_scheduler_simulation, ask_for_stats, Cooperative, CoopOk
    <2>3. pc'[Main] \in Prompts \cup {"mask", "halt"}
      <3>1. CASE InvalidKey
        BY <3>1 DEF InvalidKey, GotKey
      <3>2. CASE \E l \in Prompts \cup {"mask", "halt"} : pc' = [pc EXCEPT ![Main] = l]
        BY <1>0, <3>2
      <3>3. CASE main_menu
        BY <3>2, <3>3 DEF main_menu, Goto, Prompts
      <3>4. CASE get_synch_simulation \/ get_quantum \/ get_scheduler_simulation
        BY <3>2, <3>4 DEF get_synch_simulation, get_quantum, get_scheduler_simulation,
             Goto, Prompts
      <3>5. CASE get_scheduler
        BY <3>2, <3>5 DEF get_scheduler, Goto, Prompts
      <3>6. CASE ask_for_stats
        BY <3>2, <3>6 DEF ask_for_stats, Goto, Prompts
      <3> QED  BY <1>3, <3>1, <3>3, <3>4, <3>5, <3>6
    <2> QED  BY <1>1, <2>1, <2>2, <2>3, CoopFrame DEF CoopOk, Outside
  <1>4. CASE irq_disable_keyboard
    <2>1. keyb_irq' = FALSE /\ UNCHANGED g_scheduler
      BY <1>4 DEF irq_disable_keyboard
    <2> QED  BY <1>1, <2>1, CoopFrame DEF CoopOk
  <1>5. CASE irq_enable_keyboard
    <2>1. /\ threads' = << >> /\ pc' = [pc EXCEPT ![Main] = "stats"] /\ UNCHANGED g_scheduler
      BY <1>5 DEF irq_enable_keyboard, Goto
    <2>2. pc'[Main] = "stats"
      BY <1>0, <2>1
    <2> QED  BY <1>1, <2>1, <2>2, CoopFrame DEF CoopOk, Outside, Prompts
  <1>6. CASE \/ \E t \in Slots : thread_create_from_job(t)
             \/ merge_new_with_runnable \/ thread_yield(Main) \/ thread_yield_return(Main)
             \/ wait_for_child \/ calculate_simulation_stat_halt \/ join_child
    <2>1. /\ pc[Main] \in {"create", "merge", "yield", "yielded", "join"}
          /\ UNCHANGED << keyb_irq, g_scheduler >>
      BY <1>6 DEF thread_create_from_job, merge_new_with_runnable, thread_yield,
           thread_yield_return, wait_for_child, calculate_simulation_stat_halt, join_child,
           thread_detach, At
    <2>2. ~keyb_irq'
      BY <2>1 DEF CoopOk, Outside, Prompts
    <2> QED  BY <1>1, <2>1, <2>2, CoopFrame DEF CoopOk
  <1> QED  BY <1>2, <1>3, <1>4, <1>5, <1>6, Zenon DEF MainStep

\* The other threads leave the main thread where it is.
MainUntouched == pc'[Main] = pc[Main] /\ intr'[Main] = intr[Main]

LEMMA ElsewhereUntouched ==
    ASSUME IInv, NEW t \in Thread, t # Main,
           pc' = pc \/ \E l : pc' = [pc EXCEPT ![t] = l],
           intr' = intr \/ \E b : intr' = [intr EXCEPT ![t] = b]
    PROVE  MainUntouched
  <1>1. pc \in [Thread -> AllPC] /\ intr \in [Thread -> BOOLEAN] /\ Main \in Thread
    BY KernelThreads DEF IInv, TypeOK, AllPC
  <1>2. pc'[Main] = pc[Main]
    BY <1>1
  <1>3. intr'[Main] = intr[Main]
    BY <1>1
  <1> QED  BY <1>2, <1>3 DEF MainUntouched

LEMMA OtherStep ==
    ASSUME IInv, QInv, IdleStep \/ WorkStep \/ \E t \in Slots : JobStep(t)
    PROVE  /\ isr = "none" /\ MainUntouched
           /\ UNCHANGED << isr, g_need_reschedule, g_scheduler, keyb_irq, threads >>
  <1> USE DEF cpuVars, statVars, jobVars, workVars, intVars, menuVars, simVars, keyVars
  <1>0. /\ Idle \in Thread /\ WorkQ \in Thread /\ Idle # Main /\ WorkQ # Main
        /\ \A t \in Slots : t \in Thread /\ t # Main
    BY KernelThreads
  <1>1. CASE IdleStep
    <2>1. /\ isr = "none"
          /\ UNCHANGED << isr, g_need_reschedule, g_scheduler, keyb_irq, threads >>
      BY <1>1 DEF IdleStep, thread_run, thread_yield, thread_yield_return, At
    <2>2. /\ \E l : pc' = [pc EXCEPT ![Idle] = l]
          /\ \E b : intr' = [intr EXCEPT ![Idle] = b]
      BY <1>1, Zenon DEF IdleStep, thread_run, thread_yield, thread_yield_return, Goto, SetIntr
    <2> QED  BY <1>0, <2>1, <2>2, ElsewhereUntouched
  <1>2. CASE thread_run(WorkQ) \/ workqueue_wait \/ workqueue_next
    <2>1. /\ isr = "none"
          /\ UNCHANGED << isr, g_need_reschedule, g_scheduler, keyb_irq, threads >>
      BY <1>2 DEF thread_run, workqueue_wait, workqueue_next, At
    <2>2. /\ pc' = pc \/ \E l : pc' = [pc EXCEPT ![WorkQ] = l]
          /\ \E b : intr' = [intr EXCEPT ![WorkQ] = b]
      BY <1>2, Zenon DEF thread_run, workqueue_wait, workqueue_next, Goto, SetIntr
    <2> QED  BY <1>0, <2>1, <2>2, ElsewhereUntouched
  <1>3. CASE thread_destroy
    <2>1. /\ isr = "none" /\ pc[WorkQ] = "run" /\ intr' = intr
          /\ UNCHANGED << isr, g_need_reschedule, g_scheduler, keyb_irq, threads >>
          /\ pc' = [pc EXCEPT ![item] = "start", ![WorkQ] = "loop"]
      BY <1>3 DEF thread_destroy, At
    <2>2. item # Main
      BY <1>0, <2>1, ItemDead
    <2>3. pc'[Main] = pc[Main]
      <3>1. pc \in [Thread -> AllPC] /\ Main \in Thread
        BY Known, KernelThreads
      <3> QED  BY <1>0, <2>1, <2>2, <3>1
    <2> QED  BY <2>1, <2>3 DEF MainUntouched
  <1>4. ASSUME NEW t \in Slots, JobStep(t)
        PROVE  /\ isr = "none" /\ MainUntouched
               /\ UNCHANGED << isr, g_need_reschedule, g_scheduler, keyb_irq, threads >>
    <2>1. /\ isr = "none"
          /\ UNCHANGED << isr, g_need_reschedule, g_scheduler, keyb_irq, threads >>
      BY <1>4 DEF JobStep, thread_run, job_body, toggler_end_atomic, poet_lock,
           poet_preemption_on, exit_detach, exit_state, exit_wakeup, thread_detach,
           JobUnchanged, At
    <2>2. pc' = pc \/ \E l : pc' = [pc EXCEPT ![t] = l]
      <3>1. CASE job_body(t)
        <4>1. fn[t] \in {"fn", "toggler", "poet"}
          BY DEF IInv, TypeOK
        <4> QED  BY <3>1, <4>1 DEF job_body, Goto
      <3>2. CASE exit_detach(t)
        BY <3>2, Zenon DEF exit_detach, thread_detach, Goto
      <3>3. CASE exit_wakeup(t)
        BY <3>3 DEF exit_wakeup, Goto
      <3>4. CASE \/ thread_run(t) \/ toggler_end_atomic(t) \/ poet_lock(t)
                 \/ poet_preemption_on(t) \/ exit_state(t)
        BY <3>4, Zenon DEF thread_run, toggler_end_atomic, poet_lock, poet_preemption_on,
             exit_state, Goto
      <3> QED  BY <1>4, <3>1, <3>2, <3>3, <3>4 DEF JobStep
    <2>3. intr' = intr \/ \E b : intr' = [intr EXCEPT ![t] = b]
      <3>1. CASE job_body(t)
        <4>1. fn[t] \in {"fn", "toggler", "poet"}
          BY DEF IInv, TypeOK
        <4> QED  BY <3>1, <4>1 DEF job_body, SetIntr
      <3>2. CASE exit_detach(t)
        BY <3>2, Zenon DEF exit_detach, thread_detach, SetIntr
      <3>3. CASE thread_run(t) \/ toggler_end_atomic(t)
        BY <3>3, Zenon DEF thread_run, toggler_end_atomic, SetIntr
      <3>4. CASE poet_lock(t) \/ poet_preemption_on(t) \/ exit_state(t) \/ exit_wakeup(t)
        BY <3>4 DEF poet_lock, poet_preemption_on, exit_state, exit_wakeup
      <3> QED  BY <1>4, <3>1, <3>2, <3>3, <3>4 DEF JobStep
    <2> QED  BY <1>0, <2>1, <2>2, <2>3, ElsewhereUntouched
  <1> QED  BY <1>1, <1>2, <1>3, <1>4, Zenon DEF WorkStep

LEMMA CoopKept ==
    ASSUME Cooperative, IInv, QInv, PreemptOff, CoopOk, [Next]_vars
    PROVE  CoopOk'
  <1> USE DEF cpuVars, statVars, jobVars, workVars, intVars, menuVars, simVars, keyVars
  <1>1. CASE IdleStep \/ WorkStep \/ \E t \in Slots : JobStep(t)
    <2>1. /\ isr = "none" /\ isr' = isr /\ g_need_reschedule' = g_need_reschedule
          /\ g_scheduler' = g_scheduler /\ keyb_irq' = keyb_irq /\ threads' = threads
          /\ pc'[Main] = pc[Main]
      BY <1>1, OtherStep DEF MainUntouched
    <2> QED  BY <2>1, CoopFrame DEF CoopOk, Outside
  <1>2. CASE timer_process_tick
    <2>1. /\ isr = "none" /\ isr' = "return" /\ UNCHANGED << g_scheduler, keyb_irq, pc, threads >>
          /\ g_need_reschedule' = (g_need_reschedule
                                     \/ (g_scheduler = "RR" /\ num_ticks + 1 > g_quantum))
      BY <1>2 DEF timer_process_tick, InterruptsEnabled
    <2>2. g_need_reschedule = FALSE /\ g_scheduler # "RR"
      BY <2>1 DEF CoopOk, IInv, TypeOK
    <2>3. g_need_reschedule' = FALSE
      BY <2>1, <2>2, Zenon
    <2> QED  BY <2>1, <2>3 DEF CoopOk, Outside
  <1>3. CASE keyboard_int_handler
    <2>1. /\ isr = "none" /\ isr' \in {"return", "wakeup"} /\ keyb_irq
          /\ UNCHANGED << g_scheduler, g_need_reschedule, keyb_irq, pc, threads >>
      BY <1>3 DEF keyboard_int_handler, InterruptsEnabled
    <2> QED  BY <2>1 DEF CoopOk, Outside
  <1>4. CASE keyboard_wakeup
    <2>1. /\ isr = "wakeup" /\ UNCHANGED << g_scheduler, keyb_irq, pc, threads >>
          /\ isr' = "return" \/ UNCHANGED << isr, g_need_reschedule >>
      BY <1>4 DEF keyboard_wakeup
    <2> QED  BY <2>1 DEF CoopOk, Outside
  <1>5. CASE int_handle_interrupt
    <2>1. isr' = "none" /\ UNCHANGED << g_scheduler, keyb_irq, pc, threads >>
      BY <1>5 DEF int_handle_interrupt
    <2>2. g_need_reschedule' # TRUE
      <3>1. CASE g_need_reschedule = TRUE
        <4>1. g_current \notin Slots
          BY <3>1, NoJobOutside DEF CoopOk
        <4>2. pc[g_current] \notin {"locking", "unlocking"}
          <5>1. g_current \in {Main, Idle, WorkQ}
            BY <4>1, Known DEF Thread
          <5> QED  BY <5>1 DEF IInv, Labels, MainPC, Prompts, IdlePC, WorkPC
        <4>3. g_preemption = TRUE
          BY <4>2 DEF PreemptOff
        <4>4. g_need_reschedule' = FALSE
          BY <1>5, <3>1, <4>3 DEF int_handle_interrupt
        <4> QED  BY <4>4
      <3>2. CASE g_need_reschedule = FALSE
        BY <1>5, <3>2 DEF int_handle_interrupt
      <3> QED  BY <3>1, <3>2 DEF IInv, TypeOK
    <2> QED  BY <2>1, <2>2 DEF CoopOk, Outside
  <1>6. CASE UNCHANGED vars
    BY <1>6 DEF vars, CoopOk, Outside
  <1> QED  BY <1>1, <1>2, <1>3, <1>4, <1>5, <1>6, MainCoop, Zenon
             DEF Next, Interrupt, Handler, Halt

-----------------------------------------------------------------------------
\* Steps that do not touch the CPU, while the main thread stays where it is.
LEMMA WorkStill ==
    ASSUME WorkDone, UNCHANGED << g_current, s_runqueue, state >>, pc'[Main] = pc[Main]
    PROVE  WorkDone'
  BY DEF WorkDone, Asleep

\* The current thread leaves the CPU: nobody overtakes the work queue thread.
LEMMA WorkAfterSwitch ==
    ASSUME IInv, QInv, WorkDone, g_current # Idle, thread_schedule, pc'[Main] = pc[Main]
    PROVE  WorkDone'
  <1>1. Asleep(WorkQ) => Asleep(WorkQ)'
    BY SwitchedAway, KernelThreads
  <1>2. g_current = WorkQ => Asleep(WorkQ)'
    BY SwitchedAway, CurrentKernel, KernelThreads
  <1>3. Before(WorkQ, Main, s_runqueue) =>
           g_current' = WorkQ \/ Before(WorkQ, Main, s_runqueue')
    <2>1. s_runqueue \in Seq(Thread) /\ s_runqueue # << >>
      BY DEF IInv, TypeOK, IdleReady, InQueue
    <2>2. g_current' = Head(s_runqueue) /\ s_runqueue' = Tail(s_runqueue)
      BY DEF thread_schedule, SwitchTo
    <2> QED  BY <2>1, <2>2, RemoveFirstBefore
  <1> QED  BY <1>1, <1>2, <1>3 DEF WorkDone

\* A thread ahead of another in the run queue that thread_requeue_current builds stays
\* ahead of it, or is the one that gets the CPU.
LEMMA RequeueBefore ==
    ASSUME IInv, NEW a, NEW b, thread_requeue_current,
           Before(a, b, RunqueueWith(g_current))
    PROVE  g_current' = a \/ Before(a, b, s_runqueue')
  <1> DEFINE rq == RunqueueWith(g_current)
  <1>1. rq \in Seq(Thread) /\ rq # << >>
    BY MakeRunnable DEF IInv, TypeOK
  <1>2. g_current' = Head(rq) /\ s_runqueue' = Tail(rq)
    BY DEF thread_requeue_current, SwitchTo
  <1> HIDE DEF rq
  <1>3. Before(a, b, rq)
    BY DEF rq
  <1> QED  BY <1>1, <1>2, <1>3, RemoveFirstBefore

\* The work queue thread goes on sleeping while another kernel thread is requeued.
LEMMA RequeueAsleep ==
    ASSUME IInv, QInv, thread_requeue_current, g_current \in {Main, Idle}, Asleep(WorkQ)
    PROVE  Asleep(WorkQ)'
  <1>1. state[g_current] = "RUNNING"
    BY CurrentKernel, KernelThreads
  <1>2. Requeued
    BY <1>1, RequeueRun DEF QInv
  <1> QED  BY <1>2, KernelThreads DEF Requeued, Asleep

\* A yield of the main thread puts it behind the work queue thread, one of the idle thread
\* overtakes nobody.
LEMMA YieldWork ==
    ASSUME IInv, QInv, RunqueueOrdered, KernelPriorities, WorkDone,
           thread_yield(Main) \/ thread_yield(Idle)
    PROVE  WorkDone'
  <1>1. /\ s_runqueue \in Seq(Thread) /\ priority \in [Thread -> Nat]
        /\ pc \in [Thread -> AllPC] /\ thread_requeue_current
        /\ \A u \in Thread : priority[u] \in Int
        /\ Main \in Thread /\ Idle \in Thread /\ WorkQ \in Thread
        /\ Main # Idle /\ Main # WorkQ /\ Idle # WorkQ
    <2>1. thread_requeue_current
      BY DEF thread_yield
    <2>2. s_runqueue \in Seq(Thread) /\ priority \in [Thread -> Nat] /\ pc \in [Thread -> AllPC]
      BY Known DEF IInv, TypeOK
    <2>3. \A u \in Thread : priority[u] \in Int
      BY <2>2
    <2> QED  BY <2>1, <2>2, <2>3, KernelThreads
  <1>2. g_scheduler \in {"SJF", "PRIORITY"} => Ordered(s_runqueue, priority)
    BY DEF RunqueueOrdered
  <1>3. CASE thread_yield(Main)
    <2>1. g_current = Main /\ pc' = [pc EXCEPT ![Main] = "yielded"]
      BY <1>3 DEF thread_yield, At, Goto
    <2>2. pc'[Main] = "yielded"
      BY <1>1, <2>1
    <2>3. CASE state[WorkQ] = "READY"
      <3>1. InQueue(WorkQ, s_runqueue)
        BY <1>1, <2>3, Known DEF RunOk
      <3>2. priority[WorkQ] <= priority[Main]
        BY BoundAssumption DEF KernelPriorities
      <3>3. Before(WorkQ, Main, RunqueueWith(Main))
        BY <1>1, <1>2, <3>1, <3>2, SchedulerFair DEF RunqueueWith
      <3>4. g_current' = WorkQ \/ Before(WorkQ, Main, s_runqueue')
        BY <1>1, <2>1, <3>3, RequeueBefore
      <3> QED  BY <2>2, <3>4 DEF WorkDone
    <2>4. CASE state[WorkQ] # "READY"
      <3>1. Asleep(WorkQ)
        BY <1>1, <2>1, <2>4, Known DEF KernelOk, Asleep
      <3>2. Asleep(WorkQ)'
        BY <1>1, <2>1, <3>1, RequeueAsleep
      <3> QED  BY <2>2, <3>2 DEF WorkDone
    <2> QED  BY <2>3, <2>4
  <1>4. CASE thread_yield(Idle)
    <2>1. g_current = Idle /\ pc' = [pc EXCEPT ![Idle] = "yielded"]
      BY <1>4 DEF thread_yield, At, Goto
    <2>2. pc'[Main] = pc[Main]
      BY <1>1, <2>1
    <2>3. Asleep(WorkQ) => Asleep(WorkQ)'
      BY <1>1, <2>1, RequeueAsleep
    <2>4. Before(WorkQ, Main, s_runqueue) =>
             g_current' = WorkQ \/ Before(WorkQ, Main, s_runqueue')
      <3>1. Before(WorkQ, Main, s_runqueue) => Before(WorkQ, Main, RunqueueWith(Idle))
        BY <1>1, SchedulerKeepsBefore DEF RunqueueWith
      <3> QED  BY <1>1, <2>1, <3>1, RequeueBefore
    <2> QED  BY <1>1, <2>1, <2>2, <2>3, <2>4 DEF WorkDone
  <1> QED  BY <1>3, <1>4

\* The steps of the main thread: in join_child the wait queue of the work queue thread is
\* not empty, so the assertion of thread_wakeup_one holds.
LEMMA MainWork ==
    ASSUME Cooperative, IInv, QInv, RunqueueOrdered, KernelPriorities, CInv, MainStep
    PROVE  WorkDone' /\ HaltOk'
  <1> USE DEF cpuVars, statVars, jobVars, workVars, intVars, menuVars, simVars, keyVars
  <1>0. /\ pc \in [Thread -> AllPC] /\ intr \in [Thread -> BOOLEAN]
        /\ Main \in Thread /\ Idle \in Thread /\ WorkQ \in Thread
        /\ Main # Idle /\ Main # WorkQ /\ WorkDone
    BY Known, KernelThreads DEF CInv
  <1>1. ASSUME NEW l, pc' = [pc EXCEPT ![Main] = l], l \notin {"join", "yielded", "halt"}
        PROVE  WorkDone' /\ HaltOk'
    <2>1. pc'[Main] = l
      BY <1>0, <1>1
    <2> QED  BY <1>1, <2>1 DEF WorkDone, HaltOk
  <1>2. CASE wait_for_key \/ InvalidKey
    <2>1. pc[Main] \in Prompts /\ pc' = pc
      BY <1>2 DEF wait_for_key, InvalidKey, GotKey
    <2> QED  BY <2>1 DEF WorkDone, HaltOk, Prompts
  <1>3. CASE main_menu \/ get_synch_simulation \/ get_quantum \/ get_scheduler_simulation
    <2>1. \E l \in {"synch", "scheduler", "mask", "joblist"} : pc' = [pc EXCEPT ![Main] = l]
      BY <1>3 DEF main_menu, get_synch_simulation, get_quantum, get_scheduler_simulation, Goto
    <2> QED  BY <1>1, <2>1
  <1>4. CASE get_scheduler
    <2>1. \E l \in {"quantum", "joblist"} : pc' = [pc EXCEPT ![Main] = l]
      BY <1>4 DEF get_scheduler, Goto
    <2> QED  BY <1>1, <2>1
  <1>5. CASE ask_for_stats
    <2>1. intr' = [intr EXCEPT ![Main] = TRUE]
      BY <1>5, Zenon DEF ask_for_stats, GotKey, SetIntr
    <2>2. intr'[Main] = TRUE
      BY <1>0, <2>1
    <2>3. \E l \in {"mode", "halt"} : pc' = [pc EXCEPT ![Main] = l]
      BY <1>5 DEF ask_for_stats, Goto
    <2>4. pc'[Main] \in {"mode", "halt"}
      BY <1>0, <2>3
    <2> QED  BY <2>2, <2>4 DEF WorkDone, HaltOk
  <1>6. CASE irq_disable_keyboard \/ irq_enable_keyboard
    <2>1. \E l \in {"create", "stats"} : pc' = [pc EXCEPT ![Main] = l]
      BY <1>6 DEF irq_disable_keyboard, irq_enable_keyboard, Goto
    <2> QED  BY <1>1, <2>1
  <1>7. CASE \E t \in Slots : thread_create_from_job(t)
    <2>1. \E l \in {"create", "merge"} : pc' = [pc EXCEPT ![Main] = l]
      BY <1>7 DEF thread_create_from_job, Goto
    <2> QED  BY <1>1, <2>1
  <1>8. CASE merge_new_with_runnable
    <2>1. pc[Main] = "merge" /\ (pc' = pc \/ pc' = [pc EXCEPT ![Main] = "yield"])
      BY <1>8 DEF merge_new_with_runnable, At, Goto
    <2>2. pc' = pc => WorkDone' /\ HaltOk'
      BY <2>1 DEF WorkDone, HaltOk
    <2> QED  BY <1>1, <2>1, <2>2
  <1>9. CASE thread_yield(Main)
    <2>1. pc' = [pc EXCEPT ![Main] = "yielded"]
      BY <1>9 DEF thread_yield, Goto
    <2>2. pc'[Main] = "yielded"
      BY <1>0, <2>1
    <2> QED  BY <1>0, <1>9, <2>2, YieldWork DEF HaltOk
  <1>10. CASE thread_yield_return(Main)
    <2>1. /\ g_current = Main /\ pc[Main] = "yielded" /\ pc' = [pc EXCEPT ![Main] = "join"]
          /\ UNCHANGED << g_current, state >>
      BY <1>10 DEF thread_yield_return, At, Goto
    <2>2. ~Before(WorkQ, Main, s_runqueue)
      <3>1. ~InQueue(Main, s_runqueue)
        BY <1>0, <2>1, Known DEF RunOk, KernelOk
      <3> QED  BY <3>1 DEF Before, InQueue
    <2>3. Asleep(WorkQ)
      BY <1>0, <2>1, <2>2 DEF WorkDone
    <2>4. Asleep(WorkQ)' /\ pc'[Main] = "join"
      BY <1>0, <2>1, <2>3 DEF Asleep
    <2> QED  BY <2>4 DEF WorkDone, HaltOk
  <1>11. CASE wait_for_child
    <2>1. g_current = Main /\ pc[Main] = "join" /\ pc' = pc /\ thread_schedule
      BY <1>11 DEF wait_for_child, At
    <2>2. WorkDone'
      BY <1>0, <2>1, WorkAfterSwitch
    <2> QED  BY <2>1, <2>2 DEF HaltOk
  <1>12. CASE join_child
    <2>1. PICK d \in Slots : d = threads[child] /\ refcount[d] = 1
      BY <1>12, JoinedChild
    <2>2. /\ pc[Main] = "join"
          /\ thread_detach(d, Main, IF child < Len(threads) THEN "yield" ELSE "unmask", TRUE)
      BY <1>12, <2>1 DEF join_child, At
    <2>3. s_waitqueue # << >>
      <3>1. InQueue(WorkQ, s_waitqueue)
        BY <1>0, <2>2, Known DEF WorkDone, WaitOk
      <3> QED  BY <3>1 DEF InQueue
    <2>4. \E l \in {"yield", "unmask"} : pc' = [pc EXCEPT ![Main] = l]
      <3> DEFINE l == IF child < Len(threads) THEN "yield" ELSE "unmask"
      <3>1. l \in {"yield", "unmask"}
        OBVIOUS
      <3> HIDE DEF l
      <3>2. thread_detach(d, Main, l, TRUE)
        BY <2>2 DEF l
      <3>3. pc' = [pc EXCEPT ![Main] = l]
        BY <2>3, <3>2, Zenon DEF thread_detach, Goto
      <3> QED  BY <3>1, <3>3
    <2> QED  BY <1>1, <2>4
  <1>13. CASE calculate_simulation_stat_halt
    BY <1>1, <1>13 DEF calculate_simulation_stat_halt, Goto
  <1> QED  BY <1>2, <1>3, <1>4, <1>5, <1>6, <1>7, <1>8, <1>9, <1>10, <1>11, <1>12, <1>13,
             Zenon DEF MainStep

\* The steps of the other threads and of the handlers.
LEMMA OtherWork ==
    ASSUME IInv, QInv, RunqueueOrdered, KernelPriorities, CInv,
           IdleStep \/ WorkStep \/ \E t \in Slots : JobStep(t)
    PROVE  WorkDone' /\ HaltOk'
  <1> USE DEF cpuVars, statVars, jobVars, workVars, intVars, menuVars, simVars, keyVars
  <1>0. WorkDone /\ HaltOk /\ pc'[Main] = pc[Main] /\ intr'[Main] = intr[Main]
    BY OtherStep DEF CInv, MainUntouched
  <1>1. HaltOk'
    BY <1>0 DEF HaltOk
  <1>2. CASE UNCHANGED << g_current, s_runqueue, state >>
    BY <1>0, <1>1, <1>2, WorkStill
  <1>3. CASE IdleStep
    <2>1. CASE thread_yield(Idle)
      BY <1>0, <1>1, <2>1, YieldWork
    <2>2. CASE thread_run(Idle) \/ thread_yield_return(Idle)
      BY <1>2, <2>2 DEF thread_run, thread_yield_return
    <2> QED  BY <1>3, <2>1, <2>2 DEF IdleStep
  <1>4. CASE workqueue_wait
    <2>1. g_current # Idle /\ thread_schedule
      BY <1>4, KernelThreads DEF workqueue_wait, At
    <2> QED  BY <1>0, <1>1, <2>1, WorkAfterSwitch
  <1>5. CASE thread_run(WorkQ) \/ workqueue_next
    BY <1>2, <1>5 DEF thread_run, workqueue_next
  <1>6. CASE thread_destroy
    <2>1. /\ pc[WorkQ] = "run" /\ UNCHANGED << g_current, s_runqueue >>
          /\ state' = [state EXCEPT ![item] = "FREE"]
      BY <1>6 DEF thread_destroy, At
    <2>2. item # WorkQ /\ state \in [Thread -> States] /\ WorkQ \in Thread
      BY <2>1, ItemDead, Known, KernelThreads
    <2>3. state'[WorkQ] = state[WorkQ]
      BY <2>1, <2>2
    <2> QED  BY <1>0, <1>1, <2>1, <2>3 DEF WorkDone, Asleep
  <1>7. ASSUME NEW t \in Slots, JobStep(t)  PROVE WorkDone'
    <2>0. t # Idle /\ t # WorkQ /\ t # Main /\ t \in Thread /\ WorkQ \in Thread
      BY KernelThreads
    <2>1. CASE \/ thread_run(t) \/ job_body(t) \/ toggler_end_atomic(t) \/ poet_lock(t)
               \/ poet_preemption_on(t)
      BY <1>2, <2>1 DEF thread_run, job_body, toggler_end_atomic, poet_lock,
           poet_preemption_on, JobUnchanged
    <2>2. CASE exit_detach(t)
      <3>1. refcount[t] = 2
        BY <2>2, ExitingJob DEF exit_detach, At
      <3> QED  BY <1>2, <2>2, <3>1 DEF exit_detach, thread_detach
    <2>3. CASE exit_state(t)
      <3>1. UNCHANGED << g_current, s_runqueue >> /\ state' = [state EXCEPT ![t] = "EXITED"]
        BY <2>3 DEF exit_state
      <3>2. state'[WorkQ] = state[WorkQ]
        BY <2>0, <3>1, Known
      <3> QED  BY <1>0, <3>1, <3>2 DEF WorkDone, Asleep
    <2>4. CASE exit_wakeup(t)
      <3>1. g_current = t
        BY <2>4 DEF exit_wakeup, At
      <3>2. CASE thread_schedule
        BY <1>0, <2>0, <3>1, <3>2, WorkAfterSwitch
      <3>3. CASE waitqueue[t] # << >> /\ thread_wakeup_one(waitqueue[t])
        <4>1. WaitsFor(t) /\ pc[Main] = "join" /\ waitqueue[t] = << Main >>
          BY <3>3, Known DEF WaitOk, WaitsFor
        <4>2. Head(waitqueue[t]) = Main
          BY <4>1
        <4>3. state' = [state EXCEPT ![Main] = "READY"] /\ g_current' = g_current
          BY <3>3, <4>2 DEF thread_wakeup_one
        <4>4. state'[WorkQ] = state[WorkQ]
          BY <2>0, <4>3, Known, KernelThreads
        <4>5. Asleep(WorkQ)'
          BY <1>0, <4>1, <4>3, <4>4 DEF WorkDone, Asleep
        <4> QED  BY <1>0, <4>1, <4>5 DEF WorkDone
      <3> QED  BY <2>4, <3>2, <3>3 DEF exit_wakeup
    <2> QED  BY <1>7, <2>1, <2>2, <2>3, <2>4 DEF JobStep
  <1> QED  BY <1>1, <1>3, <1>4, <1>5, <1>6, <1>7, Zenon DEF WorkStep

\* The handlers switch threads outside run_simulation only.
LEMMA InterruptWork ==
    ASSUME IInv, QInv, CInv, Interrupt \/ Handler \/ UNCHANGED vars
    PROVE  WorkDone' /\ HaltOk'
  <1> USE DEF cpuVars, statVars, jobVars, workVars, intVars, menuVars, simVars, keyVars
  <1>0. WorkDone /\ HaltOk /\ CoopOk /\ pc' = pc /\ intr' = intr
    BY DEF CInv, Interrupt, timer_process_tick, keyboard_int_handler, Handler,
         keyboard_wakeup, int_handle_interrupt, vars
  <1>1. HaltOk'
    BY <1>0 DEF HaltOk
  <1>2. CASE UNCHANGED << g_current, s_runqueue, state >>
    BY <1>0, <1>1, <1>2, WorkStill
  <1>3. CASE Interrupt \/ UNCHANGED vars
    BY <1>2, <1>3 DEF Interrupt, timer_process_tick, keyboard_int_handler, vars
  <1>4. CASE keyb_irq
    <2>1. pc'[Main] \in Prompts \cup {"mask", "halt"}
      BY <1>0, <1>4 DEF CoopOk, Outside
    <2> QED  BY <1>1, <2>1 DEF WorkDone, Prompts
  <1>5. CASE ~keyb_irq /\ Handler
    <2>1. isr # "wakeup" /\ g_need_reschedule = FALSE
      BY <1>0, <1>5 DEF CoopOk, IInv, TypeOK
    <2>2. int_handle_interrupt
      BY <1>5, <2>1 DEF Handler, keyboard_wakeup
    <2> QED  BY <1>2, <2>1, <2>2 DEF int_handle_interrupt
  <1> QED  BY <1>3, <1>4, <1>5

-----------------------------------------------------------------------------
(***************************************************************************)
(* The times of a job, which calculate_simulation_stat requires not to be  *)
(* zero.  A tick is charged to a job before its function ends, so the      *)
(* clock runs by then, and only the time of arrival can still be zero.     *)
(***************************************************************************)
Charged == {"critical", "unlocking", "exit", "detached", "exit_wake", "gone"}

JobTime(c) ==
    /\ time[c] # {} => g_numticks = 1
    /\ pc[c] \in Charged => "running" \in time[c]
    /\ pc[c] \in {"exit_wake", "gone"} => "termination" \in time[c]
    /\ "arrival" \in time[c] /\ pc[c] # "start" => "first_response" \in time[c]

\* The main thread at the failed assertion: it keeps the CPU.
StatHaltOk ==
    pc[Main] = "stat_halt" =>
        /\ g_current = Main /\ isr = "none" /\ intr[Main] = FALSE
        /\ "arrival" \notin time[threads[child]]

\* A job that does not move: the clock starts, a tick is charged, or the job is created.
LEMMA TimeKept ==
    ASSUME NEW c \in Slots, JobTime(c), pc'[c] = pc[c], time[c] \subseteq time'[c],
           g_numticks' = g_numticks \/ g_numticks' = 1,
           time'[c] # time[c] => g_numticks' = 1,
           "arrival" \in time'[c] => "arrival" \in time[c] \/ pc[c] = "start"
    PROVE  JobTime(c)'
  <1>1. time'[c] # {} => g_numticks' = 1
    BY DEF JobTime
  <1> QED  BY <1>1 DEF JobTime

\* A job that moves to l, its times being what they are.
LEMMA TimeMoves ==
    ASSUME NEW c \in Slots, JobTime(c), NEW l, pc'[c] = l, UNCHANGED << time, g_numticks >>,
           pc[c] # "start",
           l \in Charged => pc[c] \in Charged \/ "running" \in time[c],
           l \in {"exit_wake", "gone"} => pc[c] \in {"exit_wake", "gone"}
    PROVE  JobTime(c)'
  BY DEF JobTime

\* Where the main thread goes.
LEMMA MainGoes ==
    ASSUME MainStep
    PROVE  \/ pc' = pc
           \/ \E l \in MainPC : /\ pc' = [pc EXCEPT ![Main] = l]
                                /\ l = "stat_halt" => calculate_simulation_stat_halt
  <1> USE DEF Goto, MainPC, Prompts
  <1>1. CASE wait_for_key \/ InvalidKey \/ wait_for_child
    BY <1>1 DEF wait_for_key, InvalidKey, wait_for_child
  <1>2. CASE main_menu
    BY <1>2 DEF main_menu
  <1>3. CASE get_synch_simulation \/ get_quantum \/ get_scheduler_simulation
    BY <1>3 DEF get_synch_simulation, get_quantum, get_scheduler_simulation
  <1>4. CASE get_scheduler \/ ask_for_stats
    BY <1>4 DEF get_scheduler, ask_for_stats
  <1>5. CASE irq_disable_keyboard \/ irq_enable_keyboard
    BY <1>5 DEF irq_disable_keyboard, irq_enable_keyboard
  <1>6. CASE \E t \in Slots : thread_create_from_job(t)
    <2>1. \E l \in {"create", "merge"} : pc' = [pc EXCEPT ![Main] = l]
      BY <1>6 DEF thread_create_from_job
    <2> QED  BY <2>1
  <1>7. CASE merge_new_with_runnable
    BY <1>7 DEF merge_new_with_runnable
  <1>8. CASE thread_yield(Main) \/ thread_yield_return(Main)
    <2>1. \E l \in {"yielded", "join"} : pc' = [pc EXCEPT ![Main] = l]
      <3>1. CASE thread_yield(Main)
        BY <3>1 DEF thread_yield
      <3>2. CASE thread_yield_return(Main)
        BY <3>2 DEF thread_yield_return
      <3> QED  BY <1>8, <3>1, <3>2
    <2> QED  BY <2>1
  <1>9. CASE calculate_simulation_stat_halt
    BY <1>9 DEF calculate_simulation_stat_halt
  <1>10. CASE join_child
    <2>1. PICK l \in {"yield", "unmask"} : thread_detach(threads[child], Main, l, TRUE)
      BY <1>10 DEF join_child
    <2>2. pc' = [pc EXCEPT ![Main] = l] \/ pc' = [pc EXCEPT ![Main] = "halt"]
      BY <2>1, Zenon DEF thread_detach
    <2> QED  BY <2>2
  <1> QED  BY <1>1, <1>2, <1>3, <1>4, <1>5, <1>6, <1>7, <1>8, <1>9, <1>10, Zenon DEF MainStep

\* The steps of the kernel's threads and of the handlers leave the jobs where they are;
\* thread_create_from_job and thread_destroy apart, they do not touch their times.
LEMMA KernelTimes ==
    ASSUME IInv, QInv, \A c \in Slots : JobTime(c),
           \/ MainStep \/ IdleStep \/ WorkStep \/ Interrupt \/ Handler \/ UNCHANGED vars
    PROVE  \A c \in Slots : JobTime(c)'
  <1> USE DEF cpuVars, statVars, jobVars, workVars, intVars, menuVars, simVars, keyVars
  <1>0. /\ pc \in [Thread -> AllPC] /\ time \in [Slots -> SUBSET TimeField]
        /\ g_numticks \in {0, 1}
        /\ \A c \in Slots : c \in Thread /\ c \notin {Main, Idle, WorkQ}
    BY Known, KernelThreads DEF IInv, TypeOK
  <1>1. ASSUME \A c \in Slots : pc'[c] = pc[c], UNCHANGED << time, g_numticks >>
        PROVE  \A c \in Slots : JobTime(c)'
    BY <1>1 DEF JobTime
  <1>2. CASE MainStep
    <2>1. \A c \in Slots : pc'[c] = pc[c]
      BY <1>0, <1>2, MainGoes
    <2>2. CASE \E t \in Slots : thread_create_from_job(t)
      <3>1. PICK t \in Slots : thread_create_from_job(t)
        BY <2>2
      <3>2. /\ state[t] = "FREE" /\ Stamp(t, "arrival") /\ g_numticks' = g_numticks
        BY <3>1 DEF thread_create_from_job
      <3>3. pc[t] = "start"
        BY <3>2, Known DEF JobOk
      <3>4. CASE g_numticks = 0
        BY <1>1, <2>1, <3>2, <3>4 DEF Stamp
      <3>5. CASE g_numticks = 1
        <4>1. time' = [time EXCEPT ![t] = @ \cup {"arrival"}]
          BY <3>2, <3>5 DEF Stamp
        <4> SUFFICES ASSUME NEW c \in Slots PROVE JobTime(c)'
          OBVIOUS
        <4>2. c # t => time'[c] = time[c]
          BY <1>0, <4>1
        <4>3. c = t => time'[c] = time[c] \cup {"arrival"}
          BY <1>0, <4>1
        <4> QED  BY <2>1, <3>2, <3>3, <3>5, <4>2, <4>3, TimeKept
      <3> QED  BY <1>0, <3>4, <3>5
    <2>3. CASE ~ \E t \in Slots : thread_create_from_job(t)
      <3>1. UNCHANGED << time, g_numticks >>
        BY <1>2, <2>3 DEF MainStep, wait_for_key, InvalidKey, main_menu,
             get_synch_simulation, get_scheduler, get_quantum, get_scheduler_simulation,
             ask_for_stats, irq_disable_keyboard, merge_new_with_runnable, thread_yield,
             thread_yield_return, wait_for_child, calculate_simulation_stat_halt,
             join_child, irq_enable_keyboard, GotKey, thread_detach
      <3> QED  BY <1>1, <2>1, <3>1
    <2> QED  BY <2>2, <2>3
  <1>3. CASE IdleStep
    <2>1. UNCHANGED << time, g_numticks >>
      BY <1>0, <1>3 DEF IdleStep, thread_run, thread_yield, thread_yield_return
    <2>2. \E l : pc' = [pc EXCEPT ![Idle] = l]
      BY <1>3, Zenon DEF IdleStep, thread_run, thread_yield, thread_yield_return, Goto
    <2> QED  BY <1>0, <1>1, <2>1, <2>2
  <1>4. CASE thread_run(WorkQ) \/ workqueue_wait \/ workqueue_next
    <2>1. UNCHANGED << time, g_numticks >>
      BY <1>0, <1>4 DEF thread_run, workqueue_wait, workqueue_next
    <2>2. pc' = pc \/ \E l : pc' = [pc EXCEPT ![WorkQ] = l]
      BY <1>4, Zenon DEF thread_run, workqueue_wait, workqueue_next, Goto
    <2> QED  BY <1>0, <1>1, <2>1, <2>2
  <1>5. CASE thread_destroy
    <2>1. /\ time' = [time EXCEPT ![item] = {}] /\ g_numticks' = g_numticks
          /\ pc' = [pc EXCEPT ![item] = "start", ![WorkQ] = "loop"]
          /\ g_current = WorkQ /\ pc[WorkQ] = "run"
      BY <1>5 DEF thread_destroy, At
    <2>2. item \in Slots
      BY <2>1, ItemDead
    <2> SUFFICES ASSUME NEW c \in Slots PROVE JobTime(c)'
      OBVIOUS
    <2>3. CASE c # item
      <3>1. time'[c] = time[c] /\ pc'[c] = pc[c]
        BY <1>0, <2>1, <2>2, <2>3
      <3> QED  BY <2>1, <3>1, TimeKept
    <2>4. CASE c = item
      <3>1. time'[c] = {} /\ pc'[c] = "start"
        BY <1>0, <2>1, <2>2, <2>4
      <3> QED  BY <3>1 DEF JobTime, Charged
    <2> QED  BY <2>3, <2>4
  <1>6. CASE timer_process_tick
    <2>1. /\ pc' = pc /\ g_numticks' = 1
          /\ time' = [c \in Slots |-> IF c = g_current THEN time[c] \cup {"running"}
                                                       ELSE time[c]]
      BY <1>6 DEF timer_process_tick
    <2> SUFFICES ASSUME NEW c \in Slots PROVE JobTime(c)'
      OBVIOUS
    <2>2. time'[c] = time[c] \/ time'[c] = time[c] \cup {"running"}
      BY <2>1
    <2> QED  BY <2>1, <2>2, TimeKept
  <1>7. CASE keyboard_int_handler \/ Handler \/ UNCHANGED vars
    BY <1>1, <1>7 DEF keyboard_int_handler, Handler, keyboard_wakeup, int_handle_interrupt, vars
  <1> QED  BY <1>2, <1>3, <1>4, <1>5, <1>6, <1>7, Zenon DEF WorkStep, Interrupt

\* The steps of a job.
LEMMA JobTimes ==
    ASSUME IInv, QInv, \A c \in Slots : JobTime(c), NEW t \in Slots, JobStep(t)
    PROVE  \A c \in Slots : JobTime(c)'
  <1> USE DEF cpuVars, statVars, jobVars, workVars, intVars, menuVars, simVars, keyVars
  <1>0. /\ pc \in [Thread -> AllPC] /\ time \in [Slots -> SUBSET TimeField]
        /\ g_numticks \in {0, 1} /\ t \in Thread /\ fn[t] \in {"fn", "toggler", "poet"}
        /\ \A c \in Slots : c \in Thread /\ c \notin {Main, Idle, WorkQ}
    BY Known, KernelThreads DEF IInv, TypeOK
  <1>1. ASSUME NEW l, pc' = [pc EXCEPT ![t] = l], UNCHANGED << time, g_numticks >>,
               pc[t] # "start",
               l \in Charged => pc[t] \in Charged \/ "running" \in time[t],
               l \in {"exit_wake", "gone"} => pc[t] \in {"exit_wake", "gone"}
        PROVE  \A c \in Slots : JobTime(c)'
    <2>1. pc'[t] = l /\ \A c \in Slots : c # t => pc'[c] = pc[c]
      BY <1>0, <1>1
    <2>2. JobTime(t)'
      BY <1>1, <2>1, TimeMoves
    <2>3. \A c \in Slots : c # t => JobTime(c)'
      BY <1>1, <2>1 DEF JobTime
    <2> QED  BY <2>2, <2>3
  <1>2. CASE thread_run(t)
    <2>1. /\ pc[t] = "start" /\ Stamp(t, "first_response") /\ g_numticks' = g_numticks
          /\ \E l \in {"lock", "body"} : pc' = [pc EXCEPT ![t] = l]
      BY <1>0, <1>2 DEF thread_run, At, Goto
    <2>2. /\ pc'[t] \in {"lock", "body"} /\ \A c \in Slots : c # t => pc'[c] = pc[c]
      BY <1>0, <2>1
    <2>3. \A c \in Slots : c # t => time'[c] = time[c]
      BY <1>0, <2>1 DEF Stamp
    <2>4. CASE g_numticks = 0
      <3>1. time' = time /\ time[t] = {}
        BY <2>1, <2>4 DEF Stamp, JobTime
      <3>2. JobTime(t)'
        BY <2>2, <3>1 DEF JobTime, Charged
      <3> QED  BY <2>1, <2>2, <3>1, <3>2 DEF JobTime
    <2>5. CASE g_numticks = 1
      <3>1. time'[t] = time[t] \cup {"first_response"}
        BY <1>0, <2>1, <2>5 DEF Stamp
      <3>2. JobTime(t)'
        BY <2>1, <2>2, <2>5, <3>1 DEF JobTime, Charged
      <3> QED  BY <2>1, <2>2, <2>3, <3>2, TimeKept
    <2> QED  BY <1>0, <2>4, <2>5
  <1>3. CASE job_body(t)
    <2>1. /\ pc[t] = "body" /\ "running" \in time[t] /\ UNCHANGED << time, g_numticks >>
          /\ \E l \in {"exit", "critical", "unlocking"} : pc' = [pc EXCEPT ![t] = l]
      BY <1>0, <1>3 DEF job_body, JobUnchanged, At, Goto
    <2> QED  BY <1>1, <2>1
  <1>4. CASE toggler_end_atomic(t) \/ poet_lock(t)
    <2>1. /\ UNCHANGED << time, g_numticks >>
          /\ \/ pc[t] = "critical" /\ pc' = [pc EXCEPT ![t] = "exit"]
             \/ pc[t] = "lock" /\ pc' = [pc EXCEPT ![t] = "locking"]
      BY <1>4 DEF toggler_end_atomic, poet_lock, JobUnchanged, At, Goto
    <2> QED  BY <1>1, <2>1 DEF Charged
  <1>5. CASE poet_preemption_on(t)
    <2>1. /\ UNCHANGED << time, g_numticks >>
          /\ \/ pc[t] = "locking" /\ pc' = [pc EXCEPT ![t] = "body"]
             \/ pc[t] = "unlocking" /\ pc' = [pc EXCEPT ![t] = "exit"]
      BY <1>5 DEF poet_preemption_on, JobUnchanged, Goto
    <2> QED  BY <1>1, <2>1 DEF Charged
  <1>6. CASE exit_detach(t)
    <2>1. pc[t] = "exit" /\ thread_detach(t, t, "detached", FALSE)
      BY <1>6 DEF exit_detach, At
    <2>2. UNCHANGED << time, g_numticks >>
      BY <2>1 DEF thread_detach
    <2>3. pc' = [pc EXCEPT ![t] = "detached"] \/ pc' = [pc EXCEPT ![t] = "halt"]
      BY <2>1, Zenon DEF thread_detach, Goto
    <2> QED  BY <1>1, <2>1, <2>2, <2>3 DEF Charged
  <1>7. CASE exit_state(t)
    <2>1. /\ pc[t] = "detached" /\ Stamp(t, "termination") /\ g_numticks' = g_numticks
          /\ pc' = [pc EXCEPT ![t] = "exit_wake"]
      BY <1>7 DEF exit_state, At, Goto
    <2>2. "running" \in time[t] /\ g_numticks = 1
      BY <2>1 DEF JobTime, Charged
    <2>3. time' = [time EXCEPT ![t] = @ \cup {"termination"}]
      BY <2>1, <2>2 DEF Stamp
    <2>4. /\ time'[t] = time[t] \cup {"termination"} /\ pc'[t] = "exit_wake"
          /\ \A c \in Slots : c # t => time'[c] = time[c] /\ pc'[c] = pc[c]
      BY <1>0, <2>1, <2>3
    <2>5. JobTime(t)'
      BY <2>1, <2>2, <2>4 DEF JobTime
    <2> QED  BY <2>1, <2>4, <2>5, TimeKept
  <1>8. CASE exit_wakeup(t)
    <2>1. /\ pc[t] = "exit_wake" /\ UNCHANGED << time, g_numticks >>
          /\ pc' = pc \/ pc' = [pc EXCEPT ![t] = "gone"]
      BY <1>8 DEF exit_wakeup, At, Goto
    <2>2. CASE pc' = pc
      BY <2>1, <2>2 DEF JobTime
    <2> QED  BY <1>1, <2>1, <2>2 DEF Charged
  <1> QED  BY <1>2, <1>3, <1>4, <1>5, <1>6, <1>7, <1>8 DEF JobStep

\* The step to the failed assertion is taken only when the time of arrival is zero ...
LEMMA StatHaltReached ==
    ASSUME IInv, QInv, \A c \in Slots : JobTime(c), calculate_simulation_stat_halt
    PROVE  StatHaltOk'
  <1>1. /\ g_current = Main /\ isr = "none" /\ pc[Main] = "join"
        /\ state[threads[child]] = "EXITED" /\ ~StatDefined(threads[child])
        /\ intr' = [intr EXCEPT ![Main] = FALSE]
        /\ UNCHANGED << g_current, isr, threads, child, time >>
    BY DEF calculate_simulation_stat_halt, At, SetIntr, cpuVars, jobVars, statVars, intVars,
         simVars
  <1>2. threads[child] \in Slots
    BY <1>1, Child
  <1>3. pc[threads[child]] \in {"exit_wake", "gone"}
    BY <1>1, <1>2, Known DEF JobOk
  <1>4. /\ "running" \in time[threads[child]] /\ "termination" \in time[threads[child]]
        /\ "arrival" \in time[threads[child]] => "first_response" \in time[threads[child]]
    BY <1>2, <1>3 DEF JobTime, Charged
  <1>5. "arrival" \notin time[threads[child]]
    BY <1>1, <1>4 DEF StatDefined, TimeField
  <1>6. intr'[Main] = FALSE
    BY <1>1, Known, KernelThreads
  <1> QED  BY <1>1, <1>5, <1>6 DEF StatHaltOk

\* ... and there is no way on from there.
LEMMA StatHaltStays ==
    ASSUME IInv, pc[Main] = "stat_halt", g_current = Main, isr = "none", intr[Main] = FALSE,
           [Next]_vars
    PROVE  UNCHANGED vars
  <1>0. Main # Idle /\ Main # WorkQ /\ \A t \in Slots : t # Main
    BY KernelThreads
  <1>1. ~MainStep
    BY DEF MainStep, wait_for_key, InvalidKey, main_menu, get_synch_simulation,
         get_scheduler, get_quantum, get_scheduler_simulation, ask_for_stats,
         irq_disable_keyboard, thread_create_from_job, merge_new_with_runnable,
         thread_yield, thread_yield_return, wait_for_child,
         calculate_simulation_stat_halt, join_child, irq_enable_keyboard, GotKey, At, Prompts
  <1>2. ~IdleStep /\ ~WorkStep
    BY <1>0 DEF IdleStep, WorkStep, thread_run, thread_yield, thread_yield_return,
         workqueue_wait, workqueue_next, thread_destroy, At
  <1>3. \A t \in Slots : ~JobStep(t)
    BY <1>0 DEF JobStep, thread_run, job_body, toggler_end_atomic, poet_lock,
         poet_preemption_on, exit_detach, exit_state, exit_wakeup, At
  <1>4. ~Interrupt /\ ~Handler
    BY DEF Interrupt, timer_process_tick, keyboard_int_handler, InterruptsEnabled, Handler,
         keyboard_wakeup, int_handle_interrupt
  <1> QED  BY <1>1, <1>2, <1>3, <1>4, Zenon DEF Next, Halt

\* No other step leads there.
LEMMA StatHaltKept ==
    ASSUME IInv, QInv, \A c \in Slots : JobTime(c), StatHaltOk, [Next]_vars
    PROVE  StatHaltOk'
  <1>0. pc \in [Thread -> AllPC] /\ Main \in Thread
    BY Known, KernelThreads
  <1>1. CASE pc[Main] = "stat_halt"
    <2>1. UNCHANGED vars
      BY <1>1, StatHaltStays DEF StatHaltOk
    <2> QED  BY <2>1 DEF StatHaltOk, vars, cpuVars, statVars, jobVars, intVars, simVars
  <1>2. CASE pc[Main] # "stat_halt"
    <2>1. CASE calculate_simulation_stat_halt
      BY <2>1, StatHaltReached
    <2>2. CASE MainStep /\ ~calculate_simulation_stat_halt
      <3>1. pc'[Main] # "stat_halt"
        BY <1>0, <1>2, <2>2, MainGoes
      <3> QED  BY <3>1 DEF StatHaltOk
    <2>3. CASE IdleStep \/ WorkStep \/ \E t \in Slots : JobStep(t)
      <3>1. pc'[Main] = pc[Main]
        BY <2>3, OtherStep DEF MainUntouched
      <3> QED  BY <1>2, <3>1 DEF StatHaltOk
    <2>4. CASE Interrupt \/ Handler \/ UNCHANGED vars
      <3>1. pc' = pc
        BY <2>4 DEF Interrupt, timer_process_tick, keyboard_int_handler, Handler,
             keyboard_wakeup, int_handle_interrupt, vars
      <3> QED  BY <1>2, <3>1 DEF StatHaltOk
    <2> QED  BY <2>1, <2>2, <2>3, <2>4, Zenon DEF Next, Halt
  <1> QED  BY <1>1, <1>2

\* Whatever the scheduler, an assertion of calculate_simulation_stat fails only on a job
\* that was created before the first tick.
LEMMA TimeInvariance == Spec => []StatHaltOk
  <1> DEFINE TInv == (\A c \in Slots : JobTime(c)) /\ StatHaltOk
  <1>1. Init => TInv
    <2> SUFFICES ASSUME Init PROVE TInv
      OBVIOUS
    <2>1. pc[Main] = "mode" /\ \A c \in Slots : pc[c] = "start" /\ time[c] = {}
      BY KernelThreads DEF Init
    <2> QED  BY <2>1 DEF JobTime, Charged, StatHaltOk
  <1>2. IInv /\ QInv /\ TInv /\ [Next]_vars => TInv'
    <2> SUFFICES ASSUME IInv, QInv, \A c \in Slots : JobTime(c), StatHaltOk, [Next]_vars
                 PROVE  (\A c \in Slots : JobTime(c)') /\ StatHaltOk'
      OBVIOUS
    <2>1. StatHaltOk'
      BY StatHaltKept
    <2>2. \A c \in Slots : JobTime(c)'
      BY KernelTimes, JobTimes, Zenon DEF Next, Halt
    <2> QED  BY <2>1, <2>2
  <1>3. TInv => StatHaltOk
    OBVIOUS
  <1> QED  BY QInvariance, <1>1, <1>2, <1>3, PTL DEF Spec

(***************************************************************************)
(* With FCFS, SJF and PRIORITY, whatever jobs there are, thread_wakeup_one *)
(* never finds its queue empty: when the last reference to a job is        *)
(* dropped, the work queue thread sleeps in it, and geekos_main halts with *)
(* interrupts enabled only.  And calculate_simulation_stat halts the       *)
(* kernel only on a job that was created before the first tick.            *)
(***************************************************************************)
THEOREM CooperativeCorrect ==
    ASSUME Cooperative
    PROVE  Spec => []NoAssertionFails
  <1>1. Init => CInv
    <2> SUFFICES ASSUME Init PROVE CInv
      OBVIOUS
    <2>1. /\ pc[Main] = "mode" /\ threads = << >> /\ isr = "none" /\ g_scheduler = "FCFS"
          /\ g_need_reschedule = FALSE
      BY KernelThreads DEF Init
    <2> QED  BY <2>1 DEF CInv, CoopOk, Outside, Prompts, WorkDone, HaltOk
  <1>2. /\ IInv /\ QInv /\ PreemptOff /\ RunqueueOrdered /\ KernelPriorities /\ CInv
        /\ [Next]_vars
        => CInv'
    <2> SUFFICES ASSUME IInv, QInv, PreemptOff, RunqueueOrdered, KernelPriorities, CInv,
                        [Next]_vars
                 PROVE  CInv'
      OBVIOUS
    <2>1. CoopOk'
      BY CoopKept DEF CInv
    <2>2. WorkDone' /\ HaltOk'
      BY MainWork, OtherWork, InterruptWork, Zenon DEF Next, Halt
    <2> QED  BY <2>1, <2>2 DEF CInv
  <1>3. IInv /\ QInv /\ CInv /\ StatHaltOk => NoAssertionFails
    <2> SUFFICES ASSUME IInv, QInv, CInv, StatHaltOk, NEW t \in Thread, pc[t] = "halt"
                 PROVE  intr[t]
      BY DEF NoAssertionFails, StatHaltOk
    <2>1. t \notin Slots
      <3> SUFFICES ASSUME t \in Slots PROVE FALSE
        OBVIOUS
      <3>1. JobOk(t) /\ state[t] \in States
        BY Known
      <3> QED  BY <3>1 DEF JobOk, States, Live
    <2>2. t = Main
      BY <2>1 DEF Thread, IInv, Labels, IdlePC, WorkPC
    <2> QED  BY <2>2 DEF CInv, HaltOk
  <1> QED  BY QInvariance, PreemptInvariance, OrderInvariance, TimeInvariance,
             <1>1, <1>2, <1>3, PTL DEF Spec

=============================================================================
