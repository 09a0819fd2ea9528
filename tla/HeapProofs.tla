----------------------------- MODULE HeapProofs -----------------------------
(***************************************************************************)
(* What holds of the heap of module Heap for every size of heap, header    *)
(* and request: nothing is lost or handed out twice, free neighbours are   *)
(* merged, nobody sleeps without need, and the callers of mem_alloc and    *)
(* mem_free see an allocator.                                              *)
(***************************************************************************)
EXTENDS Heap, SequenceTheorems, FiniteSetTheorems, WellFoundedInduction, TLAPS

FreeChunk == [addr : Nat, sz : Nat]
UsedChunk == [addr : Nat, sz : Nat, len : Nat]

Types ==
    /\ flp \in Seq(FreeChunk) /\ brkval \in Nat /\ used \subseteq UsedChunk
    /\ request \in [Threads -> Nat] /\ asleep \subseteq Threads
    /\ Brk \in HeapStart .. HeapEnd

\* Chunk c lies between the start of the heap and the break.
Inside(c) ==
    HeapStart <= c.addr /\ End(c) <= Brk /\ FREELIST - SIZE_T <= c.sz

Bounds ==
    /\ \A i \in 1 .. Len(flp) : Inside(flp[i])
    /\ \A c \in used : Inside(c) /\ 0 < c.len /\ c.len <= c.sz

\* Coalesced, for any two entries instead of neighbours.
Ordered == \A i, j \in 1 .. Len(flp) : i < j => End(flp[i]) < flp[j].addr

Apart(c, d) == End(c) <= d.addr \/ End(d) <= c.addr

UsedApart == \A c, d \in used : c # d => Apart(c, d)

UsedFree == \A c \in used : \A i \in 1 .. Len(flp) : Apart(c, flp[i])

Within(x, c) == c.addr <= x /\ x < End(c)

\* Nothing is lost.
Covered ==
    \A x \in HeapStart .. Brk - 1 :
        \/ \E c \in used : Within(x, c)
        \/ \E i \in 1 .. Len(flp) : Within(x, flp[i])

\* NoNeedlessSleep without the sets of sizes.
Sleepers ==
    \A t \in asleep :
        /\ request[t] # 0 /\ ~Avail(request[t])
        /\ \A i \in 1 .. Len(flp) : flp[i].sz < Rounded(request[t])

\* The inductive invariant.
IInv ==
    /\ Types /\ Bounds /\ Ordered /\ UsedApart /\ UsedFree /\ Covered
    /\ Sleepers

-----------------------------------------------------------------------------
\* A set of natural numbers has a least element.
LEMMA MinNat ==
    ASSUME NEW S, S \subseteq Nat, S # {}
    PROVE  Min(S) \in S /\ \A m \in S : Min(S) <= m
  <1> DEFINE R == OpToRel(<, Nat)
  <1>1. IsWellFoundedOn(R, Nat)
    BY NatLessThanWellFounded
  <1>2. \A m, n \in Nat : << m, n >> \in R <=> m < n
    BY DEF OpToRel
  <1> HIDE DEF R
  <1>3. PICK n \in S : \A m \in S : ~(<< m, n >> \in R)
    BY <1>1, WFMin
  <1>4. \A m \in S : n <= m
    <2>1. ASSUME NEW m \in S
          PROVE  m \in Nat /\ n \in Nat /\ ~(m < n)
      BY <1>2, <1>3
    <2> QED  BY <2>1
  <1> QED  BY <1>3, <1>4 DEF Min

\* The size a request is rounded up to.
LEMMA RoundedUp ==
    ASSUME NEW len \in Nat
    PROVE  /\ Rounded(len) \in Nat
           /\ len <= Rounded(len) /\ FREELIST - SIZE_T <= Rounded(len)
  <1>1. FREELIST - SIZE_T \in Nat
    BY HeapAssumption
  <1>2. \E x \in {len, FREELIST - SIZE_T} : \A y \in {len, FREELIST - SIZE_T} : x >= y
    <2>1. CASE len >= FREELIST - SIZE_T  BY <1>1, <2>1
    <2>2. CASE ~(len >= FREELIST - SIZE_T)
      <3>1. FREELIST - SIZE_T >= len /\ FREELIST - SIZE_T >= FREELIST - SIZE_T
        BY <1>1, <2>2
      <3> QED  BY <3>1
    <2> QED  BY <2>1, <2>2
  <1>3. /\ Rounded(len) \in {len, FREELIST - SIZE_T}
        /\ \A y \in {len, FREELIST - SIZE_T} : Rounded(len) >= y
    BY <1>2, Zenon DEF Rounded, Max
  <1>4. Rounded(len) >= len /\ Rounded(len) >= FREELIST - SIZE_T
    BY <1>3
  <1>5. Rounded(len) \in Nat
    BY <1>1, <1>3
  <1> QED  BY <1>1, <1>4, <1>5

(***************************************************************************)
(* If something on the free list fits, BestFit is an entry that does, and  *)
(* if nothing does, every entry is too small.                              *)
(***************************************************************************)
LEMMA FitFound ==
    ASSUME flp \in Seq(FreeChunk), NEW len \in Nat
    PROVE  /\ Fitting(len) # {} => /\ BestFit(len) \in 1 .. Len(flp)
                                   /\ flp[BestFit(len)].sz >= Rounded(len)
           /\ Fitting(len) = {} <=> \A i \in 1 .. Len(flp) : flp[i].sz < Rounded(len)
  <1>1. DOMAIN flp = 1 .. Len(flp) /\ Len(flp) \in Nat /\ Rounded(len) \in Nat
        /\ \A i \in 1 .. Len(flp) : flp[i].sz \in Nat
    <2>1. DOMAIN flp = 1 .. Len(flp) /\ Len(flp) \in Nat
      BY LenProperties
    <2>2. Rounded(len) \in Nat
      BY RoundedUp
    <2>3. \A i \in 1 .. Len(flp) : flp[i] \in FreeChunk
      BY <2>1
    <2> QED  BY <2>1, <2>2, <2>3 DEF FreeChunk
  <1>2. Fitting(len) = {} <=> \A i \in 1 .. Len(flp) : flp[i].sz < Rounded(len)
    <2>1. Fitting(len) = {} <=> \A i \in 1 .. Len(flp) : ~(flp[i].sz >= Rounded(len))
      BY <1>1 DEF Fitting
    <2> QED  BY <1>1, <2>1
  <1>3. ASSUME Fitting(len) # {}
        PROVE  BestFit(len) \in 1 .. Len(flp) /\ flp[BestFit(len)].sz >= Rounded(len)
    <2> DEFINE M == Min(Fitting(len))
               I == {i \in DOMAIN flp : flp[i].sz = M}
    <2>1. Fitting(len) \subseteq Nat
      BY <1>1 DEF Fitting
    <2>2. M \in Fitting(len)
      BY <1>3, <2>1, MinNat
    <2>3. I # {} /\ I \subseteq Nat /\ M >= Rounded(len)
      <3> HIDE DEF M
      <3> QED  BY <1>1, <2>2 DEF Fitting
    <2>4. Min(I) \in I
      BY <2>3, MinNat
    <2>5. BestFit(len) \in I
      BY <2>4 DEF BestFit
    <2> QED  BY <1>1, <2>3, <2>5
  <1> QED  BY <1>2, <1>3

\* An entry is taken off a sequence.
LEMMA RemoveAtProperties ==
    ASSUME NEW S, NEW q \in Seq(S), NEW i \in 1 .. Len(q)
    PROVE  /\ RemoveAt(q, i) \in Seq(S) /\ Len(RemoveAt(q, i)) = Len(q) - 1
           /\ \A j \in 1 .. Len(q) - 1 :
                 RemoveAt(q, i)[j] = q[IF j < i THEN j ELSE j + 1]
  <1> DEFINE a == SubSeq(q, 1, i - 1)
             b == SubSeq(q, i + 1, Len(q))
  <1>1. Len(q) \in Nat /\ i \in Nat
    BY LenProperties
  <1>2. /\ a \in Seq(S) /\ Len(a) = i - 1
        /\ \A j \in 1 .. i - 1 : a[j] = q[j]
    <2>1. \A j \in 1 .. i - 1 : j \in 1 .. Len(q)  BY <1>1
    <2> QED  BY <1>1, <2>1, SubSeqProperties, Z3
  <1>3. /\ b \in Seq(S) /\ Len(b) = Len(q) - i
        /\ \A j \in 1 .. Len(q) - i : b[j] = q[i + j]
    BY <1>1, SubSeqProperties
  <1> HIDE DEF a, b
  <1>4. /\ a \o b \in Seq(S) /\ Len(a \o b) = Len(q) - 1
        /\ \A j \in 1 .. Len(q) - 1 :
              (a \o b)[j] = IF j <= i - 1 THEN a[j] ELSE b[j - (i - 1)]
    <2>1. /\ a \o b \in Seq(S) /\ Len(a \o b) = Len(a) + Len(b)
          /\ \A j \in 1 .. Len(a) + Len(b) :
                (a \o b)[j] = IF j <= Len(a) THEN a[j] ELSE b[j - Len(a)]
      BY <1>2, <1>3, ConcatProperties
    <2>2. Len(a) + Len(b) = Len(q) - 1
      BY <1>1, <1>2, <1>3
    <2> QED  BY <1>2, <2>1, <2>2, Zenon
  <1>5. RemoveAt(q, i) = a \o b
    BY DEF RemoveAt, a, b
  <1>6. ASSUME NEW j \in 1 .. Len(q) - 1
        PROVE  (a \o b)[j] = q[IF j < i THEN j ELSE j + 1]
    <2>1. CASE j < i
      BY <1>1, <1>2, <1>4, <2>1
    <2>2. CASE ~(j < i)
      <3>1. j - (i - 1) \in 1 .. Len(q) - i /\ i + (j - (i - 1)) = j + 1
        BY <1>1, <2>2
      <3>2. (a \o b)[j] = b[j - (i - 1)]
        BY <1>1, <1>4, <2>2
      <3>3. b[j - (i - 1)] = q[i + (j - (i - 1))]
        BY <1>3, <3>1
      <3> QED  BY <2>2, <3>1, <3>2, <3>3
    <2> QED  BY <2>1, <2>2
  <1> QED  BY <1>4, <1>5, <1>6

\* The entries of q after the k-th and before the h-th are replaced by e.
Splice(q, k, e, h) == SubSeq(q, 1, k) \o << e >> \o SubSeq(q, h, Len(q))

IsSplice(r, q, k, e, h) ==
    /\ Len(r) = k + 1 + (Len(q) + 1 - h)
    /\ \A j \in 1 .. k : r[j] = q[j]
    /\ r[k + 1] = e
    /\ \A j \in k + 2 .. k + 1 + (Len(q) + 1 - h) : r[j] = q[j - k - 2 + h]

LEMMA SpliceProperties ==
    ASSUME NEW S, NEW q \in Seq(S), NEW e \in S,
           NEW k \in 0 .. Len(q), NEW h \in k + 1 .. Len(q) + 1
    PROVE  /\ Splice(q, k, e, h) \in Seq(S)
           /\ IsSplice(Splice(q, k, e, h), q, k, e, h)
  <1> DEFINE a == SubSeq(q, 1, k)
             b == SubSeq(q, h, Len(q))
             c == a \o << e >>
             r == Splice(q, k, e, h)
  <1>1. Len(q) \in Nat /\ k \in Nat /\ h \in Nat
    BY LenProperties
  <1>2. a \in Seq(S) /\ Len(a) = k /\ \A j \in 1 .. k : a[j] = q[j]
    BY <1>1, SubSeqProperties
  <1>3. /\ b \in Seq(S) /\ Len(b) = Len(q) + 1 - h
        /\ \A j \in 1 .. Len(q) + 1 - h : b[j] = q[h + j - 1]
    BY <1>1, SubSeqProperties
  <1>4. << e >> \in Seq(S) /\ Len(<< e >>) = 1 /\ << e >>[1] = e
    OBVIOUS
  <1> HIDE DEF a, b, r
  <1>5. /\ c \in Seq(S) /\ Len(c) = k + 1
        /\ \A j \in 1 .. k + 1 : c[j] = IF j <= k THEN a[j] ELSE << e >>[j - k]
    <2>1. /\ c \in Seq(S) /\ Len(c) = Len(a) + Len(<< e >>)
          /\ \A j \in 1 .. Len(a) + Len(<< e >>) :
                c[j] = IF j <= Len(a) THEN a[j] ELSE << e >>[j - Len(a)]
      BY <1>2, <1>4, ConcatProperties
    <2> QED  BY <1>2, <1>4, <2>1, Zenon
  <1>6. /\ \A j \in 1 .. k : c[j] = q[j]
        /\ c[k + 1] = e
    BY <1>1, <1>2, <1>4, <1>5
  <1> HIDE DEF c
  <1>7. /\ c \o b \in Seq(S) /\ Len(c \o b) = k + 1 + (Len(q) + 1 - h)
        /\ \A j \in 1 .. k + 1 + (Len(q) + 1 - h) :
              (c \o b)[j] = IF j <= k + 1 THEN c[j] ELSE b[j - (k + 1)]
    <2>1. /\ c \o b \in Seq(S) /\ Len(c \o b) = Len(c) + Len(b)
          /\ \A j \in 1 .. Len(c) + Len(b) :
                (c \o b)[j] = IF j <= Len(c) THEN c[j] ELSE b[j - Len(c)]
      BY <1>3, <1>5, ConcatProperties
    <2> QED  BY <1>3, <1>5, <2>1, Zenon
  <1>8. r = c \o b
    BY DEF a, b, c, r, Splice
  <1>9. ASSUME NEW j \in k + 2 .. k + 1 + (Len(q) + 1 - h)
        PROVE  (c \o b)[j] = q[j - k - 2 + h]
    <2>1. j - (k + 1) \in 1 .. Len(q) + 1 - h /\ h + (j - (k + 1)) - 1 = j - k - 2 + h
      BY <1>1
    <2>2. (c \o b)[j] = b[j - (k + 1)]
      BY <1>1, <1>7
    <2> QED  BY <1>3, <2>1, <2>2
  <1>10. \A j \in 1 .. k + 1 : (c \o b)[j] = c[j]
    BY <1>1, <1>7
  <1>11. r \in Seq(S) /\ Len(r) = k + 1 + (Len(q) + 1 - h)
    BY <1>7, <1>8
  <1>12. \A j \in k + 2 .. k + 1 + (Len(q) + 1 - h) : r[j] = q[j - k - 2 + h]
    BY <1>8, <1>9, Zenon
  <1>13. /\ \A j \in 1 .. k : r[j] = q[j]
         /\ r[k + 1] = e
    <2>1. (\A j \in 1 .. k : j \in 1 .. k + 1) /\ k + 1 \in 1 .. k + 1
      BY <1>1
    <2> QED  BY <1>6, <1>8, <1>10, <2>1, Zenon
  <1> QED  BY <1>11, <1>12, <1>13 DEF r, IsSplice

-----------------------------------------------------------------------------
\* The numbers that the invariant speaks of.
LEMMA Numbers ==
    ASSUME Types
    PROVE  /\ Len(flp) \in Nat /\ DOMAIN flp = 1 .. Len(flp) /\ Brk \in Nat
           /\ SIZE_T \in Nat /\ FREELIST \in Nat /\ 0 < SIZE_T /\ SIZE_T < FREELIST
           /\ HeapStart \in Nat /\ HeapEnd \in Nat /\ 0 < HeapStart
           /\ HeapStart <= Brk /\ Brk <= HeapEnd
           /\ \A i \in 1 .. Len(flp) :
                 /\ flp[i] \in FreeChunk /\ flp[i].addr \in Nat /\ flp[i].sz \in Nat
                 /\ End(flp[i]) \in Nat /\ End(flp[i]) = flp[i].addr + SIZE_T + flp[i].sz
                 /\ flp[i].addr < End(flp[i])
           /\ \A c \in used :
                 /\ c.addr \in Nat /\ c.sz \in Nat /\ c.len \in Nat
                 /\ End(c) \in Nat /\ End(c) = c.addr + SIZE_T + c.sz
  <1>1. Len(flp) \in Nat /\ DOMAIN flp = 1 .. Len(flp)
    BY LenProperties DEF Types
  <1>2. /\ SIZE_T \in Nat /\ FREELIST \in Nat /\ 0 < SIZE_T /\ SIZE_T < FREELIST
        /\ HeapStart \in Nat /\ HeapEnd \in Nat /\ 0 < HeapStart
    BY HeapAssumption
  <1>3. Brk \in Nat /\ HeapStart <= Brk /\ Brk <= HeapEnd
    BY <1>2 DEF Types
  <1>4. ASSUME NEW i \in 1 .. Len(flp)
        PROVE  /\ flp[i] \in FreeChunk /\ flp[i].addr \in Nat /\ flp[i].sz \in Nat
               /\ End(flp[i]) \in Nat /\ End(flp[i]) = flp[i].addr + SIZE_T + flp[i].sz
               /\ flp[i].addr < End(flp[i])
    <2>1. flp[i] \in FreeChunk
      BY <1>1 DEF Types
    <2> QED  BY <1>2, <2>1 DEF FreeChunk, End
  <1>5. ASSUME NEW c \in used
        PROVE  /\ c.addr \in Nat /\ c.sz \in Nat /\ c.len \in Nat
               /\ End(c) \in Nat /\ End(c) = c.addr + SIZE_T + c.sz
    <2>1. c \in UsedChunk
      BY DEF Types
    <2> QED  BY <1>2, <2>1 DEF UsedChunk, End
  <1> QED  BY <1>1, <1>2, <1>3, <1>4, <1>5

\* The chunk that Grant hands out.
Granted(t, a, sz) == [addr |-> a, sz |-> sz, len |-> request[t]]

\* Granting a request disturbs nobody who sleeps.
LEMMA GrantSleepers ==
    ASSUME Types, Sleepers, NEW t \in Threads, Trying(t), NEW a, NEW sz,
           Grant(t, a, sz)
    PROVE  /\ request' \in [Threads -> Nat] /\ asleep' = asleep
           /\ \A s \in asleep : request'[s] = request[s]
           /\ used' = used \cup {Granted(t, a, sz)}
  <1>1. request' = [request EXCEPT ![t] = 0] /\ asleep' = asleep
        /\ used' = used \cup {Granted(t, a, sz)}
    BY DEF Grant, Granted
  <1> QED  BY <1>1 DEF Types, Trying

LEMMA WholeKept ==
    ASSUME IInv, NEW t \in Threads, malloc_whole(t)
    PROVE  IInv'
  <1> DEFINE i == BestFit(request[t])
             n == Len(flp)
             u == Granted(t, flp[i].addr, flp[i].sz)
             m(j) == IF j < i THEN j ELSE j + 1
  <1>0. Types /\ Bounds /\ Ordered /\ UsedApart /\ UsedFree /\ Covered /\ Sleepers
    BY DEF IInv
  <1>1. /\ Trying(t) /\ Fitting(request[t]) # {} /\ flp' = RemoveAt(flp, i)
        /\ Grant(t, flp[i].addr, flp[i].sz) /\ brkval' = brkval
    BY DEF malloc_whole
  <1>2. request[t] \in Nat /\ request[t] # 0
    BY <1>0, <1>1 DEF Types, Trying
  <1>3. i \in 1 .. n /\ flp[i].sz >= Rounded(request[t])
    BY <1>0, <1>1, <1>2, FitFound DEF Types
  <1>4. flp' \in Seq(FreeChunk) /\ Len(flp') = n - 1
        /\ \A j \in 1 .. n - 1 : flp'[j] = flp[m(j)]
    BY <1>0, <1>1, <1>3, RemoveAtProperties DEF Types
  <1>5. /\ request' \in [Threads -> Nat] /\ asleep' = asleep
        /\ \A s \in asleep : request'[s] = request[s]
        /\ used' = used \cup {u}
    BY <1>0, <1>1, GrantSleepers
  <1>6. Brk' = Brk
    BY <1>1 DEF Brk
  <1>7. /\ u \in UsedChunk /\ u.addr = flp[i].addr /\ u.sz = flp[i].sz
        /\ u.len = request[t] /\ End(u) = End(flp[i])
    BY <1>0, <1>2, <1>3, Numbers DEF Granted, UsedChunk, End
  <1>8. request[t] <= Rounded(request[t]) /\ Rounded(request[t]) \in Nat
    BY <1>2, RoundedUp
  <1>9. n \in Nat
    BY <1>0, Numbers
  <1> HIDE DEF i, n, u
  <1>10. \A j \in 1 .. n - 1 : m(j) \in 1 .. n /\ m(j) # i
    BY <1>3, <1>9
  <1>12. Types'
    BY <1>0, <1>1, <1>4, <1>5, <1>6, <1>7 DEF Types
  <1>13. Bounds'
    <2>1. ASSUME NEW j \in 1 .. n - 1  PROVE  Inside(flp[m(j)])
      BY <1>0, <1>10 DEF Bounds, n
    <2>2. Inside(u) /\ 0 < u.len /\ u.len <= u.sz
      BY <1>0, <1>2, <1>3, <1>7, <1>8, Numbers, SMTT(40) DEF Bounds, Inside, n
    <2>3. \A c \in used' : Inside(c) /\ 0 < c.len /\ c.len <= c.sz
      BY <1>0, <1>5, <2>2 DEF Bounds
    <2>4. \A j \in 1 .. Len(flp') : Inside(flp'[j])
      BY <1>4, <2>1
    <2> QED  BY <1>6, <2>3, <2>4 DEF Bounds, Inside, End
  <1>14. Ordered'
    <2>1. ASSUME NEW j \in 1 .. n - 1, NEW k \in 1 .. n - 1, j < k
          PROVE  End(flp[m(j)]) < flp[m(k)].addr
      <3>1. m(j) < m(k) /\ m(j) \in 1 .. n /\ m(k) \in 1 .. n
        BY <1>3, <1>9, <1>10, <2>1
      <3> QED  BY <1>0, <3>1 DEF Ordered, n
    <2>2. \A j, k \in 1 .. Len(flp') : j < k => End(flp'[j]) < flp'[k].addr
      BY <1>4, <2>1
    <2> QED  BY <2>2 DEF Ordered, End
  <1>15. UsedApart'
    <2>1. \A c \in used : Apart(c, u) /\ Apart(u, c)
      BY <1>0, <1>3, <1>7 DEF UsedFree, Apart, n
    <2>2. \A c, d \in used' : c # d => Apart(c, d)
      BY <1>0, <1>5, <2>1 DEF UsedApart
    <2> QED  BY <2>2 DEF UsedApart, Apart, End
  <1>16. UsedFree'
    <2>1. ASSUME NEW j \in 1 .. n - 1  PROVE  Apart(u, flp[m(j)])
      <3>1. m(j) \in 1 .. n /\ (m(j) < i \/ i < m(j)) /\ i \in 1 .. n
        BY <1>3, <1>9, <1>10
      <3>2. End(flp[m(j)]) < flp[i].addr \/ End(flp[i]) < flp[m(j)].addr
        BY <1>0, <3>1 DEF Ordered, n
      <3> QED  BY <1>0, <1>7, <3>1, <3>2, Numbers, SMTT(40) DEF Apart, n
    <2>2. ASSUME NEW c \in used, NEW j \in 1 .. n - 1  PROVE  Apart(c, flp[m(j)])
      BY <1>0, <1>10 DEF UsedFree, n
    <2>3. \A c \in used' : \A j \in 1 .. Len(flp') : Apart(c, flp'[j])
      BY <1>4, <1>5, <2>1, <2>2
    <2> QED  BY <2>3 DEF UsedFree, Apart, End
  <1>17. Covered'
    <2>1. ASSUME NEW x \in HeapStart .. Brk - 1
          PROVE  \/ \E c \in used' : Within(x, c)
                 \/ \E j \in 1 .. Len(flp') : Within(x, flp'[j])
      <3>1. CASE \E c \in used : Within(x, c)
        BY <1>5, <3>1
      <3>2. ASSUME NEW k \in 1 .. n, Within(x, flp[k])
            PROVE  \/ \E c \in used' : Within(x, c)
                   \/ \E j \in 1 .. Len(flp') : Within(x, flp'[j])
        <4>1. CASE k = i
          BY <1>5, <1>7, <3>2, <4>1 DEF Within
        <4>2. CASE k < i
          <5>1. k \in 1 .. n - 1 /\ m(k) = k
            BY <1>3, <1>9, <4>2
          <5> QED  BY <1>4, <3>2, <5>1
        <4>3. CASE k > i
          <5>1. k - 1 \in 1 .. n - 1 /\ m(k - 1) = k
            BY <1>3, <1>9, <4>3
          <5>2. flp'[k - 1] = flp[k]
            BY <1>4, <5>1
          <5> QED  BY <1>4, <3>2, <5>1, <5>2
        <4> QED  BY <1>3, <4>1, <4>2, <4>3
      <3> QED  BY <1>0, <3>1, <3>2 DEF Covered, n
    <2> QED  BY <1>6, <2>1 DEF Covered, Within, End
  <1>18. Sleepers'
    <2>1. ASSUME NEW s \in asleep
          PROVE  /\ request'[s] # 0 /\ ~Avail(request'[s])
                 /\ \A j \in 1 .. Len(flp') : flp'[j].sz < Rounded(request'[s])
      <3>1. \A k \in 1 .. n : flp[k].sz < Rounded(request[s])
        BY <1>0 DEF Sleepers, n
      <3>2. \A j \in 1 .. Len(flp') : flp'[j].sz < Rounded(request[s])
        BY <1>4, <1>10, <3>1
      <3>3. request'[s] = request[s] /\ request[s] # 0 /\ ~Avail(request[s])
        BY <1>0, <1>5 DEF Sleepers
      <3> QED  BY <3>2, <3>3
    <2> QED  BY <1>5, <1>6, <2>1 DEF Sleepers, Avail, Rounded
  <1> QED  BY <1>12, <1>13, <1>14, <1>15, <1>16, <1>17, <1>18 DEF IInv

LEMMA SplitKept ==
    ASSUME IInv, NEW t \in Threads, malloc_split(t)
    PROVE  IInv'
  <1> DEFINE i == BestFit(request[t])
             n == Len(flp)
             len == Rounded(request[t])
             rest == flp[i].sz - len
             low == [flp[i] EXCEPT !.sz = rest - SIZE_T]
             u == Granted(t, flp[i].addr + rest, len)
  <1>0. Types /\ Bounds /\ Ordered /\ UsedApart /\ UsedFree /\ Covered /\ Sleepers
    BY DEF IInv
  <1>1. /\ Trying(t) /\ Fitting(request[t]) # {} /\ rest >= FREELIST
        /\ flp' = [flp EXCEPT ![i].sz = rest - SIZE_T]
        /\ Grant(t, flp[i].addr + rest, len) /\ brkval' = brkval
    BY DEF malloc_split
  <1>2. request[t] \in Nat /\ request[t] # 0
    BY <1>0, <1>1 DEF Types, Trying
  <1>3. i \in 1 .. n /\ flp[i].sz >= len
    BY <1>0, <1>1, <1>2, FitFound DEF Types
  <1>4. len \in Nat /\ request[t] <= len /\ FREELIST - SIZE_T <= len
    BY <1>2, RoundedUp
  <1>5. /\ n \in Nat /\ flp[i] \in FreeChunk /\ flp[i].addr \in Nat /\ flp[i].sz \in Nat
        /\ SIZE_T \in Nat /\ FREELIST \in Nat /\ 0 < SIZE_T /\ SIZE_T < FREELIST
        /\ End(flp[i]) = flp[i].addr + SIZE_T + flp[i].sz
    BY <1>0, <1>3, Numbers
  <1> HIDE DEF i, n, len
  <1>6. rest \in Nat /\ rest - SIZE_T \in Nat
    BY <1>1, <1>3, <1>4, <1>5
  <1>7. /\ low \in FreeChunk /\ low.addr = flp[i].addr /\ low.sz = rest - SIZE_T
        /\ End(low) = flp[i].addr + rest
    BY <1>5, <1>6 DEF FreeChunk, End
  <1>8. /\ u \in UsedChunk /\ u.addr = flp[i].addr + rest /\ u.sz = len
        /\ u.len = request[t] /\ End(u) = End(flp[i])
    <2>1. /\ u \in UsedChunk /\ u.addr = flp[i].addr + rest /\ u.sz = len
          /\ u.len = request[t] /\ End(u) = flp[i].addr + rest + SIZE_T + len
      BY <1>2, <1>4, <1>5, <1>6 DEF Granted, UsedChunk, End
    <2> QED  BY <1>4, <1>5, <2>1
  <1>9. /\ request' \in [Threads -> Nat] /\ asleep' = asleep
        /\ \A s \in asleep : request'[s] = request[s]
        /\ used' = used \cup {u}
    BY <1>0, <1>1, GrantSleepers
  <1>10. Brk' = Brk
    BY <1>1 DEF Brk
  <1>11. flp' \in Seq(FreeChunk) /\ Len(flp') = n /\ flp'[i] = low
         /\ \A j \in 1 .. n : j # i => flp'[j] = flp[j]
    <2>1. flp' = [flp EXCEPT ![i] = low]
      BY <1>1, Zenon
    <2> HIDE DEF low
    <2> QED  BY <1>0, <1>3, <1>7, <2>1 DEF Types, n
  <1>12. /\ low.addr = flp[i].addr /\ End(low) = u.addr /\ u.addr < End(u)
         /\ End(u) = End(flp[i]) /\ low.sz < flp[i].sz /\ low.addr < u.addr
         /\ low.sz \in Nat /\ low.sz >= FREELIST - SIZE_T
    BY <1>1, <1>4, <1>5, <1>6, <1>7, <1>8
  <1>13. u.addr \in Nat /\ u.sz = len /\ u.len = request[t] /\ u \in UsedChunk
    BY <1>5, <1>6, <1>8
  <1> HIDE DEF u, low, rest
  <1>14. Types'
    BY <1>0, <1>1, <1>9, <1>10, <1>11, <1>13 DEF Types
  <1>15. Bounds'
    <2>1. Inside(u) /\ 0 < u.len /\ u.len <= u.sz
      <3>1. Inside(flp[i])
        BY <1>0, <1>3 DEF Bounds, n
      <3>2. HeapStart \in Nat /\ Brk \in Nat
        BY <1>0, Numbers
      <3> QED  BY <1>2, <1>4, <1>5, <1>12, <1>13, <3>1, <3>2 DEF Inside
    <2>2. Inside(low)
      <3>1. Inside(flp[i])
        BY <1>0, <1>3 DEF Bounds, n
      <3>2. HeapStart \in Nat /\ Brk \in Nat
        BY <1>0, Numbers
      <3> QED  BY <1>5, <1>12, <1>13, <3>1, <3>2 DEF Inside
    <2>3. \A c \in used' : Inside(c) /\ 0 < c.len /\ c.len <= c.sz
      BY <1>0, <1>9, <2>1 DEF Bounds
    <2>4. \A j \in 1 .. Len(flp') : Inside(flp'[j])
      BY <1>0, <1>11, <2>2 DEF Bounds, n
    <2> QED  BY <1>10, <2>3, <2>4 DEF Bounds, Inside, End
  <1>16. Ordered'
    <2>1. ASSUME NEW j \in 1 .. n, NEW k \in 1 .. n, j < k
          PROVE  End(flp'[j]) < flp'[k].addr
      <3>1. End(flp[j]) < flp[k].addr /\ End(flp[j]) \in Nat /\ flp[k].addr \in Nat
        BY <1>0, <2>1, Numbers DEF Ordered, n
      <3>2. flp'[k].addr = flp[k].addr
        BY <1>11, <1>12
      <3>3. End(flp'[j]) = End(flp[j]) \/ j = i
        BY <1>11
      <3> QED  BY <1>5, <1>11, <1>12, <1>13, <3>1, <3>2, <3>3, SMTT(40)
    <2>2. \A j, k \in 1 .. Len(flp') : j < k => End(flp'[j]) < flp'[k].addr
      BY <1>11, <2>1
    <2> QED  BY <2>2 DEF Ordered, End
  <1>17. \A c \in used : (Apart(c, u) /\ Apart(u, c)) /\ Apart(c, low)
    <2> SUFFICES ASSUME NEW c \in used
                 PROVE  (Apart(c, u) /\ Apart(u, c)) /\ Apart(c, low)
      OBVIOUS
    <2>1. Apart(c, flp[i]) /\ c.addr \in Nat /\ End(c) \in Nat
      BY <1>0, <1>3, Numbers DEF UsedFree, n
    <2> QED  BY <1>5, <1>12, <1>13, <2>1 DEF Apart
  <1>18. UsedApart'
    <2>1. \A c, d \in used' : c # d => Apart(c, d)
      BY <1>0, <1>9, <1>17 DEF UsedApart
    <2> QED  BY <2>1 DEF UsedApart, Apart, End
  <1>19. UsedFree'
    <2>1. ASSUME NEW j \in 1 .. n, j # i  PROVE  Apart(u, flp[j])
      <3>1. End(flp[j]) < flp[i].addr \/ End(flp[i]) < flp[j].addr
        BY <1>0, <1>3, <2>1 DEF Ordered, n
      <3>2. End(flp[j]) \in Nat /\ flp[j].addr \in Nat
        BY <1>0, Numbers DEF n
      <3> QED  BY <1>5, <1>12, <1>13, <3>1, <3>2 DEF Apart
    <2>2. Apart(u, low)
      BY <1>12, <1>13 DEF Apart
    <2>3. \A c \in used' : \A j \in 1 .. Len(flp') : Apart(c, flp'[j])
      BY <1>0, <1>9, <1>11, <1>17, <2>1, <2>2 DEF UsedFree, n
    <2> QED  BY <2>3 DEF UsedFree, Apart, End
  <1>20. Covered'
    <2>1. ASSUME NEW x \in HeapStart .. Brk - 1
          PROVE  \/ \E c \in used' : Within(x, c)
                 \/ \E j \in 1 .. Len(flp') : Within(x, flp'[j])
      <3>1. CASE \E c \in used : Within(x, c)
        BY <1>9, <3>1
      <3>2. ASSUME NEW k \in 1 .. n, Within(x, flp[k])
            PROVE  \/ \E c \in used' : Within(x, c)
                   \/ \E j \in 1 .. Len(flp') : Within(x, flp'[j])
        <4>1. CASE k # i
          BY <1>11, <3>2, <4>1
        <4>2. CASE k = i
          <5>1. x \in Int
            BY <1>0, Numbers
          <5>2. Within(x, u) \/ Within(x, low)
            BY <1>5, <1>12, <1>13, <3>2, <4>2, <5>1 DEF Within
          <5> QED  BY <1>3, <1>9, <1>11, <5>2
        <4> QED  BY <4>1, <4>2
      <3> QED  BY <1>0, <3>1, <3>2 DEF Covered, n
    <2> QED  BY <1>10, <2>1 DEF Covered, Within, End
  <1>21. Sleepers'
    <2>1. ASSUME NEW s \in asleep
          PROVE  /\ request'[s] # 0 /\ ~Avail(request'[s])
                 /\ \A j \in 1 .. Len(flp') : flp'[j].sz < Rounded(request'[s])
      <3>1. \A k \in 1 .. n : flp[k].sz < Rounded(request[s])
        BY <1>0 DEF Sleepers, n
      <3>2. request[s] \in Nat
        BY <1>0 DEF Types
      <3>3. Rounded(request[s]) \in Nat
        BY <3>2, RoundedUp
      <3>4. \A j \in 1 .. Len(flp') : flp'[j].sz < Rounded(request[s])
        BY <1>3, <1>5, <1>11, <1>12, <3>1, <3>3
      <3>5. request'[s] = request[s] /\ request[s] # 0 /\ ~Avail(request[s])
        BY <1>0, <1>9 DEF Sleepers
      <3> QED  BY <3>4, <3>5
    <2> QED  BY <1>9, <1>10, <2>1 DEF Sleepers, Avail, Rounded
  <1> QED  BY <1>14, <1>15, <1>16, <1>18, <1>19, <1>20, <1>21 DEF IInv

LEMMA ExtendKept ==
    ASSUME IInv, NEW t \in Threads, malloc_extend(t)
    PROVE  IInv'
  <1> DEFINE len == Rounded(request[t])
             u == Granted(t, Brk, len)
  <1>0. Types /\ Bounds /\ Ordered /\ UsedApart /\ UsedFree /\ Covered /\ Sleepers
    BY DEF IInv
  <1>1. /\ Trying(t) /\ HeapEnd - Brk >= len + SIZE_T
        /\ brkval' = Brk + SIZE_T + len
        /\ Grant(t, Brk, len) /\ flp' = flp
    BY DEF malloc_extend, Avail
  <1>2. request[t] \in Nat /\ request[t] # 0
    BY <1>0, <1>1 DEF Types, Trying
  <1>3. len \in Nat /\ request[t] <= len /\ FREELIST - SIZE_T <= len
    BY <1>2, RoundedUp
  <1>4. /\ Brk \in Nat /\ SIZE_T \in Nat /\ FREELIST \in Nat /\ 0 < SIZE_T
        /\ SIZE_T < FREELIST /\ HeapStart \in Nat /\ HeapEnd \in Nat
        /\ 0 < HeapStart /\ HeapStart <= Brk
    BY <1>0, Numbers
  <1>5. /\ u \in UsedChunk /\ u.addr = Brk /\ u.sz = len /\ u.len = request[t]
        /\ End(u) = Brk + SIZE_T + len
    BY <1>2, <1>3, <1>4 DEF Granted, UsedChunk, End
  <1>6. /\ request' \in [Threads -> Nat] /\ asleep' = asleep
        /\ \A s \in asleep : request'[s] = request[s]
        /\ used' = used \cup {u}
    BY <1>0, <1>1, GrantSleepers
  <1> HIDE DEF len, u
  <1>7. /\ Brk' = Brk + SIZE_T + len /\ Brk' = End(u) /\ brkval' \in Nat
        /\ Brk' \in HeapStart .. HeapEnd /\ Brk < Brk'
    <2>1. Brk' = IF brkval' = 0 THEN HeapStart ELSE brkval'
      BY DEF Brk
    <2> HIDE DEF Brk
    <2>2. brkval' # 0
      BY <1>1, <1>3, <1>4
    <2> QED  BY <1>1, <1>3, <1>4, <1>5, <2>1, <2>2
  <1> DEFINE b == Brk'
  <1>8. b = Brk'
    OBVIOUS
  <1>9. Types'
    BY <1>0, <1>1, <1>5, <1>6, <1>7 DEF Types
  <1> DEFINE In(c) == HeapStart <= c.addr /\ End(c) <= b /\ FREELIST - SIZE_T <= c.sz
  <1>10. Bounds'
    <2>1. ASSUME NEW j \in 1 .. Len(flp)  PROVE  In(flp[j])
      <3>1. Inside(flp[j]) /\ End(flp[j]) \in Nat
        BY <1>0, Numbers DEF Bounds
      <3> QED  BY <1>4, <1>7, <3>1 DEF Inside
    <2>2. ASSUME NEW c \in used  PROVE  In(c) /\ 0 < c.len /\ c.len <= c.sz
      <3>1. Inside(c) /\ End(c) \in Nat /\ 0 < c.len /\ c.len <= c.sz
        BY <1>0, Numbers DEF Bounds
      <3> QED  BY <1>4, <1>7, <3>1 DEF Inside
    <2>3. In(u) /\ 0 < u.len /\ u.len <= u.sz
      BY <1>2, <1>3, <1>4, <1>5, <1>7
    <2>4. \A c \in used' : In(c) /\ 0 < c.len /\ c.len <= c.sz
      BY <1>6, <2>2, <2>3
    <2> HIDE DEF b
    <2> QED  BY <1>1, <1>8, <2>1, <2>4 DEF Bounds, Inside, End
  <1>11. Ordered'
    BY <1>0, <1>1 DEF Ordered, End
  <1>12. UsedApart'
    <2>1. \A c \in used : Apart(c, u) /\ Apart(u, c)
      BY <1>0, <1>5 DEF Bounds, Inside, Apart
    <2>2. \A c, d \in used' : c # d => Apart(c, d)
      BY <1>0, <1>6, <2>1 DEF UsedApart
    <2> QED  BY <2>2 DEF UsedApart, Apart, End
  <1>13. UsedFree'
    <2>1. \A j \in 1 .. Len(flp) : Apart(u, flp[j])
      BY <1>0, <1>5 DEF Bounds, Inside, Apart
    <2>2. \A c \in used' : \A j \in 1 .. Len(flp') : Apart(c, flp'[j])
      BY <1>0, <1>1, <1>6, <2>1 DEF UsedFree
    <2> QED  BY <2>2 DEF UsedFree, Apart, End
  <1>14. Covered'
    <2>1. ASSUME NEW x \in HeapStart .. b - 1
          PROVE  \/ \E c \in used' : Within(x, c)
                 \/ \E j \in 1 .. Len(flp') : Within(x, flp'[j])
      <3>1. CASE x < Brk
        <4>1. x \in HeapStart .. Brk - 1
          BY <1>4, <1>7, <3>1
        <4> QED  BY <1>0, <1>1, <1>6, <4>1 DEF Covered
      <3>2. CASE ~(x < Brk)
        <4>1. Within(x, u)
          BY <1>3, <1>4, <1>5, <1>7, <3>2 DEF Within
        <4> QED  BY <1>6, <4>1
      <3> QED  BY <3>1, <3>2
    <2> HIDE DEF b
    <2> QED  BY <1>8, <2>1 DEF Covered, Within, End
  <1>15. Sleepers'
    <2>1. ASSUME NEW s \in asleep
          PROVE  /\ request'[s] # 0 /\ ~(HeapEnd - b >= Rounded(request'[s]) + SIZE_T)
                 /\ \A j \in 1 .. Len(flp') : flp'[j].sz < Rounded(request'[s])
      <3>1. /\ request'[s] = request[s] /\ request[s] # 0
            /\ ~(HeapEnd - Brk >= Rounded(request[s]) + SIZE_T)
            /\ \A k \in 1 .. Len(flp) : flp[k].sz < Rounded(request[s])
        BY <1>0, <1>6 DEF Sleepers, Avail
      <3>2. request[s] \in Nat
        BY <1>0 DEF Types
      <3>3. Rounded(request[s]) \in Nat
        BY <3>2, RoundedUp
      <3>4. ~(HeapEnd - b >= Rounded(request[s]) + SIZE_T)
        <4> HIDE DEF b
        <4> QED  BY <1>4, <1>7, <1>8, <3>1, <3>3
      <3> QED  BY <1>1, <3>1, <3>4
    <2> HIDE DEF b
    <2> QED  BY <1>6, <1>8, <2>1 DEF Sleepers, Avail, Rounded
  <1> QED  BY <1>9, <1>10, <1>11, <1>12, <1>13, <1>14, <1>15 DEF IInv

LEMMA WaitKept ==
    ASSUME IInv, NEW t \in Threads, mem_alloc_wait(t)
    PROVE  IInv'
  <1>0. Types /\ Bounds /\ Ordered /\ UsedApart /\ UsedFree /\ Covered /\ Sleepers
    BY DEF IInv
  <1>1. /\ Trying(t) /\ Fitting(request[t]) = {} /\ ~Avail(request[t])
        /\ brkval' = Brk /\ asleep' = asleep \cup {t}
        /\ flp' = flp /\ used' = used /\ request' = request
    BY DEF mem_alloc_wait
  <1>2. Brk' = Brk /\ brkval' \in Nat
    <2>1. Brk' = IF brkval' = 0 THEN HeapStart ELSE brkval'
      BY DEF Brk
    <2>2. Brk \in Nat /\ HeapStart <= Brk /\ 0 < HeapStart /\ HeapStart \in Nat
      BY <1>0, Numbers
    <2> HIDE DEF Brk
    <2> QED  BY <1>1, <2>1, <2>2
  <1>3. Types'
    BY <1>0, <1>1, <1>2 DEF Types
  <1>4. Bounds' /\ Ordered' /\ UsedApart' /\ UsedFree' /\ Covered'
    BY <1>0, <1>1, <1>2 DEF Bounds, Inside, Ordered, UsedApart, UsedFree, Apart,
                            Covered, Within, End
  <1>5. Sleepers'
    <2>1. request[t] \in Nat /\ request[t] # 0
      BY <1>0, <1>1 DEF Types, Trying
    <2>2. \A i \in 1 .. Len(flp) : flp[i].sz < Rounded(request[t])
      BY <1>0, <1>1, <2>1, FitFound DEF Types
    <2>3. \A s \in asleep' :
             /\ request[s] # 0 /\ ~Avail(request[s])
             /\ \A i \in 1 .. Len(flp) : flp[i].sz < Rounded(request[s])
      BY <1>0, <1>1, <2>1, <2>2 DEF Sleepers
    <2> QED  BY <1>1, <1>2, <2>3 DEF Sleepers, Avail, Rounded
  <1> QED  BY <1>3, <1>4, <1>5 DEF IInv

LEMMA CallKept ==
    ASSUME IInv, NEW t \in Threads, NEW len \in Lens, mem_alloc(t, len)
    PROVE  IInv'
  <1>0. Types /\ Bounds /\ Ordered /\ UsedApart /\ UsedFree /\ Covered /\ Sleepers
    BY DEF IInv
  <1>1. /\ request[t] = 0 /\ request' = [request EXCEPT ![t] = len]
        /\ flp' = flp /\ brkval' = brkval /\ used' = used /\ asleep' = asleep
    BY DEF mem_alloc
  <1>2. Brk' = Brk
    BY <1>1 DEF Brk
  <1>3. Types'
    BY <1>0, <1>1, <1>2, HeapAssumption DEF Types
  <1>4. Bounds' /\ Ordered' /\ UsedApart' /\ UsedFree' /\ Covered'
    BY <1>0, <1>1, <1>2 DEF Bounds, Inside, Ordered, UsedApart, UsedFree, Apart,
                            Covered, Within, End
  <1>5. Sleepers'
    <2>1. \A s \in asleep : request'[s] = request[s]
      BY <1>0, <1>1 DEF Sleepers, Types
    <2>2. \A s \in asleep :
             /\ request'[s] # 0 /\ ~Avail(request'[s])
             /\ \A i \in 1 .. Len(flp) : flp[i].sz < Rounded(request'[s])
      BY <1>0, <2>1 DEF Sleepers
    <2> QED  BY <1>1, <1>2, <2>2 DEF Sleepers, Avail, Rounded
  <1> QED  BY <1>3, <1>4, <1>5 DEF IInv

-----------------------------------------------------------------------------
(***************************************************************************)
(* The entries up to Before(c) end where chunk c begins or earlier, those  *)
(* behind it begin where c ends or later.                                  *)
(***************************************************************************)
LEMMA BeforeProperties ==
    ASSUME Types, UsedFree, Ordered, NEW c \in used
    PROVE  /\ Before(c) \in 0 .. Len(flp)
           /\ \A j \in 1 .. Before(c) : End(flp[j]) <= c.addr
           /\ \A j \in Before(c) + 1 .. Len(flp) : End(c) <= flp[j].addr
  <1> DEFINE behind == {i \in DOMAIN flp : flp[i].addr >= c.addr}
             b == Before(c)
  <1>1. /\ Len(flp) \in Nat /\ DOMAIN flp = 1 .. Len(flp)
        /\ c.addr \in Nat /\ c.sz \in Nat /\ SIZE_T \in Nat /\ 0 < SIZE_T
        /\ End(c) = c.addr + SIZE_T + c.sz
    BY Numbers
  <1>2. \A i \in 1 .. Len(flp) :
            /\ flp[i].addr \in Nat /\ End(flp[i]) \in Nat /\ flp[i].addr < End(flp[i])
            /\ Apart(c, flp[i])
    <2>1. \A i \in 1 .. Len(flp) :
              flp[i].addr \in Nat /\ End(flp[i]) \in Nat /\ flp[i].addr < End(flp[i])
      BY Numbers
    <2> QED  BY <2>1 DEF UsedFree
  <1>3. /\ b \in 0 .. Len(flp)
        /\ \A j \in 1 .. b : flp[j].addr < c.addr
        /\ b < Len(flp) => c.addr <= flp[b + 1].addr
    <2>1. CASE behind = {}
      <3>1. b = Len(flp)
        BY <2>1 DEF Before
      <3> HIDE DEF b
      <3> QED  BY <1>1, <1>2, <2>1, <3>1, SMTT(40)
    <2>2. CASE behind # {}
      <3>1. behind \subseteq Nat
        BY <1>1
      <3>2. Min(behind) \in behind /\ \A m \in behind : Min(behind) <= m
        BY <2>2, <3>1, MinNat
      <3> DEFINE l == Min(behind)
      <3>3. b = l - 1
        BY <2>2 DEF Before
      <3>4. /\ l \in 1 .. Len(flp) /\ c.addr <= flp[l].addr
            /\ \A j \in 1 .. Len(flp) : flp[j].addr >= c.addr => l <= j
        <4> HIDE DEF l
        <4>1. l \in behind /\ \A j \in behind : l <= j
          BY <3>2 DEF l
        <4> QED  BY <1>1, <1>2, <4>1
      <3> HIDE DEF b, l, behind
      <3>5. ASSUME NEW j \in 1 .. b  PROVE  flp[j].addr < c.addr
        <4>1. j \in 1 .. Len(flp) /\ ~(l <= j)
          BY <1>1, <3>3, <3>4
        <4> QED  BY <1>1, <1>2, <3>4, <4>1
      <3>6. b \in 0 .. Len(flp) /\ b + 1 = l
        BY <1>1, <3>3, <3>4
      <3> QED  BY <3>4, <3>5, <3>6
    <2> QED  BY <2>1, <2>2
  <1> HIDE DEF b
  <1>4. ASSUME NEW j \in 1 .. b  PROVE  End(flp[j]) <= c.addr
    BY <1>1, <1>2, <1>3, SMTT(40) DEF Apart
  <1>5. ASSUME NEW j \in b + 1 .. Len(flp)  PROVE  End(c) <= flp[j].addr
    <2>1. j \in 1 .. Len(flp) /\ b + 1 \in 1 .. Len(flp) /\ c.addr <= flp[b + 1].addr
      BY <1>1, <1>3
    <2>2. j = b + 1 \/ End(flp[b + 1]) < flp[j].addr
      BY <1>1, <1>3, <2>1 DEF Ordered
    <2>3. c.addr <= flp[j].addr
      BY <1>1, <1>2, <2>1, <2>2
    <2> QED  BY <1>1, <1>2, <2>1, <2>3 DEF Apart
  <1> QED  BY <1>3, <1>4, <1>5 DEF b

(***************************************************************************)
(* What free makes of chunk c: it replaces the entries after the k-th and  *)
(* before the h-th by entry e, which consists of c and the entries         *)
(* replaced, and touches none of the others.                               *)
(***************************************************************************)
LEMMA FreeEffect ==
    ASSUME IInv, NEW c \in used, free(c)
    PROVE  \E k \in 0 .. Len(flp), e \in FreeChunk :
           \E h \in k + 1 .. Len(flp) + 1 :
              /\ flp' = Splice(flp, k, e, h)
              /\ HeapStart <= e.addr /\ End(e) <= Brk /\ FREELIST - SIZE_T <= e.sz
              /\ \A j \in 1 .. k : End(flp[j]) < e.addr
              /\ \A j \in h .. Len(flp) : End(e) < flp[j].addr
              /\ e.addr <= c.addr /\ End(c) <= End(e)
              /\ \A j \in k + 1 .. h - 1 : e.addr <= flp[j].addr /\ End(flp[j]) <= End(e)
              /\ \A d \in used : d # c => Apart(d, e)
  <1> DEFINE n == Len(flp)
             i == Before(c)
             hi == IF i < n /\ End(c) = flp[i + 1].addr THEN 1 ELSE 0
             lo == IF i > 0 /\ End(flp[i]) = c.addr THEN 1 ELSE 0
             bottom == IF lo = 1 THEN flp[i].addr ELSE c.addr
             top == IF hi = 1 THEN End(flp[i + 1]) ELSE End(c)
             e == [addr |-> bottom, sz |-> top - bottom - SIZE_T]
  <1>0. Types /\ Bounds /\ Ordered /\ UsedApart /\ UsedFree
    BY DEF IInv
  <1>1. flp' = Splice(flp, i - lo, e, i + 1 + hi)
    BY DEF free, Splice
  <1>2. /\ i \in 0 .. n
        /\ \A j \in 1 .. i : End(flp[j]) <= c.addr
        /\ \A j \in i + 1 .. n : End(c) <= flp[j].addr
    BY <1>0, BeforeProperties
  <1>3. /\ n \in Nat /\ c.addr \in Nat /\ c.sz \in Nat /\ SIZE_T \in Nat /\ 0 < SIZE_T
        /\ FREELIST \in Nat /\ SIZE_T < FREELIST /\ HeapStart \in Nat /\ Brk \in Nat
        /\ End(c) = c.addr + SIZE_T + c.sz /\ End(c) \in Nat
        /\ HeapStart <= c.addr /\ End(c) <= Brk /\ FREELIST - SIZE_T <= c.sz
    BY <1>0, Numbers DEF Bounds, Inside
  <1>4. \A j \in 1 .. n :
            /\ flp[j].addr \in Nat /\ flp[j].sz \in Nat /\ End(flp[j]) \in Nat
            /\ End(flp[j]) = flp[j].addr + SIZE_T + flp[j].sz
            /\ HeapStart <= flp[j].addr /\ End(flp[j]) <= Brk
    BY <1>0, Numbers DEF Bounds, Inside
  <1>5. \A j, l \in 1 .. n : j < l => End(flp[j]) < flp[l].addr
    BY <1>0 DEF Ordered
  <1> HIDE DEF i, n
  <1>6. /\ lo \in {0, 1} /\ hi \in {0, 1}
        /\ lo = 1 => i \in 1 .. n /\ End(flp[i]) = c.addr
        /\ lo = 0 => i = 0 \/ End(flp[i]) < c.addr
        /\ hi = 1 => i + 1 \in 1 .. n /\ End(c) = flp[i + 1].addr
        /\ hi = 0 => i = n \/ End(c) < flp[i + 1].addr
    BY <1>2, <1>3, <1>4
  <1>7. (lo = 1 => bottom = flp[i].addr) /\ (lo = 0 => bottom = c.addr)
    OBVIOUS
  <1>8. (hi = 1 => top = End(flp[i + 1])) /\ (hi = 0 => top = End(c))
    OBVIOUS
  <1> HIDE DEF lo, hi
  <1>9. /\ bottom \in Nat /\ top \in Nat /\ HeapStart <= bottom /\ top <= Brk
        /\ bottom <= c.addr /\ End(c) <= top
    <2>1. bottom \in Nat /\ HeapStart <= bottom /\ bottom <= c.addr
      BY <1>3, <1>4, <1>6, <1>7
    <2>2. top \in Nat /\ top <= Brk /\ End(c) <= top
      BY <1>3, <1>4, <1>6, <1>8
    <2> QED  BY <2>1, <2>2
  <1>10. ASSUME NEW j \in 1 .. i - lo  PROVE  End(flp[j]) < bottom
    <2>1. j \in 1 .. n /\ j \in 1 .. i
      BY <1>2, <1>3, <1>6
    <2>2. CASE lo = 1
      BY <1>2, <1>3, <1>5, <1>6, <1>7, <2>1, <2>2
    <2>3. CASE lo = 0
      <3>1. CASE j = i
        BY <1>2, <1>6, <1>7, <2>1, <2>3, <3>1
      <3>2. CASE j # i
        <4>1. End(flp[j]) < flp[i].addr /\ flp[i].addr < End(flp[i]) /\ End(flp[i]) <= c.addr
              /\ i \in 1 .. n
          BY <1>2, <1>3, <1>4, <1>5, <2>1, <3>2
        <4> QED  BY <1>3, <1>4, <1>7, <2>1, <2>3, <4>1
      <3> QED  BY <3>1, <3>2
    <2> QED  BY <1>6, <2>2, <2>3
  <1>11. ASSUME NEW j \in i + 1 + hi .. n  PROVE  top < flp[j].addr
    <2>1. j \in 1 .. n /\ j \in i + 1 .. n
      BY <1>2, <1>3, <1>6
    <2>2. CASE hi = 1
      BY <1>2, <1>3, <1>5, <1>6, <1>8, <2>1, <2>2
    <2>3. CASE hi = 0
      <3>1. CASE j = i + 1
        BY <1>2, <1>6, <1>8, <2>1, <2>3, <3>1
      <3>2. CASE j # i + 1
        <4>1. /\ i + 1 \in 1 .. n /\ End(c) <= flp[i + 1].addr
              /\ flp[i + 1].addr < End(flp[i + 1]) /\ End(flp[i + 1]) < flp[j].addr
          BY <1>2, <1>3, <1>4, <1>5, <2>1, <3>2
        <4> QED  BY <1>3, <1>4, <1>8, <2>1, <2>3, <4>1
      <3> QED  BY <3>1, <3>2
    <2> QED  BY <1>6, <2>2, <2>3
  <1>12. ASSUME NEW j \in i - lo + 1 .. i + hi
         PROVE  bottom <= flp[j].addr /\ End(flp[j]) <= top
    <2>1. (j = i /\ lo = 1) \/ (j = i + 1 /\ hi = 1)
      BY <1>2, <1>3, <1>6
    <2>2. CASE j = i /\ lo = 1
      BY <1>3, <1>4, <1>6, <1>7, <1>9, <2>2
    <2>3. CASE j = i + 1 /\ hi = 1
      BY <1>3, <1>4, <1>6, <1>8, <1>9, <2>3
    <2> QED  BY <2>1, <2>2, <2>3
  <1>13. ASSUME NEW d \in used, d # c
         PROVE  End(d) <= bottom \/ top <= d.addr
    <2>1. /\ d.addr \in Nat /\ End(d) \in Nat /\ d.addr < End(d)
          /\ Apart(d, c) /\ \A j \in 1 .. n : Apart(d, flp[j])
      BY <1>0, <1>13, Numbers, SMTT(40) DEF UsedApart, UsedFree, n
    <2>2. CASE End(d) <= c.addr
      <3>1. CASE lo = 0
        BY <1>7, <2>2, <3>1
      <3>2. CASE lo = 1
        <4>1. End(d) <= flp[i].addr \/ End(flp[i]) <= d.addr
          BY <1>6, <2>1, <3>2 DEF Apart
        <4> QED  BY <1>3, <1>4, <1>6, <1>7, <2>1, <2>2, <3>2, <4>1
      <3> QED  BY <1>6, <3>1, <3>2
    <2>3. CASE End(c) <= d.addr
      <3>1. CASE hi = 0
        BY <1>8, <2>3, <3>1
      <3>2. CASE hi = 1
        <4>1. End(d) <= flp[i + 1].addr \/ End(flp[i + 1]) <= d.addr
          BY <1>6, <2>1, <3>2 DEF Apart
        <4> QED  BY <1>3, <1>4, <1>6, <1>8, <2>1, <2>3, <3>2, <4>1
      <3> QED  BY <1>6, <3>1, <3>2
    <2> QED  BY <2>1, <2>2, <2>3 DEF Apart
  <1> HIDE DEF bottom, top
  <1>14. /\ e \in FreeChunk /\ e.addr = bottom /\ End(e) = top
         /\ FREELIST - SIZE_T <= e.sz
    <2>1. top - bottom - SIZE_T \in Nat /\ FREELIST - SIZE_T <= top - bottom - SIZE_T
      BY <1>3, <1>9
    <2> QED  BY <1>3, <1>9, <2>1 DEF FreeChunk, End
  <1> HIDE DEF e
  <1>15. i - lo \in 0 .. n /\ i + 1 + hi \in i - lo + 1 .. n + 1 /\ i + 1 + hi - 1 = i + hi
    BY <1>2, <1>3, <1>6
  <1>16. \A d \in used : d # c => Apart(d, e)
    BY <1>13, <1>14 DEF Apart
  <1> DEFINE k == i - lo
             h == i + 1 + hi
  <1>17. /\ flp' = Splice(flp, k, e, h)
         /\ HeapStart <= e.addr /\ End(e) <= Brk /\ FREELIST - SIZE_T <= e.sz
         /\ \A j \in 1 .. k : End(flp[j]) < e.addr
         /\ \A j \in h .. n : End(e) < flp[j].addr
         /\ e.addr <= c.addr /\ End(c) <= End(e)
         /\ \A j \in k + 1 .. h - 1 : e.addr <= flp[j].addr /\ End(flp[j]) <= End(e)
    <2>1. ASSUME NEW j \in k + 1 .. h - 1
          PROVE  e.addr <= flp[j].addr /\ End(flp[j]) <= End(e)
      <3>1. j \in i - lo + 1 .. i + hi
        BY <1>2, <1>3, <1>6
      <3> QED  BY <1>12, <1>14, <3>1
    <2> QED  BY <1>1, <1>9, <1>10, <1>11, <1>14, <2>1
  <1>18. k \in 0 .. n /\ h \in k + 1 .. n + 1 /\ e \in FreeChunk
    BY <1>14, <1>15
  <1> HIDE DEF k, h
  <1> QED  BY <1>16, <1>17, <1>18 DEF n

LEMMA FreeKept ==
    ASSUME IInv, NEW c \in used, mem_free(c)
    PROVE  IInv'
  <1> DEFINE n == Len(flp)
  <1>0. Types /\ Bounds /\ Ordered /\ UsedApart /\ UsedFree /\ Covered /\ Sleepers
    BY DEF IInv
  <1>1. /\ free(c) /\ used' = used \ {c} /\ asleep' = {}
        /\ brkval' = brkval /\ request' = request
    BY DEF mem_free
  <1>2. PICK k \in 0 .. n, e \in FreeChunk : \E h \in k + 1 .. n + 1 :
              /\ flp' = Splice(flp, k, e, h)
              /\ HeapStart <= e.addr /\ End(e) <= Brk /\ FREELIST - SIZE_T <= e.sz
              /\ \A j \in 1 .. k : End(flp[j]) < e.addr
              /\ \A j \in h .. n : End(e) < flp[j].addr
              /\ e.addr <= c.addr /\ End(c) <= End(e)
              /\ \A j \in k + 1 .. h - 1 : e.addr <= flp[j].addr /\ End(flp[j]) <= End(e)
              /\ \A d \in used : d # c => Apart(d, e)
    BY <1>1, FreeEffect
  <1>3. PICK h \in k + 1 .. n + 1 :
              /\ flp' = Splice(flp, k, e, h)
              /\ HeapStart <= e.addr /\ End(e) <= Brk /\ FREELIST - SIZE_T <= e.sz
              /\ \A j \in 1 .. k : End(flp[j]) < e.addr
              /\ \A j \in h .. n : End(e) < flp[j].addr
              /\ e.addr <= c.addr /\ End(c) <= End(e)
              /\ \A j \in k + 1 .. h - 1 : e.addr <= flp[j].addr /\ End(flp[j]) <= End(e)
              /\ \A d \in used : d # c => Apart(d, e)
    BY <1>2
  <1> DEFINE m == k + 1 + (n + 1 - h)
  <1>4. /\ flp' \in Seq(FreeChunk) /\ Len(flp') = m
        /\ \A j \in 1 .. k : flp'[j] = flp[j]
        /\ flp'[k + 1] = e
        /\ \A j \in k + 2 .. m : flp'[j] = flp[j - k - 2 + h]
    <2>1. flp \in Seq(FreeChunk)
      BY <1>0 DEF Types
    <2>2. flp' = Splice(flp, k, e, h)
      BY <1>3
    <2>3. k \in 0 .. Len(flp) /\ h \in k + 1 .. Len(flp) + 1 /\ e \in FreeChunk
      OBVIOUS
    <2>4. flp' \in Seq(FreeChunk) /\ IsSplice(flp', flp, k, e, h)
      BY <2>1, <2>2, <2>3, SpliceProperties
    <2> QED  BY <2>4 DEF IsSplice
  <1>5. Brk' = Brk
    BY <1>1 DEF Brk
  <1>6. n \in Nat
    BY <1>0, Numbers
  <1>7. /\ \A j \in 1 .. n : /\ flp[j].addr \in Nat /\ End(flp[j]) \in Nat
                             /\ flp[j].addr < End(flp[j])
        /\ e.addr \in Nat /\ e.sz \in Nat /\ End(e) \in Nat
    <2>1. SIZE_T \in Nat /\ 0 < SIZE_T
      BY <1>0, Numbers
    <2>2. \A j \in 1 .. n : /\ flp[j].addr \in Nat /\ End(flp[j]) \in Nat
                             /\ flp[j].addr < End(flp[j])
      BY <1>0, <2>1, Numbers
    <2> QED  BY <2>1, <2>2, SMTT(40) DEF FreeChunk, End
  <1> HIDE DEF n
  <1>8. /\ m \in Nat /\ k \in Nat /\ h \in Nat
        /\ \A j \in 1 .. m : j \in 1 .. k \/ j = k + 1 \/ j \in k + 2 .. m
        /\ \A j \in 1 .. k : j \in 1 .. n
        /\ \A j \in k + 2 .. m : j - k - 2 + h \in h .. n /\ j - k - 2 + h \in 1 .. n
    BY <1>6
  <1> HIDE DEF m
  <1>9. Types'
    BY <1>0, <1>1, <1>4, <1>5 DEF Types
  <1>10. Bounds'
    <2>1. Inside(e)
      BY <1>3 DEF Inside
    <2>2. \A j \in 1 .. n : Inside(flp[j])
      BY <1>0 DEF Bounds, n
    <2>3. ASSUME NEW j \in 1 .. m  PROVE  Inside(flp'[j])
      BY <1>4, <1>8, <2>1, <2>2
    <2>4. \A d \in used' : Inside(d) /\ 0 < d.len /\ d.len <= d.sz
      BY <1>0, <1>1 DEF Bounds
    <2> QED  BY <1>4, <1>5, <2>3, <2>4 DEF Bounds, Inside, End
  <1>11. Ordered'
    <2>1. ASSUME NEW j \in 1 .. m, NEW l \in 1 .. m, j < l
          PROVE  End(flp'[j]) < flp'[l].addr
      <3>0. \A a, b \in 1 .. n : a < b => End(flp[a]) < flp[b].addr
        BY <1>0 DEF Ordered, n
      <3>1. CASE j \in 1 .. k /\ l \in 1 .. k
        BY <1>4, <1>8, <2>1, <3>0, <3>1
      <3>2. CASE j \in 1 .. k /\ l = k + 1
        BY <1>3, <1>4, <3>2
      <3>3. CASE j \in 1 .. k /\ l \in k + 2 .. m
        <4>1. flp'[j] = flp[j] /\ flp'[l] = flp[l - k - 2 + h]
          BY <1>4, <3>3
        <4>2. j < l - k - 2 + h /\ j \in 1 .. n /\ l - k - 2 + h \in 1 .. n
          BY <1>6, <1>8, <3>3
        <4> QED  BY <3>0, <4>1, <4>2
      <3>4. CASE j = k + 1 /\ l \in k + 2 .. m
        BY <1>3, <1>4, <1>8, <3>4
      <3>5. CASE j \in k + 2 .. m /\ l \in k + 2 .. m
        <4>1. flp'[j] = flp[j - k - 2 + h] /\ flp'[l] = flp[l - k - 2 + h]
          BY <1>4, <3>5
        <4>2. /\ j - k - 2 + h < l - k - 2 + h
              /\ j - k - 2 + h \in 1 .. n /\ l - k - 2 + h \in 1 .. n
          BY <1>8, <2>1, <3>5
        <4> QED  BY <3>0, <4>1, <4>2
      <3> QED  BY <1>8, <2>1, <3>1, <3>2, <3>3, <3>4, <3>5
    <2>2. \A j, l \in 1 .. Len(flp') : j < l => End(flp'[j]) < flp'[l].addr
      BY <1>4, <2>1
    <2> QED  BY <2>2 DEF Ordered, End
  <1>12. UsedApart'
    BY <1>0, <1>1 DEF UsedApart, Apart, End
  <1>13. UsedFree'
    <2>1. ASSUME NEW d \in used', NEW j \in 1 .. m  PROVE  Apart(d, flp'[j])
      <3>1. d \in used /\ Apart(d, e) /\ \A a \in 1 .. n : Apart(d, flp[a])
        BY <1>0, <1>1, <1>3 DEF UsedFree, n
      <3> QED  BY <1>4, <1>8, <3>1
    <2> QED  BY <1>4, <2>1 DEF UsedFree, Apart, End
  <1>14. Covered'
    <2>1. ASSUME NEW x \in HeapStart .. Brk - 1
          PROVE  \/ \E d \in used' : Within(x, d)
                 \/ \E j \in 1 .. m : Within(x, flp'[j])
      <3>0. k + 1 \in 1 .. m /\ x \in Int /\ c.addr \in Nat /\ End(c) \in Nat
        <4>1. k + 1 \in 1 .. m
          BY <1>6 DEF m
        <4> QED  BY <1>0, <4>1, Numbers
      <3>1. ASSUME NEW d \in used, Within(x, d)
            PROVE  \/ \E b \in used' : Within(x, b)
                   \/ \E j \in 1 .. m : Within(x, flp'[j])
        <4>1. CASE d # c
          BY <1>1, <3>1, <4>1
        <4>2. CASE d = c
          <5>1. Within(x, e)
            BY <1>3, <1>7, <3>0, <3>1, <4>2 DEF Within
          <5> QED  BY <1>4, <3>0, <5>1
        <4> QED  BY <4>1, <4>2
      <3>2. ASSUME NEW a \in 1 .. n, Within(x, flp[a])
            PROVE  \E j \in 1 .. m : Within(x, flp'[j])
        <4>1. CASE a \in 1 .. k
          <5>1. a \in 1 .. m
            BY <1>6, <4>1 DEF m
          <5> QED  BY <1>4, <3>2, <4>1, <5>1
        <4>2. CASE a \in k + 1 .. h - 1
          <5>1. Within(x, e)
            <6>1. e.addr <= flp[a].addr /\ End(flp[a]) <= End(e)
              BY <1>3, <4>2
            <6> QED  BY <1>7, <3>0, <3>2, <6>1 DEF Within
          <5> QED  BY <1>4, <3>0, <5>1
        <4>3. CASE a \in h .. n
          <5> DEFINE j == a + k + 2 - h
          <5>1. j \in k + 2 .. m /\ j \in 1 .. m /\ j - k - 2 + h = a
            BY <1>6, <4>3 DEF m
          <5>2. flp'[j] = flp[a]
            BY <1>4, <5>1
          <5> HIDE DEF j
          <5> QED  BY <3>2, <5>1, <5>2
        <4> QED  BY <1>6, <1>8, <4>1, <4>2, <4>3
      <3> QED  BY <1>0, <3>1, <3>2 DEF Covered, n
    <2> QED  BY <1>4, <1>5, <2>1 DEF Covered, Within, End
  <1>15. Sleepers'
    BY <1>1 DEF Sleepers
  <1> QED  BY <1>9, <1>10, <1>11, <1>12, <1>13, <1>14, <1>15 DEF IInv

-----------------------------------------------------------------------------
LEMMA InitKept ==
    ASSUME Init
    PROVE  IInv
  <1>1. flp = << >> /\ brkval = 0 /\ used = {} /\ asleep = {}
        /\ request = [t \in Threads |-> 0] /\ Len(flp) = 0 /\ flp \in Seq(FreeChunk)
    BY DEF Init
  <1>2. Brk = HeapStart
    BY <1>1 DEF Brk
  <1>3. Types
    BY <1>1, <1>2, HeapAssumption DEF Types
  <1>4. 1 .. Len(flp) = {} /\ HeapStart .. Brk - 1 = {}
    BY <1>1, <1>2, HeapAssumption
  <1> HIDE DEF Brk
  <1>5. Bounds /\ Ordered /\ UsedApart /\ UsedFree /\ Covered /\ Sleepers
    BY <1>1, <1>4 DEF Bounds, Ordered, UsedApart, UsedFree, Covered, Sleepers
  <1> QED  BY <1>3, <1>5 DEF IInv

LEMMA StutterKept ==
    ASSUME IInv, UNCHANGED vars
    PROVE  IInv'
  <1>1. /\ flp' = flp /\ brkval' = brkval /\ used' = used
        /\ request' = request /\ asleep' = asleep
    BY DEF vars
  <1>2. Brk' = Brk
    BY <1>1 DEF Brk
  <1>3. Types'
    BY <1>1, <1>2 DEF IInv, Types
  <1>4. Bounds' /\ Ordered' /\ UsedApart' /\ UsedFree' /\ Covered' /\ Sleepers'
    BY <1>1, <1>2 DEF IInv, Bounds, Inside, Ordered, UsedApart, UsedFree, Apart, Covered,
                      Within, End, Sleepers, Avail, Rounded
  <1> QED  BY <1>3, <1>4 DEF IInv

(***************************************************************************)
(* The inductive invariant: every step of malloc, free, mem_alloc and      *)
(* mem_free keeps the chunks inside the heap, apart from each other, and   *)
(* together everything below the break.                                    *)
(***************************************************************************)
THEOREM IInvCorrect == Spec => []IInv
  <1>1. Init => IInv
    BY InitKept
  <1>2. IInv /\ [Next]_vars => IInv'
    <2> SUFFICES ASSUME IInv, [Next]_vars
                 PROVE  IInv'
      OBVIOUS
    <2>1. ASSUME NEW t \in Threads, NEW len \in Lens, mem_alloc(t, len)
          PROVE  IInv'
      BY <2>1, CallKept
    <2>2. ASSUME NEW t \in Threads, malloc_whole(t)  PROVE  IInv'
      BY <2>2, WholeKept
    <2>3. ASSUME NEW t \in Threads, malloc_split(t)  PROVE  IInv'
      BY <2>3, SplitKept
    <2>4. ASSUME NEW t \in Threads, malloc_extend(t)  PROVE  IInv'
      BY <2>4, ExtendKept
    <2>5. ASSUME NEW t \in Threads, mem_alloc_wait(t)  PROVE  IInv'
      BY <2>5, WaitKept
    <2>6. ASSUME NEW c \in used, mem_free(c)  PROVE  IInv'
      BY <2>6, FreeKept
    <2>7. CASE UNCHANGED vars
      BY <2>7, StutterKept
    <2> QED  BY <2>1, <2>2, <2>3, <2>4, <2>5, <2>6, <2>7 DEF Next
  <1> QED  BY <1>1, <1>2, PTL DEF Spec

(***************************************************************************)
(* The free list is in the order of addresses and no two neighbours touch, *)
(* in whatever order the chunks were freed (malloc.c: free).               *)
(***************************************************************************)
THEOREM CoalescedCorrect == Spec => []Coalesced
  <1>1. IInv => Coalesced
    <2> HAVE IInv
    <2>0. Types /\ Bounds /\ Ordered
      BY DEF IInv
    <2>1. Len(flp) \in Nat /\ DOMAIN flp = 1 .. Len(flp) /\ FREELIST - SIZE_T \in Nat
          /\ \A i \in 1 .. Len(flp) : flp[i].sz \in Nat
      BY <2>0, Numbers
    <2>2. \A i \in DOMAIN flp : flp[i].sz >= FREELIST - SIZE_T
      BY <2>0, <2>1 DEF Bounds, Inside
    <2>3. ASSUME NEW i \in 1 .. Len(flp) - 1  PROVE  End(flp[i]) < flp[i + 1].addr
      <3>1. i \in 1 .. Len(flp) /\ i + 1 \in 1 .. Len(flp) /\ i < i + 1
        BY <2>1
      <3> QED  BY <2>0, <3>1 DEF Ordered
    <2> QED  BY <2>2, <2>3 DEF Coalesced
  <1> QED  BY <1>1, IInvCorrect, PTL

(***************************************************************************)
(* Whoever sleeps in mem_alloc would still be refused: neither the free    *)
(* list nor what lies above the break could serve him.                     *)
(***************************************************************************)
THEOREM SleepNeeded == Spec => []NoNeedlessSleep
  <1>1. IInv => NoNeedlessSleep
    <2> HAVE IInv
    <2> SUFFICES ASSUME NEW t \in asleep
                 PROVE  Fitting(request[t]) = {} /\ ~Avail(request[t])
      BY DEF NoNeedlessSleep
    <2>1. Types /\ Sleepers /\ request[t] \in Nat
      BY DEF IInv, Types
    <2>2. /\ ~Avail(request[t])
          /\ \A i \in 1 .. Len(flp) : flp[i].sz < Rounded(request[t])
      BY <2>1 DEF Sleepers
    <2> QED  BY <2>1, <2>2, FitFound DEF Types
  <1> QED  BY <1>1, IInvCorrect, PTL

(***************************************************************************)
(* Every byte of the heap below the break is in exactly one chunk, and     *)
(* none above it is in any: malloc and free neither lose memory nor hand   *)
(* it out twice.                                                           *)
(***************************************************************************)
THEOREM TiledCorrect == Spec => []Tiled
  <1>1. IInv => Tiled
    <2> HAVE IInv
    <2>0. Types /\ Bounds /\ Ordered /\ UsedApart /\ UsedFree /\ Covered
      BY DEF IInv
    <2>1. /\ Brk \in Nat /\ HeapStart \in Nat /\ HeapEnd \in Nat
          /\ Len(flp) \in Nat /\ DOMAIN flp = 1 .. Len(flp)
      BY <2>0, Numbers
    <2>2. \A c \in Chunks : /\ c.addr \in Nat /\ End(c) \in Nat /\ End(c) <= Brk
      BY <2>0, <2>1, Numbers DEF Chunks, Bounds, Inside
    <2>3. ASSUME NEW c \in Chunks, NEW d \in Chunks, c # d
          PROVE  End(c) <= d.addr \/ End(d) <= c.addr
      <3>1. CASE c \in used /\ d \in used
        BY <2>0, <2>3, <3>1 DEF UsedApart, Apart
      <3>2. CASE c \in used /\ d \notin used
        <4>1. PICK j \in 1 .. Len(flp) : d = flp[j]
          BY <2>1, <3>2 DEF Chunks
        <4> QED  BY <2>0, <3>2, <4>1 DEF UsedFree, Apart
      <3>3. CASE c \notin used /\ d \in used
        <4>1. PICK j \in 1 .. Len(flp) : c = flp[j]
          BY <2>1, <3>3 DEF Chunks
        <4> QED  BY <2>0, <3>3, <4>1 DEF UsedFree, Apart
      <3>4. CASE c \notin used /\ d \notin used
        <4>1. PICK i \in 1 .. Len(flp) : c = flp[i]
          BY <2>1, <3>4 DEF Chunks
        <4>2. PICK j \in 1 .. Len(flp) : d = flp[j]
          BY <2>1, <3>4 DEF Chunks
        <4>3. i < j \/ j < i
          BY <2>1, <2>3, <4>1, <4>2
        <4>4. End(c) < d.addr \/ End(d) < c.addr
          BY <2>0, <4>1, <4>2, <4>3 DEF Ordered
        <4> QED  BY <2>2, <4>4
      <3> QED  BY <3>1, <3>2, <3>3, <3>4
    <2> SUFFICES ASSUME NEW x \in HeapStart .. HeapEnd - 1
                 PROVE  Cardinality({c \in Chunks : x \in Extent(c)})
                          = IF x < Brk THEN 1 ELSE 0
      BY DEF Tiled
    <2> DEFINE X == {c \in Chunks : x \in Extent(c)}
    <2>4. x \in Int /\ \A c \in Chunks : x \in Extent(c) <=> c.addr <= x /\ x < End(c)
      <3>1. x \in Int
        BY <2>1
      <3>2. ASSUME NEW c \in Chunks
            PROVE  x \in Extent(c) <=> c.addr <= x /\ x < End(c)
        <4>1. c.addr \in Nat /\ End(c) \in Nat
          BY <2>2
        <4> QED  BY <3>1, <4>1 DEF Extent
      <3> QED  BY <3>1, <3>2
    <2>5. CASE x < Brk
      <3>1. x \in HeapStart .. Brk - 1
        BY <2>1, <2>5
      <3>2. PICK c \in Chunks : c.addr <= x /\ x < End(c)
        BY <2>0, <2>1, <3>1 DEF Covered, Within, Chunks
      <3>3. ASSUME NEW d \in X  PROVE  d = c
        <4>1. d \in Chunks /\ d.addr <= x /\ x < End(d)
          BY <2>4
        <4>2. /\ c.addr \in Nat /\ d.addr \in Nat /\ End(c) \in Nat /\ End(d) \in Nat
          BY <2>2, <4>1
        <4>3. ~(End(c) <= d.addr \/ End(d) <= c.addr)
          BY <2>4, <3>2, <4>1, <4>2
        <4> QED  BY <2>3, <4>1, <4>3
      <3>4. X = {c}
        BY <2>4, <3>2, <3>3
      <3>5. Cardinality({c}) = 1
        BY FS_Singleton
      <3> QED  BY <2>5, <3>4, <3>5
    <2>6. CASE ~(x < Brk)
      <3>1. X = {}
        BY <2>1, <2>2, <2>4, <2>6
      <3>2. Cardinality({}) = 0
        BY FS_EmptySet
      <3> QED  BY <2>6, <3>1, <3>2
    <2> QED  BY <2>5, <2>6
  <1> QED  BY <1>1, IInvCorrect, PTL

-----------------------------------------------------------------------------
(***************************************************************************)
(* Whichever way malloc finds a chunk, it lies in the heap, is large       *)
(* enough, and is apart from all that were handed out before.              *)
(***************************************************************************)
LEMMA MallocGrants ==
    ASSUME IInv, NEW t \in Threads,
           malloc_whole(t) \/ malloc_split(t) \/ malloc_extend(t)
    PROVE  \E a, sz \in Nat :
              /\ Trying(t) /\ Grant(t, a, sz) /\ request[t] <= sz
              /\ HeapStart <= a /\ a + SIZE_T + sz <= HeapEnd
              /\ \A c \in used : End(c) <= a \/ a + SIZE_T + sz <= c.addr
  <1> DEFINE i == BestFit(request[t])
             len == Rounded(request[t])
             rest == flp[i].sz - len
  <1>0. Types /\ Bounds /\ UsedFree
    BY DEF IInv
  <1>1. Trying(t) /\ request[t] \in Nat
    BY <1>0 DEF malloc_whole, malloc_split, malloc_extend, Types
  <1>2. len \in Nat /\ request[t] <= len
    BY <1>1, RoundedUp
  <1>3. /\ SIZE_T \in Nat /\ FREELIST \in Nat /\ HeapStart \in Nat /\ HeapEnd \in Nat
        /\ 0 < SIZE_T /\ SIZE_T < FREELIST
        /\ Brk \in Nat /\ HeapStart <= Brk /\ Brk <= HeapEnd
    BY <1>0, Numbers
  <1>4. ASSUME Fitting(request[t]) # {}
        PROVE  /\ i \in 1 .. Len(flp) /\ flp[i].sz >= len
               /\ flp[i].addr \in Nat /\ flp[i].sz \in Nat
               /\ End(flp[i]) = flp[i].addr + SIZE_T + flp[i].sz
               /\ HeapStart <= flp[i].addr /\ End(flp[i]) <= Brk
               /\ \A c \in used : /\ End(c) <= flp[i].addr \/ End(flp[i]) <= c.addr
                                  /\ c.addr \in Nat /\ End(c) \in Nat
    <2>1. i \in 1 .. Len(flp) /\ flp[i].sz >= len
      BY <1>0, <1>1, <1>4, FitFound DEF Types
    <2> HIDE DEF i
    <2>2. \A c \in used : c.addr \in Nat /\ End(c) \in Nat
      BY <1>0, Numbers
    <2>3. /\ flp[i].addr \in Nat /\ flp[i].sz \in Nat
          /\ End(flp[i]) = flp[i].addr + SIZE_T + flp[i].sz
      BY <1>0, <2>1, Numbers
    <2> QED  BY <1>0, <2>1, <2>2, <2>3 DEF Bounds, Inside, UsedFree, Apart
  <1> HIDE DEF len
  <1>5. CASE malloc_whole(t)
    <2>1. Fitting(request[t]) # {} /\ Grant(t, flp[i].addr, flp[i].sz)
      BY <1>5 DEF malloc_whole
    <2> HIDE DEF i
    <2>2. flp[i].addr \in Nat /\ flp[i].sz \in Nat /\ request[t] <= flp[i].sz
          /\ HeapStart <= flp[i].addr /\ flp[i].addr + SIZE_T + flp[i].sz <= HeapEnd
      BY <1>1, <1>2, <1>3, <1>4, <2>1, SMTT(40)
    <2>3. \A c \in used : End(c) <= flp[i].addr \/ flp[i].addr + SIZE_T + flp[i].sz <= c.addr
      BY <1>4, <2>1
    <2> QED  BY <1>1, <2>1, <2>2, <2>3
  <1>6. CASE malloc_split(t)
    <2>1. /\ Fitting(request[t]) # {} /\ rest >= FREELIST
          /\ Grant(t, flp[i].addr + rest, len)
      BY <1>6 DEF malloc_split, len
    <2> HIDE DEF i
    <2>0. /\ flp[i].addr \in Nat /\ flp[i].sz \in Nat /\ rest \in Nat
          /\ flp[i].addr + rest + SIZE_T + len = End(flp[i]) /\ End(flp[i]) \in Nat
          /\ HeapStart <= flp[i].addr /\ End(flp[i]) <= Brk
          /\ \A c \in used : /\ End(c) <= flp[i].addr \/ End(flp[i]) <= c.addr
                             /\ c.addr \in Nat /\ End(c) \in Nat
      <3>1. /\ flp[i].sz >= len /\ flp[i].addr \in Nat /\ flp[i].sz \in Nat
            /\ End(flp[i]) = flp[i].addr + SIZE_T + flp[i].sz
            /\ HeapStart <= flp[i].addr /\ End(flp[i]) <= Brk
        BY <1>4, <2>1
      <3>2. \A c \in used : /\ End(c) <= flp[i].addr \/ End(flp[i]) <= c.addr
                            /\ c.addr \in Nat /\ End(c) \in Nat
        BY <1>4, <2>1
      <3>3. rest \in Nat /\ flp[i].addr + rest + SIZE_T + len = End(flp[i])
        BY <1>2, <1>3, <3>1
      <3> QED  BY <1>3, <3>1, <3>2, <3>3
    <2> HIDE DEF rest
    <2>2. /\ flp[i].addr + rest \in Nat /\ HeapStart <= flp[i].addr + rest
          /\ flp[i].addr + rest + SIZE_T + len <= HeapEnd
      BY <1>3, <2>0
    <2>3. ASSUME NEW c \in used
          PROVE  End(c) <= flp[i].addr + rest \/ flp[i].addr + rest + SIZE_T + len <= c.addr
      BY <2>0
    <2> QED  BY <1>1, <1>2, <2>1, <2>2, <2>3
  <1>7. CASE malloc_extend(t)
    <2>1. Grant(t, Brk, len) /\ HeapEnd - Brk >= len + SIZE_T
      BY <1>7 DEF malloc_extend, len, Avail
    <2>2. Brk + SIZE_T + len <= HeapEnd
      BY <1>2, <1>3, <2>1
    <2>3. \A c \in used : End(c) <= Brk
      BY <1>0 DEF Bounds, Inside
    <2> QED  BY <1>1, <1>2, <1>3, <2>1, <2>2, <2>3
  <1> QED  BY <1>5, <1>6, <1>7

\* The buffer that a caller sees of chunk c.
Buffer(c) == [addr |-> c.addr + SIZE_T, len |-> c.len]
Buffers == {Buffer(c) : c \in used}

LEMMA GrantRefines ==
    ASSUME IInv, NEW t \in Threads,
           malloc_whole(t) \/ malloc_split(t) \/ malloc_extend(t)
    PROVE  A!Grant(t)
  <1>1. PICK a, sz \in Nat :
              /\ Trying(t) /\ Grant(t, a, sz) /\ request[t] <= sz
              /\ HeapStart <= a /\ a + SIZE_T + sz <= HeapEnd
              /\ \A c \in used : End(c) <= a \/ a + SIZE_T + sz <= c.addr
    BY MallocGrants
  <1> DEFINE new == [addr |-> a + SIZE_T, len |-> request[t]]
  <1>2. /\ request[t] \in Nat /\ request[t] # 0 /\ t \notin asleep
        /\ SIZE_T \in Nat /\ 0 < SIZE_T /\ HeapStart \in Nat /\ HeapEnd \in Nat
        /\ \A c \in used : /\ c.addr \in Nat /\ c.len \in Nat /\ c.sz \in Nat
                           /\ End(c) = c.addr + SIZE_T + c.sz /\ c.len <= c.sz
    <2>1. Types /\ Bounds
      BY DEF IInv
    <2> QED  BY <1>1, <2>1, Numbers DEF Types, Trying, Bounds
  <1>3. a + SIZE_T \in HeapStart .. HeapEnd - request[t]
    BY <1>1, <1>2
  <1>4. used' = used \cup {Granted(t, a, sz)} /\ asleep' = asleep
        /\ request' = [request EXCEPT ![t] = 0]
    BY <1>1 DEF Grant, Granted
  <1>5. Buffer(Granted(t, a, sz)) = new
    BY DEF Buffer, Granted
  <1>6. {Buffer(c) : c \in used'} = Buffers \cup {new}
    <2> HIDE DEF new
    <2> QED  BY <1>4, <1>5, Zenon DEF Buffers
  <1>7. \A b \in Buffers : A!Bytes(b) \cap A!Bytes(new) = {}
    <2> SUFFICES ASSUME NEW c \in used
                 PROVE  A!Bytes(Buffer(c)) \cap A!Bytes(new) = {}
      BY DEF Buffers
    <2>1. A!Bytes(Buffer(c)) = c.addr + SIZE_T .. c.addr + SIZE_T + c.len - 1
      BY DEF A!Bytes, Buffer
    <2>2. A!Bytes(new) = a + SIZE_T .. a + SIZE_T + request[t] - 1
      BY DEF A!Bytes
    <2>3. c.addr + SIZE_T + c.sz <= a \/ a + SIZE_T + sz <= c.addr
      BY <1>1, <1>2
    <2>4. c.addr \in Nat /\ c.len \in Nat /\ c.sz \in Nat /\ c.len <= c.sz
      BY <1>2
    <2>5. request[t] <= sz
      BY <1>1
    <2>6. ASSUME NEW x \in A!Bytes(Buffer(c)), x \in A!Bytes(new)
          PROVE  FALSE
      <3>1. /\ x \in Int /\ c.addr + SIZE_T <= x /\ x <= c.addr + SIZE_T + c.len - 1
        BY <1>2, <2>1, <2>4
      <3>2. a + SIZE_T <= x /\ x <= a + SIZE_T + request[t] - 1
        BY <1>2, <2>2, <2>6
      <3> QED  BY <1>2, <2>3, <2>4, <2>5, <3>1, <3>2
    <2> QED  BY <2>6
  <1>8. /\ Buffers = {[addr |-> c.addr + SIZE_T, len |-> c.len] : c \in used}
        /\ {Buffer(c) : c \in used'} = {[addr |-> c.addr + SIZE_T, len |-> c.len] : c \in used'}
    BY DEF Buffers, Buffer
  <1> DEFINE before == {[addr |-> c.addr + SIZE_T, len |-> c.len] : c \in used}
             after == {[addr |-> c.addr + SIZE_T, len |-> c.len] : c \in used'}
  <1>9. /\ \A b \in before : A!Bytes(b) \cap A!Bytes(new) = {}
        /\ after = before \cup {new}
    BY <1>6, <1>7, <1>8, Zenon
  <1> HIDE DEF before, after
  <1>10. \E x \in HeapStart .. HeapEnd - request[t] :
            /\ \A b \in before : A!Bytes(b) \cap A!Bytes([addr |-> x, len |-> request[t]]) = {}
            /\ after = before \cup {[addr |-> x, len |-> request[t]]}
    BY <1>3, <1>9
  <1> QED  BY <1>2, <1>4, <1>10, Zenon DEF A!Grant, before, after

LEMMA FreeRefines ==
    ASSUME IInv, NEW c \in used, mem_free(c)
    PROVE  A!Free(Buffer(c)) /\ Buffer(c) \in Buffers
  <1>1. used' = used \ {c} /\ asleep' = {} /\ request' = request
    BY DEF mem_free
  <1>2. ASSUME NEW d \in used, d # c
        PROVE  Buffer(d) # Buffer(c)
    <2>1. /\ c.addr \in Nat /\ d.addr \in Nat /\ End(c) \in Nat /\ End(d) \in Nat
          /\ c.addr < End(c) /\ d.addr < End(d) /\ SIZE_T \in Nat
      <3>1. Types
        BY DEF IInv
      <3>2. /\ SIZE_T \in Nat /\ 0 < SIZE_T
            /\ \A b \in used : /\ b.addr \in Nat /\ b.sz \in Nat /\ End(b) \in Nat
                               /\ End(b) = b.addr + SIZE_T + b.sz
        BY <3>1, Numbers
      <3>3. \A b \in used : b.addr < End(b)
        BY <3>2
      <3> QED  BY <3>2, <3>3
    <2>2. End(c) <= d.addr \/ End(d) <= c.addr
      BY <1>2 DEF IInv, UsedApart, Apart
    <2>3. c.addr + SIZE_T # d.addr + SIZE_T
      BY <2>1, <2>2
    <2>4. Buffer(d).addr = d.addr + SIZE_T /\ Buffer(c).addr = c.addr + SIZE_T
      BY DEF Buffer
    <2> QED  BY <2>3, <2>4
  <1>3. {Buffer(d) : d \in used'} = {Buffer(d) : d \in used} \ {Buffer(c)}
    BY <1>1, <1>2, Zenon
  <1>4. Buffer(c) \in {Buffer(d) : d \in used}
    OBVIOUS
  <1> QED  BY <1>1, <1>3, <1>4, Zenon DEF A!Free, Buffer, Buffers

(***************************************************************************)
(* The heap implements an allocator: every buffer that malloc returns lies *)
(* in the heap and shares no byte with another one until it is freed, and  *)
(* every mem_free wakes up whoever sleeps for memory.                      *)
(***************************************************************************)
THEOREM Refinement == Spec => ImplementsAllocator
  <1> DEFINE mapped == << {[addr |-> c.addr + SIZE_T, len |-> c.len] : c \in used},
                          request, asleep >>
  <1>1. Init => A!Init
    BY DEF Init, A!Init
  <1>2. IInv /\ [Next]_vars => [A!Next]_mapped
    <2> SUFFICES ASSUME IInv, [Next]_vars
                 PROVE  A!Next \/ UNCHANGED mapped
      OBVIOUS
    <2>1. ASSUME NEW t \in Threads, NEW len \in Lens, mem_alloc(t, len)
          PROVE  A!Next
      <3>1. A!Call(t, len)
        BY <2>1 DEF mem_alloc, A!Call
      <3> QED  BY <3>1 DEF A!Next
    <2>2. ASSUME NEW t \in Threads,
                 malloc_whole(t) \/ malloc_split(t) \/ malloc_extend(t)
          PROVE  A!Next
      <3>1. A!Grant(t)
        BY <2>2, GrantRefines
      <3> QED  BY <3>1 DEF A!Next
    <2>3. ASSUME NEW t \in Threads, mem_alloc_wait(t)
          PROVE  A!Next
      <3>1. A!Refuse(t)
        BY <2>3 DEF mem_alloc_wait, Trying, A!Refuse
      <3> QED  BY <3>1 DEF A!Next
    <2>4. ASSUME NEW c \in used, mem_free(c)
          PROVE  A!Next
      <3>1. A!Free(Buffer(c)) /\ Buffer(c) \in Buffers
        BY <2>4, FreeRefines
      <3> QED  BY <3>1 DEF A!Next, Buffer, Buffers
    <2>5. CASE UNCHANGED vars
      BY <2>5 DEF vars
    <2> QED  BY <2>1, <2>2, <2>3, <2>4, <2>5 DEF Next
  <1> QED  BY <1>1, <1>2, IInvCorrect, PTL DEF Spec, ImplementsAllocator, A!Spec

=============================================================================
