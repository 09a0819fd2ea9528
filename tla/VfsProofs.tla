------------------------------ MODULE VfsProofs ------------------------------
(***************************************************************************)
(* What holds of the virtual filesystem of module Vfs for every number of  *)
(* threads, inodes and calls: a directory is searched by one thread at a   *)
(* time, the inodes stay a tree, and the reference counts count the        *)
(* references to an inode and to everything below it.                      *)
(***************************************************************************)
EXTENDS Vfs, SequenceTheorems, FunctionTheorems, FiniteSetTheorems, TLAPS

-----------------------------------------------------------------------------
(***************************************************************************)
(* Ancestors in a tree of n inodes, given by the parents.                  *)
(***************************************************************************)
Closed(n, par, S) == \A j \in S : par[j] \in S \cup {0}

Up(n, par, i) ==
    {k \in 1 .. n : \A S \in SUBSET (1 .. n) : i \in S /\ Closed(n, par, S) => k \in S}

IsTree(n, par) == \A k \in 1 .. n : par[k] \in 0 .. k - 1

\* An inode is its own ancestor, and its parent's ancestors are its ancestors.
LEMMA UpProperties ==
    ASSUME NEW n \in Nat, NEW par, IsTree(n, par), NEW i \in 1 .. n
    PROVE  /\ i \in Up(n, par, i)
           /\ Up(n, par, i) \subseteq 1 .. i
           /\ Closed(n, par, Up(n, par, i))
           /\ par[i] = 0 => Up(n, par, i) = {i}
           /\ par[i] # 0 => Up(n, par, i) = {i} \cup Up(n, par, par[i])
  <1>0. ASSUME NEW k \in 1 .. n
        PROVE  k \in Up(n, par, k) /\ Closed(n, par, Up(n, par, k))
    <2>1. k \in Up(n, par, k)
      BY DEF Up
    <2>2. ASSUME NEW j \in Up(n, par, k), par[j] # 0
          PROVE  par[j] \in Up(n, par, k)
      <3>1. j \in 1 .. n /\ par[j] \in 1 .. n
        <4>1. j \in 1 .. n
          BY DEF Up
        <4>2. par[j] \in 0 .. j - 1
          BY <4>1 DEF IsTree
        <4> QED  BY <2>2, <4>1, <4>2
      <3>2. ASSUME NEW S \in SUBSET (1 .. n), k \in S, Closed(n, par, S)
            PROVE  par[j] \in S
        <4>1. j \in S
          BY <3>2 DEF Up
        <4> QED  BY <2>2, <3>2, <4>1 DEF Closed
      <3> QED  BY <3>1, <3>2 DEF Up
    <2> QED  BY <2>1, <2>2 DEF Closed
  <1>1. ASSUME NEW k \in 1 .. n, NEW S \in SUBSET (1 .. n), k \in S, Closed(n, par, S)
        PROVE  Up(n, par, k) \subseteq S
    BY <1>1 DEF Up
  <1>2. Up(n, par, i) \subseteq 1 .. i
    <2>1. i \in 1 .. i /\ 1 .. i \in SUBSET (1 .. n)
      OBVIOUS
    <2>2. ASSUME NEW j \in 1 .. i  PROVE  par[j] \in (1 .. i) \cup {0}
      <3>1. j \in 1 .. n
        BY <2>1
      <3>2. par[j] \in 0 .. j - 1
        BY <3>1 DEF IsTree
      <3> QED  BY <3>1, <3>2
    <2>3. Closed(n, par, 1 .. i)
      BY <2>2 DEF Closed
    <2> QED  BY <1>1, <2>1, <2>3
  <1>3. ASSUME par[i] = 0  PROVE  Up(n, par, i) = {i}
    <2>1. Closed(n, par, {i}) /\ {i} \in SUBSET (1 .. n)
      BY <1>3 DEF Closed
    <2> QED  BY <1>0, <1>1, <2>1
  <1>4. ASSUME par[i] # 0  PROVE  Up(n, par, i) = {i} \cup Up(n, par, par[i])
    <2>1. par[i] \in 1 .. n
      <3>1. par[i] \in 0 .. i - 1
        BY DEF IsTree
      <3> QED  BY <1>4, <3>1
    <2> DEFINE p == par[i]
    <2>2. p \in Up(n, par, p) /\ Closed(n, par, Up(n, par, p))
          /\ Up(n, par, p) \in SUBSET (1 .. n)
      BY <1>0, <2>1 DEF Up
    <2>3. Closed(n, par, {i} \cup Up(n, par, p))
      BY <2>2 DEF Closed
    <2>4. Up(n, par, i) \subseteq {i} \cup Up(n, par, p)
      BY <1>1, <2>2, <2>3
    <2>5. i \in Up(n, par, i) /\ Closed(n, par, Up(n, par, i))
          /\ Up(n, par, i) \in SUBSET (1 .. n)
      BY <1>0 DEF Up
    <2>6. p \in Up(n, par, i)
      BY <1>4, <2>5 DEF Closed
    <2>7. Up(n, par, p) \subseteq Up(n, par, i)
      BY <1>1, <2>1, <2>5, <2>6
    <2> QED  BY <2>4, <2>5, <2>7
  <1> QED  BY <1>0, <1>2, <1>3, <1>4

\* Another inode does not change the ancestors of those that are there.
LEMMA UpGrows ==
    ASSUME NEW n \in Nat, NEW par, IsTree(n, par), NEW par2, IsTree(n + 1, par2),
           \A j \in 1 .. n : par2[j] = par[j], NEW i \in 1 .. n
    PROVE  Up(n + 1, par2, i) = Up(n, par, i)
  <1>1. i \in Up(n, par, i) /\ Closed(n, par, Up(n, par, i))
        /\ Up(n, par, i) \subseteq 1 .. n
    BY UpProperties DEF Up
  <1>2. Up(n, par, i) \in SUBSET (1 .. n + 1) /\ 1 .. n \subseteq 1 .. n + 1
    <2>1. 1 .. n \subseteq 1 .. n + 1
      OBVIOUS
    <2> QED  BY <1>1, <2>1
  <1>3. Closed(n + 1, par2, Up(n, par, i))
    BY <1>1 DEF Closed
  <1>4. Up(n + 1, par2, i) \subseteq Up(n, par, i)
    BY <1>1, <1>2, <1>3 DEF Up
  <1>5. ASSUME NEW k \in Up(n, par, i), NEW S \in SUBSET (1 .. n + 1), i \in S,
               Closed(n + 1, par2, S)
        PROVE  k \in S
    <2> DEFINE T == S \cap (1 .. n)
    <2>1. ASSUME NEW j \in T  PROVE  par[j] \in T \cup {0}
      <3>1. par[j] \in S \cup {0}
        BY <1>5 DEF Closed
      <3>2. par[j] \in 0 .. j - 1 /\ j \in 1 .. n
        BY DEF IsTree
      <3>3. par[j] \in 0 .. n
        BY <3>2
      <3> QED  BY <3>1, <3>3
    <2>2. Closed(n, par, T) /\ T \in SUBSET (1 .. n) /\ i \in T
      BY <1>5, <2>1 DEF Closed
    <2> QED  BY <2>2 DEF Up
  <1>6. Up(n, par, i) \subseteq Up(n + 1, par2, i)
    BY <1>1, <1>2, <1>5 DEF Up
  <1> QED  BY <1>4, <1>6

-----------------------------------------------------------------------------
(***************************************************************************)
(* The places that refer to inode i or something below it, in the          *)
(* sequences R of the references of the threads, with ancestors A.         *)
(***************************************************************************)
Holders(R, A, i) ==
    {r \in Threads \X (1 .. MaxHeld + 1) :
        r[2] \in DOMAIN R[r[1]] /\ i \in A[R[r[1]][r[2]]]}

LEMMA HoldersFinite ==
    ASSUME NEW R, NEW A, NEW i
    PROVE  IsFiniteSet(Holders(R, A, i)) /\ Cardinality(Holders(R, A, i)) \in Nat
  <1>1. IsFiniteSet(Threads) /\ MaxHeld + 1 \in Int
    BY VfsAssumption
  <1>2. IsFiniteSet(1 .. MaxHeld + 1)
    BY <1>1, FS_Interval
  <1>3. IsFiniteSet(Threads \X (1 .. MaxHeld + 1))
    BY <1>1, <1>2, FS_Product
  <1>4. Holders(R, A, i) \in SUBSET (Threads \X (1 .. MaxHeld + 1))
    BY DEF Holders
  <1>5. IsFiniteSet(Holders(R, A, i))
    BY <1>3, <1>4, FS_Subset
  <1> QED  BY <1>5, FS_CardinalityType

\* Thread t has one reference more, to inode k.
NewRef(R, R2, t, k) ==
    R2[t] = Append(R[t], k) /\ \A u \in Threads : u # t => R2[u] = R[u]

\* R2 are the references R and one to inode k.
Gained(R, R2, A, i, k) ==
    Cardinality(Holders(R2, A, i)) = Cardinality(Holders(R, A, i)) + IF i \in A[k] THEN 1 ELSE 0

\* A thread gets a reference to inode k.
LEMMA HoldersAppend ==
    ASSUME NEW R \in [Threads -> Seq(Nat)], NEW R2, NEW A, NEW i, NEW t \in Threads,
           NEW k \in Nat, Len(R[t]) <= MaxHeld, NewRef(R, R2, t, k)
    PROVE  Gained(R, R2, A, i, k)
  <1> DEFINE H == Holders(R, A, i)
             H2 == Holders(R2, A, i)
             p == Len(R[t]) + 1
             x == << t, p >>
  <1>1. /\ R[t] \in Seq(Nat) /\ Len(R[t]) \in Nat /\ DOMAIN R[t] = 1 .. Len(R[t])
        /\ MaxHeld \in Nat
    BY LenProperties, VfsAssumption
  <1>2. /\ DOMAIN Append(R[t], k) = 1 .. p
        /\ \A j \in 1 .. Len(R[t]) : Append(R[t], k)[j] = R[t][j]
        /\ Append(R[t], k)[p] = k
    BY <1>1
  <1>3. p \in 1 .. MaxHeld + 1 /\ p \notin DOMAIN R[t]
    BY <1>1
  <1>4. /\ R2[t] = Append(R[t], k)
        /\ \A u \in Threads : u # t => R2[u] = R[u]
    BY DEF NewRef
  <1>5. x \notin H
    BY <1>3 DEF Holders
  <1>6. ASSUME NEW r \in Threads \X (1 .. MaxHeld + 1), r # x
        PROVE  r \in H <=> r \in H2
    <2>1. r[1] \in Threads /\ r[2] \in 1 .. MaxHeld + 1 /\ r = << r[1], r[2] >>
      OBVIOUS
    <2>2. CASE r[1] # t
      BY <1>4, <2>1, <2>2 DEF Holders
    <2>3. CASE r[1] = t
      <3>1. r[2] # p
        BY <1>6, <2>1, <2>3
      <3>2. r[2] \in DOMAIN R2[t] <=> r[2] \in DOMAIN R[t]
        BY <1>1, <1>2, <1>4, <2>1, <3>1
      <3>3. r[2] \in DOMAIN R[t] => R2[t][r[2]] = R[t][r[2]]
        BY <1>1, <1>2, <1>4
      <3> QED  BY <2>1, <2>3, <3>2, <3>3 DEF Holders
    <2> QED  BY <2>2, <2>3
  <1>7. x \in H2 <=> i \in A[k]
    BY <1>1, <1>2, <1>3, <1>4 DEF Holders
  <1>8. IsFiniteSet(H) /\ Cardinality(H) \in Nat
    BY HoldersFinite
  <1>9. H \subseteq Threads \X (1 .. MaxHeld + 1) /\ H2 \subseteq Threads \X (1 .. MaxHeld + 1)
    BY DEF Holders
  <1> HIDE DEF H, H2, x
  <1>10. CASE i \in A[k]
    <2>1. \A r : r \in H2 <=> r \in H \/ r = x
      BY <1>6, <1>7, <1>9, <1>10, Zenon
    <2>3. H2 = H \cup {x}
      BY <2>1, Zenon
    <2>2. Cardinality(H \cup {x}) = Cardinality(H) + 1
      BY <1>5, <1>8, FS_AddElement
    <2> QED  BY <1>10, <2>2, <2>3 DEF H, H2, Gained
  <1>11. CASE i \notin A[k]
    <2>1. \A r : r \in H2 <=> r \in H
      BY <1>5, <1>6, <1>7, <1>9, <1>11, Zenon
    <2>2. H2 = H
      BY <2>1, Zenon
    <2> QED  BY <1>8, <1>11, <2>2 DEF H, H2, Gained
  <1> QED  BY <1>10, <1>11

\* An entry is taken off a sequence.
LEMMA RemoveAtProperties ==
    ASSUME NEW S, NEW q \in Seq(S), NEW i \in 1 .. Len(q)
    PROVE  /\ RemoveAt(q, i) \in Seq(S) /\ Len(RemoveAt(q, i)) = Len(q) - 1
           /\ \A j \in 1 .. Len(q) - 1 :
                 RemoveAt(q, i)[j] = q[IF j < i THEN j ELSE j + 1]
  <1> DEFINE a == SubSeq(q, 1, i - 1)
             b == SubSeq(q, i + 1, Len(q))
  <1>1. Len(q) \in Nat /\ i \in Nat
    BY LenProperties
  <1>2. /\ a \in Seq(S) /\ Len(a) = i - 1
        /\ \A j \in 1 .. i - 1 : a[j] = q[j]
    <2>1. \A j \in 1 .. i - 1 : j \in 1 .. Len(q)  BY <1>1
    <2> QED  BY <1>1, <2>1, SubSeqProperties, Z3
  <1>3. /\ b \in Seq(S) /\ Len(b) = Len(q) - i
        /\ \A j \in 1 .. Len(q) - i : b[j] = q[i + j]
    BY <1>1, SubSeqProperties
  <1> HIDE DEF a, b
  <1>4. /\ a \o b \in Seq(S) /\ Len(a \o b) = Len(q) - 1
        /\ \A j \in 1 .. Len(q) - 1 :
              (a \o b)[j] = IF j <= i - 1 THEN a[j] ELSE b[j - (i - 1)]
    <2>1. /\ a \o b \in Seq(S) /\ Len(a \o b) = Len(a) + Len(b)
          /\ \A j \in 1 .. Len(a) + Len(b) :
                (a \o b)[j] = IF j <= Len(a) THEN a[j] ELSE b[j - Len(a)]
      BY <1>2, <1>3, ConcatProperties
    <2>2. Len(a) + Len(b) = Len(q) - 1
      BY <1>1, <1>2, <1>3
    <2> QED  BY <1>2, <2>1, <2>2, Zenon
  <1>5. RemoveAt(q, i) = a \o b
    BY DEF RemoveAt, a, b
  <1>6. ASSUME NEW j \in 1 .. Len(q) - 1
        PROVE  (a \o b)[j] = q[IF j < i THEN j ELSE j + 1]
    <2>1. CASE j < i
      BY <1>1, <1>2, <1>4, <2>1
    <2>2. CASE ~(j < i)
      <3>1. j - (i - 1) \in 1 .. Len(q) - i /\ i + (j - (i - 1)) = j + 1
        BY <1>1, <2>2
      <3>2. (a \o b)[j] = b[j - (i - 1)]
        BY <1>1, <1>4, <2>2
      <3>3. b[j - (i - 1)] = q[i + (j - (i - 1))]
        BY <1>3, <3>1
      <3> QED  BY <2>2, <3>1, <3>2, <3>3
    <2> QED  BY <2>1, <2>2
  <1> QED  BY <1>4, <1>5, <1>6

\* A thread gives up its p-th reference, and the later ones move up.
LEMMA HoldersRemove ==
    ASSUME NEW R \in [Threads -> Seq(Nat)], NEW R2, NEW A, NEW i, NEW t \in Threads,
           NEW p \in 1 .. Len(R[t]), Len(R[t]) <= MaxHeld, R2[t] = RemoveAt(R[t], p),
           \A u \in Threads : u # t => R2[u] = R[u]
    PROVE  Gained(R2, R, A, i, R[t][p])
  <1> DEFINE q == RemoveAt(R[t], p)
             n == Len(R[t])
             H == Holders(R, A, i)
             H2 == Holders(R2, A, i)
             x == << t, p >>
             m(j) == IF j < p THEN j ELSE j + 1
             f == [r \in H2 |-> IF r[1] = t THEN << t, m(r[2]) >> ELSE r]
  <1>1. /\ R[t] \in Seq(Nat) /\ n \in Nat /\ DOMAIN R[t] = 1 .. n
        /\ MaxHeld \in Nat /\ p \in 1 .. n /\ n <= MaxHeld
    BY LenProperties, VfsAssumption
  <1>2. q \in Seq(Nat) /\ Len(q) = n - 1 /\ \A j \in 1 .. n - 1 : q[j] = R[t][m(j)]
    BY <1>1, RemoveAtProperties
  <1>3. DOMAIN q = 1 .. n - 1
    BY <1>2, LenProperties
  <1>4. /\ R2[t] = q
        /\ \A u \in Threads : u # t => R2[u] = R[u]
    OBVIOUS
  <1> HIDE DEF q, n
  <1>5. ASSUME NEW r \in H2
        PROVE  /\ f[r] \in H \ {x}
               /\ r[1] = t => r[2] \in 1 .. n - 1 /\ f[r] = << t, m(r[2]) >>
               /\ r[1] # t => f[r] = r
               /\ r = << r[1], r[2] >>
    <2>1. r \in Threads \X (1 .. MaxHeld + 1) /\ r[2] \in DOMAIN R2[r[1]]
          /\ i \in A[R2[r[1]][r[2]]]
      BY DEF Holders
    <2>2. r[1] \in Threads /\ r[2] \in 1 .. MaxHeld + 1 /\ r = << r[1], r[2] >>
      BY <2>1
    <2>3. CASE r[1] = t
      <3>1. r[2] \in 1 .. n - 1 /\ f[r] = << t, m(r[2]) >>
        BY <1>3, <1>4, <2>1, <2>3
      <3>2. m(r[2]) \in 1 .. n /\ m(r[2]) # p /\ m(r[2]) \in 1 .. MaxHeld + 1
        BY <1>1, <3>1, SMTT(40)
      <3>3. i \in A[R[t][m(r[2])]]
        BY <1>2, <1>4, <2>1, <2>3, <3>1
      <3>4. << t, m(r[2]) >> \in H
        BY <1>1, <3>2, <3>3 DEF Holders
      <3>5. << t, m(r[2]) >> # x
        BY <3>2
      <3> QED  BY <2>2, <2>3, <3>1, <3>4, <3>5
    <2>4. CASE r[1] # t
      <3>1. f[r] = r
        BY <2>4
      <3>2. r \in H
        BY <1>4, <2>1, <2>2, <2>4 DEF Holders
      <3> QED  BY <2>2, <2>4, <3>1, <3>2
    <2> QED  BY <2>3, <2>4
  <1>6. f \in [H2 -> H \ {x}]
    BY <1>5
  <1>7. ASSUME NEW a \in H2, NEW b \in H2, f[a] = f[b]
        PROVE  a = b
    <2>0. (f[a])[1] = a[1] /\ (f[b])[1] = b[1]
      BY <1>5
    <2>1. CASE a[1] # t
      BY <1>5, <1>7, <2>0, <2>1
    <2>2. CASE a[1] = t
      <3>1. b[1] = t
        BY <1>7, <2>0, <2>2
      <3>2. /\ a[2] \in 1 .. n - 1 /\ b[2] \in 1 .. n - 1
            /\ f[a] = << t, m(a[2]) >> /\ f[b] = << t, m(b[2]) >>
        BY <1>5, <2>2, <3>1
      <3>3. m(a[2]) = m(b[2])
        BY <1>7, <3>2
      <3>6. \A j, k \in 1 .. n - 1 : m(j) = m(k) => j = k
        BY <1>1
      <3> HIDE DEF m
      <3>4. a[2] = b[2]
        BY <3>2, <3>3, <3>6
      <3>5. a = << t, a[2] >> /\ b = << t, b[2] >>
        BY <1>5, <2>2, <3>1
      <3> QED  BY <3>4, <3>5
    <2> QED  BY <2>1, <2>2
  <1>8. ASSUME NEW s \in H \ {x}
        PROVE  \E r \in H2 : f[r] = s
    <2>1. s \in Threads \X (1 .. MaxHeld + 1) /\ s[2] \in DOMAIN R[s[1]]
          /\ i \in A[R[s[1]][s[2]]] /\ s # x
      BY DEF Holders
    <2>2. s[1] \in Threads /\ s[2] \in 1 .. MaxHeld + 1 /\ s = << s[1], s[2] >>
      BY <2>1
    <2>3. CASE s[1] # t
      <3>1. s \in H2
        BY <1>4, <2>1, <2>2, <2>3 DEF Holders
      <3> QED  BY <2>3, <3>1
    <2>4. CASE s[1] = t
      <3> DEFINE j == IF s[2] < p THEN s[2] ELSE s[2] - 1
                 r == << t, j >>
      <3>1. s[2] \in 1 .. n /\ s[2] # p
        BY <1>1, <2>1, <2>2, <2>4
      <3>2. j \in 1 .. n - 1 /\ m(j) = s[2] /\ j \in 1 .. MaxHeld + 1
        BY <1>1, <3>1, SMTT(40)
      <3> HIDE DEF j
      <3>3. i \in A[q[j]]
        BY <1>2, <2>1, <2>4, <3>2, SMTT(40)
      <3>4. r \in H2
        BY <1>3, <1>4, <3>2, <3>3 DEF Holders
      <3>5. f[r] = << t, m(j) >>
        BY <1>5, <3>4
      <3> QED  BY <2>2, <2>4, <3>2, <3>4, <3>5
    <2> QED  BY <2>3, <2>4
  <1> HIDE DEF f, H, H2, x
  <1>9. f \in Bijection(H2, H \ {x})
    BY <1>6, <1>7, <1>8, Fun_IsBij
  <1>10. ExistsBijection(H2, H \ {x})
    BY <1>9 DEF ExistsBijection
  <1>11. IsFiniteSet(H) /\ Cardinality(H) \in Nat /\ IsFiniteSet(H2)
    BY HoldersFinite DEF H, H2
  <1>12. Cardinality(H2) = Cardinality(H \ {x})
    BY <1>10, <1>11, FS_Bijection
  <1>13. x \in H <=> i \in A[R[t][p]]
    BY <1>1 DEF Holders, H, x, n
  <1>14. Cardinality(H \ {x}) = IF x \in H THEN Cardinality(H) - 1 ELSE Cardinality(H)
    BY <1>11, FS_RemoveElement
  <1>15. Cardinality(H) = Cardinality(H2) + IF i \in A[R[t][p]] THEN 1 ELSE 0
    BY <1>11, <1>12, <1>13, <1>14
  <1> QED  BY <1>15 DEF H, H2, Gained

-----------------------------------------------------------------------------
NameSet == {NoName} \cup UNION {Range(p) : p \in Paths}

Inode == [parent : Nat, type : {"dir", "file"}, name : NameSet, refcount : Int,
          busy : BOOLEAN, child_list : Seq(Nat)]

PC == {"idle", "start", "loop", "wait", "woken", "io", "relock", "failed"}

Types ==
    /\ inodes \in Seq(Inode) /\ s_root_dir \in 0 .. Len(inodes)
    /\ pc \in [Threads -> PC] /\ path \in [Threads -> Seq(NameSet)]
    /\ inode \in [Threads -> 0 .. Len(inodes)] /\ child \in [Threads -> 0 .. Len(inodes)]
    /\ held \in [Threads -> Seq(Nat)]
    /\ \A t \in Threads : \A j \in 1 .. Len(held[t]) : held[t][j] \in Ids

\* A parent was there before its children, and the root has none.
Tree ==
    /\ \A k \in Ids : inodes[k].parent \in 0 .. k - 1
    /\ s_root_dir # 0 => inodes[s_root_dir].parent = 0

InDir(t) == pc[t] \in {"io", "relock"}

\* What a thread knows where it is in vfs_lookup_inode.
LookupOf(t) ==
    /\ Len(held[t]) <= MaxHeld
    /\ pc[t] # "idle" => inode[t] \in Ids /\ Len(held[t]) < MaxHeld
    /\ InDir(t) => path[t] # << >> /\ inodes[inode[t]].type = "dir"
    /\ pc[t] = "relock" /\ child[t] # 0 => inodes[child[t]].parent = inode[t]

Lookups == \A t \in Threads : LookupOf(t)

\* Who has locked a directory, and who waits for it.
Busy ==
    /\ \A t \in Threads : InDir(t) \/ pc[t] = "wait" => inodes[inode[t]].busy = TRUE
    /\ \A t, u \in Threads : InDir(t) /\ InDir(u) /\ inode[t] = inode[u] => t = u
    /\ \A d \in Ids : inodes[d].busy = TRUE => \E t \in Threads : InDir(t) /\ inode[t] = d

Children ==
    \A d \in Ids :
        /\ Range(inodes[d].child_list) = {k \in Ids : inodes[k].parent = d}
        /\ Cardinality(Range(inodes[d].child_list)) = Len(inodes[d].child_list)
        /\ inodes[d].child_list # << >> => inodes[d].type = "dir"

Parents == [k \in Ids |-> inodes[k].parent]
Anc == [k \in Ids |-> Up(Len(inodes), Parents, k)]
Refs == [t \in Threads |-> References(t)]

\* RefcountsCoverTree, with the places that refer to an inode.
Counted ==
    \A i \in Ids : inodes[i].refcount = 1 + Cardinality(Holders(Refs, Anc, i))

\* The inductive invariant.
IInv == Types /\ Tree /\ Lookups /\ Busy /\ Children /\ Counted

-----------------------------------------------------------------------------
LEMMA InodeTypes ==
    ASSUME Types
    PROVE  /\ Len(inodes) \in Nat /\ Ids = 1 .. Len(inodes) /\ DOMAIN inodes = Ids
           /\ MaxHeld \in Nat
           /\ \A k \in Ids :
                 /\ k \in Nat /\ inodes[k] \in Inode /\ inodes[k].parent \in Nat
                 /\ inodes[k].type \in {"dir", "file"} /\ inodes[k].refcount \in Int
                 /\ inodes[k].busy \in BOOLEAN /\ inodes[k].child_list \in Seq(Nat)
  <1>1. Len(inodes) \in Nat /\ Ids = 1 .. Len(inodes) /\ DOMAIN inodes = Ids
    BY LenProperties DEF Types, Ids
  <1>2. \A k \in Ids : inodes[k] \in Inode /\ k \in Nat
    BY <1>1 DEF Types
  <1> QED  BY <1>1, <1>2, VfsAssumption DEF Inode

\* The references of a thread.
RefsShape ==
    /\ Refs \in [Threads -> Seq(Nat)]
    /\ \A t \in Threads :
          Refs[t] = IF pc[t] \in {"idle", "start"} THEN held[t]
                    ELSE Append(held[t], inode[t])

LEMMA RefsValues == Types => RefsShape
  <1> SUFFICES ASSUME Types  PROVE  RefsShape
    OBVIOUS
  <1>1. ASSUME NEW t \in Threads
        PROVE  /\ References(t) \in Seq(Nat)
               /\ References(t) = IF pc[t] \in {"idle", "start"} THEN held[t]
                                  ELSE Append(held[t], inode[t])
    <2>1. held[t] \in Seq(Nat) /\ inode[t] \in Nat
      BY InodeTypes DEF Types
    <2>2. held[t] \o << >> = held[t]
      BY <2>1, ConcatEmptySeq
    <2>3. held[t] \o << inode[t] >> = Append(held[t], inode[t])
      BY <2>1, AppendIsConcat
    <2>4. Append(held[t], inode[t]) \in Seq(Nat)
      BY <2>1, AppendProperties
    <2> QED  BY <2>1, <2>2, <2>3, <2>4 DEF References
  <1> QED  BY <1>1 DEF Refs, RefsShape

\* The parents are those of a tree, and Anc gives the ancestors.
LEMMA AncValues ==
    ASSUME Types, Tree
    PROVE  /\ IsTree(Len(inodes), Parents)
           /\ \A k \in Ids : Anc[k] = Up(Len(inodes), Parents, k)
           /\ \A k \in Ids : Ancestors(k) = Anc[k]
  <1>1. Len(inodes) \in Nat /\ Ids = 1 .. Len(inodes)
    BY InodeTypes
  <1>2. \A k \in Ids : Parents[k] = inodes[k].parent
    BY DEF Parents
  <1>3. \A k \in Ids : Anc[k] = Up(Len(inodes), Parents, k)
    BY DEF Anc
  <1>4. ASSUME NEW k \in Ids  PROVE  Ancestors(k) = Up(Len(inodes), Parents, k)
    <2>1. ASSUME NEW S \in SUBSET Ids
          PROVE  (\A j \in S : inodes[j].parent \in S \cup {NoInode})
                   <=> Closed(Len(inodes), Parents, S)
      BY <1>2 DEF Closed, NoInode
    <2> QED  BY <1>1, <2>1, Zenon DEF Ancestors, Up
  <1> QED  BY <1>1, <1>2, <1>3, <1>4 DEF Tree, IsTree

(***************************************************************************)
(* Steps that only change the reference counts and the busy marks.         *)
(***************************************************************************)
SameTree ==
    /\ inodes' \in Seq(Inode) /\ Len(inodes') = Len(inodes)
    /\ \A k \in Ids : /\ inodes'[k].parent = inodes[k].parent
                      /\ inodes'[k].type = inodes[k].type
                      /\ inodes'[k].child_list = inodes[k].child_list

SameBusy == \A k \in Ids : inodes'[k].busy = inodes[k].busy

\* The counts of the inodes in S change by delta.
CountsMove(S, delta) ==
    \A j \in Ids : inodes'[j].refcount = inodes[j].refcount + IF j \in S THEN delta ELSE 0

SameCount == \A k \in Ids : inodes'[k].refcount = inodes[k].refcount

LEMMA UnchangedInodes ==
    ASSUME Types, inodes' = inodes
    PROVE  SameTree /\ SameBusy /\ SameCount /\ Ids' = Ids /\ Anc' = Anc
  BY DEF SameTree, SameBusy, SameCount, Types, Ids, Anc, Parents

LEMMA SameTreeKept ==
    ASSUME Types, Tree, Children, SameTree, s_root_dir' = s_root_dir
    PROVE  Tree' /\ Children' /\ Anc' = Anc /\ Ids' = Ids
  <1>1. Ids' = Ids /\ Len(inodes') = Len(inodes)
    BY DEF SameTree, Ids
  <1>2. Parents' = Parents
    BY <1>1 DEF Parents, SameTree
  <1>3. Anc' = Anc
    BY <1>1, <1>2 DEF Anc
  <1>4. Tree'
    <2>1. s_root_dir # 0 => s_root_dir \in Ids
      BY InodeTypes DEF Types
    <2> QED  BY <1>1, <2>1 DEF Tree, SameTree
  <1>5. Children'
    <2>1. ASSUME NEW d \in Ids
          PROVE  {k \in Ids : inodes'[k].parent = d} = {k \in Ids : inodes[k].parent = d}
      BY DEF SameTree
    <2>2. ASSUME NEW d \in Ids
          PROVE  /\ inodes'[d].child_list = inodes[d].child_list
                 /\ inodes'[d].type = inodes[d].type
      BY DEF SameTree
    <2>3. \A d \in Ids :
            /\ Range(inodes'[d].child_list) = {k \in Ids : inodes'[k].parent = d}
            /\ Cardinality(Range(inodes'[d].child_list)) = Len(inodes'[d].child_list)
            /\ inodes'[d].child_list # << >> => inodes'[d].type = "dir"
      BY <2>1, <2>2 DEF Children
    <2> QED  BY <1>1, <2>3 DEF Children
  <1> QED  BY <1>1, <1>3, <1>4, <1>5

\* Nothing that is counted changes.
LEMMA CountedSame ==
    ASSUME Counted, Ids' = Ids, Anc' = Anc, Refs' = Refs, SameCount
    PROVE  Counted'
  BY DEF Counted, SameCount

\* One field of one inode is assigned.
LEMMA InodeFields ==
    ASSUME NEW n \in Inode, NEW v \in Int
    PROVE  LET new == [n EXCEPT !.refcount = v]
           IN /\ new \in Inode /\ new.refcount = v /\ new.parent = n.parent
              /\ new.type = n.type /\ new.child_list = n.child_list
              /\ new.busy = n.busy
  BY DEF Inode

LEMMA RefcountUpdate ==
    ASSUME Types, NEW k \in Ids, inodes' = [inodes EXCEPT ![k].refcount = @ + 1]
    PROVE  /\ SameTree /\ SameBusy
           /\ CountsMove({k}, 1)
  <1> DEFINE new == [inodes[k] EXCEPT !.refcount = inodes[k].refcount + 1]
  <1>1. Ids = 1 .. Len(inodes) /\ inodes[k] \in Inode /\ inodes[k].refcount \in Int
        /\ inodes \in Seq(Inode)
    BY InodeTypes DEF Types
  <1>2. inodes' = [inodes EXCEPT ![k] = new]
    BY Zenon
  <1>3. /\ new \in Inode /\ new.refcount = inodes[k].refcount + 1
        /\ new.parent = inodes[k].parent /\ new.type = inodes[k].type
        /\ new.child_list = inodes[k].child_list
    BY <1>1, InodeFields
  <1>4. new.busy = inodes[k].busy
    BY <1>1, InodeFields
  <1> HIDE DEF new
  <1>5. /\ inodes' \in Seq(Inode) /\ Len(inodes') = Len(inodes)
        /\ \A j \in Ids : inodes'[j] = IF j = k THEN new ELSE inodes[j]
    <2>1. new \in Inode
      BY <1>3
    <2> QED  BY <1>1, <1>2, <2>1, ExceptSeq
  <1>6. SameTree
    BY <1>3, <1>5 DEF SameTree
  <1>7. SameBusy
    BY <1>4, <1>5, Zenon DEF SameBusy
  <1>8. ASSUME NEW j \in Ids
        PROVE  inodes'[j].refcount = inodes[j].refcount + IF j \in {k} THEN 1 ELSE 0
    <2>1. inodes[j].refcount \in Int
      BY InodeTypes
    <2> QED  BY <1>3, <1>5, <2>1
  <1> QED  BY <1>6, <1>7, <1>8 DEF CountsMove

LEMMA BusyUpdate ==
    ASSUME Types, NEW k \in Ids, NEW b \in BOOLEAN,
           inodes' = [inodes EXCEPT ![k].busy = b]
    PROVE  /\ SameTree /\ SameCount
           /\ inodes'[k].busy = b
           /\ \A j \in Ids : j # k => inodes'[j].busy = inodes[j].busy
  <1> DEFINE new == [inodes[k] EXCEPT !.busy = b]
  <1>1. Ids = 1 .. Len(inodes) /\ inodes[k] \in Inode /\ inodes \in Seq(Inode)
    BY InodeTypes DEF Types
  <1>2. inodes' = [inodes EXCEPT ![k] = new]
    BY Zenon
  <1>3. /\ new \in Inode /\ new.refcount = inodes[k].refcount
        /\ new.parent = inodes[k].parent /\ new.type = inodes[k].type
        /\ new.child_list = inodes[k].child_list
    BY <1>1 DEF Inode
  <1>4. new.busy = b
    BY <1>1 DEF Inode
  <1> HIDE DEF new
  <1>5. /\ inodes' \in Seq(Inode) /\ Len(inodes') = Len(inodes)
        /\ \A j \in Ids : inodes'[j] = IF j = k THEN new ELSE inodes[j]
    <2>1. new \in Inode
      BY <1>3
    <2> QED  BY <1>1, <1>2, <2>1, ExceptSeq
  <1>6. SameTree /\ SameCount
    BY <1>3, <1>5 DEF SameTree, SameCount
  <1> QED  BY <1>4, <1>5, <1>6, Zenon

\* vfs_adjust_refcounts changes the counts of an inode and its ancestors.
LEMMA AdjustUpdate ==
    ASSUME Types, Tree, NEW i \in Ids, NEW delta \in Int, vfs_adjust_refcounts(i, delta)
    PROVE  /\ SameTree /\ SameBusy
           /\ CountsMove(Anc[i], delta)
  <1> DEFINE new(k) == [inodes[k] EXCEPT !.refcount = inodes[k].refcount + delta]
  <1>1. /\ Ids = 1 .. Len(inodes) /\ Len(inodes) \in Nat
        /\ \A k \in Ids : inodes[k] \in Inode /\ inodes[k].refcount \in Int
    BY InodeTypes DEF Types
  <1>2. inodes' = [k \in Ids |-> IF k \in Anc[i] THEN new(k) ELSE inodes[k]]
    BY AncValues DEF vfs_adjust_refcounts
  <1>3. ASSUME NEW k \in Ids
        PROVE  /\ new(k) \in Inode /\ new(k).refcount = inodes[k].refcount + delta
               /\ new(k).parent = inodes[k].parent /\ new(k).type = inodes[k].type
               /\ new(k).child_list = inodes[k].child_list
    <2>1. inodes[k] \in Inode /\ inodes[k].refcount + delta \in Int
      BY <1>1
    <2> QED  BY <2>1, InodeFields
  <1>4. ASSUME NEW k \in Ids  PROVE  new(k).busy = inodes[k].busy
    BY <1>1, InodeFields
  <1> HIDE DEF new
  <1>5. \A k \in Ids : inodes'[k] = IF k \in Anc[i] THEN new(k) ELSE inodes[k]
    BY <1>2
  <1>6. inodes' \in [1 .. Len(inodes) -> Inode]
    BY <1>1, <1>2, <1>3
  <1>7. inodes' \in Seq(Inode) /\ Len(inodes') = Len(inodes)
    BY <1>1, <1>6
  <1>8. SameTree
    BY <1>3, <1>5, <1>7 DEF SameTree
  <1>9. SameBusy
    BY <1>4, <1>5, Zenon DEF SameBusy
  <1>10. ASSUME NEW j \in Ids
         PROVE  inodes'[j].refcount = inodes[j].refcount + IF j \in Anc[i] THEN delta ELSE 0
    BY <1>1, <1>3, <1>5
  <1> QED  BY <1>8, <1>9, <1>10 DEF CountsMove

-----------------------------------------------------------------------------
\* Nobody enters or leaves a directory, and who begins to wait finds it busy.
LEMMA BusyKept ==
    ASSUME Types, Lookups, Busy, SameBusy, Ids' = Ids,
           \A u \in Threads :
              /\ InDir(u)' <=> InDir(u)
              /\ InDir(u) => inode'[u] = inode[u]
              /\ pc'[u] = "wait" => inode'[u] \in Ids /\ inodes[inode'[u]].busy = TRUE
    PROVE  Busy'
  <1>1. \A u \in Threads : InDir(u) => inode[u] \in Ids
    BY DEF Lookups, LookupOf, InDir
  <1>2. ASSUME NEW t \in Threads, InDir(t)' \/ pc'[t] = "wait"
        PROVE  inodes'[inode'[t]].busy = TRUE
    <2>1. inode'[t] \in Ids /\ inodes[inode'[t]].busy = TRUE
      BY <1>1, <1>2 DEF Busy
    <2> QED  BY <2>1, Zenon DEF SameBusy
  <1>3. \A t, u \in Threads : InDir(t)' /\ InDir(u)' /\ inode'[t] = inode'[u] => t = u
    BY DEF Busy
  <1>4. ASSUME NEW d \in Ids, inodes'[d].busy = TRUE
        PROVE  \E t \in Threads : InDir(t)' /\ inode'[t] = d
    <2>1. inodes[d].busy = TRUE
      BY <1>4, Zenon DEF SameBusy
    <2>2. PICK t \in Threads : InDir(t) /\ inode[t] = d
      BY <2>1 DEF Busy
    <2> QED  BY <2>2
  <1> QED  BY <1>2, <1>3, <1>4 DEF Busy

\* A thread that does nothing still knows what it knew.
LEMMA OtherLookup ==
    ASSUME Types, NEW u \in Threads, LookupOf(u), Ids \subseteq Ids',
           \A k \in Ids : /\ inodes'[k].parent = inodes[k].parent
                          /\ inodes'[k].type = inodes[k].type,
           pc'[u] = pc[u], inode'[u] = inode[u], path'[u] = path[u], child'[u] = child[u],
           held'[u] = held[u]
    PROVE  LookupOf(u)'
  <1>1. child[u] # 0 => child[u] \in Ids
    <2>1. child[u] \in 0 .. Len(inodes)
      BY DEF Types
    <2>2. Ids = 1 .. Len(inodes) /\ Len(inodes) \in Nat
      BY InodeTypes
    <2> QED  BY <2>1, <2>2
  <1>2. InDir(u) => inode[u] \in Ids
    BY DEF LookupOf, InDir
  <1>3. InDir(u)' <=> InDir(u)
    BY DEF InDir
  <1>4. InDir(u) => inodes'[inode[u]].type = inodes[inode[u]].type
    BY <1>2
  <1>5. child[u] # 0 => inodes'[child[u]].parent = inodes[child[u]].parent
    BY <1>1
  <1>6. inode[u] \in Ids => inode[u] \in Ids'
    OBVIOUS
  <1> QED  BY <1>3, <1>4, <1>5, <1>6 DEF LookupOf

\* The inodes and the references to them stay as they are.
LEMMA QuietKept ==
    ASSUME IInv, inodes' = inodes, s_root_dir' = s_root_dir,
           Types', Lookups', Refs' = Refs,
           \A u \in Threads :
              /\ InDir(u)' <=> InDir(u)
              /\ InDir(u) => inode'[u] = inode[u]
              /\ pc'[u] = "wait" => inode'[u] \in Ids /\ inodes[inode'[u]].busy = TRUE
    PROVE  IInv'
  <1>0. Types /\ Tree /\ Lookups /\ Busy /\ Children /\ Counted
    BY DEF IInv
  <1>1. SameTree /\ SameBusy /\ SameCount /\ Ids' = Ids /\ Anc' = Anc
    BY <1>0, UnchangedInodes
  <1>2. Tree' /\ Children'
    BY <1>0, <1>1, SameTreeKept
  <1>3. Busy'
    BY <1>0, <1>1, BusyKept
  <1>4. Counted'
    BY <1>0, <1>1, CountedSame
  <1> QED  BY <1>2, <1>3, <1>4 DEF IInv

\* Only thread t moves on, and its reference stays the same.
LEMMA MoveKept ==
    ASSUME IInv, NEW t \in Threads, NEW q \in PC, pc' = [pc EXCEPT ![t] = q],
           pc[t] \notin {"idle", "start"}, q \notin {"idle", "start"},
           inodes' = inodes, s_root_dir' = s_root_dir,
           inode' = inode, path' = path, held' = held,
           child' = child \/ (child' = [child EXCEPT ![t] = NoInode]),
           q \in {"io", "relock"} <=> pc[t] \in {"io", "relock"},
           q = "relock" => child'[t] = NoInode,
           q = "wait" => inodes[inode[t]].busy = TRUE
    PROVE  IInv'
  <1>0. Types /\ Lookups /\ Busy
    BY DEF IInv
  <1>1. Types'
    <2>1. child' \in [Threads -> 0 .. Len(inodes)]
      <3>1. 0 \in 0 .. Len(inodes)
        BY <1>0, InodeTypes
      <3> QED  BY <1>0, <3>1 DEF Types, NoInode
    <2> QED  BY <1>0, <2>1 DEF Types, Ids
  <1>2. Ids' = Ids /\ pc'[t] = q /\ \A u \in Threads : u # t => pc'[u] = pc[u]
    BY <1>0 DEF Types, Ids
  <1>3. \A u \in Threads : u # t => child'[u] = child[u]
    BY <1>0 DEF Types
  <1>4. Lookups'
    <2> SUFFICES ASSUME NEW u \in Threads
                 PROVE  /\ Len(held[u]) <= MaxHeld
                        /\ pc'[u] # "idle" => inode[u] \in Ids /\ Len(held[u]) < MaxHeld
                        /\ InDir(u)' => path[u] # << >> /\ inodes[inode[u]].type = "dir"
                        /\ pc'[u] = "relock" /\ child'[u] # 0
                             => inodes[child'[u]].parent = inode[u]
      BY <1>2 DEF Lookups, LookupOf
    <2>1. CASE u # t
      BY <1>0, <1>2, <1>3, <2>1 DEF Lookups, LookupOf, InDir
    <2>2. CASE u = t
      BY <1>0, <1>2, <2>2 DEF Lookups, LookupOf, InDir, NoInode
    <2> QED  BY <2>1, <2>2
  <1>5. Refs' = Refs
    <2>1. ASSUME NEW u \in Threads  PROVE  References(u)' = References(u)
      BY <1>2 DEF References
    <2> QED  BY <2>1 DEF Refs
  <1>6. ASSUME NEW u \in Threads
        PROVE  /\ InDir(u)' <=> InDir(u)
               /\ InDir(u) => inode'[u] = inode[u]
               /\ pc'[u] = "wait" => inode'[u] \in Ids /\ inodes[inode'[u]].busy = TRUE
    <2>1. CASE u # t
      BY <1>0, <1>2, <2>1 DEF Lookups, LookupOf, InDir, Busy
    <2>2. CASE u = t
      BY <1>0, <1>2, <2>2 DEF Lookups, LookupOf, InDir
    <2> QED  BY <2>1, <2>2
  <1> QED  BY <1>1, <1>4, <1>5, <1>6, QuietKept

LEMMA IllegalKept ==
    ASSUME IInv, NEW t \in Threads, lookup_illegal(t)
    PROVE  IInv'
  <1>1. /\ pc[t] = "loop" /\ pc' = [pc EXCEPT ![t] = "failed"]
        /\ inodes' = inodes /\ s_root_dir' = s_root_dir /\ inode' = inode
        /\ path' = path /\ held' = held /\ child' = child
    BY DEF lookup_illegal, InLoop
  <1>2. "failed" \in PC
    BY DEF PC
  <1> QED  BY <1>1, <1>2, MoveKept

LEMMA WaitKept ==
    ASSUME IInv, NEW t \in Threads, vfs_lock_dir_wait(t)
    PROVE  IInv'
  <1>1. /\ pc[t] = "loop" /\ pc' = [pc EXCEPT ![t] = "wait"]
        /\ inodes' = inodes /\ s_root_dir' = s_root_dir /\ inode' = inode
        /\ path' = path /\ held' = held /\ child' = child
    BY DEF vfs_lock_dir_wait, InLoop
  <1>2. inodes[inode[t]].busy
    BY DEF vfs_lock_dir_wait
  <1>3. inodes[inode[t]].busy = TRUE
    <2>1. inode[t] \in Ids
      BY <1>1 DEF IInv, Lookups, LookupOf
    <2>2. inodes[inode[t]].busy \in BOOLEAN
      BY <2>1, InodeTypes DEF IInv
    <2> QED  BY <1>2, <2>2
  <1>4. "wait" \in PC
    BY DEF PC
  <1> QED  BY <1>1, <1>3, <1>4, MoveKept

LEMMA WokenKept ==
    ASSUME IInv, NEW t \in Threads, vfs_lock_dir_woken(t)
    PROVE  IInv'
  <1>1. /\ pc[t] = "woken" /\ pc' = [pc EXCEPT ![t] = "loop"]
        /\ inodes' = inodes /\ s_root_dir' = s_root_dir /\ inode' = inode
        /\ path' = path /\ held' = held /\ child' = child
    BY DEF vfs_lock_dir_woken
  <1>2. "loop" \in PC
    BY DEF PC
  <1> QED  BY <1>1, <1>2, MoveKept

LEMMA FailedKept ==
    ASSUME IInv, NEW t \in Threads, lookup_failed(t)
    PROVE  IInv'
  <1>1. /\ pc[t] = "io" /\ pc' = [pc EXCEPT ![t] = "relock"]
        /\ inodes' = inodes /\ s_root_dir' = s_root_dir /\ inode' = inode
        /\ path' = path /\ held' = held /\ child' = [child EXCEPT ![t] = NoInode]
    BY DEF lookup_failed
  <1>2. "relock" \in PC
    BY DEF PC
  <1>3. child'[t] = NoInode
    BY <1>1 DEF IInv, Types
  <1> QED  BY <1>1, <1>2, <1>3, MoveKept

\* A step that touches neither the inodes nor a lookup.
LEMMA StutterKept ==
    ASSUME IInv, UNCHANGED << s_root_dir, inodes, pc, inode, path, child, held >>
    PROVE  IInv'
  <1>1. /\ s_root_dir' = s_root_dir /\ inodes' = inodes /\ pc' = pc /\ inode' = inode
        /\ path' = path /\ child' = child /\ held' = held
    OBVIOUS
  <1>2. Types /\ Lookups /\ Busy
    BY DEF IInv
  <1>3. Ids' = Ids
    BY <1>1 DEF Ids
  <1>4. Types'
    BY <1>1, <1>2, <1>3 DEF Types
  <1>5. Lookups'
    BY <1>1, <1>2, <1>3 DEF Lookups, LookupOf, InDir
  <1>6. Refs' = Refs
    BY <1>1 DEF Refs, References
  <1>7. \A u \in Threads :
              /\ InDir(u)' <=> InDir(u)
              /\ InDir(u) => inode'[u] = inode[u]
              /\ pc'[u] = "wait" => inode'[u] \in Ids /\ inodes[inode'[u]].busy = TRUE
    BY <1>1, <1>2 DEF InDir, Lookups, LookupOf, Busy
  <1> QED  BY <1>1, <1>4, <1>5, <1>6, <1>7, QuietKept

\* The paths of the callers are sequences of names.
LEMMA PathNames ==
    ASSUME NEW p \in Paths
    PROVE  p \in Seq(NameSet)
  <1>1. p \in Seq(Range(p))
    BY VfsAssumption
  <1>2. Range(p) \subseteq NameSet
    BY DEF NameSet
  <1> QED  BY <1>1, <1>2, SeqMonotonic

LEMMA CallKept ==
    ASSUME IInv, NEW t \in Threads, NEW start \in {s_root_dir} \cup Range(held[t]),
           NEW p \in Paths, call_vfs_lookup_inode(t, start, p)
    PROVE  IInv'
  <1>1. /\ pc[t] = "idle" /\ Len(held[t]) < MaxHeld /\ start # 0
        /\ pc' = [pc EXCEPT ![t] = "start"] /\ inode' = [inode EXCEPT ![t] = start]
        /\ path' = [path EXCEPT ![t] = p]
        /\ s_root_dir' = s_root_dir /\ inodes' = inodes /\ child' = child /\ held' = held
    BY DEF call_vfs_lookup_inode, NoInode
  <1>2. Types /\ Lookups /\ Busy
    BY DEF IInv
  <1>3. start \in Ids
    <2>1. s_root_dir # 0 => s_root_dir \in Ids
      BY <1>2, InodeTypes DEF Types
    <2>2. held[t] \in Seq(Nat)
      BY <1>2 DEF Types
    <2>3. ASSUME NEW x \in Range(held[t])  PROVE  x \in Ids
      <3>1. PICK j \in DOMAIN held[t] : x = held[t][j]
        BY DEF Range
      <3>2. j \in 1 .. Len(held[t])
        BY <2>2, LenProperties
      <3> QED  BY <1>2, <3>1, <3>2 DEF Types
    <2> QED  BY <1>1, <2>1, <2>3
  <1>4. Ids' = Ids /\ pc'[t] = "start" /\ inode'[t] = start
        /\ \A u \in Threads : u # t => pc'[u] = pc[u] /\ inode'[u] = inode[u] /\ path'[u] = path[u]
    BY <1>1, <1>2 DEF Types, Ids
  <1>5. Types'
    <2>1. p \in Seq(NameSet) /\ start \in 0 .. Len(inodes) /\ "start" \in PC
      BY <1>2, <1>3, PathNames, InodeTypes DEF PC
    <2>2. /\ path' \in [Threads -> Seq(NameSet)] /\ inode' \in [Threads -> 0 .. Len(inodes)]
          /\ pc' \in [Threads -> PC]
      BY <1>1, <1>2, <2>1 DEF Types
    <2> QED  BY <1>1, <1>2, <1>4, <2>2 DEF Types
  <1>6. Lookups'
    <2> SUFFICES ASSUME NEW u \in Threads
                 PROVE  /\ Len(held[u]) <= MaxHeld
                        /\ pc'[u] # "idle" => inode'[u] \in Ids /\ Len(held[u]) < MaxHeld
                        /\ InDir(u)' => path'[u] # << >> /\ inodes[inode'[u]].type = "dir"
                        /\ pc'[u] = "relock" /\ child[u] # 0
                             => inodes[child[u]].parent = inode'[u]
      BY <1>1, <1>4 DEF Lookups, LookupOf
    <2>1. CASE u # t
      BY <1>2, <1>4, <2>1 DEF Lookups, LookupOf, InDir
    <2>2. CASE u = t
      BY <1>1, <1>2, <1>3, <1>4, <2>2 DEF Lookups, LookupOf, InDir
    <2> QED  BY <2>1, <2>2
  <1>7. Refs' = Refs
    <2>1. RefsShape /\ RefsShape'
      BY <1>2, <1>5, RefsValues, PTL
    <2>3. held' = held
      BY <1>1
    <2>2. ASSUME NEW u \in Threads  PROVE  Refs'[u] = Refs[u]
      <3>1. CASE u # t
        BY <1>4, <2>1, <2>3, <3>1 DEF RefsShape
      <3>2. CASE u = t
        BY <1>1, <1>4, <2>1, <3>2 DEF RefsShape
      <3> QED  BY <3>1, <3>2
    <2> QED  BY <2>1, <2>2 DEF RefsShape
  <1>8. ASSUME NEW u \in Threads
        PROVE  /\ InDir(u)' <=> InDir(u)
               /\ InDir(u) => inode'[u] = inode[u]
               /\ pc'[u] = "wait" => inode'[u] \in Ids /\ inodes[inode'[u]].busy = TRUE
    <2>1. CASE u # t
      BY <1>2, <1>4, <2>1 DEF InDir, Lookups, LookupOf, Busy
    <2>2. CASE u = t
      BY <1>1, <1>4, <2>2 DEF InDir
    <2> QED  BY <2>1, <2>2
  <1> QED  BY <1>1, <1>5, <1>6, <1>7, <1>8, QuietKept

LEMMA DoneKept ==
    ASSUME IInv, NEW t \in Threads, lookup_done(t)
    PROVE  IInv'
  <1>1. /\ pc[t] = "loop" /\ pc' = [pc EXCEPT ![t] = "idle"]
        /\ inode' = [inode EXCEPT ![t] = 0]
        /\ held' = [held EXCEPT ![t] = Append(held[t], inode[t])]
        /\ s_root_dir' = s_root_dir /\ inodes' = inodes /\ child' = child /\ path' = path
    BY DEF lookup_done, NoInode
  <1>2. Types /\ Lookups /\ Busy
    BY DEF IInv
  <1>3. /\ inode[t] \in Ids /\ Len(held[t]) < MaxHeld /\ held[t] \in Seq(Nat)
        /\ inode[t] \in Nat /\ Len(held[t]) \in Nat /\ MaxHeld \in Nat
    <2>1. inode[t] \in Ids /\ Len(held[t]) < MaxHeld /\ held[t] \in Seq(Nat)
      BY <1>1, <1>2 DEF Lookups, LookupOf, Types
    <2> QED  BY <1>2, <2>1, InodeTypes, LenProperties
  <1>4. Ids' = Ids /\ pc'[t] = "idle" /\ held'[t] = Append(held[t], inode[t])
        /\ \A u \in Threads : u # t => pc'[u] = pc[u] /\ inode'[u] = inode[u] /\ held'[u] = held[u]
    BY <1>1, <1>2 DEF Types, Ids
  <1>5. /\ Append(held[t], inode[t]) \in Seq(Nat)
        /\ Len(Append(held[t], inode[t])) = Len(held[t]) + 1
        /\ \A j \in 1 .. Len(held[t]) + 1 : Append(held[t], inode[t])[j] \in Ids
    <2>1. /\ Append(held[t], inode[t]) \in Seq(Nat)
          /\ Len(Append(held[t], inode[t])) = Len(held[t]) + 1
          /\ \A j \in 1 .. Len(held[t]) : Append(held[t], inode[t])[j] = held[t][j]
          /\ Append(held[t], inode[t])[Len(held[t]) + 1] = inode[t]
      BY <1>3, AppendProperties
    <2>2. \A j \in 1 .. Len(held[t]) + 1 : j \in 1 .. Len(held[t]) \/ j = Len(held[t]) + 1
      BY <1>3
    <2>3. \A j \in 1 .. Len(held[t]) : held[t][j] \in Ids
      BY <1>2 DEF Types
    <2> QED  BY <1>3, <2>1, <2>2, <2>3
  <1>6. Types'
    <2>1. 0 \in 0 .. Len(inodes) /\ "idle" \in PC
      BY <1>2, InodeTypes DEF PC
    <2>2. /\ pc' \in [Threads -> PC] /\ inode' \in [Threads -> 0 .. Len(inodes)]
          /\ held' \in [Threads -> Seq(Nat)]
      BY <1>1, <1>2, <1>5, <2>1 DEF Types
    <2>3. \A u \in Threads : \A j \in 1 .. Len(held'[u]) : held'[u][j] \in Ids
      <3> SUFFICES ASSUME NEW u \in Threads, NEW j \in 1 .. Len(held'[u])
                   PROVE  held'[u][j] \in Ids
        OBVIOUS
      <3>1. CASE u # t
        BY <1>2, <1>4, <3>1 DEF Types
      <3>2. CASE u = t
        BY <1>4, <1>5, <3>2
      <3> QED  BY <3>1, <3>2
    <2> QED  BY <1>1, <1>2, <1>4, <2>2, <2>3 DEF Types
  <1>7. Lookups'
    <2> SUFFICES ASSUME NEW u \in Threads
                 PROVE  /\ Len(held'[u]) <= MaxHeld
                        /\ pc'[u] # "idle" => inode'[u] \in Ids /\ Len(held'[u]) < MaxHeld
                        /\ InDir(u)' => path[u] # << >> /\ inodes[inode'[u]].type = "dir"
                        /\ pc'[u] = "relock" /\ child[u] # 0
                             => inodes[child[u]].parent = inode'[u]
      BY <1>1, <1>4 DEF Lookups, LookupOf
    <2>1. CASE u # t
      BY <1>2, <1>4, <2>1 DEF Lookups, LookupOf, InDir
    <2>2. CASE u = t
      BY <1>3, <1>4, <1>5, <2>2 DEF InDir
    <2> QED  BY <2>1, <2>2
  <1>8. Refs' = Refs
    <2>1. RefsShape /\ RefsShape'
      BY <1>2, <1>6, RefsValues, PTL
    <2>2. ASSUME NEW u \in Threads  PROVE  Refs'[u] = Refs[u]
      <3>1. CASE u # t
        BY <1>4, <2>1, <3>1 DEF RefsShape
      <3>2. CASE u = t
        BY <1>1, <1>4, <2>1, <3>2 DEF RefsShape
      <3> QED  BY <3>1, <3>2
    <2> QED  BY <2>1, <2>2 DEF RefsShape
  <1>9. ASSUME NEW u \in Threads
        PROVE  /\ InDir(u)' <=> InDir(u)
               /\ InDir(u) => inode'[u] = inode[u]
               /\ pc'[u] = "wait" => inode'[u] \in Ids /\ inodes[inode'[u]].busy = TRUE
    <2>1. CASE u # t
      BY <1>2, <1>4, <2>1 DEF InDir, Lookups, LookupOf, Busy
    <2>2. CASE u = t
      BY <1>1, <1>4, <2>2 DEF InDir
    <2> QED  BY <2>1, <2>2
  <1> QED  BY <1>1, <1>6, <1>7, <1>8, <1>9, QuietKept

-----------------------------------------------------------------------------
(***************************************************************************)
(* How the counts follow the references: a reference is added, given up,   *)
(* or moves from a directory to a child of it.                             *)
(***************************************************************************)
LEMMA CountAppend ==
    ASSUME Types, Counted, Ids' = Ids, Anc' = Anc, NEW t \in Threads, NEW i \in Ids,
           Refs \in [Threads -> Seq(Nat)], Len(Refs[t]) <= MaxHeld,
           NewRef(Refs, Refs', t, i),
           CountsMove(Anc[i], 1)
    PROVE  Counted'
  <1> SUFFICES ASSUME NEW j \in Ids
               PROVE  inodes'[j].refcount = 1 + Cardinality(Holders(Refs', Anc, j))
    BY DEF Counted
  <1>1. i \in Nat
    BY InodeTypes
  <1>2. Gained(Refs, Refs', Anc, j, i)
    BY <1>1, HoldersAppend
  <1>3. Cardinality(Holders(Refs, Anc, j)) \in Nat
    BY HoldersFinite
  <1>4. inodes[j].refcount = 1 + Cardinality(Holders(Refs, Anc, j))
    BY DEF Counted
  <1>5. inodes'[j].refcount = inodes[j].refcount + IF j \in Anc[i] THEN 1 ELSE 0
    BY DEF CountsMove
  <1> QED  BY <1>2, <1>3, <1>4, <1>5 DEF Gained

LEMMA CountDrop ==
    ASSUME Types, Counted, Ids' = Ids, Anc' = Anc, NEW t \in Threads, NEW i \in Ids,
           Refs' \in [Threads -> Seq(Nat)], Len(Refs'[t]) <= MaxHeld,
           NewRef(Refs', Refs, t, i),
           CountsMove(Anc[i], -1)
    PROVE  Counted'
  <1> SUFFICES ASSUME NEW j \in Ids
               PROVE  inodes'[j].refcount = 1 + Cardinality(Holders(Refs', Anc, j))
    BY DEF Counted
  <1>1. i \in Nat
    BY InodeTypes
  <1>2. Gained(Refs', Refs, Anc, j, i)
    BY <1>1, HoldersAppend
  <1>3. Cardinality(Holders(Refs', Anc, j)) \in Nat
    BY HoldersFinite
  <1>4. inodes[j].refcount = 1 + Cardinality(Holders(Refs, Anc, j))
    BY DEF Counted
  <1>5. inodes'[j].refcount = inodes[j].refcount + IF j \in Anc[i] THEN -1 ELSE 0
    BY DEF CountsMove
  <1> QED  BY <1>2, <1>3, <1>4, <1>5 DEF Gained

LEMMA CountMove ==
    ASSUME Types, Tree, Counted, Ids' = Ids, Anc' = Anc, NEW t \in Threads,
           NEW d \in Ids, NEW k \in Ids, inodes[k].parent = d,
           NEW R \in [Threads -> Seq(Nat)], Len(R[t]) <= MaxHeld,
           NewRef(R, Refs, t, d),
           NewRef(R, Refs', t, k),
           CountsMove({k}, 1)
    PROVE  Counted'
  <1> SUFFICES ASSUME NEW j \in Ids
               PROVE  inodes'[j].refcount = 1 + Cardinality(Holders(Refs', Anc, j))
    BY DEF Counted
  <1>1. d \in Nat /\ k \in Nat /\ Len(inodes) \in Nat /\ Ids = 1 .. Len(inodes)
    BY InodeTypes
  <1>2. Gained(R, Refs, Anc, j, d)
    BY <1>1, HoldersAppend
  <1>3. Gained(R, Refs', Anc, j, k)
    BY <1>1, HoldersAppend
  <1>4. Cardinality(Holders(R, Anc, j)) \in Nat
    BY HoldersFinite
  <1>5. inodes[j].refcount = 1 + Cardinality(Holders(Refs, Anc, j))
    BY DEF Counted
  <1>6. Anc[k] = {k} \cup Anc[d] /\ k \notin Anc[d]
    <2>1. IsTree(Len(inodes), Parents) /\ Parents[k] = d
          /\ Anc[k] = Up(Len(inodes), Parents, k) /\ Anc[d] = Up(Len(inodes), Parents, d)
      BY AncValues DEF Parents
    <2>2. d < k /\ d # 0
      BY <1>1 DEF Tree
    <2>3. Up(Len(inodes), Parents, k) = {k} \cup Up(Len(inodes), Parents, d)
      BY <1>1, <2>1, <2>2, UpProperties
    <2>4. Up(Len(inodes), Parents, d) \subseteq 1 .. d
      BY <1>1, <2>1, UpProperties
    <2> QED  BY <1>1, <2>1, <2>2, <2>3, <2>4
  <1>7. inodes'[j].refcount = inodes[j].refcount + IF j = k THEN 1 ELSE 0
    BY DEF CountsMove
  <1> QED  BY <1>2, <1>3, <1>4, <1>5, <1>6, <1>7 DEF Gained

LEMMA CountRemove ==
    ASSUME Types, Counted, Ids' = Ids, Anc' = Anc, NEW t \in Threads,
           Refs \in [Threads -> Seq(Nat)], Len(Refs[t]) <= MaxHeld,
           NEW p \in 1 .. Len(Refs[t]),
           Refs'[t] = RemoveAt(Refs[t], p),
           \A u \in Threads : u # t => Refs'[u] = Refs[u],
           CountsMove(Anc[Refs[t][p]], -1)
    PROVE  Counted'
  <1> SUFFICES ASSUME NEW j \in Ids
               PROVE  inodes'[j].refcount = 1 + Cardinality(Holders(Refs', Anc, j))
    BY DEF Counted
  <1>2. Gained(Refs', Refs, Anc, j, Refs[t][p])
    BY HoldersRemove
  <1>3. Cardinality(Holders(Refs', Anc, j)) \in Nat
    BY HoldersFinite
  <1>4. inodes[j].refcount = 1 + Cardinality(Holders(Refs, Anc, j))
    BY DEF Counted
  <1>5. inodes'[j].refcount = inodes[j].refcount + IF j \in Anc[Refs[t][p]] THEN -1 ELSE 0
    BY DEF CountsMove
  <1> QED  BY <1>2, <1>3, <1>4, <1>5 DEF Gained

LEMMA StartKept ==
    ASSUME IInv, NEW t \in Threads, vfs_lookup_inode(t)
    PROVE  IInv'
  <1>1. /\ pc[t] = "start" /\ vfs_adjust_refcounts(inode[t], 1)
        /\ pc' = [pc EXCEPT ![t] = "loop"]
        /\ s_root_dir' = s_root_dir /\ inode' = inode /\ path' = path
        /\ child' = child /\ held' = held
    BY DEF vfs_lookup_inode
  <1>2. Types /\ Tree /\ Lookups /\ Busy /\ Children /\ Counted
    BY DEF IInv
  <1>3. inode[t] \in Ids /\ Len(held[t]) < MaxHeld /\ Len(held[t]) \in Nat /\ MaxHeld \in Nat
    <2>1. inode[t] \in Ids /\ Len(held[t]) < MaxHeld /\ held[t] \in Seq(Nat)
      BY <1>1, <1>2 DEF Lookups, LookupOf, Types
    <2> QED  BY <1>2, <2>1, InodeTypes, LenProperties
  <1>4. /\ SameTree /\ SameBusy
        /\ CountsMove(Anc[inode[t]], 1)
    BY <1>1, <1>2, <1>3, AdjustUpdate
  <1>5. Tree' /\ Children' /\ Anc' = Anc /\ Ids' = Ids
    BY <1>1, <1>2, <1>4, SameTreeKept
  <1>6. pc'[t] = "loop" /\ \A u \in Threads : u # t => pc'[u] = pc[u]
    BY <1>1, <1>2 DEF Types
  <1>7. Types'
    <2>1. pc' \in [Threads -> PC]
      BY <1>1, <1>2 DEF Types, PC
    <2> QED  BY <1>1, <1>2, <1>4, <1>5, <2>1 DEF Types, SameTree
  <1>8. Lookups'
    <2> SUFFICES ASSUME NEW u \in Threads  PROVE  LookupOf(u)'
      BY DEF Lookups
    <2>1. CASE u # t
      <3>1. pc'[u] = pc[u] /\ LookupOf(u)
        BY <1>2, <1>6, <2>1 DEF Lookups
      <3> QED  BY <1>1, <1>2, <1>4, <1>5, <3>1, OtherLookup DEF SameTree
    <2>2. CASE u = t
      <3>1. held' = held /\ inode' = inode
        BY <1>1
      <3> QED  BY <1>3, <1>5, <1>6, <2>2, <3>1 DEF InDir, LookupOf
    <2> QED  BY <2>1, <2>2
  <1>9. Busy'
    <2>1. ASSUME NEW u \in Threads
          PROVE  /\ InDir(u)' <=> InDir(u)
                 /\ InDir(u) => inode'[u] = inode[u]
                 /\ pc'[u] = "wait" => inode'[u] \in Ids /\ inodes[inode'[u]].busy = TRUE
      <3>1. CASE u # t
        BY <1>1, <1>2, <1>6, <3>1 DEF InDir, Lookups, LookupOf, Busy
      <3>2. CASE u = t
        BY <1>1, <1>6, <3>2 DEF InDir
      <3> QED  BY <3>1, <3>2
    <2> QED  BY <1>2, <1>4, <1>5, <2>1, BusyKept
  <1>10. Counted'
    <2>1. RefsShape /\ RefsShape'
      BY <1>2, <1>7, RefsValues, PTL
    <2>2. Refs[t] = held[t] /\ NewRef(Refs, Refs', t, inode[t])
      BY <1>1, <1>6, <2>1 DEF RefsShape, NewRef
    <2>4. Refs \in [Threads -> Seq(Nat)] /\ Len(Refs[t]) <= MaxHeld
      BY <1>3, <2>1, <2>2 DEF RefsShape
    <2> QED  BY <1>2, <1>3, <1>4, <1>5, <2>2, <2>4, CountAppend
  <1> QED  BY <1>5, <1>7, <1>8, <1>9, <1>10 DEF IInv

LEMMA HitKept ==
    ASSUME IInv, NEW t \in Threads, vfs_lookup_child_hit(t)
    PROVE  IInv'
  <1> DEFINE d == inode[t]
             k == Head(inodes[d].child_list)
  <1>1. /\ pc[t] = "loop" /\ path[t] # << >> /\ inodes[d].child_list # << >>
        /\ inodes' = [inodes EXCEPT ![k].refcount = @ + 1]
        /\ inode' = [inode EXCEPT ![t] = k] /\ path' = [path EXCEPT ![t] = Tail(path[t])]
        /\ s_root_dir' = s_root_dir /\ pc' = pc /\ child' = child /\ held' = held
    BY DEF vfs_lookup_child_hit, InLoop, MayHit, Descend
  <1>2. Types /\ Tree /\ Lookups /\ Busy /\ Children /\ Counted
    BY DEF IInv
  <1>3. d \in Ids /\ Len(held[t]) < MaxHeld /\ Len(held[t]) \in Nat /\ MaxHeld \in Nat
    <2>1. d \in Ids /\ Len(held[t]) < MaxHeld /\ held[t] \in Seq(Nat)
      BY <1>1, <1>2 DEF Lookups, LookupOf, Types
    <2> QED  BY <1>2, <2>1, InodeTypes, LenProperties
  <1>4. k \in Ids /\ inodes[k].parent = d
    <2>1. inodes[d].child_list \in Seq(Nat)
      BY <1>2, <1>3, InodeTypes
    <2>2. k \in Range(inodes[d].child_list)
      <3>1. 1 \in DOMAIN inodes[d].child_list /\ k = inodes[d].child_list[1]
        BY <1>1, <2>1
      <3> QED  BY <3>1 DEF Range
    <2> QED  BY <1>2, <1>3, <2>2 DEF Children
  <1> HIDE DEF k
  <1>5. /\ SameTree /\ SameBusy
        /\ CountsMove({k}, 1)
    BY <1>1, <1>2, <1>4, RefcountUpdate
  <1>6. Tree' /\ Children' /\ Anc' = Anc /\ Ids' = Ids
    BY <1>1, <1>2, <1>5, SameTreeKept
  <1>7. /\ inode'[t] = k
        /\ \A u \in Threads : u # t => inode'[u] = inode[u] /\ path'[u] = path[u]
    BY <1>1, <1>2 DEF Types
  <1>8. Types'
    <2>1. path' \in [Threads -> Seq(NameSet)]
      <3>1. path[t] \in Seq(NameSet)
        BY <1>2 DEF Types
      <3>2. Tail(path[t]) \in Seq(NameSet)
        BY <1>1, <3>1, HeadTailProperties
      <3> QED  BY <1>1, <1>2, <3>2 DEF Types
    <2>2. inode' \in [Threads -> 0 .. Len(inodes)]
      <3>1. k \in 0 .. Len(inodes)
        BY <1>2, <1>4, InodeTypes
      <3> QED  BY <1>1, <1>2, <3>1 DEF Types
    <2> QED  BY <1>1, <1>2, <1>5, <1>6, <2>1, <2>2 DEF Types, SameTree
  <1>9. Lookups'
    <2> SUFFICES ASSUME NEW u \in Threads  PROVE  LookupOf(u)'
      BY DEF Lookups
    <2>0. pc' = pc /\ child' = child /\ held' = held /\ pc[t] = "loop"
      BY <1>1
    <2>1. CASE u # t
      <3>1. inode'[u] = inode[u] /\ path'[u] = path[u] /\ LookupOf(u)
        BY <1>2, <1>7, <2>1 DEF Lookups
      <3> QED  BY <1>2, <1>5, <1>6, <2>0, <3>1, OtherLookup DEF SameTree
    <2>2. CASE u = t
      BY <1>3, <1>4, <1>6, <1>7, <2>0, <2>2 DEF InDir, LookupOf
    <2> QED  BY <2>1, <2>2
  <1>10. Busy'
    <2>1. ASSUME NEW u \in Threads
          PROVE  /\ InDir(u)' <=> InDir(u)
                 /\ InDir(u) => inode'[u] = inode[u]
                 /\ pc'[u] = "wait" => inode'[u] \in Ids /\ inodes[inode'[u]].busy = TRUE
      <3>1. CASE u # t
        BY <1>1, <1>2, <1>7, <3>1 DEF InDir, Lookups, LookupOf, Busy
      <3>2. CASE u = t
        BY <1>1, <3>2 DEF InDir
      <3> QED  BY <3>1, <3>2
    <2> QED  BY <1>2, <1>5, <1>6, <2>1, BusyKept
  <1>11. Counted'
    <2> DEFINE R == [Refs EXCEPT ![t] = held[t]]
    <2>1. RefsShape /\ RefsShape'
      BY <1>2, <1>8, RefsValues, PTL
    <2>2. /\ Refs[t] = Append(held[t], d) /\ Refs'[t] = Append(held[t], k)
          /\ \A u \in Threads : u # t => Refs'[u] = Refs[u]
      <3>1. held' = held /\ pc' = pc /\ pc[t] = "loop"
        BY <1>1
      <3> QED  BY <1>7, <2>1, <3>1 DEF RefsShape, d
    <2>3. held[t] \in Seq(Nat)
      BY <1>2 DEF Types
    <2>4. R \in [Threads -> Seq(Nat)] /\ R[t] = held[t]
          /\ \A u \in Threads : u # t => R[u] = Refs[u]
      BY <2>1, <2>3 DEF RefsShape
    <2> HIDE DEF R, d
    <2>5. NewRef(R, Refs, t, d) /\ NewRef(R, Refs', t, k)
      BY <2>2, <2>4 DEF NewRef
    <2>6. Len(R[t]) <= MaxHeld
      BY <1>3, <2>4
    <2> QED  BY <1>2, <1>3, <1>4, <1>5, <1>6, <2>4, <2>5, <2>6, CountMove
  <1> QED  BY <1>6, <1>8, <1>9, <1>10, <1>11 DEF IInv

LEMMA HeldAppend ==
    ASSUME Types, NEW t \in Threads, NEW k \in Ids,
           held' = [held EXCEPT ![t] = Append(held[t], k)]
    PROVE  /\ held' \in [Threads -> Seq(Nat)]
           /\ held'[t] = Append(held[t], k) /\ Len(held'[t]) = Len(held[t]) + 1
           /\ \A u \in Threads : u # t => held'[u] = held[u]
           /\ \A u \in Threads : \A j \in 1 .. Len(held'[u]) : held'[u][j] \in Ids
  <1>1. held \in [Threads -> Seq(Nat)] /\ held[t] \in Seq(Nat) /\ Len(held[t]) \in Nat
    BY LenProperties DEF Types
  <1>2. k \in Nat
    BY InodeTypes
  <1>3. /\ Append(held[t], k) \in Seq(Nat)
        /\ Len(Append(held[t], k)) = Len(held[t]) + 1
        /\ \A j \in 1 .. Len(held[t]) : Append(held[t], k)[j] = held[t][j]
        /\ Append(held[t], k)[Len(held[t]) + 1] = k
    BY <1>1, <1>2, AppendProperties
  <1>4. held'[t] = Append(held[t], k) /\ \A u \in Threads : u # t => held'[u] = held[u]
    BY <1>1
  <1>5. held' \in [Threads -> Seq(Nat)]
    BY <1>1, <1>3
  <1>6. ASSUME NEW u \in Threads, NEW j \in 1 .. Len(held'[u])
        PROVE  held'[u][j] \in Ids
    <2>1. CASE u # t
      BY <1>4, <2>1 DEF Types
    <2>2. CASE u = t
      <3>1. j \in 1 .. Len(held[t]) + 1
        BY <1>3, <1>4, <2>2
      <3>2. j \in 1 .. Len(held[t]) \/ j = Len(held[t]) + 1
        BY <1>1, <3>1
      <3>3. \A m \in 1 .. Len(held[t]) : held[t][m] \in Ids
        BY DEF Types
      <3> QED  BY <1>3, <1>4, <2>2, <3>2, <3>3
    <2> QED  BY <2>1, <2>2
  <1> QED  BY <1>3, <1>4, <1>5, <1>6

LEMMA RootKept ==
    ASSUME IInv, NEW t \in Threads, vfs_get_root_dir(t)
    PROVE  IInv'
  <1>1. /\ pc[t] = "idle" /\ Len(held[t]) < MaxHeld
        /\ s_root_dir' = s_root_dir /\ pc' = pc /\ inode' = inode /\ path' = path
        /\ child' = child
    BY DEF vfs_get_root_dir
  <1>2. Types /\ Tree /\ Lookups /\ Busy /\ Children /\ Counted
    BY DEF IInv
  <1>3. CASE s_root_dir = 0
    <2>1. inodes' = inodes /\ held' = held
      BY <1>3 DEF vfs_get_root_dir, NoInode
    <2> QED  BY <1>1, <2>1, StutterKept
  <1>4. CASE s_root_dir # 0
    <2> DEFINE k == s_root_dir
    <2>1. inodes' = [inodes EXCEPT ![k].refcount = @ + 1]
      BY <1>4 DEF vfs_get_root_dir, NoInode
    <2>2. held' = [held EXCEPT ![t] = Append(held[t], k)]
      BY <1>4 DEF vfs_get_root_dir, NoInode
    <2>3. k \in Ids /\ Len(inodes) \in Nat /\ Ids = 1 .. Len(inodes)
      <3>1. k \in 0 .. Len(inodes)
        BY <1>2 DEF Types
      <3>2. Len(inodes) \in Nat /\ Ids = 1 .. Len(inodes)
        BY <1>2, InodeTypes
      <3> QED  BY <1>4, <3>1, <3>2
    <2>4. Anc[k] = {k}
      <3>1. IsTree(Len(inodes), Parents) /\ Anc[k] = Up(Len(inodes), Parents, k)
        BY <1>2, <2>3, AncValues
      <3>2. Parents[k] = 0
        BY <1>2, <1>4, <2>3 DEF Parents, Tree
      <3> QED  BY <2>3, <3>1, <3>2, UpProperties
    <2> HIDE DEF k
    <2>5. /\ held' \in [Threads -> Seq(Nat)]
          /\ held'[t] = Append(held[t], k) /\ Len(held'[t]) = Len(held[t]) + 1
          /\ \A u \in Threads : u # t => held'[u] = held[u]
          /\ \A u \in Threads : \A j \in 1 .. Len(held'[u]) : held'[u][j] \in Ids
      BY <1>2, <2>2, <2>3, HeldAppend
    <2>6. SameTree /\ SameBusy /\ CountsMove({k}, 1)
      BY <1>2, <2>1, <2>3, RefcountUpdate
    <2>7. Tree' /\ Children' /\ Anc' = Anc /\ Ids' = Ids
      BY <1>1, <1>2, <2>6, SameTreeKept
    <2>8. Types'
      BY <1>1, <1>2, <2>5, <2>6, <2>7 DEF Types, SameTree
    <2>10. held[t] \in Seq(Nat) /\ Len(held[t]) \in Nat /\ MaxHeld \in Nat
      <3>1. held[t] \in Seq(Nat) /\ MaxHeld \in Nat
        BY <1>2, VfsAssumption DEF Types
      <3> QED  BY <3>1, LenProperties
    <2>9. Lookups'
      <3> SUFFICES ASSUME NEW u \in Threads  PROVE  LookupOf(u)'
        BY DEF Lookups
      <3>1. CASE u # t
        <4>1. held'[u] = held[u] /\ LookupOf(u)
          BY <1>2, <2>5, <3>1 DEF Lookups
        <4> QED  BY <1>1, <1>2, <2>6, <2>7, <4>1, OtherLookup DEF SameTree
      <3>2. CASE u = t
        <4>1. Len(held'[t]) <= MaxHeld
          BY <1>1, <2>5, <2>10
        <4> QED  BY <1>1, <3>2, <4>1 DEF LookupOf, InDir
      <3> QED  BY <3>1, <3>2
    <2>11. Busy'
      <3>1. ASSUME NEW u \in Threads
            PROVE  /\ InDir(u)' <=> InDir(u)
                   /\ InDir(u) => inode'[u] = inode[u]
                   /\ pc'[u] = "wait" => inode'[u] \in Ids /\ inodes[inode'[u]].busy = TRUE
        BY <1>1, <1>2 DEF InDir, Lookups, LookupOf, Busy
      <3> QED  BY <1>2, <2>6, <2>7, <3>1, BusyKept
    <2>12. Counted'
      <3>1. RefsShape /\ RefsShape'
        BY <1>2, <2>8, RefsValues, PTL
      <3>2. Refs[t] = held[t] /\ NewRef(Refs, Refs', t, k)
        <4>1. pc' = pc /\ inode' = inode /\ pc[t] = "idle"
          BY <1>1
        <4> QED  BY <2>5, <3>1, <4>1 DEF RefsShape, NewRef
      <3>3. Refs \in [Threads -> Seq(Nat)] /\ Len(Refs[t]) <= MaxHeld
        BY <1>1, <2>10, <3>1, <3>2 DEF RefsShape
      <3>4. CountsMove(Anc[k], 1)
        BY <2>4, <2>6
      <3> QED  BY <1>2, <2>3, <2>7, <3>2, <3>3, <3>4, CountAppend
    <2> QED  BY <2>7, <2>8, <2>9, <2>11, <2>12 DEF IInv
  <1> QED  BY <1>3, <1>4

\* The directory is marked busy for the driver.
LEMMA ChildKept ==
    ASSUME IInv, NEW t \in Threads, vfs_lookup_child(t)
    PROVE  IInv'
  <1> DEFINE d == inode[t]
  <1>1. /\ pc[t] = "loop" /\ path[t] # << >> /\ inodes[d].type = "dir"
        /\ inodes' = [inodes EXCEPT ![d].busy = TRUE]
        /\ pc' = [pc EXCEPT ![t] = "io"]
        /\ s_root_dir' = s_root_dir /\ inode' = inode /\ path' = path
        /\ child' = child /\ held' = held
    BY DEF vfs_lookup_child, InLoop, Legal
  <1>0. ~inodes[d].busy
    BY DEF vfs_lookup_child
  <1>2. Types /\ Tree /\ Lookups /\ Busy /\ Children /\ Counted
    BY DEF IInv
  <1>3. d \in Ids /\ Len(held[t]) < MaxHeld /\ Len(held[t]) <= MaxHeld
    BY <1>1, <1>2 DEF Lookups, LookupOf
  <1>4. /\ SameTree /\ SameCount /\ inodes'[d].busy = TRUE
        /\ \A j \in Ids : j # d => inodes'[j].busy = inodes[j].busy
    BY <1>1, <1>2, <1>3, BusyUpdate
  <1>5. Tree' /\ Children' /\ Anc' = Anc /\ Ids' = Ids
    BY <1>1, <1>2, <1>4, SameTreeKept
  <1>6. pc'[t] = "io" /\ \A u \in Threads : u # t => pc'[u] = pc[u]
    BY <1>1, <1>2 DEF Types
  <1>7. Types'
    <2>1. pc' \in [Threads -> PC]
      BY <1>1, <1>2 DEF Types, PC
    <2> QED  BY <1>1, <1>2, <1>4, <1>5, <2>1 DEF Types, SameTree
  <1>8. Lookups'
    <2> SUFFICES ASSUME NEW u \in Threads  PROVE  LookupOf(u)'
      BY DEF Lookups
    <2>0. inode' = inode /\ path' = path /\ child' = child /\ held' = held
      BY <1>1
    <2>1. CASE u # t
      <3>1. pc'[u] = pc[u] /\ LookupOf(u)
        BY <1>2, <1>6, <2>1 DEF Lookups
      <3> QED  BY <1>2, <1>4, <1>5, <2>0, <3>1, OtherLookup DEF SameTree
    <2>2. CASE u = t
      <3>1. inodes'[d].type = "dir" /\ path[t] # << >>
        BY <1>1, <1>3, <1>4 DEF SameTree
      <3> QED  BY <1>3, <1>5, <1>6, <2>0, <2>2, <3>1 DEF InDir, LookupOf
    <2> QED  BY <2>1, <2>2
  <1>9. Busy'
    <2>0. inode' = inode /\ pc[t] = "loop"
      BY <1>1
    <2>1. ASSUME NEW u \in Threads, InDir(u)  PROVE  inode[u] \in Ids /\ inode[u] # d
      <3>1. inode[u] \in Ids /\ inodes[inode[u]].busy = TRUE
        BY <1>2, <2>1 DEF Lookups, LookupOf, InDir, Busy
      <3>2. inodes[d].busy # TRUE
        BY <1>0
      <3> QED  BY <3>1, <3>2, Zenon
    <2>2. ASSUME NEW u \in Threads
          PROVE  /\ InDir(u)' <=> InDir(u) \/ u = t
                 /\ pc'[u] = "wait" => pc[u] = "wait"
      BY <1>6 DEF InDir
    <2>3. ASSUME NEW u \in Threads, InDir(u)' \/ pc'[u] = "wait"
          PROVE  inodes'[inode[u]].busy = TRUE
      <3>1. CASE inode[u] = d
        BY <1>4, <3>1, Zenon
      <3>2. CASE inode[u] # d
        <4>1. InDir(u) \/ pc[u] = "wait"
          BY <2>2, <2>3, <3>2
        <4>2. inode[u] \in Ids
          BY <1>2, <4>1 DEF Lookups, LookupOf, InDir
        <4>3. inodes[inode[u]].busy = TRUE
          BY <1>2, <4>1 DEF Busy
        <4> QED  BY <1>4, <3>2, <4>2, <4>3, Zenon
      <3> QED  BY <3>1, <3>2
    <2>4. ASSUME NEW u \in Threads, NEW w \in Threads, InDir(u)', InDir(w)', inode[u] = inode[w]
          PROVE  u = w
      BY <1>2, <2>1, <2>2, <2>4 DEF Busy
    <2>5. ASSUME NEW c \in Ids, inodes'[c].busy = TRUE
          PROVE  \E u \in Threads : InDir(u)' /\ inode[u] = c
      <3>1. CASE c = d
        BY <2>2, <3>1
      <3>2. CASE c # d
        <4>1. inodes[c].busy = TRUE
          BY <1>4, <2>5, <3>2, Zenon
        <4>2. PICK u \in Threads : InDir(u) /\ inode[u] = c
          BY <1>2, <4>1 DEF Busy
        <4> QED  BY <2>2, <4>2
      <3> QED  BY <3>1, <3>2
    <2> QED  BY <1>5, <2>0, <2>3, <2>4, <2>5 DEF Busy
  <1>10. Counted'
    <2>1. RefsShape /\ RefsShape'
      BY <1>2, <1>7, RefsValues, PTL
    <2>0. inode' = inode /\ held' = held /\ pc[t] = "loop"
      BY <1>1
    <2>2. \A u \in Threads : Refs'[u] = Refs[u]
      BY <1>6, <2>0, <2>1 DEF RefsShape
    <2>3. Refs' = Refs
      BY <2>1, <2>2 DEF RefsShape
    <2> QED  BY <1>2, <1>4, <1>5, <2>3, CountedSame
  <1> QED  BY <1>5, <1>7, <1>8, <1>9, <1>10 DEF IInv

\* A lookup fails and gives up its references.
LEMMA ErrorKept ==
    ASSUME IInv, NEW t \in Threads, lookup_error(t)
    PROVE  IInv'
  <1> DEFINE i == inode[t]
  <1>1. /\ pc[t] = "failed" /\ vfs_adjust_refcounts(i, -1)
        /\ pc' = [pc EXCEPT ![t] = "idle"] /\ inode' = [inode EXCEPT ![t] = 0]
        /\ path' = [path EXCEPT ![t] = << >>]
        /\ s_root_dir' = s_root_dir /\ child' = child /\ held' = held
    BY DEF lookup_error, NoInode
  <1>2. Types /\ Tree /\ Lookups /\ Busy /\ Children /\ Counted
    BY DEF IInv
  <1>3. i \in Ids /\ Len(held[t]) <= MaxHeld
    BY <1>1, <1>2 DEF Lookups, LookupOf
  <1>4. SameTree /\ SameBusy /\ CountsMove(Anc[i], -1)
    BY <1>1, <1>2, <1>3, AdjustUpdate
  <1>5. Tree' /\ Children' /\ Anc' = Anc /\ Ids' = Ids
    BY <1>1, <1>2, <1>4, SameTreeKept
  <1>6. /\ pc'[t] = "idle"
        /\ \A u \in Threads : u # t => pc'[u] = pc[u] /\ inode'[u] = inode[u] /\ path'[u] = path[u]
    BY <1>1, <1>2 DEF Types
  <1>7. Types'
    <2>1. 0 \in 0 .. Len(inodes) /\ "idle" \in PC /\ << >> \in Seq(NameSet)
      BY <1>2, InodeTypes DEF PC
    <2>2. /\ pc' \in [Threads -> PC] /\ inode' \in [Threads -> 0 .. Len(inodes)]
          /\ path' \in [Threads -> Seq(NameSet)]
      BY <1>1, <1>2, <2>1 DEF Types
    <2>3. s_root_dir' = s_root_dir /\ child' = child /\ held' = held
      BY <1>1
    <2> QED  BY <1>2, <1>4, <1>5, <2>2, <2>3 DEF Types, SameTree
  <1>0. child' = child /\ held' = held /\ pc[t] = "failed"
    BY <1>1
  <1>8. Lookups'
    <2> SUFFICES ASSUME NEW u \in Threads  PROVE  LookupOf(u)'
      BY DEF Lookups
    <2>1. CASE u # t
      <3>1. /\ pc'[u] = pc[u] /\ inode'[u] = inode[u] /\ path'[u] = path[u] /\ LookupOf(u)
        BY <1>2, <1>6, <2>1 DEF Lookups
      <3> QED  BY <1>0, <1>2, <1>4, <1>5, <3>1, OtherLookup DEF SameTree
    <2>2. CASE u = t
      BY <1>0, <1>3, <1>6, <2>2 DEF InDir, LookupOf
    <2> QED  BY <2>1, <2>2
  <1>9. Busy'
    <2>1. ASSUME NEW u \in Threads
          PROVE  /\ InDir(u)' <=> InDir(u)
                 /\ InDir(u) => inode'[u] = inode[u]
                 /\ pc'[u] = "wait" => inode'[u] \in Ids /\ inodes[inode'[u]].busy = TRUE
      <3>1. CASE u # t
        BY <1>2, <1>6, <3>1 DEF InDir, Lookups, LookupOf, Busy
      <3>2. CASE u = t
        BY <1>0, <1>6, <3>2 DEF InDir
      <3> QED  BY <3>1, <3>2
    <2> QED  BY <1>2, <1>4, <1>5, <2>1, BusyKept
  <1>10. Counted'
    <2>1. RefsShape /\ RefsShape'
      BY <1>2, <1>7, RefsValues, PTL
    <2>2. Refs'[t] = held[t] /\ NewRef(Refs', Refs, t, i)
      BY <1>0, <1>6, <2>1 DEF RefsShape, NewRef
    <2>3. Refs' \in [Threads -> Seq(Nat)] /\ Len(Refs'[t]) <= MaxHeld
      BY <1>3, <2>1, <2>2 DEF RefsShape
    <2> QED  BY <1>2, <1>3, <1>4, <1>5, <2>2, <2>3, CountDrop
  <1> QED  BY <1>5, <1>7, <1>8, <1>9, <1>10 DEF IInv

\* A thread releases one of the inodes it has.
LEMMA ReleaseKept ==
    ASSUME IInv, NEW t \in Threads, NEW p \in DOMAIN held[t], vfs_release_ref(t, p)
    PROVE  IInv'
  <1> DEFINE i == held[t][p]
             q == RemoveAt(held[t], p)
             n == Len(held[t])
  <1>1. /\ pc[t] = "idle" /\ vfs_adjust_refcounts(i, -1)
        /\ held' = [held EXCEPT ![t] = q]
        /\ s_root_dir' = s_root_dir /\ pc' = pc /\ inode' = inode /\ path' = path
        /\ child' = child
    BY DEF vfs_release_ref
  <1>2. Types /\ Tree /\ Lookups /\ Busy /\ Children /\ Counted
    BY DEF IInv
  <1>3. /\ held[t] \in Seq(Nat) /\ n \in Nat /\ p \in 1 .. n
        /\ MaxHeld \in Nat /\ n <= MaxHeld
    <2>1. held[t] \in Seq(Nat) /\ n <= MaxHeld /\ MaxHeld \in Nat
      BY <1>2, VfsAssumption DEF Types, Lookups, LookupOf
    <2> QED  BY <2>1, LenProperties
  <1>11. i \in Ids
    BY <1>2, <1>3 DEF Types
  <1>4. SameTree /\ SameBusy /\ CountsMove(Anc[i], -1)
    BY <1>1, <1>2, <1>11, AdjustUpdate
  <1>5. Tree' /\ Children' /\ Anc' = Anc /\ Ids' = Ids
    BY <1>1, <1>2, <1>4, SameTreeKept
  <1>12. /\ q \in Seq(Nat) /\ Len(q) = n - 1
         /\ \A j \in 1 .. n - 1 : q[j] = held[t][IF j < p THEN j ELSE j + 1]
    BY <1>3, RemoveAtProperties
  <1>13. \A j \in 1 .. Len(q) : q[j] \in Ids
    <2>1. \A j \in 1 .. n - 1 : (IF j < p THEN j ELSE j + 1) \in 1 .. n
      BY <1>3
    <2>2. \A j \in 1 .. n : held[t][j] \in Ids
      BY <1>2 DEF Types
    <2> QED  BY <1>12, <2>1, <2>2
  <1> HIDE DEF q
  <1>6. held'[t] = q /\ \A u \in Threads : u # t => held'[u] = held[u]
    BY <1>1, <1>2 DEF Types
  <1>0. /\ pc' = pc /\ inode' = inode /\ path' = path /\ child' = child /\ pc[t] = "idle"
        /\ s_root_dir' = s_root_dir
    BY <1>1
  <1>7. Types'
    <2>1. held' \in [Threads -> Seq(Nat)]
      BY <1>1, <1>2, <1>12 DEF Types
    <2>2. ASSUME NEW u \in Threads, NEW j \in 1 .. Len(held'[u])
          PROVE  held'[u][j] \in Ids
      <3>1. CASE u # t
        BY <1>2, <1>6, <3>1 DEF Types
      <3>2. CASE u = t
        BY <1>6, <1>13, <3>2
      <3> QED  BY <3>1, <3>2
    <2> QED  BY <1>0, <1>2, <1>4, <1>5, <2>1, <2>2 DEF Types, SameTree
  <1>8. Lookups'
    <2> SUFFICES ASSUME NEW u \in Threads  PROVE  LookupOf(u)'
      BY DEF Lookups
    <2>1. CASE u # t
      <3>1. held'[u] = held[u] /\ LookupOf(u)
        BY <1>2, <1>6, <2>1 DEF Lookups
      <3> QED  BY <1>0, <1>2, <1>4, <1>5, <3>1, OtherLookup DEF SameTree
    <2>2. CASE u = t
      <3>1. Len(held'[t]) <= MaxHeld
        BY <1>3, <1>6, <1>12
      <3> QED  BY <1>0, <2>2, <3>1 DEF InDir, LookupOf
    <2> QED  BY <2>1, <2>2
  <1>9. Busy'
    <2>1. ASSUME NEW u \in Threads
          PROVE  /\ InDir(u)' <=> InDir(u)
                 /\ InDir(u) => inode'[u] = inode[u]
                 /\ pc'[u] = "wait" => inode'[u] \in Ids /\ inodes[inode'[u]].busy = TRUE
      BY <1>0, <1>2 DEF InDir, Lookups, LookupOf, Busy
    <2> QED  BY <1>2, <1>4, <1>5, <2>1, BusyKept
  <1>10. Counted'
    <2>1. RefsShape /\ RefsShape'
      BY <1>2, <1>7, RefsValues, PTL
    <2>2. /\ Refs[t] = held[t] /\ Refs'[t] = q
          /\ \A u \in Threads : u # t => Refs'[u] = Refs[u]
      BY <1>0, <1>6, <2>1 DEF RefsShape
    <2>3. /\ Refs \in [Threads -> Seq(Nat)] /\ Len(Refs[t]) <= MaxHeld
          /\ p \in 1 .. Len(Refs[t]) /\ Refs'[t] = RemoveAt(Refs[t], p)
      BY <1>3, <2>1, <2>2 DEF RefsShape, q
    <2>4. CountsMove(Anc[Refs[t][p]], -1)
      BY <1>4, <2>2
    <2> QED  BY <1>2, <1>5, <2>2, <2>3, <2>4, CountRemove
  <1> QED  BY <1>5, <1>7, <1>8, <1>9, <1>10 DEF IInv

-----------------------------------------------------------------------------
\* Two entries of a sequence are assigned.
TwoSet(q, q2, S, d, nd, k, nk) ==
    /\ q2 \in Seq(S) /\ Len(q2) = Len(q)
    /\ \A j \in 1 .. Len(q) : q2[j] = IF j = k THEN nk ELSE IF j = d THEN nd ELSE q[j]

LEMMA TwoUpdates ==
    ASSUME NEW S, NEW q \in Seq(S), NEW d \in 1 .. Len(q), NEW k \in 1 .. Len(q),
           NEW nd \in S, NEW nk \in S
    PROVE  TwoSet(q, [[q EXCEPT ![d] = nd] EXCEPT ![k] = nk], S, d, nd, k, nk)
  <1> DEFINE m == [q EXCEPT ![d] = nd]
  <1>1. /\ m \in Seq(S) /\ Len(m) = Len(q)
        /\ \A j \in 1 .. Len(q) : m[j] = IF j = d THEN nd ELSE q[j]
    BY ExceptSeq
  <1> HIDE DEF m
  <1> DEFINE q2 == [m EXCEPT ![k] = nk]
  <1>2. /\ q2 \in Seq(S) /\ Len(q2) = Len(m)
        /\ \A j \in 1 .. Len(m) : q2[j] = IF j = k THEN nk ELSE m[j]
    BY <1>1, ExceptSeq
  <1> HIDE DEF q2
  <1>3. TwoSet(q, q2, S, d, nd, k, nk)
    BY <1>1, <1>2 DEF TwoSet
  <1> QED  BY <1>3 DEF m, q2

\* The directory is unlocked, and the child counted.
Relocked(d, k) == inodes' = [inodes EXCEPT ![d].busy = FALSE, ![k].refcount = @ + 1]

LEMMA RelockUpdate ==
    ASSUME Types, NEW d \in Ids, NEW k \in Ids, d # k, Relocked(d, k)
    PROVE  /\ SameTree /\ CountsMove({k}, 1)
           /\ inodes'[d].busy = FALSE
           /\ \A j \in Ids : j # d => inodes'[j].busy = inodes[j].busy
  <1> DEFINE nd == [inodes[d] EXCEPT !.busy = FALSE]
             nk == [inodes[k] EXCEPT !.refcount = inodes[k].refcount + 1]
             m == [inodes EXCEPT ![d] = nd]
  <1>1. /\ Ids = 1 .. Len(inodes) /\ inodes \in Seq(Inode)
        /\ inodes[d] \in Inode /\ inodes[k] \in Inode
        /\ inodes[k].refcount \in Int /\ inodes[d].refcount \in Int
    BY InodeTypes DEF Types
  <1>2. /\ nd \in Inode /\ nd.refcount = inodes[d].refcount
        /\ nd.parent = inodes[d].parent /\ nd.type = inodes[d].type
        /\ nd.child_list = inodes[d].child_list
    BY <1>1 DEF Inode
  <1>3. nd.busy = FALSE
    BY <1>1 DEF Inode
  <1>4. /\ nk \in Inode /\ nk.refcount = inodes[k].refcount + 1
        /\ nk.parent = inodes[k].parent /\ nk.type = inodes[k].type
        /\ nk.child_list = inodes[k].child_list
    BY <1>1, InodeFields
  <1>5. nk.busy = inodes[k].busy
    BY <1>1, InodeFields
  <1>0. nd \in Inode /\ nk \in Inode
    BY <1>2, <1>4
  <1>6. inodes' = [m EXCEPT ![k] = [m[k] EXCEPT !.refcount = inodes[k].refcount + 1]]
    BY Zenon DEF Relocked
  <1>8. m[k] = inodes[k]
    BY <1>1
  <1>9. inodes' = [[inodes EXCEPT ![d] = nd] EXCEPT ![k] = nk]
    BY <1>6, <1>8, Zenon
  <1> HIDE DEF nd, nk, m
  <1>10. TwoSet(inodes, inodes', Inode, d, nd, k, nk)
    <2>1. TwoSet(inodes, [[inodes EXCEPT ![d] = nd] EXCEPT ![k] = nk], Inode, d, nd, k, nk)
      BY <1>0, <1>1, TwoUpdates
    <2> QED  BY <1>9, <2>1, Zenon
  <1>7. inodes' \in Seq(Inode) /\ Len(inodes') = Len(inodes)
    BY <1>10 DEF TwoSet
  <1>11. \A j \in Ids : inodes'[j] = IF j = k THEN nk ELSE IF j = d THEN nd ELSE inodes[j]
    BY <1>1, <1>10, Zenon DEF TwoSet
  <1>12. SameTree
    BY <1>2, <1>4, <1>7, <1>11 DEF SameTree
  <1>13. ASSUME NEW j \in Ids
         PROVE  inodes'[j].refcount = inodes[j].refcount + IF j \in {k} THEN 1 ELSE 0
    <2>1. inodes[j].refcount \in Int
      BY InodeTypes
    <2> QED  BY <1>2, <1>4, <1>11, <2>1
  <1>14. inodes'[d].busy = FALSE
    BY <1>3, <1>11, Zenon
  <1>15. \A j \in Ids : j # d => inodes'[j].busy = inodes[j].busy
    BY <1>5, <1>11, Zenon
  <1> QED  BY <1>12, <1>13, <1>14, <1>15 DEF CountsMove

\* The thread that had locked directory d unlocks it and wakes who waits.
LEMMA UnlockKept ==
    ASSUME Types, Lookups, Busy, Ids' = Ids, NEW t \in Threads, InDir(t),
           inodes'[inode[t]].busy = FALSE,
           \A j \in Ids : j # inode[t] => inodes'[j].busy = inodes[j].busy,
           pc'[t] \in {"failed", "loop"},
           \A u \in Threads : u # t =>
              /\ inode'[u] = inode[u]
              /\ pc'[u] = IF pc[u] = "wait" /\ inode[u] = inode[t] THEN "woken" ELSE pc[u]
    PROVE  Busy'
  <1> DEFINE d == inode[t]
  <1>1. ASSUME NEW u \in Threads, InDir(u)
        PROVE  inode[u] \in Ids /\ (u # t => inode[u] # d)
    BY <1>1 DEF Lookups, LookupOf, InDir, Busy
  <1>2. ASSUME NEW u \in Threads
        PROVE  /\ InDir(u)' <=> InDir(u) /\ u # t
               /\ pc'[u] = "wait" => pc[u] = "wait" /\ u # t /\ inode[u] # d
    BY DEF InDir
  <1>3. ASSUME NEW u \in Threads, InDir(u)' \/ pc'[u] = "wait"
        PROVE  inodes'[inode'[u]].busy = TRUE
    <2>1. u # t /\ inode'[u] = inode[u] /\ (InDir(u) \/ pc[u] = "wait") /\ inode[u] # d
      BY <1>1, <1>2, <1>3
    <2>2. inode[u] \in Ids /\ inodes[inode[u]].busy = TRUE
      BY <2>1 DEF Lookups, LookupOf, InDir, Busy
    <2> QED  BY <2>1, <2>2, Zenon
  <1>4. ASSUME NEW u \in Threads, NEW w \in Threads, InDir(u)', InDir(w)', inode'[u] = inode'[w]
        PROVE  u = w
    BY <1>2, <1>4 DEF Busy
  <1>5. ASSUME NEW c \in Ids, inodes'[c].busy = TRUE
        PROVE  \E u \in Threads : InDir(u)' /\ inode'[u] = c
    <2>1. c # d
      BY <1>5, Zenon
    <2>2. inodes[c].busy = TRUE
      BY <1>5, <2>1, Zenon
    <2>3. PICK u \in Threads : InDir(u) /\ inode[u] = c
      BY <2>2 DEF Busy
    <2> QED  BY <1>2, <2>1, <2>3
  <1> QED  BY <1>3, <1>4, <1>5 DEF Busy

\* Where the threads are after the broadcast for directory d.
LEMMA BroadcastValues ==
    ASSUME Types, NEW t \in Threads, NEW q \in {"failed", "loop"},
           vfs_unlock_dir(t, [pc EXCEPT ![t] = q])
    PROVE  /\ pc' \in [Threads -> PC] /\ pc'[t] = q
           /\ \A u \in Threads : u # t =>
                 pc'[u] = IF pc[u] = "wait" /\ inode[u] = inode[t] THEN "woken" ELSE pc[u]
  <1> DEFINE r == [pc EXCEPT ![t] = q]
  <1>1. pc \in [Threads -> PC] /\ q \in PC /\ "woken" \in PC /\ q # "wait"
    BY DEF Types, PC
  <1>2. r[t] = q /\ (\A u \in Threads : u # t => r[u] = pc[u]) /\ r \in [Threads -> PC]
    BY <1>1
  <1> HIDE DEF r
  <1>3. pc' = [u \in Threads |-> IF r[u] = "wait" /\ inode[u] = inode[t] THEN "woken" ELSE r[u]]
    BY Zenon DEF vfs_unlock_dir, Broadcast, r
  <1> QED  BY <1>1, <1>2, <1>3

\* The rest of the threads are where they were, or woken.
LEMMA WokenLookup ==
    ASSUME Types, SameTree, Ids' = Ids, NEW u \in Threads, LookupOf(u),
           pc'[u] = pc[u] \/ (pc[u] = "wait" /\ pc'[u] = "woken"),
           inode'[u] = inode[u], path'[u] = path[u], child'[u] = child[u],
           held'[u] = held[u]
    PROVE  LookupOf(u)'
  <1>1. CASE pc'[u] = pc[u]
    BY <1>1, OtherLookup DEF SameTree
  <1>2. CASE pc[u] = "wait" /\ pc'[u] = "woken"
    BY <1>2 DEF LookupOf, InDir
  <1> QED  BY <1>1, <1>2

LEMMA RelockKept ==
    ASSUME IInv, NEW t \in Threads, lookup_relock(t)
    PROVE  IInv'
  <1> DEFINE d == inode[t]
             k == child[t]
  <1>0. pc[t] = "relock" /\ s_root_dir' = s_root_dir /\ held' = held
    BY DEF lookup_relock
  <1>1. child' = [child EXCEPT ![t] = 0]
    BY DEF lookup_relock, NoInode
  <1>2. Types /\ Tree /\ Lookups /\ Busy /\ Children /\ Counted
    BY DEF IInv
  <1>3. d \in Ids /\ Len(held[t]) < MaxHeld /\ Len(held[t]) <= MaxHeld /\ InDir(t)
        /\ path[t] # << >> /\ (k # 0 => inodes[k].parent = d)
    BY <1>0, <1>2 DEF Lookups, LookupOf, InDir
  <1>4. /\ child' \in [Threads -> 0 .. Len(inodes)]
        /\ \A u \in Threads : u # t => child'[u] = child[u]
        /\ child'[t] = 0
    <2>1. 0 \in 0 .. Len(inodes)
      BY <1>2, InodeTypes
    <2> QED  BY <1>1, <1>2, <2>1 DEF Types
  <1>5. CASE k = 0
    <2>1. /\ inodes' = [inodes EXCEPT ![d].busy = FALSE]
          /\ vfs_unlock_dir(t, [pc EXCEPT ![t] = "failed"])
      BY <1>5 DEF lookup_relock, NoInode
    <2>2. inode' = inode /\ path' = path
      BY <1>5 DEF lookup_relock, NoInode
    <2>3. /\ SameTree /\ SameCount /\ inodes'[d].busy = FALSE
          /\ \A j \in Ids : j # d => inodes'[j].busy = inodes[j].busy
      BY <1>2, <1>3, <2>1, BusyUpdate
    <2>4. Tree' /\ Children' /\ Anc' = Anc /\ Ids' = Ids
      BY <1>0, <1>2, <2>3, SameTreeKept
    <2>5. /\ pc' \in [Threads -> PC] /\ pc'[t] = "failed"
          /\ \A u \in Threads : u # t =>
                pc'[u] = IF pc[u] = "wait" /\ inode[u] = d THEN "woken" ELSE pc[u]
      BY <1>2, <2>1, BroadcastValues
    <2>6. Types'
      BY <1>0, <1>2, <1>4, <2>2, <2>3, <2>4, <2>5 DEF Types, SameTree
    <2>7. Lookups'
      <3> SUFFICES ASSUME NEW u \in Threads  PROVE  LookupOf(u)'
        BY DEF Lookups
      <3>1. CASE u # t
        <4>1. /\ pc'[u] = pc[u] \/ (pc[u] = "wait" /\ pc'[u] = "woken")
              /\ LookupOf(u) /\ child'[u] = child[u]
          BY <1>2, <1>4, <2>5, <3>1 DEF Lookups
        <4> QED  BY <1>0, <1>2, <2>2, <2>3, <2>4, <4>1, WokenLookup
      <3>2. CASE u = t
        BY <1>0, <1>3, <2>2, <2>4, <2>5, <3>2 DEF LookupOf, InDir
      <3> QED  BY <3>1, <3>2
    <2>8. Busy'
      BY <1>2, <1>3, <2>2, <2>3, <2>4, <2>5, UnlockKept
    <2>9. Counted'
      <3>1. RefsShape /\ RefsShape'
        BY <1>2, <2>6, RefsValues, PTL
      <3>2. ASSUME NEW u \in Threads
            PROVE  pc'[u] \in {"idle", "start"} <=> pc[u] \in {"idle", "start"}
        BY <1>0, <2>5
      <3>3. \A u \in Threads : Refs'[u] = Refs[u]
        BY <1>0, <2>2, <3>1, <3>2 DEF RefsShape
      <3>4. Refs' = Refs
        BY <3>1, <3>3 DEF RefsShape
      <3> QED  BY <1>2, <2>3, <2>4, <3>4, CountedSame
    <2> QED  BY <2>4, <2>6, <2>7, <2>8, <2>9 DEF IInv
  <1>6. CASE k # 0
    <2>1. /\ Relocked(d, k)
          /\ vfs_unlock_dir(t, [pc EXCEPT ![t] = "loop"])
      BY <1>6 DEF lookup_relock, NoInode, Relocked
    <2>2. inode' = [inode EXCEPT ![t] = k] /\ path' = [path EXCEPT ![t] = Tail(path[t])]
      BY <1>6 DEF lookup_relock, NoInode, Descend
    <2>10. k \in Ids /\ inodes[k].parent = d /\ d # k
      <3>1. k \in 0 .. Len(inodes)
        BY <1>2 DEF Types
      <3>2. Ids = 1 .. Len(inodes) /\ Len(inodes) \in Nat
        BY <1>2, InodeTypes
      <3>3. k \in Ids
        BY <1>6, <3>1, <3>2
      <3>4. inodes[k].parent \in 0 .. k - 1
        BY <1>2, <3>3 DEF Tree
      <3> QED  BY <1>3, <1>6, <3>1, <3>2, <3>3, <3>4
    <2>3. /\ SameTree /\ CountsMove({k}, 1) /\ inodes'[d].busy = FALSE
          /\ \A j \in Ids : j # d => inodes'[j].busy = inodes[j].busy
      BY <1>2, <1>3, <2>1, <2>10, RelockUpdate
    <2>4. Tree' /\ Children' /\ Anc' = Anc /\ Ids' = Ids
      BY <1>0, <1>2, <2>3, SameTreeKept
    <2>5. /\ pc' \in [Threads -> PC] /\ pc'[t] = "loop"
          /\ \A u \in Threads : u # t =>
                pc'[u] = IF pc[u] = "wait" /\ inode[u] = d THEN "woken" ELSE pc[u]
      BY <1>2, <2>1, BroadcastValues
    <2>11. /\ inode'[t] = k /\ inode' \in [Threads -> 0 .. Len(inodes)]
           /\ path' \in [Threads -> Seq(NameSet)]
           /\ \A u \in Threads : u # t => inode'[u] = inode[u] /\ path'[u] = path[u]
      <3>1. path[t] \in Seq(NameSet) /\ k \in 0 .. Len(inodes)
        BY <1>2 DEF Types
      <3>2. Tail(path[t]) \in Seq(NameSet)
        BY <1>3, <3>1, HeadTailProperties
      <3> QED  BY <1>2, <2>2, <3>1, <3>2 DEF Types
    <2>6. Types'
      BY <1>0, <1>2, <1>4, <2>3, <2>4, <2>5, <2>11 DEF Types, SameTree
    <2>7. Lookups'
      <3> SUFFICES ASSUME NEW u \in Threads  PROVE  LookupOf(u)'
        BY DEF Lookups
      <3>1. CASE u # t
        <4>1. /\ pc'[u] = pc[u] \/ (pc[u] = "wait" /\ pc'[u] = "woken")
              /\ LookupOf(u) /\ child'[u] = child[u]
              /\ inode'[u] = inode[u] /\ path'[u] = path[u]
          BY <1>2, <1>4, <2>5, <2>11, <3>1 DEF Lookups
        <4> QED  BY <1>0, <1>2, <2>3, <2>4, <4>1, WokenLookup
      <3>2. CASE u = t
        BY <1>0, <1>3, <2>4, <2>5, <2>10, <2>11, <3>2 DEF LookupOf, InDir
      <3> QED  BY <3>1, <3>2
    <2>8. Busy'
      BY <1>2, <1>3, <2>3, <2>4, <2>5, <2>11, UnlockKept
    <2>9. Counted'
      <3> DEFINE R == [Refs EXCEPT ![t] = held[t]]
      <3>1. RefsShape /\ RefsShape'
        BY <1>2, <2>6, RefsValues, PTL
      <3>2. ASSUME NEW u \in Threads
            PROVE  pc'[u] \in {"idle", "start"} <=> pc[u] \in {"idle", "start"}
        BY <1>0, <2>5
      <3>3. /\ Refs[t] = Append(held[t], d) /\ Refs'[t] = Append(held[t], k)
            /\ \A u \in Threads : u # t => Refs'[u] = Refs[u]
        BY <1>0, <2>11, <3>1, <3>2, ZenonT(60) DEF RefsShape
      <3>4. held[t] \in Seq(Nat)
        BY <1>2 DEF Types
      <3>5. R \in [Threads -> Seq(Nat)] /\ R[t] = held[t]
            /\ \A u \in Threads : u # t => R[u] = Refs[u]
        BY <3>1, <3>4 DEF RefsShape
      <3> HIDE DEF R
      <3>6. NewRef(R, Refs, t, d) /\ NewRef(R, Refs', t, k)
        BY <3>3, <3>5 DEF NewRef
      <3>7. Len(R[t]) <= MaxHeld
        BY <1>3, <3>5
      <3> QED  BY <1>2, <1>3, <2>3, <2>4, <2>10, <3>5, <3>6, <3>7, CountMove
    <2> QED  BY <2>4, <2>6, <2>7, <2>8, <2>9 DEF IInv
  <1> QED  BY <1>5, <1>6

-----------------------------------------------------------------------------
(***************************************************************************)
(* A new inode: the root directory of a mount (d = 0), or a child of d.    *)
(***************************************************************************)
NewId == Len(inodes) + 1

Grew(d) ==
    /\ inodes' \in Seq(Inode) /\ Len(inodes') = NewId
    /\ \A k \in Ids : /\ inodes'[k].parent = inodes[k].parent
                      /\ inodes'[k].type = inodes[k].type
                      /\ inodes'[k].refcount = inodes[k].refcount
    /\ \A k \in Ids : inodes'[k].child_list = IF k = d THEN Append(inodes[k].child_list, NewId)
                                              ELSE inodes[k].child_list
    /\ inodes'[NewId].parent = d /\ inodes'[NewId].refcount = 1
    /\ inodes'[NewId].child_list = << >>

GrewIdle ==
    inodes'[NewId].busy = FALSE /\ \A k \in Ids : inodes'[k].busy = inodes[k].busy

LEMMA GrownIds ==
    ASSUME Types, NEW d, Grew(d)
    PROVE  /\ Len(inodes) \in Nat /\ Ids = 1 .. Len(inodes) /\ Ids' = Ids \cup {NewId}
           /\ NewId \notin Ids /\ Ids' = 1 .. Len(inodes) + 1 /\ Ids \subseteq Ids'
           /\ Len(inodes') = Len(inodes) + 1
  <1>1. Len(inodes) \in Nat /\ Ids = 1 .. Len(inodes)
    BY InodeTypes
  <1>2. Ids' = 1 .. Len(inodes) + 1 /\ Len(inodes') = Len(inodes) + 1
    BY DEF Grew, NewId, Ids
  <1> QED  BY <1>1, <1>2 DEF NewId

LEMMA GrownTree ==
    ASSUME Types, Tree, NEW d \in 0 .. Len(inodes), Grew(d),
           s_root_dir' = s_root_dir \/ (d = 0 /\ s_root_dir' = NewId)
    PROVE  /\ Tree'
           /\ \A k \in Ids : Anc'[k] = Anc[k] /\ Anc[k] \subseteq Ids
  <1>1. /\ Len(inodes) \in Nat /\ Ids = 1 .. Len(inodes) /\ Ids' = Ids \cup {NewId}
        /\ NewId \notin Ids /\ Ids' = 1 .. Len(inodes) + 1 /\ Ids \subseteq Ids'
        /\ Len(inodes') = Len(inodes) + 1
    BY GrownIds
  <1>2. \A k \in Ids : inodes'[k].parent = inodes[k].parent
    BY DEF Grew
  <1>3. inodes'[NewId].parent = d
    BY DEF Grew
  <1>4. ASSUME NEW k \in Ids'  PROVE  inodes'[k].parent \in 0 .. k - 1
    <2>1. CASE k \in Ids
      BY <1>2, <2>1 DEF Tree
    <2>2. CASE k = NewId
      BY <1>1, <1>3, <2>2 DEF NewId
    <2> QED  BY <1>1, <2>1, <2>2
  <1>5. s_root_dir' # 0 => inodes'[s_root_dir'].parent = 0
    <2>1. CASE s_root_dir' = s_root_dir
      <3>1. s_root_dir \in 0 .. Len(inodes)
        BY DEF Types
      <3>2. s_root_dir # 0 => s_root_dir \in Ids
        BY <1>1, <3>1
      <3> QED  BY <1>2, <2>1, <3>2 DEF Tree
    <2>2. CASE d = 0 /\ s_root_dir' = NewId
      BY <1>3, <2>2
    <2> QED  BY <2>1, <2>2
  <1>6. Tree'
    BY <1>4, <1>5 DEF Tree
  <1>7. IsTree(Len(inodes), Parents) /\ \A k \in Ids : Anc[k] = Up(Len(inodes), Parents, k)
    BY AncValues
  <1>8. /\ Parents' = [k \in Ids' |-> inodes'[k].parent]
        /\ Anc' = [k \in Ids' |-> Up(Len(inodes) + 1, Parents', k)]
    BY <1>1 DEF Parents, Anc
  <1>9. IsTree(Len(inodes) + 1, Parents')
    BY <1>1, <1>4, <1>8 DEF IsTree
  <1>10. \A k \in 1 .. Len(inodes) : Parents'[k] = Parents[k]
    BY <1>1, <1>2, <1>8 DEF Parents
  <1>11. ASSUME NEW k \in Ids  PROVE  Anc'[k] = Anc[k] /\ Anc[k] \subseteq Ids
    <2>1. Anc'[k] = Up(Len(inodes) + 1, Parents', k)
      BY <1>1, <1>8
    <2>2. k \in 1 .. Len(inodes)
      BY <1>1
    <2>3. Up(Len(inodes) + 1, Parents', k) = Up(Len(inodes), Parents, k)
      BY <1>1, <1>7, <1>9, <1>10, <2>2, UpGrows
    <2>4. Up(Len(inodes), Parents, k) \subseteq Ids
      BY <1>1 DEF Up
    <2> QED  BY <1>7, <2>1, <2>3, <2>4
  <1> QED  BY <1>6, <1>11

LEMMA GrownChildren ==
    ASSUME Types, Tree, Children, NEW d \in 0 .. Len(inodes), Grew(d), Tree',
           d # 0 => inodes[d].type = "dir"
    PROVE  Children'
  <1>1. /\ Len(inodes) \in Nat /\ Ids = 1 .. Len(inodes) /\ Ids' = Ids \cup {NewId}
        /\ NewId \notin Ids /\ Ids' = 1 .. Len(inodes) + 1
    BY GrownIds
  <1>2. /\ \A k \in Ids : inodes'[k].parent = inodes[k].parent /\ inodes'[k].type = inodes[k].type
        /\ inodes'[NewId].parent = d /\ inodes'[NewId].child_list = << >>
    BY DEF Grew
  <1>3. \A k \in Ids : inodes[k].child_list \in Seq(Nat)
    BY InodeTypes
  <1>4. NewId \in Nat /\ NewId # 0 /\ NewId # d
    BY <1>1 DEF NewId
  <1> SUFFICES ASSUME NEW c \in Ids'
               PROVE  /\ Range(inodes'[c].child_list) = {k \in Ids' : inodes'[k].parent = c}
                      /\ Cardinality(Range(inodes'[c].child_list)) = Len(inodes'[c].child_list)
                      /\ inodes'[c].child_list # << >> => inodes'[c].type = "dir"
    BY DEF Children
  <1>5. CASE c = NewId
    <2>1. inodes'[c].child_list = << >>
      BY <1>2, <1>5
    <2>2. ASSUME NEW k \in Ids'  PROVE  inodes'[k].parent # c
      <3>1. inodes'[k].parent \in 0 .. k - 1 /\ k \in 1 .. NewId
        BY <1>1 DEF Tree, NewId
      <3> QED  BY <1>1, <1>4, <1>5, <3>1
    <2>3. Range(<< >>) = {} /\ Len(<< >>) = 0
      BY DEF Range
    <2>4. Cardinality({}) = 0
      BY FS_EmptySet
    <2> QED  BY <2>1, <2>2, <2>3, <2>4
  <1>6. CASE c \in Ids /\ c # d
    <2>1. inodes'[c].child_list = inodes[c].child_list
      BY <1>6 DEF Grew
    <2>2. {k \in Ids' : inodes'[k].parent = c} = {k \in Ids : inodes[k].parent = c}
      BY <1>1, <1>2, <1>6
    <2> QED  BY <1>2, <1>6, <2>1, <2>2 DEF Children
  <1>7. CASE c \in Ids /\ c = d
    <2> DEFINE l == inodes[c].child_list
    <2>1. inodes'[c].child_list = Append(l, NewId)
      BY <1>7 DEF Grew
    <2>2. l \in Seq(Nat)
      BY <1>3, <1>7
    <2>3. /\ Range(l) = {k \in Ids : inodes[k].parent = c} /\ Cardinality(Range(l)) = Len(l)
      BY <1>7 DEF Children
    <2>4. Range(Append(l, NewId)) = Range(l) \cup {NewId} /\ Len(Append(l, NewId)) = Len(l) + 1
      <3> HIDE DEF l
      <3>1. /\ Len(Append(l, NewId)) = Len(l) + 1 /\ Append(l, NewId) \in Seq(Nat)
            /\ \A j \in 1 .. Len(l) : Append(l, NewId)[j] = l[j]
            /\ Append(l, NewId)[Len(l) + 1] = NewId
        BY <1>4, <2>2, AppendProperties
      <3>2. DOMAIN l = 1 .. Len(l) /\ DOMAIN Append(l, NewId) = 1 .. Len(l) + 1 /\ Len(l) \in Nat
        BY <2>2, <3>1, LenProperties
      <3>3. ASSUME NEW j \in 1 .. Len(l) + 1  PROVE  Append(l, NewId)[j] \in Range(l) \cup {NewId}
        <4>1. j \in 1 .. Len(l) \/ j = Len(l) + 1
          BY <3>2
        <4> QED  BY <3>1, <3>2, <4>1 DEF Range
      <3>4. ASSUME NEW j \in 1 .. Len(l)  PROVE  l[j] \in Range(Append(l, NewId))
        <4>1. j \in 1 .. Len(l) + 1 /\ Append(l, NewId)[j] = l[j]
          BY <3>1, <3>2
        <4> QED  BY <3>2, <4>1 DEF Range
      <3>5. NewId \in Range(Append(l, NewId))
        <4>1. Len(l) + 1 \in 1 .. Len(l) + 1
          BY <3>2
        <4> QED  BY <3>1, <3>2, <4>1 DEF Range
      <3>6. \A x : x \in Range(Append(l, NewId)) <=>
                     \E j \in 1 .. Len(l) + 1 : x = Append(l, NewId)[j]
        BY <3>2, Zenon DEF Range
      <3>7. \A x : x \in Range(l) <=> \E j \in 1 .. Len(l) : x = l[j]
        BY <3>2, Zenon DEF Range
      <3>8. \A x : x \in Range(Append(l, NewId)) <=> x \in Range(l) \/ x = NewId
        BY <3>3, <3>4, <3>5, <3>6, <3>7, Zenon
      <3>9. Range(Append(l, NewId)) = Range(l) \cup {NewId}
        BY <3>8, Zenon
      <3> QED  BY <3>1, <3>9
    <2>5. {k \in Ids' : inodes'[k].parent = c} = {k \in Ids : inodes[k].parent = c} \cup {NewId}
      BY <1>1, <1>2, <1>7
    <2>6. Cardinality(Range(l) \cup {NewId}) = Cardinality(Range(l)) + 1
      <3>1. IsFiniteSet(Ids)
        BY <1>1, FS_Interval
      <3>2. Range(l) \subseteq Ids
        BY <2>3
      <3>3. IsFiniteSet(Range(l)) /\ NewId \notin Range(l)
        BY <1>1, <3>1, <3>2, FS_Subset
      <3> QED  BY <3>3, FS_AddElement
    <2>7. inodes'[c].type = "dir"
      BY <1>1, <1>2, <1>7
    <2> HIDE DEF l
    <2> QED  BY <2>1, <2>3, <2>4, <2>5, <2>6, <2>7
  <1> QED  BY <1>1, <1>5, <1>6, <1>7

\* A reference is to an inode that is there.
LEMMA RefsAreInodes ==
    ASSUME Types, RefsShape, Lookups, NEW t \in Threads, NEW j \in DOMAIN Refs[t]
    PROVE  Refs[t][j] \in Ids
  <1>0. Len(inodes) \in Nat /\ Ids = 1 .. Len(inodes)
    BY InodeTypes
  <1> DEFINE n == Len(held[t])
  <1>1. held[t] \in Seq(Nat) /\ n \in Nat /\ DOMAIN held[t] = 1 .. n
    BY LenProperties DEF Types
  <1>2. \A m \in 1 .. n : held[t][m] \in Ids
    BY DEF Types
  <1>3. CASE pc[t] \in {"idle", "start"}
    <2>1. Refs[t] = held[t]
      BY <1>3 DEF RefsShape
    <2> QED  BY <1>1, <1>2, <2>1
  <1>4. CASE pc[t] \notin {"idle", "start"}
    <2>1. Refs[t] = Append(held[t], inode[t])
      BY <1>4 DEF RefsShape
    <2>2. inode[t] \in Ids /\ inode[t] \in Nat
      BY <1>0, <1>4 DEF Lookups, LookupOf
    <2>3. /\ DOMAIN Append(held[t], inode[t]) = 1 .. n + 1
          /\ \A m \in 1 .. n : Append(held[t], inode[t])[m] = held[t][m]
          /\ Append(held[t], inode[t])[n + 1] = inode[t]
      BY <1>1, <2>2
    <2>4. j \in 1 .. n \/ j = n + 1
      BY <1>1, <2>1, <2>3
    <2> QED  BY <1>2, <2>1, <2>2, <2>3, <2>4
  <1> QED  BY <1>3, <1>4

\* Nothing refers to the new inode, or has it above.
LEMMA GrownCount ==
    ASSUME Types, Counted, RefsShape, Lookups, NEW d, Grew(d), Refs' = Refs,
           \A k \in Ids : Anc'[k] = Anc[k] /\ Anc[k] \subseteq Ids
    PROVE  Counted'
  <1>1. /\ Len(inodes) \in Nat /\ Ids = 1 .. Len(inodes) /\ Ids' = Ids \cup {NewId}
        /\ NewId \notin Ids
    BY GrownIds
  <1>2. ASSUME NEW t \in Threads, NEW j \in DOMAIN Refs[t]  PROVE  Refs[t][j] \in Ids
    BY RefsAreInodes
  <1>3. ASSUME NEW i, NEW r \in Threads \X (1 .. MaxHeld + 1), r[2] \in DOMAIN Refs[r[1]]
        PROVE  /\ i \in Anc'[Refs[r[1]][r[2]]] <=> i \in Anc[Refs[r[1]][r[2]]]
               /\ i \in Anc[Refs[r[1]][r[2]]] => i \in Ids
    <2>1. r[1] \in Threads
      OBVIOUS
    <2>2. Refs[r[1]][r[2]] \in Ids
      BY <1>2, <1>3, <2>1
    <2> QED  BY <2>2
  <1>4. ASSUME NEW i  PROVE  Holders(Refs, Anc', i) = Holders(Refs, Anc, i)
    BY <1>3 DEF Holders
  <1>5. Holders(Refs, Anc, NewId) = {}
    BY <1>1, <1>3 DEF Holders
  <1>6. Cardinality({}) = 0
    BY FS_EmptySet
  <1> SUFFICES ASSUME NEW i \in Ids'
               PROVE  inodes'[i].refcount = 1 + Cardinality(Holders(Refs, Anc', i))
    BY DEF Counted
  <1>7. CASE i \in Ids
    <2>1. inodes'[i].refcount = inodes[i].refcount
      BY <1>7 DEF Grew
    <2> QED  BY <1>4, <1>7, <2>1 DEF Counted
  <1>8. CASE i = NewId
    <2>1. inodes'[i].refcount = 1
      BY <1>8 DEF Grew
    <2>2. Holders(Refs, Anc', i) = {}
      BY <1>4, <1>5, <1>8
    <2> QED  BY <1>6, <2>1, <2>2
  <1> QED  BY <1>1, <1>7, <1>8

LEMMA GrownBusy ==
    ASSUME Types, Lookups, Busy, NEW d, Grew(d), GrewIdle, inode' = inode,
           \A u \in Threads : (InDir(u)' <=> InDir(u)) /\ (pc'[u] = "wait" <=> pc[u] = "wait")
    PROVE  Busy'
  <1>1. Ids' = Ids \cup {NewId} /\ NewId \notin Ids
    BY GrownIds
  <1>2. ASSUME NEW t \in Threads, InDir(t)' \/ pc'[t] = "wait"
        PROVE  inodes'[inode'[t]].busy = TRUE
    <2>1. inode[t] \in Ids /\ inodes[inode[t]].busy = TRUE
      BY <1>2 DEF Busy, Lookups, LookupOf, InDir
    <2> QED  BY <2>1, Zenon DEF GrewIdle
  <1>3. \A t, u \in Threads : InDir(t)' /\ InDir(u)' /\ inode'[t] = inode'[u] => t = u
    BY DEF Busy
  <1>4. ASSUME NEW c \in Ids', inodes'[c].busy = TRUE
        PROVE  \E t \in Threads : InDir(t)' /\ inode'[t] = c
    <2>0. c # NewId
      BY <1>4, Zenon DEF GrewIdle
    <2>1. c \in Ids
      BY <1>1, <2>0
    <2>2. inodes[c].busy = TRUE
      BY <1>4, <2>1, Zenon DEF GrewIdle
    <2>3. PICK t \in Threads : InDir(t) /\ inode[t] = c
      BY <2>1, <2>2 DEF Busy
    <2> QED  BY <2>3
  <1> QED  BY <1>2, <1>3, <1>4 DEF Busy

\* The inode a driver makes.
LEMMA PfatInode ==
    ASSUME NEW p \in Nat, NEW type \in {"dir", "file"}, NEW n \in NameSet
    PROVE  LET x == pfat_get_inode(p, type, n)
           IN /\ x \in Inode /\ x.parent = p /\ x.refcount = 1
              /\ x.child_list = << >> /\ x.busy = FALSE
  <1> DEFINE y == vfs_inode_create(p, type, n)
             x == pfat_get_inode(p, type, n)
  <1>1. y \in Inode
    BY DEF vfs_inode_create, Inode
  <1>2. y.parent = p /\ y.refcount = 0 /\ y.child_list = << >>
    BY DEF vfs_inode_create
  <1>3. y.busy = FALSE
    BY DEF vfs_inode_create
  <1>4. x = [y EXCEPT !.refcount = y.refcount + 1]
    BY DEF pfat_get_inode
  <1> HIDE DEF x, y
  <1>5. y.refcount + 1 = 1 /\ y.refcount + 1 \in Int
    BY <1>2
  <1>6. /\ x \in Inode /\ x.refcount = 1 /\ x.parent = y.parent
        /\ x.child_list = y.child_list
    BY <1>1, <1>4, <1>5, InodeFields
  <1>7. x.busy = y.busy
    BY <1>1, <1>4, <1>5, InodeFields
  <1> QED  BY <1>2, <1>3, <1>6, <1>7 DEF x

\* The inodes, with the new one in the child list of d.
Listed(q, d) ==
    /\ q \in Seq(Inode) /\ Len(q) = Len(inodes)
    /\ \A k \in Ids : /\ q[k].parent = inodes[k].parent /\ q[k].type = inodes[k].type
                      /\ q[k].refcount = inodes[k].refcount
    /\ \A k \in Ids : q[k].child_list = IF k = d THEN Append(inodes[k].child_list, NewId)
                                         ELSE inodes[k].child_list

\* A sequence of inodes gets one more.
LEMMA GrewAppend ==
    ASSUME Types, NEW q, NEW d, Listed(q, d), NEW new \in Inode,
           inodes' = Append(q, new),
           new.parent = d, new.refcount = 1, new.child_list = << >>
    PROVE  /\ Grew(d) /\ inodes'[NewId] = new /\ \A k \in Ids : inodes'[k] = q[k]
  <1>1. Len(inodes) \in Nat /\ Ids = 1 .. Len(inodes)
    BY InodeTypes
  <1>2. /\ inodes' \in Seq(Inode) /\ Len(inodes') = NewId
        /\ \A k \in 1 .. Len(q) : inodes'[k] = q[k]
        /\ inodes'[Len(q) + 1] = new
    BY AppendProperties DEF NewId, Listed
  <1>3. inodes'[NewId] = new /\ \A k \in Ids : inodes'[k] = q[k]
    BY <1>1, <1>2 DEF NewId, Listed
  <1> QED  BY <1>2, <1>3 DEF Grew, Listed

LEMMA MountKept ==
    ASSUME IInv, NEW dr \in Drivers, vfs_mount_root(dr)
    PROVE  IInv'
  <1>1. /\ inodes' = Append(inodes, pfat_get_root) /\ s_root_dir' = NewId
        /\ pc' = pc /\ inode' = inode /\ path' = path /\ child' = child /\ held' = held
    BY DEF vfs_mount_root, vfs_do_mount, NewId
  <1>2. Types /\ Tree /\ Lookups /\ Busy /\ Children /\ Counted
    BY DEF IInv
  <1>3. /\ pfat_get_root \in Inode /\ pfat_get_root.parent = 0 /\ pfat_get_root.refcount = 1
        /\ pfat_get_root.child_list = << >> /\ pfat_get_root.busy = FALSE
    <2>1. NoName \in NameSet
      BY DEF NameSet
    <2> QED  BY <2>1, PfatInode DEF pfat_get_root, NoInode
  <1>4. Grew(0) /\ inodes'[NewId] = pfat_get_root /\ \A k \in Ids : inodes'[k] = inodes[k]
    <2>1. inodes \in Seq(Inode)
      BY <1>2 DEF Types
    <2>2. \A k \in Ids : inodes[k].child_list = IF k = 0 THEN Append(inodes[k].child_list, NewId)
                                                ELSE inodes[k].child_list
      BY <1>2, InodeTypes
    <2>3. Listed(inodes, 0)
      BY <2>1, <2>2 DEF Listed
    <2> QED  BY <1>1, <1>2, <1>3, <2>3, GrewAppend
  <1>5. GrewIdle
    BY <1>3, <1>4, Zenon DEF GrewIdle
  <1>6. /\ Len(inodes) \in Nat /\ Ids = 1 .. Len(inodes) /\ Ids' = Ids \cup {NewId}
        /\ Ids \subseteq Ids' /\ Len(inodes') = Len(inodes) + 1 /\ 0 \in 0 .. Len(inodes)
    <2>1. Len(inodes) \in Nat
      BY <1>2, InodeTypes
    <2> QED  BY <1>2, <1>4, <2>1, GrownIds
  <1>7. Tree' /\ \A k \in Ids : Anc'[k] = Anc[k] /\ Anc[k] \subseteq Ids
    BY <1>1, <1>2, <1>4, <1>6, GrownTree
  <1>8. Children'
    BY <1>2, <1>4, <1>6, <1>7, GrownChildren
  <1>9. Refs' = Refs /\ RefsShape
    BY <1>1, <1>2, RefsValues DEF Refs, References
  <1>10. Counted'
    BY <1>2, <1>4, <1>7, <1>9, GrownCount
  <1>11. Busy'
    BY <1>1, <1>2, <1>4, <1>5, GrownBusy DEF InDir
  <1>12. Lookups'
    <2> SUFFICES ASSUME NEW u \in Threads  PROVE  LookupOf(u)'
      BY DEF Lookups
    <2>1. LookupOf(u)
      BY <1>2 DEF Lookups
    <2>2. \A k \in Ids : inodes'[k].parent = inodes[k].parent /\ inodes'[k].type = inodes[k].type
      BY <1>4
    <2>3. pc' = pc /\ inode' = inode /\ path' = path /\ child' = child /\ held' = held
      BY <1>1
    <2> QED  BY <1>2, <1>6, <2>1, <2>2, <2>3, OtherLookup
  <1>13. Types'
    <2>1. s_root_dir' \in 0 .. Len(inodes')
      BY <1>1, <1>6 DEF NewId
    <2>2. 0 .. Len(inodes) \subseteq 0 .. Len(inodes')
      BY <1>6
    <2>3. inodes' \in Seq(Inode)
      BY <1>4 DEF Grew
    <2>4. inode \in [Threads -> 0 .. Len(inodes')] /\ child \in [Threads -> 0 .. Len(inodes')]
      BY <1>2, <2>2 DEF Types
    <2>5. pc' = pc /\ inode' = inode /\ path' = path /\ child' = child /\ held' = held
      BY <1>1
    <2> QED  BY <1>2, <1>6, <2>1, <2>3, <2>4, <2>5 DEF Types
  <1> QED  BY <1>7, <1>8, <1>10, <1>11, <1>12, <1>13 DEF IInv

\* One entry of the child list of directory d is appended.
ListedBy(q, d) == q = [inodes EXCEPT ![d].child_list = Append(@, NewId)]

LEMMA ListUpdate ==
    ASSUME Types, NEW d \in Ids, NEW q, ListedBy(q, d)
    PROVE  Listed(q, d) /\ \A k \in Ids : q[k].busy = inodes[k].busy
  <1> DEFINE l == Append(inodes[d].child_list, NewId)
             new == [inodes[d] EXCEPT !.child_list = l]
  <1>1. /\ Ids = 1 .. Len(inodes) /\ Len(inodes) \in Nat /\ inodes[d] \in Inode
        /\ inodes \in Seq(Inode) /\ inodes[d].child_list \in Seq(Nat)
    BY InodeTypes DEF Types
  <1>2. q = [inodes EXCEPT ![d] = new]
    BY Zenon DEF ListedBy
  <1>3. l \in Seq(Nat)
    BY <1>1, AppendProperties DEF NewId
  <1> HIDE DEF l
  <1>4. /\ new \in Inode /\ new.refcount = inodes[d].refcount
        /\ new.parent = inodes[d].parent /\ new.type = inodes[d].type
        /\ new.child_list = l
    BY <1>1, <1>3 DEF Inode
  <1>5. new.busy = inodes[d].busy
    BY <1>1, <1>3 DEF Inode
  <1>6. new \in Inode
    BY <1>4
  <1> HIDE DEF new
  <1>7. /\ q \in Seq(Inode) /\ Len(q) = Len(inodes)
        /\ \A j \in Ids : q[j] = IF j = d THEN new ELSE inodes[j]
    BY <1>1, <1>2, <1>6, ExceptSeq
  <1>8. \A k \in Ids : q[k].busy = inodes[k].busy
    BY <1>5, <1>7, Zenon
  <1>9. \A k \in Ids : /\ q[k].parent = inodes[k].parent /\ q[k].type = inodes[k].type
                       /\ q[k].refcount = inodes[k].refcount
    BY <1>4, <1>7
  <1>10. \A k \in Ids : q[k].child_list = IF k = d THEN Append(inodes[k].child_list, NewId)
                                          ELSE inodes[k].child_list
    BY <1>4, <1>7 DEF l
  <1> QED  BY <1>7, <1>8, <1>9, <1>10 DEF Listed

LEMMA FoundKept ==
    ASSUME IInv, NEW t \in Threads, NEW type \in {"dir", "file"}, lookup_found(t, type)
    PROVE  IInv'
  <1> DEFINE d == inode[t]
             q == [inodes EXCEPT ![d].child_list = Append(@, NewId)]
             new == pfat_get_inode(d, type, Head(path[t]))
  <1>0. inodes' = Append(q, new)
    BY DEF lookup_found, NewId
  <1>1. pc[t] = "io" /\ s_root_dir' = s_root_dir /\ inode' = inode /\ path' = path /\ held' = held
    BY DEF lookup_found
  <1>14. child' = [child EXCEPT ![t] = NewId] /\ pc' = [pc EXCEPT ![t] = "relock"]
    BY DEF lookup_found, NewId
  <1>2. Types /\ Tree /\ Lookups /\ Busy /\ Children /\ Counted
    BY DEF IInv
  <1>15. d \in Ids /\ path[t] # << >> /\ inodes[d].type = "dir" /\ Len(held[t]) < MaxHeld
         /\ Len(held[t]) <= MaxHeld
    BY <1>1, <1>2 DEF Lookups, LookupOf, InDir
  <1>16. Len(inodes) \in Nat /\ Ids = 1 .. Len(inodes) /\ d \in 0 .. Len(inodes) /\ d \in Nat
         /\ d # 0
    <2>1. Len(inodes) \in Nat /\ Ids = 1 .. Len(inodes)
      BY <1>2, InodeTypes
    <2> QED  BY <1>15, <2>1
  <1>3. new \in Inode /\ new.parent = d /\ new.refcount = 1 /\ new.child_list = << >>
        /\ new.busy = FALSE
    <2>1. path[t] \in Seq(NameSet)
      BY <1>2 DEF Types
    <2>2. Head(path[t]) \in NameSet
      BY <1>15, <2>1, HeadTailProperties
    <2> QED  BY <1>16, <2>2, PfatInode, ZenonT(60)
  <1>17. Listed(q, d) /\ \A k \in Ids : q[k].busy = inodes[k].busy
    <2>1. ListedBy(q, d)
      BY DEF ListedBy
    <2> HIDE DEF q
    <2> QED  BY <1>2, <1>15, <2>1, ListUpdate
  <1> HIDE DEF d, q, new
  <1>4. Grew(d) /\ inodes'[NewId] = new /\ \A k \in Ids : inodes'[k] = q[k]
    BY <1>0, <1>2, <1>3, <1>17, GrewAppend
  <1>5. GrewIdle
    BY <1>3, <1>4, <1>17, Zenon DEF GrewIdle
  <1>6. /\ Ids' = Ids \cup {NewId} /\ Ids \subseteq Ids' /\ Len(inodes') = Len(inodes) + 1
    BY <1>2, <1>4, GrownIds
  <1>7. Tree' /\ \A k \in Ids : Anc'[k] = Anc[k] /\ Anc[k] \subseteq Ids
    BY <1>1, <1>2, <1>4, <1>16, GrownTree
  <1>8. Children'
    BY <1>2, <1>4, <1>7, <1>15, <1>16, GrownChildren
  <1>18. /\ pc' \in [Threads -> PC] /\ child' \in [Threads -> 0 .. Len(inodes')]
         /\ pc'[t] = "relock" /\ child'[t] = NewId
         /\ \A u \in Threads : u # t => pc'[u] = pc[u] /\ child'[u] = child[u]
    <2>1. NewId \in 0 .. Len(inodes') /\ 0 .. Len(inodes) \subseteq 0 .. Len(inodes')
      BY <1>6, <1>16 DEF NewId
    <2>2. "relock" \in PC
      BY DEF PC
    <2>3. pc \in [Threads -> PC] /\ child \in [Threads -> 0 .. Len(inodes')]
      BY <1>2, <2>1 DEF Types
    <2> QED  BY <1>14, <2>1, <2>2, <2>3
  <1>13. Types'
    <2>1. s_root_dir' \in 0 .. Len(inodes')
      BY <1>1, <1>2, <1>6, <1>16 DEF Types
    <2>2. 0 .. Len(inodes) \subseteq 0 .. Len(inodes')
      BY <1>6, <1>16
    <2>3. inodes' \in Seq(Inode)
      BY <1>4 DEF Grew
    <2>4. inode' \in [Threads -> 0 .. Len(inodes')]
      BY <1>1, <1>2, <2>2 DEF Types
    <2> QED  BY <1>1, <1>2, <1>6, <1>18, <2>1, <2>3, <2>4 DEF Types
  <1>9. Refs' = Refs /\ RefsShape
    <2>1. RefsShape /\ RefsShape'
      BY <1>2, <1>13, RefsValues, PTL
    <2>2. \A u \in Threads : Refs'[u] = Refs[u]
      BY <1>1, <1>18, <2>1 DEF RefsShape
    <2> QED  BY <2>1, <2>2 DEF RefsShape
  <1>10. Counted'
    BY <1>2, <1>4, <1>7, <1>9, GrownCount
  <1>11. Busy'
    <2>1. \A u \in Threads : (InDir(u)' <=> InDir(u)) /\ (pc'[u] = "wait" <=> pc[u] = "wait")
      BY <1>1, <1>18 DEF InDir
    <2> QED  BY <1>1, <1>2, <1>4, <1>5, <2>1, GrownBusy
  <1>12. Lookups'
    <2> SUFFICES ASSUME NEW u \in Threads  PROVE  LookupOf(u)'
      BY DEF Lookups
    <2>1. LookupOf(u)
      BY <1>2 DEF Lookups
    <2>2. \A k \in Ids : inodes'[k].parent = inodes[k].parent /\ inodes'[k].type = inodes[k].type
      BY <1>4, <1>17 DEF Listed
    <2>3. CASE u # t
      <3>1. pc'[u] = pc[u] /\ child'[u] = child[u]
        BY <1>18, <2>3
      <3> QED  BY <1>1, <1>2, <1>6, <2>1, <2>2, <3>1, OtherLookup
    <2>4. CASE u = t
      <3>1. inode'[t] = d /\ d \in Ids'
        BY <1>1, <1>6, <1>15 DEF d
      <3>2. inodes'[d].type = "dir" /\ inodes'[NewId].parent = d
        BY <1>3, <1>4, <1>15, <2>2
      <3> QED  BY <1>1, <1>15, <1>18, <2>4, <3>1, <3>2 DEF LookupOf, InDir
    <2> QED  BY <2>3, <2>4
  <1> QED  BY <1>7, <1>8, <1>10, <1>11, <1>12, <1>13 DEF IInv

-----------------------------------------------------------------------------
LEMMA InitInv ==
    Init => IInv
  <1> SUFFICES ASSUME Init  PROVE  IInv
    OBVIOUS
  <1>1. /\ inodes = << >> /\ s_root_dir = 0 /\ pc = [t \in Threads |-> "idle"]
        /\ inode = [t \in Threads |-> 0] /\ path = [t \in Threads |-> << >>]
        /\ child = [t \in Threads |-> 0] /\ held = [t \in Threads |-> << >>]
    BY DEF Init, NoInode
  <1>2. Len(inodes) = 0 /\ Ids = {} /\ inodes \in Seq(Inode)
    BY <1>1 DEF Ids
  <1>3. Types
    BY <1>1, <1>2 DEF Types, PC
  <1>4. Tree /\ Children /\ Counted
    BY <1>1, <1>2 DEF Tree, Children, Counted
  <1>5. Lookups
    BY <1>1, VfsAssumption DEF Lookups, LookupOf, InDir
  <1>6. Busy
    BY <1>1, <1>2 DEF Busy, InDir
  <1> QED  BY <1>3, <1>4, <1>5, <1>6 DEF IInv

(***************************************************************************)
(* Every step of a thread or of a mount keeps the inductive invariant: the *)
(* tree, the locks of directories and the reference counts of vfs.c.       *)
(***************************************************************************)
THEOREM IInvCorrect == Spec => []IInv
  <1>1. IInv /\ [Next]_vars => IInv'
    <2> SUFFICES ASSUME IInv, [Next]_vars  PROVE  IInv'
      OBVIOUS
    <2>1. ASSUME NEW d \in Drivers, vfs_register_fs_driver(d)  PROVE  IInv'
      BY <2>1, StutterKept DEF vfs_register_fs_driver
    <2>2. ASSUME NEW d \in Drivers, vfs_mount_root(d)  PROVE  IInv'
      BY <2>2, MountKept
    <2>3. ASSUME NEW t \in Threads, Lookup(t)  PROVE  IInv'
      <3>1. CASE vfs_lookup_inode(t)
        BY <3>1, StartKept
      <3>2. CASE lookup_illegal(t)
        BY <3>2, IllegalKept
      <3>3. CASE vfs_lock_dir_wait(t)
        BY <3>3, WaitKept
      <3>4. CASE vfs_lock_dir_woken(t)
        BY <3>4, WokenKept
      <3>5. CASE vfs_lookup_child_hit(t)
        BY <3>5, HitKept
      <3>6. CASE vfs_lookup_child(t)
        BY <3>6, ChildKept
      <3>7. CASE lookup_failed(t)
        BY <3>7, FailedKept
      <3>8. ASSUME NEW type \in {"dir", "file"}, lookup_found(t, type)  PROVE  IInv'
        BY <3>8, FoundKept
      <3>9. CASE lookup_relock(t)
        BY <3>9, RelockKept
      <3>10. CASE lookup_done(t)
        BY <3>10, DoneKept
      <3>11. CASE lookup_error(t)
        BY <3>11, ErrorKept
      <3> QED  BY <2>3, <3>1, <3>2, <3>3, <3>4, <3>5, <3>6, <3>7, <3>8, <3>9, <3>10,
                  <3>11 DEF Lookup
    <2>4. ASSUME NEW t \in Threads, vfs_get_root_dir(t)  PROVE  IInv'
      BY <2>4, RootKept
    <2>5. ASSUME NEW t \in Threads, vfs_mount(t)  PROVE  IInv'
      BY <2>5, RootKept DEF vfs_mount
    <2>6. ASSUME NEW t \in Threads, NEW start \in {s_root_dir} \cup Range(held[t]),
                 NEW p \in Paths, call_vfs_lookup_inode(t, start, p)
          PROVE  IInv'
      BY <2>6, CallKept
    <2>7. ASSUME NEW t \in Threads, NEW i \in DOMAIN held[t], vfs_release_ref(t, i)
          PROVE  IInv'
      BY <2>7, ReleaseKept
    <2>8. CASE UNCHANGED vars
      BY <2>8, StutterKept DEF vars
    <2> QED  BY <2>1, <2>2, <2>3, <2>4, <2>5, <2>6, <2>7, <2>8 DEF Next
  <1> QED  BY <1>1, InitInv, PTL DEF Spec

(***************************************************************************)
(* A directory is busy exactly while one thread is between vfs_lock_dir    *)
(* and vfs_unlock_dir, nobody sleeps for one that is not, and the child    *)
(* lists, which lookups change without s_fs_mutex, stay those of a tree.   *)
(***************************************************************************)
THEOREM LockCorrect == Spec => []OneLookupPerDirectory
  <1>1. IInv => OneLookupPerDirectory
    <2> SUFFICES ASSUME IInv, NEW d \in Ids
                 PROVE  /\ Cardinality({t \in Threads : pc[t] \in {"io", "relock"} /\ inode[t] = d})
                             = IF inodes[d].busy THEN 1 ELSE 0
                        /\ (\E t \in Threads : pc[t] = "wait" /\ inode[t] = d) => inodes[d].busy
                        /\ Range(inodes[d].child_list) = {k \in Ids : inodes[k].parent = d}
                        /\ Cardinality(Range(inodes[d].child_list)) = Len(inodes[d].child_list)
                        /\ inodes[d].child_list # << >> => inodes[d].type = "dir"
      BY DEF OneLookupPerDirectory
    <2> DEFINE T == {t \in Threads : pc[t] \in {"io", "relock"} /\ inode[t] = d}
    <2>1. Types /\ Busy /\ Children
      BY DEF IInv
    <2>2. inodes[d].busy \in BOOLEAN
      BY <2>1, InodeTypes
    <2>3. CASE inodes[d].busy = TRUE
      <3>1. PICK t \in Threads : InDir(t) /\ inode[t] = d
        BY <2>1, <2>3 DEF Busy
      <3>2. \A u \in T : u = t
        BY <2>1, <3>1 DEF Busy, InDir
      <3>3. T = {t}
        BY <3>1, <3>2 DEF InDir
      <3>4. Cardinality(T) = 1
        BY <3>3, FS_Singleton
      <3> QED  BY <2>1, <2>3, <3>4 DEF Children
    <2>4. CASE inodes[d].busy = FALSE
      <3>1. \A t \in Threads : inode[t] = d => ~InDir(t) /\ pc[t] # "wait"
        BY <2>1, <2>4 DEF Busy
      <3>2. T = {}
        BY <3>1 DEF InDir
      <3>3. Cardinality(T) = 0
        BY <3>2, FS_EmptySet
      <3> QED  BY <2>1, <2>4, <3>1, <3>3 DEF Children
    <2> QED  BY <2>2, <2>3, <2>4
  <1> QED  BY <1>1, IInvCorrect, PTL

(***************************************************************************)
(* The reference count of an inode is one more than the number of          *)
(* references threads have to it and to what is below it, at every step of *)
(* vfs_lookup_inode, vfs_get_root_dir and vfs_release_ref.                 *)
(***************************************************************************)
THEOREM RefcountCorrect == Spec => []RefcountsCoverTree
  <1>1. IInv => RefcountsCoverTree
    <2> SUFFICES ASSUME IInv, NEW i \in Ids
                 PROVE  inodes[i].refcount =
                          1 + Cardinality({r \in Threads \X (1 .. MaxHeld + 1) :
                                 /\ r[2] \in DOMAIN References(r[1])
                                 /\ i \in Ancestors(References(r[1])[r[2]])})
      BY DEF RefcountsCoverTree
    <2>1. Types /\ Tree /\ Lookups /\ Counted
      BY DEF IInv
    <2>2. RefsShape
      BY <2>1, RefsValues
    <2>3. ASSUME NEW t \in Threads
          PROVE  /\ Refs[t] = References(t)
                 /\ \A j \in DOMAIN Refs[t] : Ancestors(Refs[t][j]) = Anc[Refs[t][j]]
      <3>1. Refs[t] = References(t)
        BY DEF Refs
      <3>2. ASSUME NEW j \in DOMAIN Refs[t]  PROVE  Refs[t][j] \in Ids
        BY <2>1, <2>2, RefsAreInodes
      <3> QED  BY <2>1, <3>1, <3>2, AncValues
    <2>4. ASSUME NEW r \in Threads \X (1 .. MaxHeld + 1)
          PROVE  (r[2] \in DOMAIN References(r[1]) /\ i \in Ancestors(References(r[1])[r[2]]))
                   <=> (r[2] \in DOMAIN Refs[r[1]] /\ i \in Anc[Refs[r[1]][r[2]]])
      <3>1. r[1] \in Threads
        OBVIOUS
      <3> QED  BY <2>3, <3>1
    <2>5. {r \in Threads \X (1 .. MaxHeld + 1) :
              /\ r[2] \in DOMAIN References(r[1])
              /\ i \in Ancestors(References(r[1])[r[2]])} = Holders(Refs, Anc, i)
      BY <2>4, Zenon DEF Holders
    <2> QED  BY <2>1, <2>5 DEF Counted
  <1> QED  BY <1>1, IInvCorrect, PTL

=============================================================================
