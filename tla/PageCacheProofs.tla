--------------------------- MODULE PageCacheProofs ---------------------------
(***************************************************************************)
(* What holds of the page frames and the page cache of module PageCache    *)
(* for every number of threads, frames and pages and every layout of       *)
(* memory: the scan at boot puts every available frame on the free list    *)
(* once, a frame is in one place at a time, and the reference counts are   *)
(* what the threads hold.  A list of frames is a queue as in ThreadQueue.  *)
(***************************************************************************)
EXTENDS PageCache, ThreadQueue, SequenceTheorems, FiniteSetTheorems,
        WellFoundedInduction, TLAPS

(***************************************************************************)
(* thread_queue_append: the queue gains the thread, at its tail, and       *)
(* nothing else; a queue without duplicates stays one if the thread was in *)
(* none.                                                                   *)
(***************************************************************************)
LEMMA AppendQueue ==
    ASSUME NEW S, NEW q \in Seq(S), NEW x \in S
    PROVE  /\ Append(q, x) \in Seq(S)
           /\ Append(q, x) # << >>
           /\ \A t : InQueue(t, Append(q, x)) <=> InQueue(t, q) \/ t = x
           /\ Distinct(q) /\ ~InQueue(x, q) => Distinct(Append(q, x))
  <1> DEFINE r == Append(q, x)
  <1>1. /\ r \in Seq(S) /\ r # << >>
        /\ Len(q) \in Nat /\ Len(r) = Len(q) + 1
        /\ \A i \in 1 .. Len(q) : r[i] = q[i]
        /\ r[Len(q) + 1] = x
    BY AppendProperties, LenProperties
  <1> HIDE DEF r
  <1>2. \A t : InQueue(t, r) <=> InQueue(t, q) \/ t = x
    BY <1>1 DEF InQueue
  <1>3. Distinct(q) /\ ~InQueue(x, q) => Distinct(r)
    BY <1>1 DEF InQueue, Distinct
  <1> QED  BY <1>1, <1>2, <1>3 DEF r

(***************************************************************************)
(* thread_queue_remove_first on a queue that is not empty: the first       *)
(* thread leaves it, and nothing else.                                     *)
(***************************************************************************)
LEMMA RemoveFirstQueue ==
    ASSUME NEW S, NEW q \in Seq(S), q # << >>
    PROVE  /\ Head(q) \in S
           /\ Tail(q) \in Seq(S)
           /\ \A t : InQueue(t, q) <=> t = Head(q) \/ InQueue(t, Tail(q))
           /\ Distinct(q) => Distinct(Tail(q)) /\ ~InQueue(Head(q), Tail(q))
  <1>1. /\ Head(q) \in S /\ Tail(q) \in Seq(S) /\ Head(q) = q[1]
        /\ Len(q) \in Nat \ {0} /\ Len(Tail(q)) = Len(q) - 1
        /\ \A i \in 1 .. Len(Tail(q)) : Tail(q)[i] = q[i + 1]
    BY HeadTailProperties, LenProperties, EmptySeq
  <1>2. \A t : InQueue(t, q) <=> t = Head(q) \/ InQueue(t, Tail(q))
    <2> TAKE t
    <2>1. ASSUME NEW i \in 1 .. Len(q), q[i] = t, i # 1
          PROVE  InQueue(t, Tail(q))
      <3>1. i - 1 \in 1 .. Len(Tail(q)) /\ Tail(q)[i - 1] = q[i]
        BY <1>1, <2>1
      <3> QED  BY <2>1, <3>1 DEF InQueue
    <2>2. ASSUME NEW i \in 1 .. Len(Tail(q)), Tail(q)[i] = t
          PROVE  InQueue(t, q)
      <3>1. i + 1 \in 1 .. Len(q)
        BY <1>1
      <3> QED  BY <1>1, <2>2, <3>1 DEF InQueue
    <2>3. 1 \in 1 .. Len(q)
      BY <1>1
    <2> QED  BY <1>1, <2>1, <2>2, <2>3 DEF InQueue
  <1>3. Distinct(q) => Distinct(Tail(q)) /\ ~InQueue(Head(q), Tail(q))
    BY <1>1 DEF InQueue, Distinct
  <1> QED  BY <1>1, <1>2, <1>3

-----------------------------------------------------------------------------
FrameState == {"UNUSED", "AVAIL", "HW", "KSTACK", "KERN", "HEAP", "VM_PGCACHE"}
Content == {"PENDING_INIT", "FAILED_INIT", "CLEAN"}
FrameRec == [state : FrameState, refcount : Int, content : Content]

PC == {"idle", "lock", "alloc", "sleep", "pagein", "wait", "woken", "holds"}

Types ==
    /\ freelist \in Seq(Frames) /\ pagelist \in Seq(Frames)
    /\ frame \in [Frames -> FrameRec] /\ pc \in [Threads -> PC]
    /\ fr \in [Threads -> Frames \cup {NoFrame}] /\ leaked \in [Frames -> Nat]
    /\ stacks \subseteq {mem_frame_to_pa(f) : f \in Frames}

\* The free list F, the frames S of stacks and the cache P share no frame, and
\* only the reserved frames are in none of them.
Placed(F, S, P) ==
    /\ Distinct(F) /\ Distinct(P)
    /\ \A f \in Frames :
          /\ ~(InQueue(f, F) /\ f \in S) /\ ~(InQueue(f, F) /\ InQueue(f, P))
          /\ ~(f \in S /\ InQueue(f, P))
          /\ f \in Reserved <=> ~InQueue(f, F) /\ f \notin S /\ ~InQueue(f, P)

Places == Placed(freelist, Stacked, pagelist)

\* What the frame structure says.
FrameOk(f) ==
    /\ InQueue(f, freelist) => frame[f].state = "AVAIL" /\ frame[f].refcount = 0
    /\ f \in Stacked => frame[f].state = "KSTACK" /\ frame[f].refcount = 0
    /\ InQueue(f, pagelist) => frame[f].state = "VM_PGCACHE"
    /\ InQueue(f, pagelist) /\ frame[f].content = "FAILED_INIT" => frame[f].refcount > 0
    /\ leaked[f] # 0 => InQueue(f, pagelist) /\ frame[f].content = "CLEAN"

FramesOk == \A f \in Frames : FrameOk(f)

\* What a thread knows of the frame it refers to.
ThreadOk(t) ==
    /\ fr[t] = NoFrame <=> pc[t] \in {"idle", "lock", "alloc", "sleep"}
    /\ fr[t] # NoFrame => InQueue(fr[t], pagelist)
    /\ pc[t] = "holds" => frame[fr[t]].content = "CLEAN"
    /\ pc[t] = "pagein" => frame[fr[t]].content = "PENDING_INIT"
    /\ pc[t] = "sleep" => freelist = << >>

ThreadsOk == \A t \in Threads : ThreadOk(t)

\* A page is read by one thread.
OneReader ==
    \A t, u \in Threads : pc[t] = "pagein" /\ pc[u] = "pagein" /\ fr[t] = fr[u] => t = u

Users(R, f) == {t \in Threads : R[t] = f}

Counted ==
    \A f \in Frames : InQueue(f, pagelist) =>
        frame[f].refcount = Cardinality(Users(fr, f)) + leaked[f]

\* The inductive invariant.
IInv ==
    Types /\ Places /\ FramesOk /\ ThreadsOk /\ OneReader /\ Counted /\ ~halted

-----------------------------------------------------------------------------
(***************************************************************************)
(* The scan of memory at boot.                                             *)
(***************************************************************************)
LEMMA Sizes ==
    /\ PAGE_SIZE \in Nat /\ PAGE_SIZE > 0 /\ NumFrames \in Nat /\ KernelEnd \in Nat
    /\ FRAME \in Nat /\ ISA_HOLE_START \in Nat /\ ISA_HOLE_END \in Nat /\ HEAP_SIZE \in Nat
    /\ NoFrame \notin Frames /\ IsFiniteSet(Threads)
  <1>1. HEAP_SIZE \in Nat /\ ISA_HOLE_START \in Nat /\ ISA_HOLE_END \in Nat
    BY LayoutAssumption
  <1> QED  BY <1>1, PageCacheAssumption DEF Frames, NoFrame

LEMMA Times ==
    ASSUME NEW p \in Nat, p > 0, NEW x \in Int, NEW y \in Int, x * p < y * p
    PROVE  x < y
  <1>1. CASE x >= y
    <2>1. x * p >= y * p
      BY <1>1
    <2> QED  BY <2>1
  <1> QED  BY <1>1

\* An address lies in its frame.
LEMMA Frame ==
    ASSUME NEW a \in Nat
    PROVE  LET n == mem_pa_to_frame(a)
           IN n \in Nat /\ n * PAGE_SIZE <= a /\ a < n * PAGE_SIZE + PAGE_SIZE
  BY Sizes DEF mem_pa_to_frame

\* Frames and their addresses correspond.
LEMMA FrameOfAddress ==
    ASSUME NEW f \in Nat
    PROVE  mem_pa_to_frame(mem_frame_to_pa(f)) = f
  <1> DEFINE a == f * PAGE_SIZE
             n == mem_pa_to_frame(a)
  <1>1. a \in Nat
    BY Sizes
  <1>2. n \in Nat /\ n * PAGE_SIZE <= a /\ a < n * PAGE_SIZE + PAGE_SIZE
    BY <1>1, Frame
  <1> HIDE DEF n
  <1>3. n < f + 1
    <2>1. n * PAGE_SIZE < (f + 1) * PAGE_SIZE
      BY <1>2, Sizes
    <2> QED  BY <1>2, <2>1, Sizes, Times
  <1>4. f < n + 1
    <2>1. f * PAGE_SIZE < (n + 1) * PAGE_SIZE
      BY <1>2, Sizes
    <2> QED  BY <1>2, <2>1, Sizes, Times
  <1> QED  BY <1>2, <1>3, <1>4 DEF n, mem_frame_to_pa

\* The number of frames that mem_set_region_state walks over.
LEMMA RegionLength ==
    ASSUME NEW start \in Nat, NEW end \in Nat, start < end
    PROVE  LET num == (end - start + PAGE_SIZE - 1) \div PAGE_SIZE
               a == mem_pa_to_frame(start)
               n == mem_pa_to_frame(end)
           IN /\ num \in Nat /\ a + num >= n /\ a <= n
              /\ end = n * PAGE_SIZE => a + num = n
  <1> DEFINE x == end - start + PAGE_SIZE - 1
             num == x \div PAGE_SIZE
             a == mem_pa_to_frame(start)
             n == mem_pa_to_frame(end)
             P == PAGE_SIZE
  <1>0. P \in Nat /\ P > 0
    BY Sizes
  <1>1. x \in Nat
    BY <1>0
  <1>2. num \in Nat /\ num * P <= x /\ x < num * P + P
    BY <1>0, <1>1
  <1>3. a \in Nat /\ a * P <= start /\ start < a * P + P
    BY Frame
  <1>4. n \in Nat /\ n * P <= end /\ end < n * P + P
    BY Frame
  <1> HIDE DEF num, a, n
  <1>5. a <= n
    <2>1. a * P < (n + 1) * P
      BY <1>0, <1>3, <1>4
    <2>2. a < n + 1
      BY <1>0, <1>3, <1>4, <2>1, Times
    <2> QED  BY <1>3, <1>4, <2>2
  <1>6. a + num >= n
    <2>1. x + 1 > end - start + P - 1
      BY <1>0
    <2>2. n * P < (a + num + 1) * P
      <3>1. (a + num + 1) * P = a * P + num * P + P
        BY <1>0, <1>2, <1>3
      <3> QED  BY <1>0, <1>2, <1>3, <1>4, <3>1
    <2>3. n < a + num + 1
      BY <1>0, <1>2, <1>3, <1>4, <2>2, Times
    <2> QED  BY <1>2, <1>3, <1>4, <2>3
  <1>7. ASSUME end = n * P  PROVE  a + num <= n
    <2>1. (a + num) * P < (n + 1) * P
      <3>1. (a + num) * P = a * P + num * P /\ (n + 1) * P = n * P + P
        BY <1>0, <1>2, <1>3, <1>4
      <3> QED  BY <1>0, <1>2, <1>3, <1>7, <3>1
    <2>2. a + num < n + 1
      BY <1>0, <1>2, <1>3, <1>4, <2>1, Times
    <2> QED  BY <1>2, <1>3, <1>4, <2>2
  <1>8. num \in Nat /\ a + num >= n /\ a <= n /\ (end = n * PAGE_SIZE => a + num = n)
    BY <1>2, <1>3, <1>4, <1>5, <1>6, <1>7
  <1> QED  BY <1>8 DEF num, a, n

\* What the scan has made of the frames below n, with the states st and the
\* free list F.
Scanned(st, F, n) ==
    /\ st \in [Frames -> FrameState] /\ F \in Seq(Frames) /\ Distinct(F)
    /\ \A f \in Frames : InQueue(f, F) => f < n
    /\ \A f \in Frames : f < n => (InQueue(f, F) <=> st[f] = "AVAIL")
    /\ \A f \in Frames : f < n => (f \in Reserved <=> st[f] # "AVAIL")

\* The frames from a to n are reserved exactly if they get a state other than
\* FRAME_AVAIL.
Agrees(a, n, state) ==
    \A f \in Frames : a <= f /\ f < n => (f \in Reserved <=> state # "AVAIL")

BootOk(b) == Scanned(b.state, b.freelist, mem_pa_to_frame(b.addr))

\* Appending a run of frames behind those below a.
LEMMA AppendRun ==
    ASSUME NEW F \in Seq(Frames), NEW a \in Nat, NEW num \in Nat, a + num <= NumFrames,
           Distinct(F), \A f \in Frames : InQueue(f, F) => f < a
    PROVE  LET G == F \o [i \in 1 .. num |-> a + i - 1]
           IN /\ G \in Seq(Frames) /\ Distinct(G)
              /\ \A f \in Frames : InQueue(f, G) <=> InQueue(f, F) \/ (a <= f /\ f < a + num)
  <1> DEFINE R == [i \in 1 .. num |-> a + i - 1]
             G == F \o R
             n == Len(F)
  <1>0. n \in Nat /\ NumFrames \in Nat
    BY LenProperties, Sizes
  <1>1. R \in Seq(Frames) /\ Len(R) = num
    <2>1. \A i \in 1 .. num : a + i - 1 \in Frames
      BY <1>0 DEF Frames
    <2>2. R \in [1 .. num -> Frames]
      BY <2>1
    <2>3. R \in Seq(Frames) /\ DOMAIN R = 1 .. num
      BY <2>2, SeqDef
    <2> QED  BY <2>3, LenProperties
  <1>2. \A i \in 1 .. num : R[i] = a + i - 1
    OBVIOUS
  <1> HIDE DEF R
  <1>3. /\ G \in Seq(Frames) /\ Len(G) = n + num
        /\ \A i \in 1 .. n + num : G[i] = IF i <= n THEN F[i] ELSE R[i - n]
    BY <1>1, ConcatProperties
  <1> HIDE DEF G
  <1>4. \A i \in 1 .. n : F[i] \in Frames /\ F[i] < a
    <2>1. \A i \in 1 .. n : F[i] \in Frames /\ InQueue(F[i], F)
      BY ElementOfSeq DEF InQueue
    <2> QED  BY <2>1
  <1>5. ASSUME NEW i \in 1 .. n + num
        PROVE  \/ i \in 1 .. n /\ G[i] = F[i] /\ G[i] < a
               \/ i \in n + 1 .. n + num /\ G[i] = a + (i - n) - 1 /\ G[i] >= a
    <2>1. CASE i <= n
      <3>1. i \in 1 .. n
        BY <1>0, <2>1
      <3> QED  BY <1>3, <1>4, <2>1, <3>1
    <2>2. CASE ~(i <= n)
      <3>1. i - n \in 1 .. num /\ i \in n + 1 .. n + num
        BY <1>0, <2>2
      <3>2. G[i] = a + (i - n) - 1
        BY <1>2, <1>3, <2>2, <3>1
      <3> QED  BY <1>0, <3>1, <3>2
    <2> QED  BY <2>1, <2>2
  <1>6. Distinct(G)
    <2> SUFFICES ASSUME NEW i \in 1 .. n + num, NEW j \in 1 .. n + num, G[i] = G[j]
                 PROVE  i = j
      BY <1>3 DEF Distinct
    <2>1. CASE i \in 1 .. n /\ j \in 1 .. n
      <3>1. G[i] = F[i] /\ G[j] = F[j]
        BY <1>0, <1>5, <2>1
      <3> QED  BY <2>1, <3>1 DEF Distinct
    <2>2. CASE i \in n + 1 .. n + num /\ j \in n + 1 .. n + num
      <3>1. G[i] = a + (i - n) - 1 /\ G[j] = a + (j - n) - 1
        BY <1>0, <1>5, <2>2
      <3>2. a + (i - n) - 1 = a + (j - n) - 1
        BY <3>1
      <3> QED  BY <1>0, <3>2
    <2>3. ~(G[i] < a /\ G[i] >= a)
      <3>1. G[i] \in Frames
        <4>1. i \in 1 .. Len(G)
          BY <1>3
        <4> QED  BY <1>3, <4>1, ElementOfSeq
      <3>2. G[i] \in Int
        BY <3>1 DEF Frames
      <3> QED  BY <3>2
    <2> QED  BY <1>5, <2>1, <2>2, <2>3
  <1>7. ASSUME NEW f \in Frames
        PROVE  InQueue(f, G) <=> InQueue(f, F) \/ (a <= f /\ f < a + num)
    <2>0. f \in Int
      BY DEF Frames
    <2>1. ASSUME NEW i \in 1 .. n + num, G[i] = f
          PROVE  InQueue(f, F) \/ (a <= f /\ f < a + num)
      <3>1. CASE i \in 1 .. n /\ G[i] = F[i]
        BY <2>1, <3>1 DEF InQueue
      <3>2. CASE i \in n + 1 .. n + num /\ G[i] = a + (i - n) - 1
        BY <1>0, <2>1, <3>2
      <3> QED  BY <1>5, <3>1, <3>2
    <2>2. ASSUME NEW i \in 1 .. n, F[i] = f  PROVE  InQueue(f, G)
      <3>1. i \in 1 .. n + num /\ i <= n
        BY <1>0
      <3> QED  BY <1>3, <2>2, <3>1 DEF InQueue
    <2>3. ASSUME a <= f, f < a + num  PROVE  InQueue(f, G)
      <3> DEFINE i == n + (f - a) + 1
      <3>1. i \in n + 1 .. n + num /\ i \in 1 .. n + num /\ ~(i \in 1 .. n) /\ a + (i - n) - 1 = f
        BY <1>0, <2>0, <2>3
      <3> HIDE DEF i
      <3>2. G[i] = f
        BY <1>5, <3>1
      <3> QED  BY <1>3, <3>1, <3>2 DEF InQueue
    <2> QED  BY <1>3, <2>1, <2>2, <2>3 DEF InQueue
  <1> QED  BY <1>3, <1>6, <1>7 DEF G, R

\* The frames of a region get its state, and available ones join the list.
LEMMA ScanRegion ==
    ASSUME NEW st, NEW F, NEW start \in Nat, NEW end \in Nat, start < end,
           end <= NumFrames * PAGE_SIZE, NEW state \in FrameState,
           Scanned(st, F, mem_pa_to_frame(start)),
           Agrees(mem_pa_to_frame(start), mem_pa_to_frame(end), state),
           state = "AVAIL" => end = mem_pa_to_frame(end) * PAGE_SIZE
    PROVE  LET num == (end - start + PAGE_SIZE - 1) \div PAGE_SIZE
               region == [i \in 1 .. num |-> mem_pa_to_frame(start) + i - 1]
           IN Scanned([f \in Frames |-> IF Contains(region, f) THEN state ELSE st[f]],
                      IF state = "AVAIL" THEN F \o region ELSE F, mem_pa_to_frame(end))
  <1> DEFINE num == (end - start + PAGE_SIZE - 1) \div PAGE_SIZE
             a == mem_pa_to_frame(start)
             n == mem_pa_to_frame(end)
             R == [i \in 1 .. num |-> a + i - 1]
             S == [f \in Frames |-> IF Contains(R, f) THEN state ELSE st[f]]
             G == IF state = "AVAIL" THEN F \o R ELSE F
  <1>1. /\ num \in Nat /\ a + num >= n /\ a <= n
        /\ end = n * PAGE_SIZE => a + num = n
    BY RegionLength
  <1>2. a \in Nat /\ n \in Nat /\ n * PAGE_SIZE <= end
    BY Frame
  <1>3. n <= NumFrames
    <2>1. n * PAGE_SIZE < (NumFrames + 1) * PAGE_SIZE
      BY <1>2, Sizes
    <2>2. n < NumFrames + 1
      BY <1>2, <2>1, Sizes, Times
    <2> QED  BY <1>2, <2>2, Sizes
  <1>4. /\ st \in [Frames -> FrameState] /\ F \in Seq(Frames) /\ Distinct(F)
        /\ \A f \in Frames : InQueue(f, F) => f < a
        /\ \A f \in Frames : f < a => (InQueue(f, F) <=> st[f] = "AVAIL")
        /\ \A f \in Frames : f < a => (f \in Reserved <=> st[f] # "AVAIL")
        /\ \A f \in Frames : a <= f /\ f < n => (f \in Reserved <=> state # "AVAIL")
    BY DEF Scanned, Agrees
  <1>5. state = "AVAIL" => a + num = n /\ a + num <= NumFrames
    BY <1>1, <1>3
  <1>6. \A f \in Frames : Contains(R, f) <=> a <= f /\ f < a + num
    <2> HIDE DEF a, num
    <2> TAKE f \in Frames
    <2>0. f \in Int
      BY DEF Frames
    <2>1. Len(R) = num
      BY <1>1, LenProperties
    <2>2. ASSUME a <= f, f < a + num  PROVE  f - a + 1 \in 1 .. num /\ R[f - a + 1] = f
      <3>1. f - a + 1 \in 1 .. num /\ a + (f - a + 1) - 1 = f
        BY <1>1, <1>2, <2>0, <2>2
      <3> QED  BY <3>1
    <2>3. ASSUME NEW i \in 1 .. num, R[i] = f  PROVE  a <= f /\ f < a + num
      BY <1>1, <1>2, <2>3
    <2> QED  BY <2>1, <2>2, <2>3 DEF Contains
  <1>7. state = "AVAIL" =>
           /\ F \o R \in Seq(Frames) /\ Distinct(F \o R)
           /\ \A f \in Frames : InQueue(f, F \o R) <=> InQueue(f, F) \/ (a <= f /\ f < a + num)
    <2> HIDE DEF a, num
    <2> QED  BY <1>1, <1>2, <1>4, <1>5, AppendRun
  <1> HIDE DEF R, a, n, num
  <1>8. S \in [Frames -> FrameState]
    BY <1>4
  <1>9. \A f \in Frames : f \in Int
    BY DEF Frames
  <1>10. CASE state = "AVAIL"
    <2>1. \A f \in Frames : S[f] = IF a <= f /\ f < n THEN "AVAIL" ELSE st[f]
      BY <1>5, <1>6, <1>10
    <2>2. G \in Seq(Frames) /\ Distinct(G)
          /\ \A f \in Frames : InQueue(f, G) <=> InQueue(f, F) \/ (a <= f /\ f < n)
      BY <1>5, <1>7, <1>10
    <2> HIDE DEF S, G
    <2>3. \A f \in Frames : InQueue(f, G) => f < n
      BY <1>1, <1>2, <1>4, <1>9, <2>2
    <2>4. ASSUME NEW f \in Frames, f < n  PROVE  InQueue(f, G) <=> S[f] = "AVAIL"
      <3>1. CASE f < a
        BY <1>2, <1>4, <1>9, <2>1, <2>2, <3>1
      <3>2. CASE ~(f < a)
        BY <1>2, <1>9, <2>1, <2>2, <2>4, <3>2
      <3> QED  BY <3>1, <3>2
    <2>5. \A f \in Frames : f < n => (f \in Reserved <=> S[f] # "AVAIL")
      BY <1>2, <1>4, <1>9, <1>10, <2>1
    <2>6. Scanned(S, G, n)
      BY <1>8, <2>2, <2>3, <2>4, <2>5 DEF Scanned
    <2> QED  BY <2>6 DEF S, G, R, a, n, num
  <1>11. CASE state # "AVAIL"
    <2>1. G = F
      BY <1>11
    <2>2. \A f \in Frames : f < n => S[f] = IF f < a THEN st[f] ELSE state
      BY <1>1, <1>2, <1>6, <1>9
    <2> HIDE DEF S, G
    <2>3. \A f \in Frames : InQueue(f, F) => f < n
      BY <1>1, <1>2, <1>4, <1>9
    <2>4. \A f \in Frames : f < n => (InQueue(f, F) <=> S[f] = "AVAIL")
      BY <1>4, <1>11, <2>2
    <2>5. \A f \in Frames : f < n => (f \in Reserved <=> S[f] # "AVAIL")
      BY <1>2, <1>4, <1>9, <2>2
    <2>6. Scanned(S, G, n)
      BY <1>4, <1>8, <2>1, <2>3, <2>4, <2>5 DEF Scanned
    <2> QED  BY <2>6 DEF S, G, R, a, n, num
  <1> QED  BY <1>10, <1>11

BootFields == {"state", "freelist", "heap", "addr", "ok"}

\* What mem_set_region_state makes c of b.
RegionSet(c, b, start, end) ==
    /\ DOMAIN c = BootFields /\ c.addr = b.addr /\ (c.heap <=> b.heap)
    /\ c.ok <=> b.ok /\ start < end

RegionMade(c, b, start, end, state) ==
    LET num == (end - start + PAGE_SIZE - 1) \div PAGE_SIZE
        region == [i \in 1 .. num |-> mem_pa_to_frame(start) + i - 1]
    IN /\ c.state = [f \in Frames |-> IF Contains(region, f) THEN state ELSE b.state[f]]
       /\ c.freelist = IF state = "AVAIL" THEN b.freelist \o region ELSE b.freelist

LEMMA SetRegionFields ==
    ASSUME NEW b, DOMAIN b = BootFields, NEW start, NEW end, NEW state
    PROVE  /\ RegionSet(mem_set_region_state(b, start, end, state), b, start, end)
           /\ RegionMade(mem_set_region_state(b, start, end, state), b, start, end, state)
  BY Zenon DEF mem_set_region_state, BootFields, RegionSet, RegionMade

LEMMA MadeScanned ==
    ASSUME NEW b, NEW c, NEW start \in Nat, NEW end \in Nat, start < end,
           end <= NumFrames * PAGE_SIZE, NEW state \in FrameState,
           Scanned(b.state, b.freelist, mem_pa_to_frame(start)),
           Agrees(mem_pa_to_frame(start), mem_pa_to_frame(end), state),
           state = "AVAIL" => end = mem_pa_to_frame(end) * PAGE_SIZE,
           RegionMade(c, b, start, end, state)
    PROVE  Scanned(c.state, c.freelist, mem_pa_to_frame(end))
  <1> DEFINE num == (end - start + PAGE_SIZE - 1) \div PAGE_SIZE
             R == [i \in 1 .. num |-> mem_pa_to_frame(start) + i - 1]
             S == [f \in Frames |-> IF Contains(R, f) THEN state ELSE b.state[f]]
             G == IF state = "AVAIL" THEN b.freelist \o R ELSE b.freelist
  <1>1. Scanned(S, G, mem_pa_to_frame(end))
    BY ScanRegion
  <1>2. c.state = S /\ c.freelist = G
    BY DEF RegionMade
  <1> HIDE DEF S, G
  <1> QED  BY <1>1, <1>2

LEMMA HeapFields ==
    ASSUME NEW b, DOMAIN b = BootFields
    PROVE  LET c == [b EXCEPT !.heap = TRUE]
           IN /\ DOMAIN c = BootFields /\ c.addr = b.addr /\ c.ok = b.ok
              /\ c.state = b.state /\ c.freelist = b.freelist /\ c.heap
  BY Zenon DEF BootFields

LEMMA AddrFields ==
    ASSUME NEW b, DOMAIN b = BootFields, NEW end
    PROVE  LET c == [b EXCEPT !.addr = end]
           IN /\ DOMAIN c = BootFields /\ c.addr = end /\ c.ok = b.ok
              /\ c.state = b.state /\ c.freelist = b.freelist /\ (c.heap <=> b.heap)
  BY Zenon DEF BootFields

\* The region gets the heap.
GetsHeap(b, end, state) == ~b.heap /\ state = "AVAIL" /\ end - b.addr >= HEAP_SIZE

\* The asserts hold of a region only if they held before.
LEMMA RegionAsserts ==
    ASSUME NEW b, DOMAIN b = BootFields, b.addr \in Nat, NEW end \in Nat, NEW state
    PROVE  LET c == scan_reg_func(b, end, state)
           IN /\ DOMAIN c = BootFields /\ c.addr = end
              /\ c.ok => b.ok /\ b.addr < end
              /\ GetsHeap(b, end, state) => c.heap
              /\ ~GetsHeap(b, end, state) => (c.heap <=> b.heap)
  <1> DEFINE d == mem_scan_region(b, b.addr, end, state)
             m == b.addr + HEAP_SIZE
             b1 == [b EXCEPT !.heap = TRUE]
             b2 == mem_set_region_state(b1, b.addr, m, "HEAP")
  <1>1. /\ DOMAIN d = BootFields /\ (d.ok => b.ok /\ b.addr < end)
        /\ GetsHeap(b, end, state) => d.heap
        /\ ~GetsHeap(b, end, state) => (d.heap <=> b.heap)
    <2>1. CASE GetsHeap(b, end, state)
      <3>1. d = mem_set_region_state(b2, m, end, state)
        BY <2>1 DEF mem_scan_region, GetsHeap
      <3>2. DOMAIN b1 = BootFields /\ b1.ok = b.ok /\ b1.heap
        BY HeapFields
      <3> HIDE DEF b1
      <3>3. DOMAIN b2 = BootFields /\ (b2.ok <=> b1.ok /\ b.addr < m) /\ (b2.heap <=> b1.heap)
        BY <3>2, SetRegionFields DEF RegionSet
      <3> HIDE DEF b2
      <3>4. DOMAIN d = BootFields /\ (d.ok <=> b2.ok /\ m < end) /\ (d.heap <=> b2.heap)
        BY <3>1, <3>3, SetRegionFields DEF RegionSet
      <3>5. b.addr < m /\ m < end => b.addr < end
        BY Sizes
      <3> QED  BY <2>1, <3>2, <3>3, <3>4, <3>5
    <2>2. CASE ~GetsHeap(b, end, state)
      <3>1. d = mem_set_region_state(b, b.addr, end, state)
        BY <2>2 DEF mem_scan_region, GetsHeap
      <3> QED  BY <2>2, <3>1, SetRegionFields DEF RegionSet
    <2> QED  BY <2>1, <2>2
  <1> HIDE DEF d
  <1>2. scan_reg_func(b, end, state) = [d EXCEPT !.addr = end]
    BY DEF scan_reg_func, d
  <1> QED  BY <1>1, <1>2, AddrFields

\* The frames of a region are reserved, or available, as they should be.
RegionAgrees(b, end, state) ==
    LET a == mem_pa_to_frame(b.addr)
        m == mem_pa_to_frame(b.addr + HEAP_SIZE)
        n == mem_pa_to_frame(end)
    IN IF GetsHeap(b, end, state)
       THEN Agrees(a, m, "HEAP") /\ Agrees(m, n, state)
       ELSE Agrees(a, n, state)

LEMMA RegionScanned ==
    ASSUME NEW b, DOMAIN b = BootFields, b.addr \in Nat, NEW end \in Nat,
           NEW state \in FrameState, end <= NumFrames * PAGE_SIZE,
           scan_reg_func(b, end, state).ok, BootOk(b),
           state = "AVAIL" => end = mem_pa_to_frame(end) * PAGE_SIZE,
           RegionAgrees(b, end, state)
    PROVE  BootOk(scan_reg_func(b, end, state))
  <1> DEFINE d == mem_scan_region(b, b.addr, end, state)
             m == b.addr + HEAP_SIZE
             b1 == [b EXCEPT !.heap = TRUE]
             b2 == mem_set_region_state(b1, b.addr, m, "HEAP")
             n == mem_pa_to_frame(end)
  <1>0. Scanned(b.state, b.freelist, mem_pa_to_frame(b.addr))
    BY DEF BootOk
  <1>1. scan_reg_func(b, end, state) = [d EXCEPT !.addr = end]
    BY DEF scan_reg_func
  <1>2. DOMAIN d = BootFields /\ (d.ok => Scanned(d.state, d.freelist, n))
    <2>1. CASE GetsHeap(b, end, state)
      <3>0. Agrees(mem_pa_to_frame(b.addr), mem_pa_to_frame(m), "HEAP")
            /\ Agrees(mem_pa_to_frame(m), n, state)
        BY <2>1 DEF RegionAgrees
      <3>1. d = mem_set_region_state(b2, m, end, state)
        BY <2>1 DEF mem_scan_region, GetsHeap
      <3>2. DOMAIN b1 = BootFields /\ b1.state = b.state /\ b1.freelist = b.freelist
        BY HeapFields
      <3> HIDE DEF b1
      <3>3. DOMAIN b2 = BootFields /\ (b2.ok => b.addr < m)
        BY <3>2, SetRegionFields DEF RegionSet
      <3>4. DOMAIN d = BootFields /\ (d.ok <=> b2.ok /\ m < end)
        BY <3>1, <3>3, SetRegionFields DEF RegionSet
      <3>5. m \in Nat /\ "HEAP" \in FrameState /\ "HEAP" # "AVAIL"
            /\ (m < end => m <= NumFrames * PAGE_SIZE)
        BY Sizes DEF FrameState
      <3> HIDE DEF m
      <3>6. ASSUME b.addr < m, m < end  PROVE  Scanned(b2.state, b2.freelist, mem_pa_to_frame(m))
        <4>1. RegionMade(b2, b1, b.addr, m, "HEAP")
          BY <3>2, SetRegionFields
        <4> HIDE DEF b2
        <4> QED  BY <1>0, <3>0, <3>2, <3>5, <3>6, <4>1, MadeScanned
      <3> HIDE DEF b2
      <3>7. ASSUME b.addr < m, m < end  PROVE  Scanned(d.state, d.freelist, n)
        <4>1. RegionMade(d, b2, m, end, state)
          BY <3>1, <3>3, SetRegionFields
        <4> HIDE DEF d
        <4> QED  BY <3>0, <3>5, <3>6, <3>7, <4>1, MadeScanned
      <3> QED  BY <3>3, <3>4, <3>7
    <2>2. CASE ~GetsHeap(b, end, state)
      <3>0. Agrees(mem_pa_to_frame(b.addr), n, state)
        BY <2>2 DEF RegionAgrees
      <3>1. d = mem_set_region_state(b, b.addr, end, state)
        BY <2>2 DEF mem_scan_region, GetsHeap
      <3>2. DOMAIN d = BootFields /\ (d.ok <=> b.ok /\ b.addr < end)
        BY <3>1, SetRegionFields DEF RegionSet
      <3>3. ASSUME b.addr < end  PROVE  Scanned(d.state, d.freelist, n)
        <4>1. RegionMade(d, b, b.addr, end, state)
          BY <3>1, SetRegionFields
        <4> HIDE DEF d
        <4> QED  BY <1>0, <3>0, <3>3, <4>1, MadeScanned
      <3> QED  BY <3>2, <3>3
    <2> QED  BY <2>1, <2>2
  <1> HIDE DEF d
  <1>3. /\ [d EXCEPT !.addr = end].addr = end /\ [d EXCEPT !.addr = end].ok = d.ok
        /\ [d EXCEPT !.addr = end].state = d.state
        /\ [d EXCEPT !.addr = end].freelist = d.freelist
    BY <1>2, AddrFields
  <1>4. d.ok
    BY <1>1, <1>3
  <1> QED  BY <1>1, <1>2, <1>3, <1>4 DEF BootOk

\* A later address lies in the same frame or a later one.
LEMMA FrameOrder ==
    ASSUME NEW a \in Nat, NEW b \in Nat, a <= b
    PROVE  mem_pa_to_frame(a) <= mem_pa_to_frame(b)
  <1>1. CASE a = b
    <2>1. mem_pa_to_frame(a) \in Nat
      BY Frame
    <2> QED  BY <1>1, <2>1
  <1>2. CASE a < b
    BY <1>2, RegionLength
  <1> QED  BY <1>1, <1>2

\* The frame list begins at a frame, and its length does not reach the next.
LEMMA FrameListStart ==
    /\ kernel_end \in Nat /\ framelist_numframes \in Nat /\ KernelEnd <= kernel_end
    /\ mem_pa_to_frame(kernel_end + framelist_numframes) = mem_pa_to_frame(kernel_end)
  <1> DEFINE k == mem_pa_to_frame(KernelEnd + PAGE_SIZE - 1)
             n == mem_pa_to_frame(kernel_end + framelist_numframes)
             P == PAGE_SIZE
  <1>1. P \in Nat /\ P > 0 /\ KernelEnd \in Nat /\ NumFrames * FRAME \in Nat
    BY Sizes
  <1>2. KernelEnd + P - 1 \in Nat
    BY <1>1
  <1>3. k \in Nat /\ k * P <= KernelEnd + P - 1 /\ KernelEnd + P - 1 < k * P + P
    BY <1>2, Frame
  <1>4. kernel_end = k * P
    BY DEF kernel_end, mem_round_to_page, mem_frame_to_pa
  <1> HIDE DEF k
  <1>5. kernel_end \in Nat /\ KernelEnd <= kernel_end
    <2>1. k * P \in Nat
      BY <1>1, <1>3
    <2> QED  BY <1>1, <1>3, <1>4, <2>1
  <1>6. framelist_numframes \in Nat
    <2> DEFINE j == mem_pa_to_frame(NumFrames * FRAME + P - 1)
    <2>1. NumFrames * FRAME + P - 1 \in Nat
      BY <1>1
    <2>2. j \in Nat
      BY <2>1, Frame
    <2>3. framelist_numframes = mem_pa_to_frame(mem_frame_to_pa(j))
      BY DEF framelist_numframes, mem_round_to_page
    <2> HIDE DEF j
    <2> QED  BY <2>2, <2>3, FrameOfAddress
  <1>7. mem_pa_to_frame(kernel_end) = k
    BY <1>3, <1>4, FrameOfAddress DEF mem_frame_to_pa
  <1>8. kernel_end + framelist_numframes \in Nat
    BY <1>5, <1>6
  <1>9. /\ n \in Nat /\ n * P <= kernel_end + framelist_numframes
        /\ kernel_end + framelist_numframes < n * P + P
    BY <1>8, Frame
  <1>10. framelist_numframes < P
    BY LayoutAssumption
  <1> HIDE DEF n
  <1>11. n < k + 1
    <2>1. n * P < (k + 1) * P
      <3>1. (k + 1) * P = k * P + P
        BY <1>1, <1>3
      <3> QED  BY <1>1, <1>4, <1>5, <1>6, <1>9, <1>10, <3>1
    <2> QED  BY <1>1, <1>3, <1>9, <2>1, Times
  <1>12. k < n + 1
    <2>1. k * P < (n + 1) * P
      <3>1. (n + 1) * P = n * P + P
        BY <1>1, <1>9
      <3> QED  BY <1>1, <1>4, <1>5, <1>6, <1>9, <3>1
    <2> QED  BY <1>1, <1>3, <1>9, <2>1, Times
  <1>13. n = mem_pa_to_frame(kernel_end)
    BY <1>3, <1>7, <1>9, <1>11, <1>12
  <1> QED  BY <1>5, <1>6, <1>13 DEF n

\* The regions of the scan, and whether their frames are reserved.
LEMMA Layout ==
    LET r == mem_pa_to_frame(PAGE_SIZE)
        h == mem_pa_to_frame(PAGE_SIZE + HEAP_SIZE)
        i == mem_pa_to_frame(ISA_HOLE_START)
        j == mem_pa_to_frame(ISA_HOLE_END)
        s == mem_pa_to_frame(ISA_HOLE_END + PAGE_SIZE)
        k == mem_pa_to_frame(kernel_end)
        e == mem_pa_to_frame(kernel_end + framelist_numframes)
    IN /\ Agrees(0, r, "UNUSED") /\ Agrees(r, h, "HEAP") /\ Agrees(h, i, "AVAIL")
       /\ ISA_HOLE_START < ISA_HOLE_END =>
             Agrees(i, j, "HW") /\ Agrees(j, s, "KSTACK") /\ Agrees(s, e, "KERN")
             /\ Agrees(e, NumFrames, "AVAIL")
  <1> DEFINE r == mem_pa_to_frame(PAGE_SIZE)
             h == mem_pa_to_frame(PAGE_SIZE + HEAP_SIZE)
             i == mem_pa_to_frame(ISA_HOLE_START)
             j == mem_pa_to_frame(ISA_HOLE_END)
             s == mem_pa_to_frame(ISA_HOLE_END + PAGE_SIZE)
             k == mem_pa_to_frame(kernel_end)
             e == mem_pa_to_frame(kernel_end + framelist_numframes)
  <1>1. /\ PAGE_SIZE \in Nat /\ PAGE_SIZE + HEAP_SIZE \in Nat /\ ISA_HOLE_START \in Nat
        /\ ISA_HOLE_END \in Nat /\ ISA_HOLE_END + PAGE_SIZE \in Nat /\ kernel_end \in Nat
        /\ PAGE_SIZE <= PAGE_SIZE + HEAP_SIZE /\ PAGE_SIZE + HEAP_SIZE <= ISA_HOLE_START
        /\ ISA_HOLE_END <= ISA_HOLE_END + PAGE_SIZE /\ ISA_HOLE_END + PAGE_SIZE <= kernel_end
        /\ KernelEnd \in Nat /\ KernelEnd <= kernel_end
    BY Sizes, FrameListStart, LayoutAssumption
  <1>2. r \in Nat /\ h \in Nat /\ i \in Nat /\ j \in Nat /\ s \in Nat /\ k \in Nat
    BY <1>1, Frame
  <1>3. r <= h /\ h <= i /\ j <= s /\ s <= k /\ e = k
    <2>1. r <= h /\ h <= i /\ j <= s /\ s <= k
      BY <1>1, FrameOrder
    <2> QED  BY <2>1, FrameListStart
  <1>4. ISA_HOLE_START < ISA_HOLE_END => i <= j
    BY <1>1, FrameOrder
  <1>5. \A f \in Frames : f \in Int /\ (f \in Reserved <=> f < h \/ (i <= f /\ f < k))
    <2>1. \A f \in Frames : f \in Int
      BY DEF Frames
    <2> HIDE DEF h, i, k
    <2>2. Reserved = {f \in Frames : f < h \/ f \in i .. k - 1}
      BY DEF Reserved, h, i, k
    <2> QED  BY <1>2, <2>1, <2>2
  <1> HIDE DEF r, h, i, j, s, k, e
  <1>6. Agrees(0, r, "UNUSED") /\ Agrees(r, h, "HEAP") /\ Agrees(h, i, "AVAIL")
    BY <1>2, <1>3, <1>5 DEF Agrees
  <1>7. i <= j => Agrees(i, j, "HW") /\ Agrees(j, s, "KSTACK") /\ Agrees(s, e, "KERN")
                  /\ Agrees(e, NumFrames, "AVAIL")
    BY <1>2, <1>3, <1>5 DEF Agrees
  <1> QED  BY <1>4, <1>6, <1>7 DEF r, h, i, j, s, k, e

\* The free list after the scan holds every available frame, once, and the
\* frames that are not available are the reserved ones.
LEMMA ScanResult ==
    /\ mem_scan_regions.freelist \in Seq(Frames) /\ Distinct(mem_scan_regions.freelist)
    /\ mem_scan_regions.state \in [Frames -> FrameState]
    /\ \A f \in Frames :
          /\ InQueue(f, mem_scan_regions.freelist) <=> mem_scan_regions.state[f] = "AVAIL"
          /\ f \in Reserved <=> mem_scan_regions.state[f] # "AVAIL"
    /\ ISA_HOLE_START < ISA_HOLE_END
  <1> DEFINE e1 == PAGE_SIZE
             e2 == ISA_HOLE_START
             e3 == ISA_HOLE_END
             e4 == ISA_HOLE_END + PAGE_SIZE
             e5 == kernel_end + framelist_numframes
             e6 == NumFrames * PAGE_SIZE
             b0 == [state |-> [f \in Frames |-> "AVAIL"], freelist |-> << >>,
                    heap |-> FALSE, addr |-> 0, ok |-> TRUE]
             b1 == scan_reg_func(b0, e1, "UNUSED")
             b2 == scan_reg_func(b1, e2, "AVAIL")
             b3 == scan_reg_func(b2, e3, "HW")
             b4 == scan_reg_func(b3, e4, "KSTACK")
             b5 == scan_reg_func(b4, e5, "KERN")
             b6 == scan_reg_func(b5, e6, "AVAIL")
  <1>1. mem_scan_regions = b6
    BY DEF mem_scan_regions
  <1>2. b6.ok
    BY <1>1, PageCacheAssumption DEF mem_init_returns
  <1>3. e1 \in Nat /\ e2 \in Nat /\ e3 \in Nat /\ e4 \in Nat /\ e6 \in Nat
    BY Sizes
  <1>4. e5 \in Nat
    BY FrameListStart
  <1>5. DOMAIN b0 = BootFields /\ b0.addr = 0 /\ ~b0.heap
    BY DEF BootFields
  <1>6. BootOk(b0)
    <2>1. b0.state = [f \in Frames |-> "AVAIL"] /\ b0.freelist = << >>
      OBVIOUS
    <2>2. mem_pa_to_frame(0) = 0
      <3>1. mem_frame_to_pa(0) = 0
        BY Sizes DEF mem_frame_to_pa
      <3>2. 0 \in Nat
        OBVIOUS
      <3> QED  BY <3>1, <3>2, FrameOfAddress
    <2>3. Scanned([f \in Frames |-> "AVAIL"], << >>, 0)
      <3>1. << >> \in Seq(Frames) /\ Len(<< >>) = 0
        OBVIOUS
      <3>2. [f \in Frames |-> "AVAIL"] \in [Frames -> FrameState]
        BY DEF FrameState
      <3>3. Distinct(<< >>) /\ \A f : ~InQueue(f, << >>)
        BY <3>1 DEF Distinct, InQueue
      <3>4. \A f \in Frames : ~(f < 0)
        BY Sizes DEF Frames
      <3> QED  BY <3>1, <3>2, <3>3, <3>4 DEF Scanned
    <2> QED  BY <1>5, <2>1, <2>2, <2>3 DEF BootOk
  <1>7. mem_pa_to_frame(0) = 0
    <2>1. mem_frame_to_pa(0) = 0 /\ 0 \in Nat
      BY Sizes DEF mem_frame_to_pa
    <2> QED  BY <2>1, FrameOfAddress
  <1>8. /\ Agrees(0, mem_pa_to_frame(e1), "UNUSED")
        /\ Agrees(mem_pa_to_frame(e1), mem_pa_to_frame(e1 + HEAP_SIZE), "HEAP")
        /\ Agrees(mem_pa_to_frame(e1 + HEAP_SIZE), mem_pa_to_frame(e2), "AVAIL")
        /\ e2 < e3 =>
              /\ Agrees(mem_pa_to_frame(e2), mem_pa_to_frame(e3), "HW")
              /\ Agrees(mem_pa_to_frame(e3), mem_pa_to_frame(e4), "KSTACK")
              /\ Agrees(mem_pa_to_frame(e4), mem_pa_to_frame(e5), "KERN")
              /\ Agrees(mem_pa_to_frame(e5), NumFrames, "AVAIL")
    BY Layout
  <1>9. e2 - e1 >= HEAP_SIZE
    BY Sizes, LayoutAssumption
  <1> HIDE DEF b0, e1, e2, e3, e4, e5, e6
  <1>11. DOMAIN b1 = BootFields /\ b1.addr = e1 /\ (b1.ok => 0 < e1) /\ ~b1.heap
    <2>1. ~GetsHeap(b0, e1, "UNUSED")
      BY DEF GetsHeap
    <2> QED  BY <1>3, <1>5, <2>1, RegionAsserts
  <1> HIDE DEF b1
  <1>12. DOMAIN b2 = BootFields /\ b2.addr = e2 /\ (b2.ok => b1.ok /\ e1 < e2) /\ b2.heap
    <2>1. GetsHeap(b1, e2, "AVAIL")
      BY <1>9, <1>11 DEF GetsHeap
    <2> QED  BY <1>3, <1>11, <2>1, RegionAsserts
  <1> HIDE DEF b2
  <1>13. DOMAIN b3 = BootFields /\ b3.addr = e3 /\ (b3.ok => b2.ok /\ e2 < e3) /\ b3.heap
    BY <1>3, <1>12, RegionAsserts
  <1> HIDE DEF b3
  <1>14. DOMAIN b4 = BootFields /\ b4.addr = e4 /\ (b4.ok => b3.ok /\ e3 < e4) /\ b4.heap
    BY <1>3, <1>13, RegionAsserts
  <1> HIDE DEF b4
  <1>15. DOMAIN b5 = BootFields /\ b5.addr = e5 /\ (b5.ok => b4.ok /\ e4 < e5) /\ b5.heap
    BY <1>3, <1>4, <1>14, RegionAsserts
  <1> HIDE DEF b5
  <1>16. DOMAIN b6 = BootFields /\ b6.addr = e6 /\ (b6.ok => b5.ok /\ e5 < e6)
    BY <1>3, <1>4, <1>15, RegionAsserts
  <1> HIDE DEF b6
  <1>20. b5.ok /\ b4.ok /\ b3.ok /\ b2.ok /\ b1.ok
    BY <1>2, <1>12, <1>13, <1>14, <1>15, <1>16
  <1>21. e1 <= e6 /\ e2 <= e6 /\ e3 <= e6 /\ e4 <= e6 /\ e5 <= e6 /\ e2 < e3
    <2>1. e1 < e2 /\ e2 < e3 /\ e3 < e4 /\ e4 < e5 /\ e5 < e6
      BY <1>2, <1>12, <1>13, <1>14, <1>15, <1>16, <1>20
    <2> QED  BY <1>3, <1>4, <2>1
  <1>22. e6 = NumFrames * PAGE_SIZE
    BY DEF e6
  <1>23. e2 = mem_pa_to_frame(e2) * PAGE_SIZE
    <2> DEFINE k == mem_pa_to_frame(e2 + PAGE_SIZE - 1)
    <2>1. e2 + PAGE_SIZE - 1 \in Nat
      BY <1>3, Sizes
    <2>2. k \in Nat
      BY <2>1, Frame
    <2>3. e2 = mem_frame_to_pa(k)
      BY LayoutAssumption DEF e2, mem_round_to_page
    <2> HIDE DEF k
    <2>4. mem_pa_to_frame(e2) = k
      BY <2>2, <2>3, FrameOfAddress
    <2> QED  BY <2>3, <2>4 DEF mem_frame_to_pa
  <1>24. e6 = mem_pa_to_frame(e6) * PAGE_SIZE /\ mem_pa_to_frame(e6) = NumFrames
    BY <1>22, Sizes, FrameOfAddress DEF mem_frame_to_pa
  <1>25. {"UNUSED", "AVAIL", "HW", "KSTACK", "KERN"} \subseteq FrameState
    BY DEF FrameState
  <1>26. RegionAgrees(b0, e1, "UNUSED") /\ RegionAgrees(b1, e2, "AVAIL")
    <2>1. ~GetsHeap(b0, e1, "UNUSED") /\ GetsHeap(b1, e2, "AVAIL")
      BY <1>9, <1>11 DEF GetsHeap
    <2> QED  BY <1>5, <1>7, <1>8, <1>11, <2>1 DEF RegionAgrees
  <1>27. /\ RegionAgrees(b2, e3, "HW") /\ RegionAgrees(b3, e4, "KSTACK")
         /\ RegionAgrees(b4, e5, "KERN") /\ RegionAgrees(b5, e6, "AVAIL")
    <2>1. /\ ~GetsHeap(b2, e3, "HW") /\ ~GetsHeap(b3, e4, "KSTACK")
          /\ ~GetsHeap(b4, e5, "KERN") /\ ~GetsHeap(b5, e6, "AVAIL")
      BY <1>15 DEF GetsHeap
    <2> QED  BY <1>8, <1>12, <1>13, <1>14, <1>15, <1>21, <1>24, <2>1 DEF RegionAgrees
  <1>31. BootOk(b1)
    BY <1>3, <1>5, <1>6, <1>20, <1>21, <1>22, <1>25, <1>26, RegionScanned DEF b1
  <1>32. BootOk(b2)
    BY <1>3, <1>11, <1>20, <1>21, <1>22, <1>23, <1>25, <1>26, <1>31, RegionScanned DEF b2
  <1>33. BootOk(b3)
    BY <1>3, <1>12, <1>20, <1>21, <1>22, <1>25, <1>27, <1>32, RegionScanned DEF b3
  <1>34. BootOk(b4)
    BY <1>3, <1>13, <1>20, <1>21, <1>22, <1>25, <1>27, <1>33, RegionScanned DEF b4
  <1>35. BootOk(b5)
    BY <1>3, <1>4, <1>14, <1>20, <1>21, <1>22, <1>25, <1>27, <1>34, RegionScanned DEF b5
  <1>36. BootOk(b6)
    <2>1. e6 <= NumFrames * PAGE_SIZE
      BY <1>3, <1>22
    <2> QED  BY <1>2, <1>3, <1>4, <1>15, <1>24, <1>25, <1>27, <1>35, <2>1, RegionScanned DEF b6
  <1>37. Scanned(b6.state, b6.freelist, NumFrames)
    BY <1>16, <1>24, <1>36 DEF BootOk
  <1>38. \A f \in Frames : f < NumFrames
    BY Sizes DEF Frames
  <1>39. ISA_HOLE_START < ISA_HOLE_END
    BY <1>21 DEF e2, e3
  <1> QED  BY <1>1, <1>37, <1>38, <1>39 DEF Scanned

(***************************************************************************)
(* For every layout of memory, the scan at boot puts the frames that hold  *)
(* the frame structures on the free list, although the region is commented *)
(* as that of the kernel and the frame list.                               *)
(***************************************************************************)
THEOREM FrameListFree ==
    \A f \in FrameListFrames \cap Frames : InQueue(f, mem_scan_regions.freelist)
  <1> SUFFICES ASSUME NEW f \in FrameListFrames \cap Frames
               PROVE  InQueue(f, mem_scan_regions.freelist)
    OBVIOUS
  <1> DEFINE h == mem_pa_to_frame(PAGE_SIZE + HEAP_SIZE)
             i == mem_pa_to_frame(ISA_HOLE_START)
             k == mem_pa_to_frame(kernel_end)
  <1>1. k \in Nat /\ framelist_numframes \in Nat
    BY FrameListStart, Frame
  <1>2. f \in Int /\ k <= f
    <2>1. f \in k .. k + framelist_numframes - 1
      BY DEF FrameListFrames
    <2> QED  BY <1>1, <2>1
  <1>3. h \in Nat /\ h <= k
    <2>1. /\ PAGE_SIZE + HEAP_SIZE \in Nat /\ kernel_end \in Nat
          /\ PAGE_SIZE + HEAP_SIZE <= ISA_HOLE_START
      BY Sizes, FrameListStart, LayoutAssumption
    <2>2. ISA_HOLE_START < ISA_HOLE_END
      BY ScanResult
    <2>3. PAGE_SIZE + HEAP_SIZE <= kernel_end
      BY <2>1, <2>2, Sizes, FrameListStart, LayoutAssumption
    <2> QED  BY <2>1, <2>3, FrameOrder, Frame
  <1>4. f \notin Reserved
    <2> HIDE DEF h, i, k
    <2>1. Reserved = {g \in Frames : g < h \/ g \in i .. k - 1}
      BY DEF Reserved, h, i, k
    <2> QED  BY <1>1, <1>2, <1>3, <2>1
  <1> QED  BY <1>4, ScanResult

-----------------------------------------------------------------------------
(***************************************************************************)
(* Frames move from list to list.                                          *)
(***************************************************************************)
\* A set of natural numbers has a least element.
LEMMA MinNat ==
    ASSUME NEW S, S \subseteq Nat, S # {}
    PROVE  Min(S) \in S /\ \A m \in S : Min(S) <= m
  <1> DEFINE R == OpToRel(<, Nat)
  <1>1. IsWellFoundedOn(R, Nat)
    BY NatLessThanWellFounded
  <1>2. \A m, n \in Nat : << m, n >> \in R <=> m < n
    BY DEF OpToRel
  <1> HIDE DEF R
  <1>3. PICK n \in S : \A m \in S : ~(<< m, n >> \in R)
    BY <1>1, WFMin
  <1>4. \A m \in S : n <= m
    <2>1. ASSUME NEW m \in S
          PROVE  m \in Nat /\ n \in Nat /\ ~(m < n)
      BY <1>2, <1>3
    <2> QED  BY <2>1
  <1> QED  BY <1>3, <1>4 DEF Min

\* An entry is taken off a sequence.
LEMMA RemoveAtProperties ==
    ASSUME NEW S, NEW q \in Seq(S), NEW i \in 1 .. Len(q)
    PROVE  /\ RemoveAt(q, i) \in Seq(S) /\ Len(RemoveAt(q, i)) = Len(q) - 1
           /\ \A j \in 1 .. Len(q) - 1 :
                 RemoveAt(q, i)[j] = q[IF j < i THEN j ELSE j + 1]
  <1> DEFINE a == SubSeq(q, 1, i - 1)
             b == SubSeq(q, i + 1, Len(q))
  <1>1. Len(q) \in Nat /\ i \in Nat
    BY LenProperties
  <1>2. /\ a \in Seq(S) /\ Len(a) = i - 1
        /\ \A j \in 1 .. i - 1 : a[j] = q[j]
    <2>1. \A j \in 1 .. i - 1 : j \in 1 .. Len(q)  BY <1>1
    <2> QED  BY <1>1, <2>1, SubSeqProperties, Z3
  <1>3. /\ b \in Seq(S) /\ Len(b) = Len(q) - i
        /\ \A j \in 1 .. Len(q) - i : b[j] = q[i + j]
    BY <1>1, SubSeqProperties
  <1> HIDE DEF a, b
  <1>4. /\ a \o b \in Seq(S) /\ Len(a \o b) = Len(q) - 1
        /\ \A j \in 1 .. Len(q) - 1 :
              (a \o b)[j] = IF j <= i - 1 THEN a[j] ELSE b[j - (i - 1)]
    <2>1. /\ a \o b \in Seq(S) /\ Len(a \o b) = Len(a) + Len(b)
          /\ \A j \in 1 .. Len(a) + Len(b) :
                (a \o b)[j] = IF j <= Len(a) THEN a[j] ELSE b[j - Len(a)]
      BY <1>2, <1>3, ConcatProperties
    <2>2. Len(a) + Len(b) = Len(q) - 1
      BY <1>1, <1>2, <1>3
    <2> QED  BY <1>2, <2>1, <2>2, Zenon
  <1>5. RemoveAt(q, i) = a \o b
    BY DEF RemoveAt, a, b
  <1>6. ASSUME NEW j \in 1 .. Len(q) - 1
        PROVE  (a \o b)[j] = q[IF j < i THEN j ELSE j + 1]
    <2>1. CASE j < i
      BY <1>1, <1>2, <1>4, <2>1
    <2>2. CASE ~(j < i)
      <3>1. j - (i - 1) \in 1 .. Len(q) - i /\ i + (j - (i - 1)) = j + 1
        BY <1>1, <2>2
      <3>2. (a \o b)[j] = b[j - (i - 1)]
        BY <1>1, <1>4, <2>2
      <3>3. b[j - (i - 1)] = q[i + (j - (i - 1))]
        BY <1>3, <3>1
      <3> QED  BY <2>2, <3>1, <3>2, <3>3
    <2> QED  BY <2>1, <2>2
  <1> QED  BY <1>4, <1>5, <1>6

\* A frame is taken out of a list it is in.
LEMMA RemoveFirstFrame ==
    ASSUME NEW S, NEW q \in Seq(S), NEW x, InQueue(x, q), Distinct(q)
    PROVE  /\ RemoveFirst(q, x) \in Seq(S) /\ Distinct(RemoveFirst(q, x))
           /\ \A f : InQueue(f, RemoveFirst(q, x)) <=> InQueue(f, q) /\ f # x
  <1>0. Len(q) \in Nat
    BY LenProperties
  <1>1. PICK k \in 1 .. Len(q) : q[k] = x
    BY DEF InQueue
  <1> DEFINE I == {i \in 1 .. Len(q) : q[i] = x}
             r == RemoveAt(q, k)
  <1>2. I = {k}
    BY <1>1 DEF Distinct
  <1>3. Min(I) = k
    <2>1. I \subseteq Nat /\ I # {}
      BY <1>0, <1>2
    <2> HIDE DEF I
    <2>2. Min(I) \in I
      BY <2>1, MinNat
    <2> QED  BY <1>2, <2>2
  <1>4. RemoveFirst(q, x) = r
    <2>1. SelectInSeq(q, LAMBDA v : v = x) = k
      BY <1>2, <1>3 DEF SelectInSeq
    <2> QED  BY <1>1, <2>1 DEF RemoveFirst
  <1>5. /\ r \in Seq(S) /\ Len(r) = Len(q) - 1
        /\ \A j \in 1 .. Len(q) - 1 : r[j] = q[IF j < k THEN j ELSE j + 1]
    BY RemoveAtProperties
  <1> HIDE DEF r
  <1> DEFINE m(j) == IF j < k THEN j ELSE j + 1
  <1>6. ASSUME NEW j \in 1 .. Len(q) - 1  PROVE  m(j) \in 1 .. Len(q) /\ m(j) # k /\ r[j] = q[m(j)]
    BY <1>0, <1>5
  <1>7. ASSUME NEW i \in 1 .. Len(q), i # k
        PROVE  \E j \in 1 .. Len(q) - 1 : m(j) = i
    <2>1. CASE i < k
      <3>1. i \in 1 .. Len(q) - 1 /\ m(i) = i
        BY <1>0, <2>1
      <3> QED  BY <3>1
    <2>2. CASE i > k
      <3>1. i - 1 \in 1 .. Len(q) - 1 /\ m(i - 1) = i
        BY <1>0, <2>2
      <3> QED  BY <3>1
    <2> QED  BY <1>0, <1>7, <2>1, <2>2
  <1>8. \A i, j \in 1 .. Len(q) - 1 : m(i) = m(j) => i = j
    BY <1>0
  <1> HIDE DEF m
  <1>9. Distinct(r)
    BY <1>5, <1>6, <1>8 DEF Distinct
  <1>10. ASSUME NEW f  PROVE  InQueue(f, r) <=> InQueue(f, q) /\ f # x
    <2>1. ASSUME NEW j \in 1 .. Len(q) - 1, r[j] = f  PROVE  InQueue(f, q) /\ f # x
      BY <1>1, <1>6, <2>1 DEF InQueue, Distinct
    <2>2. ASSUME NEW i \in 1 .. Len(q), q[i] = f, f # x  PROVE  InQueue(f, r)
      <3>1. PICK j \in 1 .. Len(q) - 1 : m(j) = i
        BY <1>1, <1>7, <2>2
      <3>2. r[j] = f
        BY <1>6, <2>2, <3>1
      <3> QED  BY <1>5, <3>2 DEF InQueue
    <2> QED  BY <1>5, <2>1, <2>2 DEF InQueue
  <1> QED  BY <1>4, <1>5, <1>9, <1>10

\* The first frame of the free list is used for a stack, or for a page.
LEMMA TakeFrame ==
    ASSUME NEW F \in Seq(Frames), NEW S, NEW P \in Seq(Frames), Placed(F, S, P), F # << >>
    PROVE  /\ Head(F) \in Frames /\ Tail(F) \in Seq(Frames) /\ InQueue(Head(F), F)
           /\ Head(F) \notin S /\ ~InQueue(Head(F), P)
           /\ \A f : InQueue(f, Tail(F)) <=> InQueue(f, F) /\ f # Head(F)
           /\ Placed(Tail(F), S \cup {Head(F)}, P)
           /\ Append(P, Head(F)) \in Seq(Frames)
           /\ \A f : InQueue(f, Append(P, Head(F))) <=> InQueue(f, P) \/ f = Head(F)
           /\ Placed(Tail(F), S, Append(P, Head(F)))
  <1> DEFINE g == Head(F)
             F2 == Tail(F)
             P2 == Append(P, g)
  <1>1. Distinct(F) /\ Distinct(P)
    BY DEF Placed
  <1>2. /\ g \in Frames /\ F2 \in Seq(Frames) /\ Distinct(F2) /\ ~InQueue(g, F2)
        /\ \A f : InQueue(f, F) <=> f = g \/ InQueue(f, F2)
    BY <1>1, RemoveFirstQueue
  <1>3. InQueue(g, F) /\ g \notin S /\ ~InQueue(g, P)
    BY <1>2 DEF Placed
  <1>4. /\ P2 \in Seq(Frames) /\ Distinct(P2)
        /\ \A f : InQueue(f, P2) <=> InQueue(f, P) \/ f = g
    BY <1>1, <1>2, <1>3, AppendQueue
  <1> HIDE DEF g, F2, P2
  <1>5. Placed(F2, S \cup {g}, P) /\ Placed(F2, S, P2)
    BY <1>1, <1>2, <1>3, <1>4 DEF Placed
  <1> QED  BY <1>2, <1>3, <1>4, <1>5 DEF g, F2, P2

\* A frame that was a stack, or held a page, is free.
LEMMA GiveFrame ==
    ASSUME NEW F \in Seq(Frames), NEW S, NEW P \in Seq(Frames), Placed(F, S, P),
           NEW g \in Frames, g \in S \/ InQueue(g, P)
    PROVE  /\ Append(F, g) \in Seq(Frames) /\ Append(F, g) # << >>
           /\ \A f : InQueue(f, Append(F, g)) <=> InQueue(f, F) \/ f = g
           /\ g \in S => Placed(Append(F, g), S \ {g}, P)
           /\ InQueue(g, P) =>
                 /\ RemoveFirst(P, g) \in Seq(Frames)
                 /\ \A f : InQueue(f, RemoveFirst(P, g)) <=> InQueue(f, P) /\ f # g
                 /\ Placed(Append(F, g), S, RemoveFirst(P, g))
  <1> DEFINE F2 == Append(F, g)
             P2 == RemoveFirst(P, g)
  <1>1. Distinct(F) /\ Distinct(P) /\ ~InQueue(g, F)
    BY DEF Placed
  <1>2. /\ F2 \in Seq(Frames) /\ F2 # << >> /\ Distinct(F2)
        /\ \A f : InQueue(f, F2) <=> InQueue(f, F) \/ f = g
    BY <1>1, AppendQueue
  <1>3. InQueue(g, P) => /\ P2 \in Seq(Frames) /\ Distinct(P2)
                         /\ \A f : InQueue(f, P2) <=> InQueue(f, P) /\ f # g
    BY <1>1, RemoveFirstFrame
  <1> HIDE DEF F2, P2
  <1>4. g \in S => Placed(F2, S \ {g}, P)
    BY <1>1, <1>2 DEF Placed
  <1>5. InQueue(g, P) => Placed(F2, S, P2)
    BY <1>1, <1>2, <1>3 DEF Placed
  <1> QED  BY <1>2, <1>3, <1>4, <1>5 DEF F2, P2

\* The addresses of stacks stand for their frames.
LEMMA StackFrames ==
    ASSUME stacks \subseteq {mem_frame_to_pa(f) : f \in Frames}
    PROVE  /\ Stacked \subseteq Frames
           /\ \A pa \in stacks : mem_pa_to_frame(pa) \in Frames
                                 /\ pa = mem_frame_to_pa(mem_pa_to_frame(pa))
  <1>1. ASSUME NEW pa \in stacks
        PROVE  mem_pa_to_frame(pa) \in Frames /\ pa = mem_frame_to_pa(mem_pa_to_frame(pa))
    <2>1. PICK f \in Frames : pa = mem_frame_to_pa(f)
      OBVIOUS
    <2>2. f \in Nat
      BY Sizes DEF Frames
    <2>3. mem_pa_to_frame(pa) = f
      BY <2>1, <2>2, FrameOfAddress
    <2> QED  BY <2>1, <2>3
  <1> QED  BY <1>1 DEF Stacked

-----------------------------------------------------------------------------
(***************************************************************************)
(* One frame and one thread change at a time.                              *)
(***************************************************************************)
\* The users of a frame when thread t refers to g instead.
Moved(R2, R, t, g) ==
    /\ \A f : f # g /\ f # R[t] => Cardinality(Users(R2, f)) = Cardinality(Users(R, f))
    /\ R[t] = g => \A f : Cardinality(Users(R2, f)) = Cardinality(Users(R, f))
    /\ R[t] # g => /\ Cardinality(Users(R2, g)) = Cardinality(Users(R, g)) + 1
                   /\ Cardinality(Users(R2, R[t])) = Cardinality(Users(R, R[t])) - 1

LEMMA UsersFinite ==
    ASSUME NEW R, NEW f
    PROVE  /\ IsFiniteSet(Users(R, f)) /\ Cardinality(Users(R, f)) \in Nat
           /\ \A t \in Threads : R[t] = f => Cardinality(Users(R, f)) > 0
  <1>1. Users(R, f) \subseteq Threads
    BY DEF Users
  <1>2. IsFiniteSet(Users(R, f))
    BY <1>1, Sizes, FS_Subset
  <1>3. Cardinality(Users(R, f)) \in Nat
    BY <1>2, FS_CardinalityType
  <1>4. ASSUME NEW t \in Threads, R[t] = f  PROVE  Cardinality(Users(R, f)) > 0
    <2>1. Users(R, f) # {}
      BY <1>4 DEF Users
    <2>2. Cardinality(Users(R, f)) # 0
      BY <1>2, <2>1, FS_EmptySet
    <2> QED  BY <1>3, <2>2
  <1> QED  BY <1>2, <1>3, <1>4

LEMMA UsersMove ==
    ASSUME NEW R, NEW R2, NEW t \in Threads, NEW g, R2[t] = g,
           \A u \in Threads : u # t => R2[u] = R[u]
    PROVE  Moved(R2, R, t, g)
  <1>1. ASSUME NEW f, f # g, f # R[t]  PROVE  Users(R2, f) = Users(R, f)
    BY <1>1 DEF Users
  <1>2. ASSUME NEW f, R[t] = g  PROVE  Users(R2, f) = Users(R, f)
    BY <1>2 DEF Users
  <1>3. ASSUME R[t] # g
        PROVE  /\ Cardinality(Users(R2, g)) = Cardinality(Users(R, g)) + 1
               /\ Cardinality(Users(R2, R[t])) = Cardinality(Users(R, R[t])) - 1
    <2>1. Users(R2, g) = Users(R, g) \cup {t} /\ t \notin Users(R, g)
      BY <1>3 DEF Users
    <2>2. Users(R2, R[t]) = Users(R, R[t]) \ {t} /\ t \in Users(R, R[t])
      BY <1>3 DEF Users
    <2>3. IsFiniteSet(Users(R, g)) /\ IsFiniteSet(Users(R, R[t]))
      BY UsersFinite
    <2>4. Cardinality(Users(R2, g)) = Cardinality(Users(R, g)) + 1
      BY <2>1, <2>3, FS_AddElement
    <2>5. Cardinality(Users(R2, R[t])) = Cardinality(Users(R, R[t])) - 1
      BY <2>2, <2>3, FS_RemoveElement
    <2> QED  BY <2>4, <2>5
  <1> QED  BY <1>1, <1>2, <1>3 DEF Moved

\* Where a thread may find itself after a step of another one.
Drifts(a, b) == b = a \/ (a = "sleep" /\ b = "alloc") \/ (a = "wait" /\ b = "woken")

CountOk(f) ==
    InQueue(f, pagelist) => frame[f].refcount = Cardinality(Users(fr, f)) + leaked[f]

\* Nothing happens to frame f.
Left(f) ==
    /\ frame'[f] = frame[f] /\ leaked'[f] = leaked[f]
    /\ InQueue(f, freelist') <=> InQueue(f, freelist)
    /\ InQueue(f, pagelist') <=> InQueue(f, pagelist)
    /\ f \in Stacked' <=> f \in Stacked
    /\ Cardinality(Users(fr', f)) = Cardinality(Users(fr, f))

\* What a step of thread t on frame g means for another thread.
Bystander(u, g) ==
    /\ fr'[u] = fr[u] /\ Drifts(pc[u], pc'[u])
    /\ pc'[u] = "sleep" => freelist' = << >>
    /\ fr[u] = g => /\ InQueue(g, pagelist')
                    /\ pc[u] = "holds" => frame'[g].content = "CLEAN"
                    /\ pc[u] = "pagein" => frame'[g].content = "PENDING_INIT"

LEMMA StepKept ==
    ASSUME IInv, Types', Places', ~halted', NEW g \in Frames, NEW t,
           \A f \in Frames : f # g => Left(f),
           FrameOk(g)', CountOk(g)',
           \A u \in Threads : u # t => Bystander(u, g),
           t \in Threads => ThreadOk(t)',
           t \in Threads /\ pc'[t] = "pagein" =>
               \A u \in Threads : u # t /\ pc[u] = "pagein" => fr[u] # fr'[t]
    PROVE  IInv'
  <1>0. Types /\ FramesOk /\ ThreadsOk /\ OneReader /\ Counted
    BY DEF IInv
  <1>1. FramesOk'
    <2> SUFFICES ASSUME NEW f \in Frames, f # g  PROVE  FrameOk(f)'
      BY DEF FramesOk
    <2>1. FrameOk(f) /\ Left(f)
      BY <1>0 DEF FramesOk
    <2> QED  BY <2>1 DEF FrameOk, Left
  <1>2. Counted'
    <2> SUFFICES ASSUME NEW f \in Frames, f # g  PROVE  CountOk(f)'
      BY DEF Counted, CountOk
    <2>1. CountOk(f) /\ Left(f)
      BY <1>0 DEF Counted, CountOk
    <2> QED  BY <2>1 DEF CountOk, Left
  <1>3. ThreadsOk'
    <2> SUFFICES ASSUME NEW u \in Threads, u # t  PROVE  ThreadOk(u)'
      BY DEF ThreadsOk
    <2>1. ThreadOk(u) /\ Bystander(u, g)
      BY <1>0 DEF ThreadsOk
    <2>2. fr[u] \in Frames \cup {NoFrame} /\ fr'[u] = fr[u]
      BY <1>0, <2>1 DEF Types, Bystander
    <2>3. CASE fr[u] = NoFrame
      <3>1. pc[u] \in {"idle", "lock", "alloc", "sleep"}
        BY <2>1, <2>3 DEF ThreadOk
      <3> QED  BY <2>1, <2>2, <2>3, <3>1 DEF ThreadOk, Bystander, Drifts
    <2>4. CASE fr[u] # NoFrame /\ fr[u] = g
      BY <2>1, <2>2, <2>4 DEF ThreadOk, Bystander, Drifts
    <2>5. CASE fr[u] # NoFrame /\ fr[u] # g
      <3>1. Left(fr[u])
        BY <2>2, <2>5
      <3> QED  BY <2>1, <2>2, <2>5, <3>1 DEF ThreadOk, Bystander, Drifts, Left
    <2> QED  BY <2>3, <2>4, <2>5
  <1>4. OneReader'
    <2> SUFFICES ASSUME NEW u \in Threads, NEW v \in Threads, pc'[u] = "pagein",
                        pc'[v] = "pagein", fr'[u] = fr'[v], u # v
                 PROVE  FALSE
      BY DEF OneReader
    <2>1. \A w \in Threads : w # t => fr'[w] = fr[w] /\ (pc'[w] = "pagein" => pc[w] = "pagein")
      BY DEF Bystander, Drifts
    <2>2. CASE u # t /\ v # t
      BY <1>0, <2>1, <2>2 DEF OneReader
    <2>3. CASE u = t
      BY <2>1, <2>3
    <2>4. CASE v = t
      BY <2>1, <2>4
    <2> QED  BY <2>2, <2>3, <2>4
  <1> QED  BY <1>1, <1>2, <1>3, <1>4 DEF IInv

\* A step of thread t that touches no frame.
LEMMA QuietKept ==
    ASSUME IInv, UNCHANGED << freelist, frame, pagelist, fr, leaked, stacks, halted >>,
           NEW t \in Threads, pc' \in [Threads -> PC],
           \A u \in Threads : u # t => pc'[u] = pc[u],
           fr[t] = NoFrame, pc'[t] \in {"idle", "lock", "alloc", "sleep"},
           pc'[t] = "sleep" => freelist = << >>
    PROVE  IInv'
  <1>0. Types /\ Places /\ FramesOk /\ ThreadsOk /\ OneReader /\ Counted /\ ~halted
    BY DEF IInv
  <1>1. freelist' = freelist /\ frame' = frame /\ pagelist' = pagelist /\ fr' = fr
        /\ leaked' = leaked /\ stacks' = stacks /\ halted' = halted
    OBVIOUS
  <1>2. Types' /\ Places'
    BY <1>0, <1>1 DEF Types, Places, Stacked
  <1>3. FramesOk' /\ Counted'
    BY <1>0, <1>1 DEF FramesOk, FrameOk, Counted, Stacked
  <1>4. ThreadsOk'
    <2> SUFFICES ASSUME NEW u \in Threads  PROVE  ThreadOk(u)'
      BY DEF ThreadsOk
    <2>1. CASE u = t
      BY <1>1, <2>1 DEF ThreadOk
    <2>2. CASE u # t
      BY <1>0, <1>1, <2>2 DEF ThreadsOk, ThreadOk
    <2> QED  BY <2>1, <2>2
  <1>5. OneReader'
    <2>1. \A u \in Threads : pc'[u] = "pagein" => pc[u] = "pagein"
      OBVIOUS
    <2> QED  BY <1>0, <1>1, <2>1 DEF OneReader
  <1> QED  BY <1>0, <1>1, <1>2, <1>3, <1>4, <1>5 DEF IInv

\* Frame g has the record r now, and no other frame has changed.
Becomes(fs2, fs, g, s, n, c) ==
    /\ fs2 \in [Frames -> FrameRec]
    /\ fs2[g].state = s /\ fs2[g].refcount = n /\ fs2[g].content = c
    /\ \A f \in Frames : f # g => fs2[f] = fs[f]

LEMMA FrameFields ==
    ASSUME NEW fs \in [Frames -> FrameRec], NEW g \in Frames
    PROVE  fs[g] \in FrameRec /\ fs[g].state \in FrameState /\ fs[g].refcount \in Int
           /\ fs[g].content \in Content
  BY DEF FrameRec

LEMMA SetState ==
    ASSUME NEW fs \in [Frames -> FrameRec], NEW g \in Frames, NEW s \in FrameState
    PROVE  Becomes([fs EXCEPT ![g].state = s], fs, g, s, fs[g].refcount, fs[g].content)
  BY DEF Becomes, FrameRec

LEMMA SetCount ==
    ASSUME NEW fs \in [Frames -> FrameRec], NEW g \in Frames, NEW n \in Int
    PROVE  Becomes([fs EXCEPT ![g].refcount = n], fs, g, fs[g].state, n, fs[g].content)
  BY DEF Becomes, FrameRec

LEMMA SetContent ==
    ASSUME NEW fs \in [Frames -> FrameRec], NEW g \in Frames, NEW c \in Content
    PROVE  Becomes([fs EXCEPT ![g].content = c], fs, g, fs[g].state, fs[g].refcount, c)
  BY DEF Becomes, FrameRec

LEMMA BecomesTwice ==
    ASSUME NEW fs, NEW fs1, NEW fs2, NEW g, NEW s, NEW n, NEW c, NEW s1, NEW n1, NEW c1,
           Becomes(fs1, fs, g, s1, n1, c1), Becomes(fs2, fs1, g, s, n, c)
    PROVE  Becomes(fs2, fs, g, s, n, c)
  BY DEF Becomes

LEMMA AllocatedFrame ==
    ASSUME frame \in [Frames -> FrameRec], NEW g \in Frames, g = Head(freelist),
           NEW s \in FrameState, NEW n \in Int
    PROVE  Becomes(Allocated(s, n), frame, g, s, n, frame[g].content)
  <1> DEFINE f1 == [frame EXCEPT ![g].state = s]
             f2 == [f1 EXCEPT ![g].refcount = n]
  <1>1. Becomes(f1, frame, g, s, frame[g].refcount, frame[g].content)
    BY SetState
  <1>2. f1 \in [Frames -> FrameRec] /\ f1[g].state = s /\ f1[g].content = frame[g].content
    BY <1>1 DEF Becomes
  <1>3. Allocated(s, n) = f2
    BY DEF Allocated
  <1> HIDE DEF f1
  <1>4. Becomes(f2, f1, g, s, n, frame[g].content)
    BY <1>2, SetCount
  <1> QED  BY <1>1, <1>3, <1>4, BecomesTwice

-----------------------------------------------------------------------------
(***************************************************************************)
(* The actions.                                                            *)
(***************************************************************************)
LEMMA Basics ==
    ASSUME IInv
    PROVE  /\ freelist \in Seq(Frames) /\ pagelist \in Seq(Frames)
           /\ frame \in [Frames -> FrameRec] /\ pc \in [Threads -> PC]
           /\ fr \in [Threads -> Frames \cup {NoFrame}] /\ leaked \in [Frames -> Nat]
           /\ stacks \subseteq {mem_frame_to_pa(f) : f \in Frames}
           /\ Placed(freelist, Stacked, pagelist) /\ Stacked \subseteq Frames
           /\ \A f \in Frames : FrameOk(f) /\ CountOk(f)
           /\ \A t \in Threads : ThreadOk(t)
           /\ ~halted
  BY StackFrames DEF IInv, Types, Places, FramesOk, ThreadsOk, Counted, CountOk

LEMMA StackAllocKept ==
    ASSUME IInv, stack_alloc
    PROVE  IInv'
  <1> DEFINE g == Head(freelist)
  <1>1. /\ freelist # << >> /\ frame' = Allocated("KSTACK", 0) /\ freelist' = Tail(freelist)
        /\ stacks' = stacks \cup {mem_frame_to_pa(g)}
        /\ pagelist' = pagelist /\ pc' = pc /\ fr' = fr /\ leaked' = leaked /\ halted' = halted
    BY DEF stack_alloc
  <1>2. /\ freelist \in Seq(Frames) /\ pagelist \in Seq(Frames)
        /\ frame \in [Frames -> FrameRec] /\ pc \in [Threads -> PC]
        /\ fr \in [Threads -> Frames \cup {NoFrame}] /\ leaked \in [Frames -> Nat]
        /\ Placed(freelist, Stacked, pagelist)
        /\ stacks \subseteq {mem_frame_to_pa(f) : f \in Frames}
    BY Basics
  <1>3. /\ g \in Frames /\ freelist' \in Seq(Frames) /\ InQueue(g, freelist)
        /\ g \notin Stacked /\ ~InQueue(g, pagelist)
        /\ \A f : InQueue(f, freelist') <=> InQueue(f, freelist) /\ f # g
        /\ Placed(freelist', Stacked \cup {g}, pagelist)
    BY <1>1, <1>2, TakeFrame
  <1>4. PICK h \in Frames : h = g
    BY <1>3
  <1>5. Stacked' = Stacked \cup {h}
    <2>1. h \in Nat
      BY Sizes DEF Frames
    <2>2. mem_pa_to_frame(mem_frame_to_pa(h)) = h
      BY <2>1, FrameOfAddress
    <2>3. Stacked' = {mem_pa_to_frame(pa) : pa \in stacks \cup {mem_frame_to_pa(h)}}
      BY <1>1, <1>4 DEF Stacked
    <2>4. \A x : x \in Stacked' <=> x \in Stacked \/ x = h
      BY <2>2, <2>3, Zenon DEF Stacked
    <2> QED  BY <2>4
  <1>6. Becomes(frame', frame, h, "KSTACK", 0, frame[h].content)
    <2>1. "KSTACK" \in FrameState /\ 0 \in Int
      BY DEF FrameState
    <2> QED  BY <1>1, <1>2, <1>4, <2>1, AllocatedFrame
  <1>7. Types'
    <2>1. stacks' \subseteq {mem_frame_to_pa(f) : f \in Frames}
      BY <1>1, <1>2, <1>3
    <2> QED  BY <1>1, <1>2, <1>3, <1>6, <2>1 DEF Types, Becomes
  <1>8. Places' /\ ~halted'
    BY <1>1, <1>3, <1>4, <1>5, Basics DEF Places
  <1> HIDE DEF g
  <1>9. \A f \in Frames : f # h => Left(f)
    BY <1>1, <1>3, <1>4, <1>5, <1>6 DEF Left, Becomes
  <1>10. FrameOk(h)' /\ CountOk(h)'
    <2>1. leaked[h] = 0
      BY <1>3, <1>4, Basics DEF FrameOk
    <2> QED  BY <1>1, <1>3, <1>4, <1>5, <1>6, <2>1 DEF FrameOk, CountOk, Becomes
  <1>11. ASSUME NEW u \in Threads  PROVE  Bystander(u, h)
    <2>1. ThreadOk(u) /\ fr[u] # h
      BY <1>3, <1>4, <1>2, Basics, Sizes DEF ThreadOk
    <2> QED  BY <1>1, <2>1 DEF ThreadOk, Bystander, Drifts
  <1>12. NoThread \notin Threads
    BY PageCacheAssumption
  <1> QED  BY <1>7, <1>8, <1>9, <1>10, <1>11, <1>12, StepKept

LEMMA StackFreeKept ==
    ASSUME IInv, NEW pa \in stacks, stack_free(pa)
    PROVE  IInv'
  <1> DEFINE g == mem_pa_to_frame(pa)
  <1>1. /\ halted' = ~(frame[g].refcount = 0) /\ frame' = [frame EXCEPT ![g].state = "AVAIL"]
        /\ freelist' = Append(freelist, g) /\ stacks' = stacks \ {pa}
        /\ pc' = [t \in Threads |-> IF pc[t] = "sleep" THEN "alloc" ELSE pc[t]]
        /\ pagelist' = pagelist /\ fr' = fr /\ leaked' = leaked
    BY DEF stack_free, mem_free_frame, KASSERT
  <1>2. /\ freelist \in Seq(Frames) /\ pagelist \in Seq(Frames)
        /\ frame \in [Frames -> FrameRec] /\ pc \in [Threads -> PC]
        /\ fr \in [Threads -> Frames \cup {NoFrame}] /\ leaked \in [Frames -> Nat]
        /\ Placed(freelist, Stacked, pagelist)
        /\ stacks \subseteq {mem_frame_to_pa(f) : f \in Frames}
    BY Basics
  <1>3. g \in Frames /\ g \in Stacked
    <2>1. g \in Frames
      BY <1>2, StackFrames
    <2>2. g \in Stacked
      BY DEF Stacked
    <2> QED  BY <2>1, <2>2
  <1>4. FrameOk(g) /\ ~InQueue(g, pagelist)
    BY <1>2, <1>3, Basics DEF Placed
  <1>5. /\ freelist' \in Seq(Frames) /\ freelist' # << >>
        /\ \A f : InQueue(f, freelist') <=> InQueue(f, freelist) \/ f = g
        /\ Placed(freelist', Stacked \ {g}, pagelist)
    <2>1. freelist' = Append(freelist, g)
      BY <1>1
    <2>2. /\ freelist \in Seq(Frames) /\ pagelist \in Seq(Frames)
          /\ Placed(freelist, Stacked, pagelist)
      BY <1>2
    <2> HIDE DEF g
    <2> QED  BY <1>3, <2>1, <2>2, GiveFrame
  <1>6. Stacked' = Stacked \ {g}
    <2>1. \A x \in stacks : x = mem_frame_to_pa(mem_pa_to_frame(x))
      BY <1>2, StackFrames
    <2>2. \A x \in stacks : x = pa <=> mem_pa_to_frame(x) = g
      BY <2>1
    <2>3. Stacked' = {mem_pa_to_frame(x) : x \in stacks \ {pa}}
      BY <1>1 DEF Stacked
    <2>4. \A f : f \in Stacked' <=> f \in Stacked /\ f # g
      BY <2>2, <2>3, Zenon DEF Stacked
    <2> QED  BY <2>4
  <1>7. Becomes(frame', frame, g, "AVAIL", frame[g].refcount, frame[g].content)
    <2>1. "AVAIL" \in FrameState
      BY DEF FrameState
    <2> QED  BY <1>1, <1>2, <1>3, <2>1, SetState
  <1>8. \A u \in Threads : pc'[u] = IF pc[u] = "sleep" THEN "alloc" ELSE pc[u]
    BY <1>1
  <1>9. Types'
    <2>1. pc' \in [Threads -> PC]
      BY <1>1, <1>2 DEF PC
    <2> QED  BY <1>1, <1>2, <1>5, <1>7, <2>1 DEF Types, Becomes
  <1>10. frame[g].refcount = 0 /\ leaked[g] = 0
    BY <1>3, <1>4 DEF FrameOk
  <1>11. Places' /\ ~halted'
    BY <1>1, <1>5, <1>6, <1>10 DEF Places
  <1> HIDE DEF g
  <1>12. \A f \in Frames : f # g => Left(f)
    BY <1>1, <1>5, <1>6, <1>7 DEF Left, Becomes
  <1>13. FrameOk(g)' /\ CountOk(g)'
    <2>1. /\ frame'[g].state = "AVAIL" /\ frame'[g].refcount = 0 /\ leaked'[g] = 0
          /\ ~InQueue(g, pagelist') /\ g \notin Stacked'
      BY <1>1, <1>4, <1>6, <1>7, <1>10 DEF Becomes
    <2> QED  BY <2>1 DEF FrameOk, CountOk
  <1>14. ASSUME NEW u \in Threads  PROVE  Bystander(u, g)
    <2>1. ThreadOk(u) /\ fr[u] # g
      BY <1>2, <1>3, <1>4, Basics, Sizes DEF ThreadOk
    <2>2. fr' = fr
      BY <1>1
    <2> QED  BY <1>8, <2>1, <2>2 DEF Bystander, Drifts
  <1>15. NoThread \notin Threads
    BY PageCacheAssumption
  <1> QED  BY <1>3, <1>9, <1>11, <1>12, <1>13, <1>14, <1>15, StepKept

LEMMA CallKept ==
    ASSUME IInv, NEW t \in Threads, NEW p \in Pages, call_vm_lock_page(t, p)
    PROVE  IInv'
  <1>1. /\ pc[t] = "idle" /\ pc' = [pc EXCEPT ![t] = "lock"]
        /\ UNCHANGED << freelist, frame, pagelist, fr, leaked, stacks, halted >>
    BY DEF call_vm_lock_page
  <1>2. pc \in [Threads -> PC] /\ ThreadOk(t)
    BY Basics
  <1>3. fr[t] = NoFrame
    BY <1>1, <1>2 DEF ThreadOk
  <1>4. pc' \in [Threads -> PC] /\ pc'[t] = "lock" /\ \A u \in Threads : u # t => pc'[u] = pc[u]
    BY <1>1, <1>2 DEF PC
  <1> QED  BY <1>1, <1>3, <1>4, QuietKept

LEMMA MissKept ==
    ASSUME IInv, NEW t \in Threads, vm_lock_page_miss(t)
    PROVE  IInv'
  <1>1. /\ pc[t] = "lock" /\ pc' = [pc EXCEPT ![t] = "alloc"]
        /\ UNCHANGED << freelist, frame, pagelist, fr, leaked, stacks, halted >>
    BY DEF vm_lock_page_miss
  <1>2. pc \in [Threads -> PC] /\ ThreadOk(t)
    BY Basics
  <1>3. fr[t] = NoFrame
    BY <1>1, <1>2 DEF ThreadOk
  <1>4. pc' \in [Threads -> PC] /\ pc'[t] = "alloc" /\ \A u \in Threads : u # t => pc'[u] = pc[u]
    BY <1>1, <1>2 DEF PC
  <1> QED  BY <1>1, <1>3, <1>4, QuietKept

LEMMA FrameWaitKept ==
    ASSUME IInv, NEW t \in Threads, mem_alloc_frame_wait(t)
    PROVE  IInv'
  <1>1. /\ pc[t] = "alloc" /\ freelist = << >> /\ pc' = [pc EXCEPT ![t] = "sleep"]
        /\ UNCHANGED << freelist, frame, pagelist, fr, leaked, stacks, halted >>
    BY DEF mem_alloc_frame_wait
  <1>2. pc \in [Threads -> PC] /\ ThreadOk(t)
    BY Basics
  <1>3. fr[t] = NoFrame
    BY <1>1, <1>2 DEF ThreadOk
  <1>4. pc' \in [Threads -> PC] /\ pc'[t] = "sleep" /\ \A u \in Threads : u # t => pc'[u] = pc[u]
    BY <1>1, <1>2 DEF PC
  <1> QED  BY <1>1, <1>3, <1>4, QuietKept

\* Thread t goes to p and refers to frame g, and the others stay.
Goes(t, p, g) ==
    /\ pc' \in [Threads -> PC] /\ fr' \in [Threads -> Frames \cup {NoFrame}]
    /\ pc'[t] = p /\ fr'[t] = g
    /\ \A u \in Threads : u # t => pc'[u] = pc[u] /\ fr'[u] = fr[u]

LEMMA OneGoes ==
    ASSUME IInv, NEW t \in Threads, NEW p \in PC, NEW g \in Frames \cup {NoFrame},
           pc' = [pc EXCEPT ![t] = p], fr' = [fr EXCEPT ![t] = g]
    PROVE  Goes(t, p, g)
  <1>1. pc \in [Threads -> PC] /\ fr \in [Threads -> Frames \cup {NoFrame}]
    BY Basics
  <1> QED  BY <1>1 DEF Goes

\* Nobody refers to a frame that is not in the cache.
LEMMA NoUsers ==
    ASSUME IInv, NEW g \in Frames, ~InQueue(g, pagelist)
    PROVE  /\ \A u \in Threads : fr[u] # g
           /\ Cardinality(Users(fr, g)) = 0 /\ leaked[g] = 0
  <1>1. \A u \in Threads : fr[u] # g
    BY Basics, Sizes DEF ThreadOk
  <1>2. Users(fr, g) = {}
    BY <1>1 DEF Users
  <1>3. leaked[g] = 0
    BY Basics DEF FrameOk
  <1> QED  BY <1>1, <1>2, <1>3, FS_EmptySet

LEMMA PageInKept ==
    ASSUME IInv, NEW t \in Threads, vm_alloc_and_page_in(t)
    PROVE  IInv'
  <1>1. /\ pc[t] = "alloc" /\ freelist # << >> /\ freelist' = Tail(freelist)
        /\ frame' = [Allocated("VM_PGCACHE", 1)
                       EXCEPT ![Head(freelist)].content = "PENDING_INIT"]
        /\ pagelist' = Append(pagelist, Head(freelist))
        /\ pc' = [pc EXCEPT ![t] = "pagein"] /\ fr' = [fr EXCEPT ![t] = Head(freelist)]
        /\ leaked' = leaked /\ stacks' = stacks /\ halted' = halted
    BY DEF vm_alloc_and_page_in
  <1>2. /\ freelist \in Seq(Frames) /\ pagelist \in Seq(Frames)
        /\ frame \in [Frames -> FrameRec] /\ leaked \in [Frames -> Nat]
        /\ Placed(freelist, Stacked, pagelist) /\ ThreadOk(t) /\ ~halted
        /\ stacks \subseteq {mem_frame_to_pa(f) : f \in Frames}
    BY Basics
  <1>3. PICK g \in Frames : g = Head(freelist)
    BY <1>1, <1>2, RemoveFirstQueue
  <1>4. /\ freelist' \in Seq(Frames) /\ pagelist' \in Seq(Frames) /\ InQueue(g, freelist)
        /\ g \notin Stacked /\ ~InQueue(g, pagelist)
        /\ \A f : InQueue(f, freelist') <=> InQueue(f, freelist) /\ f # g
        /\ \A f : InQueue(f, pagelist') <=> InQueue(f, pagelist) \/ f = g
        /\ Placed(freelist', Stacked, pagelist')
    <2>1. freelist' = Tail(freelist) /\ pagelist' = Append(pagelist, g)
      BY <1>1, <1>3
    <2>2. /\ freelist \in Seq(Frames) /\ pagelist \in Seq(Frames) /\ freelist # << >>
          /\ Placed(freelist, Stacked, pagelist)
      BY <1>1, <1>2
    <2>3. /\ Tail(freelist) \in Seq(Frames) /\ Append(pagelist, Head(freelist)) \in Seq(Frames)
          /\ InQueue(Head(freelist), freelist)
          /\ Head(freelist) \notin Stacked /\ ~InQueue(Head(freelist), pagelist)
          /\ \A f : InQueue(f, Tail(freelist)) <=> InQueue(f, freelist) /\ f # Head(freelist)
          /\ \A f : InQueue(f, Append(pagelist, Head(freelist)))
                     <=> InQueue(f, pagelist) \/ f = Head(freelist)
          /\ Placed(Tail(freelist), Stacked, Append(pagelist, Head(freelist)))
      BY <2>2, TakeFrame
    <2> QED  BY <1>3, <2>1, <2>3
  <1>5. Becomes(frame', frame, g, "VM_PGCACHE", 1, "PENDING_INIT")
    <2> DEFINE fs == Allocated("VM_PGCACHE", 1)
    <2>1. Becomes(fs, frame, g, "VM_PGCACHE", 1, frame[g].content)
      <3>1. "VM_PGCACHE" \in FrameState /\ 1 \in Int
        BY DEF FrameState
      <3> QED  BY <1>2, <1>3, <3>1, AllocatedFrame
    <2>2. fs \in [Frames -> FrameRec] /\ fs[g].state = "VM_PGCACHE" /\ fs[g].refcount = 1
      BY <2>1 DEF Becomes
    <2>3. frame' = [fs EXCEPT ![g].content = "PENDING_INIT"]
      BY <1>1, <1>3
    <2> HIDE DEF fs
    <2>4. "PENDING_INIT" \in Content
      BY DEF Content
    <2>5. Becomes(frame', fs, g, "VM_PGCACHE", 1, "PENDING_INIT")
      BY <2>2, <2>3, <2>4, SetContent
    <2> QED  BY <2>1, <2>5, BecomesTwice
  <1>6. Goes(t, "pagein", g)
    <2>1. "pagein" \in PC /\ g \in Frames \cup {NoFrame}
      BY DEF PC
    <2>2. pc' = [pc EXCEPT ![t] = "pagein"] /\ fr' = [fr EXCEPT ![t] = g]
      BY <1>1, <1>3
    <2> QED  BY <2>1, <2>2, OneGoes
  <1>7. Stacked' = Stacked
    BY <1>1 DEF Stacked
  <1>8. Types' /\ Places' /\ ~halted'
    <2>1. leaked' = leaked /\ stacks' = stacks /\ halted' = halted
      BY <1>1
    <2>2. Types'
      BY <1>2, <1>4, <1>5, <1>6, <2>1 DEF Types, Becomes, Goes
    <2> QED  BY <1>2, <1>4, <1>7, <2>1, <2>2 DEF Places
  <1>9. fr[t] = NoFrame
    BY <1>1, <1>2 DEF ThreadOk
  <1>10. Moved(fr', fr, t, g)
    BY <1>6, UsersMove DEF Goes
  <1>11. \A u \in Threads : fr[u] # g
    BY <1>4, NoUsers
  <1>12. \A f \in Frames : f # g => Left(f)
    <2> TAKE f \in Frames
    <2> HAVE f # g
    <2>1. f # NoFrame
      BY Sizes
    <2>2. Cardinality(Users(fr', f)) = Cardinality(Users(fr, f))
      BY <1>9, <1>10, <2>1 DEF Moved
    <2>3. leaked' = leaked
      BY <1>1
    <2> QED  BY <1>4, <1>5, <1>7, <2>2, <2>3 DEF Left, Becomes
  <1>13. leaked[g] = 0 /\ Cardinality(Users(fr', g)) = 1
    <2>1. Cardinality(Users(fr, g)) = 0 /\ leaked[g] = 0
      BY <1>4, NoUsers
    <2>2. g # NoFrame
      BY Sizes
    <2> QED  BY <1>9, <1>10, <2>1, <2>2 DEF Moved
  <1>14. FrameOk(g)' /\ CountOk(g)'
    <2>1. leaked' = leaked
      BY <1>1
    <2> QED  BY <1>4, <1>5, <1>7, <1>13, <2>1 DEF FrameOk, CountOk, Becomes
  <1>15. ThreadOk(t)'
    <2>1. g # NoFrame
      BY Sizes
    <2> QED  BY <1>4, <1>5, <1>6, <2>1 DEF ThreadOk, Goes, Becomes
  <1>16. ASSUME NEW u \in Threads, u # t  PROVE  Bystander(u, g)
    <2>1. fr'[u] = fr[u] /\ pc'[u] = pc[u]
      BY <1>6, <1>16 DEF Goes
    <2>2. pc[u] # "sleep"
      BY <1>1, Basics DEF ThreadOk
    <2> QED  BY <1>11, <2>1, <2>2 DEF Bystander, Drifts
  <1>17. fr'[t] = g
    BY <1>6 DEF Goes
  <1> QED  BY <1>8, <1>11, <1>12, <1>14, <1>15, <1>16, <1>17, StepKept

(***************************************************************************)
(* vm_release_frame_ref for a page that failed to come in, called by       *)
(* thread t, which refers to no frame afterwards.                          *)
(***************************************************************************)
LEMMA ReleaseKept ==
    ASSUME IInv, NEW t \in Threads, NEW f \in Frames, InQueue(f, pagelist), leaked[f] = 0,
           NEW fs, NEW n \in Int, Becomes(fs, frame, f, "VM_PGCACHE", n, "FAILED_INIT"),
           n = Cardinality(Users(fr', f)) + 1,
           NEW ready \in [Threads -> PC], ready[t] = "idle",
           \A u \in Threads : u # t =>
               /\ Drifts(pc[u], ready[u]) /\ fr'[u] = fr[u]
               /\ fr[u] = f => pc[u] \notin {"holds", "pagein"},
           fr' \in [Threads -> Frames \cup {NoFrame}], fr'[t] = NoFrame,
           \A h \in Frames : h # f => Cardinality(Users(fr', h)) = Cardinality(Users(fr, h)),
           vm_release_frame_ref(fs, f, ready), leaked' = leaked, stacks' = stacks
    PROVE  IInv'
  <1> DEFINE gs == [fs EXCEPT ![f].refcount = fs[f].refcount - 1]
             k == Cardinality(Users(fr', f))
  <1>1. /\ fs \in [Frames -> FrameRec] /\ fs[f].state = "VM_PGCACHE" /\ fs[f].refcount = n
        /\ fs[f].content = "FAILED_INIT"
    BY DEF Becomes
  <1>2. k \in Nat /\ n = k + 1
    BY UsersFinite
  <1>3. Becomes(gs, frame, f, "VM_PGCACHE", k, "FAILED_INIT")
    <2>1. n - 1 = k /\ n - 1 \in Int
      BY <1>2
    <2>2. Becomes(gs, fs, f, "VM_PGCACHE", k, "FAILED_INIT")
      BY <1>1, <2>1, SetCount
    <2> QED  BY <2>2, BecomesTwice
  <1>4. /\ gs \in [Frames -> FrameRec] /\ gs[f].state = "VM_PGCACHE" /\ gs[f].refcount = k
        /\ gs[f].content = "FAILED_INIT"
    BY <1>3 DEF Becomes
  <1>5. ~halted'
    <2>1. halted' = ~(fs[f].refcount > 0 /\ fs[f].content # "PENDING_INIT")
      BY DEF vm_release_frame_ref, KASSERT
    <2>2. fs[f].refcount > 0
      BY <1>1, <1>2
    <2> QED  BY <1>1, <2>1, <2>2
  <1>6. /\ freelist \in Seq(Frames) /\ pagelist \in Seq(Frames) /\ pc \in [Threads -> PC]
        /\ leaked \in [Frames -> Nat] /\ Placed(freelist, Stacked, pagelist) /\ ~halted
        /\ stacks \subseteq {mem_frame_to_pa(h) : h \in Frames}
    BY Basics
  <1>7. Stacked' = Stacked
    BY DEF Stacked
  <1>8. f \notin Stacked /\ ~InQueue(f, freelist)
    BY <1>6 DEF Placed
  <1>9. CASE k = 0
    <2>1. /\ pagelist' = RemoveFirst(pagelist, f) /\ freelist' = Append(freelist, f)
          /\ frame' = [gs EXCEPT ![f].state = "AVAIL"]
          /\ pc' = [u \in Threads |-> IF ready[u] = "sleep" THEN "alloc" ELSE ready[u]]
      BY <1>4, <1>9 DEF vm_release_frame_ref, mem_free_frame
    <2> HIDE DEF gs
    <2>2. Becomes(frame', frame, f, "AVAIL", 0, "FAILED_INIT")
      <3>1. "AVAIL" \in FrameState
        BY DEF FrameState
      <3>2. Becomes(frame', gs, f, "AVAIL", 0, "FAILED_INIT")
        BY <1>4, <1>9, <2>1, <3>1, SetState
      <3> QED  BY <1>3, <3>2, BecomesTwice
    <2>3. /\ freelist' \in Seq(Frames) /\ freelist' # << >>
          /\ \A h : InQueue(h, freelist') <=> InQueue(h, freelist) \/ h = f
          /\ pagelist' \in Seq(Frames)
          /\ \A h : InQueue(h, pagelist') <=> InQueue(h, pagelist) /\ h # f
          /\ Placed(freelist', Stacked, pagelist')
      <3>1. pagelist' = RemoveFirst(pagelist, f) /\ freelist' = Append(freelist, f)
        BY <2>1
      <3>2. /\ Append(freelist, f) \in Seq(Frames) /\ Append(freelist, f) # << >>
            /\ \A h : InQueue(h, Append(freelist, f)) <=> InQueue(h, freelist) \/ h = f
            /\ RemoveFirst(pagelist, f) \in Seq(Frames)
            /\ \A h : InQueue(h, RemoveFirst(pagelist, f)) <=> InQueue(h, pagelist) /\ h # f
            /\ Placed(Append(freelist, f), Stacked, RemoveFirst(pagelist, f))
        BY <1>6, GiveFrame
      <3> QED  BY <3>1, <3>2
    <2>4. \A u \in Threads : pc'[u] = IF ready[u] = "sleep" THEN "alloc" ELSE ready[u]
      BY <2>1
    <2>5. Types' /\ Places'
      <3>1. pc' \in [Threads -> PC]
        BY <2>1 DEF PC
      <3>2. Types'
        BY <1>6, <2>2, <2>3, <3>1 DEF Types, Becomes
      <3> QED  BY <1>7, <2>3, <3>2 DEF Places
    <2>6. \A h \in Frames : h # f => Left(h)
      BY <1>7, <2>2, <2>3 DEF Left, Becomes
    <2>7. FrameOk(f)' /\ CountOk(f)'
      BY <1>7, <1>8, <2>2, <2>3 DEF FrameOk, CountOk, Becomes
    <2>8. ThreadOk(t)' /\ pc'[t] # "pagein"
      BY <2>4 DEF ThreadOk
    <2>9. ASSUME NEW u \in Threads, u # t  PROVE  Bystander(u, f)
      <3>1. fr'[u] # f
        <4>1. fr'[u] = f => k > 0
          BY UsersFinite
        <4> QED  BY <1>9, <4>1
      <3>2. fr'[u] = fr[u] /\ Drifts(pc[u], pc'[u]) /\ pc'[u] # "sleep"
        BY <2>4, <2>9 DEF Drifts
      <3> QED  BY <3>1, <3>2 DEF Bystander
    <2> QED  BY <1>5, <2>5, <2>6, <2>7, <2>8, <2>9, StepKept
  <1>10. CASE k # 0
    <2>1. frame' = gs /\ pc' = ready /\ pagelist' = pagelist /\ freelist' = freelist
      BY <1>4, <1>10 DEF vm_release_frame_ref
    <2> HIDE DEF gs
    <2>2. Becomes(frame', frame, f, "VM_PGCACHE", k, "FAILED_INIT")
      BY <1>3, <2>1
    <2>3. Types' /\ Places'
      <3>1. Types'
        BY <1>6, <2>1, <2>2 DEF Types, Becomes
      <3> QED  BY <1>6, <1>7, <2>1, <3>1 DEF Places
    <2>4. \A h \in Frames : h # f => Left(h)
      BY <1>7, <2>1, <2>2 DEF Left, Becomes
    <2>5. FrameOk(f)' /\ CountOk(f)'
      BY <1>2, <1>7, <1>8, <1>10, <2>1, <2>2 DEF FrameOk, CountOk, Becomes
    <2>6. ThreadOk(t)' /\ pc'[t] # "pagein"
      BY <2>1 DEF ThreadOk
    <2>7. ASSUME NEW u \in Threads, u # t  PROVE  Bystander(u, f)
      <3>1. fr'[u] = fr[u] /\ Drifts(pc[u], pc'[u]) /\ InQueue(f, pagelist')
            /\ (fr[u] = f => pc[u] \notin {"holds", "pagein"})
        BY <2>1, <2>7
      <3>2. pc'[u] = "sleep" => freelist' = << >>
        <4>1. pc'[u] = "sleep" => pc[u] = "sleep"
          BY <3>1 DEF Drifts
        <4>2. pc[u] = "sleep" => freelist = << >>
          BY Basics DEF ThreadOk
        <4> QED  BY <2>1, <4>1, <4>2
      <3> QED  BY <3>1, <3>2 DEF Bystander
    <2> QED  BY <1>5, <2>3, <2>4, <2>5, <2>6, <2>7, StepKept
  <1> QED  BY <1>9, <1>10

\* Thread t begins or ends using frame f of the cache.
LEMMA UseKept ==
    ASSUME IInv, NEW t \in Threads, NEW f \in Frames, InQueue(f, pagelist),
           NEW n \in Int, NEW c \in Content,
           Becomes(frame', frame, f, "VM_PGCACHE", n, c),
           pc' \in [Threads -> PC], fr' \in [Threads -> Frames \cup {NoFrame}],
           fr[t] \in {f, NoFrame}, fr'[t] \in {f, NoFrame},
           \A u \in Threads : u # t =>
               /\ Drifts(pc[u], pc'[u]) /\ fr'[u] = fr[u]
               /\ fr[u] = f => /\ pc[u] = "holds" => c = "CLEAN"
                               /\ pc[u] = "pagein" => c = "PENDING_INIT",
           leaked' \in [Frames -> Nat], \A h \in Frames : h # f => leaked'[h] = leaked[h],
           leaked'[f] # 0 => c = "CLEAN", c = "FAILED_INIT" => n > 0,
           n = Cardinality(Users(fr', f)) + leaked'[f],
           pc'[t] # "pagein", ThreadOk(t)', ~halted',
           freelist' = freelist, pagelist' = pagelist, stacks' = stacks
    PROVE  IInv'
  <1>1. /\ freelist \in Seq(Frames) /\ pagelist \in Seq(Frames)
        /\ Placed(freelist, Stacked, pagelist)
        /\ stacks \subseteq {mem_frame_to_pa(h) : h \in Frames}
    BY Basics
  <1>2. Stacked' = Stacked
    BY DEF Stacked
  <1>3. Types' /\ Places'
    <2>1. frame' \in [Frames -> FrameRec]
      BY DEF Becomes
    <2>2. Types'
      BY <1>1, <2>1 DEF Types
    <2> QED  BY <1>1, <1>2, <2>2 DEF Places
  <1>4. f \notin Stacked /\ ~InQueue(f, freelist)
    BY <1>1 DEF Placed
  <1>5. Moved(fr', fr, t, fr'[t])
    BY UsersMove
  <1>6. ASSUME NEW h \in Frames, h # f  PROVE  Left(h)
    <2>1. h # fr'[t] /\ h # fr[t]
      BY <1>6, Sizes
    <2>2. Cardinality(Users(fr', h)) = Cardinality(Users(fr, h))
      BY <1>5, <2>1 DEF Moved
    <2> QED  BY <1>2, <1>6, <2>2 DEF Left, Becomes
  <1>7. FrameOk(f)' /\ CountOk(f)'
    BY <1>2, <1>4 DEF FrameOk, CountOk, Becomes
  <1>8. ASSUME NEW u \in Threads, u # t  PROVE  Bystander(u, f)
    <2>1. /\ fr'[u] = fr[u] /\ Drifts(pc[u], pc'[u]) /\ InQueue(f, pagelist')
          /\ fr[u] = f => /\ pc[u] = "holds" => c = "CLEAN"
                          /\ pc[u] = "pagein" => c = "PENDING_INIT"
          /\ frame'[f].content = c
      BY <1>8 DEF Becomes
    <2>2. pc'[u] = "sleep" => freelist' = << >>
      <3>1. pc'[u] = "sleep" => pc[u] = "sleep"
        BY <2>1 DEF Drifts
      <3>2. pc[u] = "sleep" => freelist = << >>
        BY Basics DEF ThreadOk
      <3> QED  BY <3>1, <3>2
    <2> QED  BY <2>1, <2>2 DEF Bystander
  <1> QED  BY <1>3, <1>6, <1>7, <1>8, StepKept

(***************************************************************************)
(* The tail of vm_lock_page, for a thread that has the page counted.       *)
(***************************************************************************)
LEMMA FoundKept ==
    ASSUME IInv, NEW t \in Threads, NEW f \in Frames, InQueue(f, pagelist), NEW n \in Int,
           NEW fs, Becomes(fs, frame, f, "VM_PGCACHE", n, frame[f].content),
           fr[t] \in {f, NoFrame},
           fr[t] = f => n = Cardinality(Users(fr, f)) + leaked[f],
           fr[t] = NoFrame => n = Cardinality(Users(fr, f)) + leaked[f] + 1,
           Found(t, f, fs), stacks' = stacks
    PROVE  IInv'
  <1> DEFINE k == Cardinality(Users(fr, f))
  <1>1. /\ pc \in [Threads -> PC] /\ fr \in [Threads -> Frames \cup {NoFrame}]
        /\ leaked \in [Frames -> Nat] /\ ~halted /\ FrameOk(f)
        /\ frame \in [Frames -> FrameRec]
    BY Basics
  <1>2. /\ fs[f].content = frame[f].content /\ fs[f].refcount = n /\ frame[f].content \in Content
    BY <1>1, FrameFields DEF Becomes
  <1>3. f # NoFrame /\ k \in Nat /\ leaked[f] \in Nat
    BY <1>1, Sizes, UsersFinite
  <1>4. ASSUME NEW u \in Threads, fr[u] = f
        PROVE  /\ pc[u] = "holds" => frame[f].content = "CLEAN"
               /\ pc[u] = "pagein" => frame[f].content = "PENDING_INIT"
    BY <1>4, Basics DEF ThreadOk
  <1>5. f \in Frames \cup {NoFrame} /\ NoFrame \in Frames \cup {NoFrame}
    OBVIOUS
  <1>6. ASSUME Goes(t, "wait", f) \/ Goes(t, "holds", f)
        PROVE  n = Cardinality(Users(fr', f)) + leaked[f]
    <2>1. fr'[t] = f /\ \A u \in Threads : u # t => fr'[u] = fr[u]
      BY <1>6 DEF Goes
    <2>2. Moved(fr', fr, t, f)
      BY <2>1, UsersMove
    <2>3. CASE fr[t] = f
      BY <2>2, <2>3 DEF Moved
    <2>4. CASE fr[t] = NoFrame
      BY <1>3, <2>2, <2>4 DEF Moved
    <2> QED  BY <2>3, <2>4
  <1>7. ASSUME Goes(t, "idle", NoFrame) \/ fr' = [fr EXCEPT ![t] = NoFrame]
        PROVE  /\ n = Cardinality(Users(fr', f)) + leaked[f] + 1
               /\ \A h \in Frames : h # f => Cardinality(Users(fr', h)) = Cardinality(Users(fr, h))
    <2>1. fr'[t] = NoFrame /\ \A u \in Threads : u # t => fr'[u] = fr[u]
      BY <1>1, <1>7 DEF Goes
    <2>2. Moved(fr', fr, t, NoFrame)
      BY <2>1, UsersMove
    <2>3. CASE fr[t] = f
      <3>1. Cardinality(Users(fr', f)) = k - 1
        BY <1>3, <2>2, <2>3 DEF Moved
      <3>2. n = Cardinality(Users(fr', f)) + leaked[f] + 1
        BY <1>3, <2>3, <3>1
      <3>3. \A h \in Frames : h # f => Cardinality(Users(fr', h)) = Cardinality(Users(fr, h))
        BY <2>2, <2>3, Sizes DEF Moved
      <3> QED  BY <3>2, <3>3
    <2>4. CASE fr[t] = NoFrame
      BY <1>3, <2>2, <2>4 DEF Moved
    <2> QED  BY <2>3, <2>4
  <1>8. CASE fs[f].content = "PENDING_INIT"
    <2>1. /\ frame' = fs /\ pc' = [pc EXCEPT ![t] = "wait"] /\ fr' = [fr EXCEPT ![t] = f]
          /\ freelist' = freelist /\ pagelist' = pagelist /\ leaked' = leaked /\ halted' = halted
      BY <1>8 DEF Found
    <2>2. Goes(t, "wait", f)
      <3>1. "wait" \in PC
        BY DEF PC
      <3> QED  BY <1>5, <2>1, <3>1, OneGoes
    <2>3. n = Cardinality(Users(fr', f)) + leaked[f]
      BY <1>6, <2>2
    <2>4. /\ frame[f].content = "PENDING_INIT"
          /\ Becomes(frame', frame, f, "VM_PGCACHE", n, frame[f].content)
      BY <1>2, <1>8, <2>1
    <2>5. leaked[f] = 0
      BY <1>1, <2>4 DEF FrameOk
    <2>6. freelist' = freelist /\ pagelist' = pagelist /\ leaked' = leaked /\ ~halted'
      BY <1>1, <2>1
    <2>7. /\ pc' \in [Threads -> PC] /\ fr' \in [Threads -> Frames \cup {NoFrame}]
          /\ pc'[t] = "wait" /\ fr'[t] = f
          /\ \A u \in Threads : u # t => Drifts(pc[u], pc'[u]) /\ fr'[u] = fr[u]
      BY <2>2 DEF Goes, Drifts
    <2>8. ThreadOk(t)'
      BY <1>3, <2>6, <2>7 DEF ThreadOk
    <2> HIDE DEF k
    <2> QED  BY <1>1, <1>2, <1>4, <2>3, <2>4, <2>5, <2>6, <2>7, <2>8, UseKept
  <1>9. CASE fs[f].content = "FAILED_INIT"
    <2> DEFINE ready == [pc EXCEPT ![t] = "idle"]
    <2>1. /\ vm_release_frame_ref(fs, f, ready) /\ fr' = [fr EXCEPT ![t] = NoFrame]
          /\ leaked' = leaked
      BY <1>9 DEF Found
    <2>2. /\ ready \in [Threads -> PC] /\ ready[t] = "idle"
          /\ \A u \in Threads : u # t => ready[u] = pc[u]
      BY <1>1 DEF PC
    <2>3. /\ fr' \in [Threads -> Frames \cup {NoFrame}] /\ fr'[t] = NoFrame
          /\ \A u \in Threads : u # t => fr'[u] = fr[u]
      BY <1>1, <2>1
    <2>4. frame[f].content = "FAILED_INIT" /\ leaked[f] = 0
      BY <1>1, <1>2, <1>9 DEF FrameOk
    <2>5. /\ n = Cardinality(Users(fr', f)) + 1
          /\ \A h \in Frames : h # f => Cardinality(Users(fr', h)) = Cardinality(Users(fr, h))
      <3>1. /\ n = Cardinality(Users(fr', f)) + leaked[f] + 1
            /\ \A h \in Frames : h # f => Cardinality(Users(fr', h)) = Cardinality(Users(fr, h))
        BY <1>7, <2>1
      <3>2. Cardinality(Users(fr', f)) \in Nat
        BY UsersFinite
      <3> QED  BY <2>4, <3>1, <3>2
    <2>6. \A u \in Threads : u # t =>
              /\ Drifts(pc[u], ready[u]) /\ fr'[u] = fr[u]
              /\ fr[u] = f => pc[u] \notin {"holds", "pagein"}
      BY <1>4, <2>2, <2>3, <2>4 DEF Drifts
    <2>7. Becomes(fs, frame, f, "VM_PGCACHE", n, "FAILED_INIT")
      BY <2>4
    <2>8. vm_release_frame_ref(fs, f, ready) /\ leaked' = leaked
      BY <2>1
    <2>9. leaked[f] = 0
      BY <2>4
    <2>10. ready \in [Threads -> PC] /\ ready[t] = "idle"
      BY <2>2
    <2>11. fr' \in [Threads -> Frames \cup {NoFrame}] /\ fr'[t] = NoFrame
      BY <2>3
    <2> HIDE DEF ready, k
    <2> QED  BY <2>5, <2>6, <2>7, <2>8, <2>9, <2>10, <2>11, ReleaseKept
  <1>10. CASE fs[f].content = "CLEAN"
    <2>1. /\ frame' = fs
          /\ freelist' = freelist /\ pagelist' = pagelist /\ ~halted'
      BY <1>1, <1>10 DEF Found
    <2>2. /\ frame[f].content = "CLEAN"
          /\ Becomes(frame', frame, f, "VM_PGCACHE", n, frame[f].content)
      BY <1>2, <1>10, <2>1
    <2>3. "idle" \in PC /\ "holds" \in PC
      BY DEF PC
    <2>4. CASE /\ pc' = [pc EXCEPT ![t] = "holds"] /\ fr' = [fr EXCEPT ![t] = f]
               /\ leaked' = leaked
      <3>1. Goes(t, "holds", f)
        BY <1>5, <2>3, <2>4, OneGoes
      <3>2. n = Cardinality(Users(fr', f)) + leaked[f]
        BY <1>6, <3>1
      <3>3. /\ pc' \in [Threads -> PC] /\ fr' \in [Threads -> Frames \cup {NoFrame}]
            /\ pc'[t] = "holds" /\ fr'[t] = f
            /\ \A u \in Threads : u # t => Drifts(pc[u], pc'[u]) /\ fr'[u] = fr[u]
        BY <3>1 DEF Goes, Drifts
      <3>4. frame'[f].content = "CLEAN"
        BY <2>2 DEF Becomes
      <3>5. ThreadOk(t)'
        BY <1>3, <2>1, <3>3, <3>4 DEF ThreadOk
      <3>6. leaked' = leaked
        BY <2>4
      <3>7. freelist' = freelist /\ pagelist' = pagelist /\ ~halted'
        BY <2>1
      <3> HIDE DEF k
      <3> QED  BY <1>1, <1>2, <1>4, <2>2, <3>2, <3>3, <3>5, <3>6, <3>7, UseKept
    <2>5. CASE /\ pc' = [pc EXCEPT ![t] = "idle"] /\ fr' = [fr EXCEPT ![t] = NoFrame]
               /\ leaked' = [leaked EXCEPT ![f] = leaked[f] + 1]
      <3>1. Goes(t, "idle", NoFrame)
        BY <1>5, <2>3, <2>5, OneGoes
      <3>2. n = Cardinality(Users(fr', f)) + leaked[f] + 1
        BY <1>7, <3>1
      <3>3. /\ pc' \in [Threads -> PC] /\ fr' \in [Threads -> Frames \cup {NoFrame}]
            /\ pc'[t] = "idle" /\ fr'[t] = NoFrame
            /\ \A u \in Threads : u # t => Drifts(pc[u], pc'[u]) /\ fr'[u] = fr[u]
        BY <3>1 DEF Goes, Drifts
      <3>4. /\ leaked' \in [Frames -> Nat] /\ leaked'[f] = leaked[f] + 1
            /\ \A h \in Frames : h # f => leaked'[h] = leaked[h]
        BY <1>1, <1>3, <2>5
      <3>5. ThreadOk(t)'
        BY <3>3 DEF ThreadOk
      <3>6. n = Cardinality(Users(fr', f)) + leaked'[f]
        <4>1. Cardinality(Users(fr', f)) \in Nat
          BY UsersFinite
        <4> QED  BY <1>3, <3>2, <3>4, <4>1
      <3>7. freelist' = freelist /\ pagelist' = pagelist /\ ~halted'
        BY <2>1
      <3> HIDE DEF k
      <3> QED  BY <1>2, <1>4, <2>2, <3>3, <3>4, <3>5, <3>6, <3>7, UseKept
    <2> QED  BY <1>10, <2>4, <2>5 DEF Found
  <1> QED  BY <1>2, <1>8, <1>9, <1>10 DEF Content

LEMMA HitKept ==
    ASSUME IInv, NEW t \in Threads, vm_lock_page_hit(t)
    PROVE  IInv'
  <1>1. /\ pc[t] = "lock" /\ Hits(page[t]) # {} /\ stacks' = stacks
        /\ LET f == pagelist[Min(Hits(page[t]))]
           IN Found(t, f, [frame EXCEPT ![f].refcount = @ + 1])
    BY DEF vm_lock_page_hit
  <1>2. /\ pagelist \in Seq(Frames) /\ frame \in [Frames -> FrameRec]
        /\ leaked \in [Frames -> Nat]
    BY Basics
  <1>3. PICK i \in DOMAIN pagelist : i = Min(Hits(page[t]))
    <2>1. Hits(page[t]) \subseteq DOMAIN pagelist /\ DOMAIN pagelist \subseteq Nat
      BY <1>2 DEF Hits
    <2>2. Min(Hits(page[t])) \in Hits(page[t])
      BY <1>1, <2>1, MinNat
    <2> QED  BY <2>1, <2>2
  <1>4. PICK f \in Frames : f = pagelist[i]
    BY <1>2, <1>3
  <1>5. InQueue(f, pagelist)
    BY <1>2, <1>3, <1>4, SMTT(40) DEF InQueue
  <1>6. PICK n \in Int : n = frame[f].refcount + 1
    BY <1>2, FrameFields
  <1>7. PICK fs : fs = [frame EXCEPT ![f].refcount = n]
    OBVIOUS
  <1>8. Found(t, f, fs)
    BY <1>1, <1>3, <1>4, <1>6, <1>7
  <1>9. FrameOk(f) /\ CountOk(f) /\ ThreadOk(t)
    BY Basics
  <1>10. Becomes(fs, frame, f, "VM_PGCACHE", n, frame[f].content)
    <2>1. frame[f].state = "VM_PGCACHE"
      BY <1>5, <1>9 DEF FrameOk
    <2> QED  BY <1>2, <1>7, <2>1, SetCount
  <1>11. fr[t] = NoFrame /\ NoFrame # f
    BY <1>1, <1>9, Sizes DEF ThreadOk
  <1>12. n = Cardinality(Users(fr, f)) + leaked[f] + 1
    BY <1>5, <1>6, <1>9 DEF CountOk
  <1>13. stacks' = stacks
    BY <1>1
  <1> QED  BY <1>5, <1>8, <1>10, <1>11, <1>12, <1>13, FoundKept

LEMMA WokenKept ==
    ASSUME IInv, NEW t \in Threads, cond_wait_returns(t)
    PROVE  IInv'
  <1>1. pc[t] = "woken" /\ stacks' = stacks /\ Found(t, fr[t], frame)
    BY DEF cond_wait_returns
  <1>2. /\ frame \in [Frames -> FrameRec] /\ fr \in [Threads -> Frames \cup {NoFrame}]
        /\ ThreadOk(t)
    BY Basics
  <1>3. PICK f \in Frames : f = fr[t]
    BY <1>1, <1>2 DEF ThreadOk
  <1>4. f # NoFrame
    BY Sizes
  <1>5. InQueue(f, pagelist)
    BY <1>2, <1>3, <1>4 DEF ThreadOk
  <1>6. FrameOk(f) /\ CountOk(f)
    BY Basics
  <1>7. PICK n \in Int : n = frame[f].refcount
    BY <1>2, FrameFields
  <1>8. Becomes(frame, frame, f, "VM_PGCACHE", n, frame[f].content)
    BY <1>2, <1>5, <1>6, <1>7 DEF FrameOk, Becomes
  <1>9. n = Cardinality(Users(fr, f)) + leaked[f]
    BY <1>5, <1>6, <1>7 DEF CountOk
  <1>10. Found(t, f, frame) /\ stacks' = stacks
    BY <1>1, <1>3
  <1>11. fr[t] = f
    BY <1>3
  <1> QED  BY <1>4, <1>5, <1>8, <1>9, <1>10, <1>11, FoundKept

\* The thread that reads a page is the only one, and nobody has locked it.
LEMMA Reading ==
    ASSUME IInv, NEW t \in Threads, pc[t] = "pagein"
    PROVE  \E f \in Frames :
              /\ f = fr[t] /\ f # NoFrame /\ InQueue(f, pagelist)
              /\ frame[f].state = "VM_PGCACHE" /\ frame[f].content = "PENDING_INIT"
              /\ leaked[f] = 0 /\ frame[f].refcount = Cardinality(Users(fr, f))
              /\ \A u \in Threads : u # t /\ fr[u] = f => pc[u] \notin {"holds", "pagein"}
  <1>1. /\ fr \in [Threads -> Frames \cup {NoFrame}] /\ ThreadOk(t)
        /\ leaked \in [Frames -> Nat]
    BY Basics
  <1>2. PICK f \in Frames : f = fr[t]
    BY <1>1 DEF ThreadOk
  <1>3. f # NoFrame
    BY Sizes
  <1>4. InQueue(f, pagelist) /\ frame[f].content = "PENDING_INIT"
    BY <1>1, <1>2, <1>3 DEF ThreadOk
  <1>5. FrameOk(f) /\ CountOk(f)
    BY Basics
  <1>6. frame[f].state = "VM_PGCACHE" /\ leaked[f] = 0
    BY <1>4, <1>5 DEF FrameOk
  <1>7. frame[f].refcount = Cardinality(Users(fr, f))
    <2>1. Cardinality(Users(fr, f)) \in Nat
      BY UsersFinite
    <2> QED  BY <1>4, <1>5, <1>6, <2>1 DEF CountOk
  <1>8. ASSUME NEW u \in Threads, u # t, fr[u] = f  PROVE  pc[u] \notin {"holds", "pagein"}
    <2>1. ThreadOk(u) /\ OneReader
      BY Basics DEF IInv
    <2>2. pc[u] # "holds"
      BY <1>4, <1>8, <2>1 DEF ThreadOk
    <2>3. pc[u] # "pagein"
      BY <1>2, <1>8, <2>1 DEF OneReader
    <2> QED  BY <2>2, <2>3
  <1> QED  BY <1>2, <1>3, <1>4, <1>6, <1>7, <1>8

LEMMA PageinFailedKept ==
    ASSUME IInv, NEW t \in Threads, vm_pagein_failed(t)
    PROVE  IInv'
  <1>1. /\ pc[t] = "pagein" /\ fr' = [fr EXCEPT ![t] = NoFrame]
        /\ leaked' = leaked /\ stacks' = stacks
        /\ vm_release_frame_ref([frame EXCEPT ![fr[t]].content = "FAILED_INIT"],
                                fr[t], Broadcast([pc EXCEPT ![t] = "idle"]))
    BY DEF vm_pagein_failed
  <1>2. PICK f \in Frames :
              /\ f = fr[t] /\ f # NoFrame /\ InQueue(f, pagelist)
              /\ frame[f].state = "VM_PGCACHE" /\ frame[f].content = "PENDING_INIT"
              /\ leaked[f] = 0 /\ frame[f].refcount = Cardinality(Users(fr, f))
              /\ \A u \in Threads : u # t /\ fr[u] = f => pc[u] \notin {"holds", "pagein"}
    BY <1>1, Reading
  <1>3. /\ pc \in [Threads -> PC] /\ fr \in [Threads -> Frames \cup {NoFrame}]
        /\ frame \in [Frames -> FrameRec]
    BY Basics
  <1>4. PICK n \in Int : n = frame[f].refcount
    BY <1>3, FrameFields
  <1>5. PICK fs : fs = [frame EXCEPT ![f].content = "FAILED_INIT"]
    OBVIOUS
  <1>6. PICK ready : ready = Broadcast([pc EXCEPT ![t] = "idle"])
    OBVIOUS
  <1>7. vm_release_frame_ref(fs, f, ready) /\ leaked' = leaked /\ stacks' = stacks
    BY <1>1, <1>2, <1>5, <1>6
  <1>8. Becomes(fs, frame, f, "VM_PGCACHE", n, "FAILED_INIT")
    <2>1. "FAILED_INIT" \in Content
      BY DEF Content
    <2> QED  BY <1>2, <1>3, <1>4, <1>5, <2>1, SetContent
  <1>9. /\ fr' \in [Threads -> Frames \cup {NoFrame}] /\ fr'[t] = NoFrame
        /\ \A u \in Threads : u # t => fr'[u] = fr[u]
    BY <1>1, <1>3
  <1>10. /\ n = Cardinality(Users(fr', f)) + 1
         /\ \A h \in Frames : h # f => Cardinality(Users(fr', h)) = Cardinality(Users(fr, h))
    <2>1. Moved(fr', fr, t, NoFrame)
      BY <1>9, UsersMove
    <2>2. Cardinality(Users(fr', f)) = Cardinality(Users(fr, f)) - 1
      BY <1>2, <2>1 DEF Moved
    <2>3. Cardinality(Users(fr, f)) \in Nat
      BY UsersFinite
    <2>4. \A h \in Frames : h # f => Cardinality(Users(fr', h)) = Cardinality(Users(fr, h))
      BY <1>2, <2>1, Sizes DEF Moved
    <2>5. n = Cardinality(Users(fr', f)) + 1
      BY <1>2, <1>4, <2>2, <2>3
    <2> QED  BY <2>4, <2>5
  <1>11. /\ ready \in [Threads -> PC] /\ ready[t] = "idle"
         /\ \A u \in Threads : u # t => Drifts(pc[u], ready[u])
    BY <1>3, <1>6 DEF Broadcast, PC, Drifts
  <1>12. \A u \in Threads : u # t =>
              /\ Drifts(pc[u], ready[u]) /\ fr'[u] = fr[u]
              /\ fr[u] = f => pc[u] \notin {"holds", "pagein"}
    BY <1>2, <1>9, <1>11
  <1>13. InQueue(f, pagelist) /\ leaked[f] = 0
    BY <1>2
  <1> QED  BY <1>7, <1>8, <1>9, <1>10, <1>11, <1>12, <1>13, ReleaseKept

LEMMA PageinDoneKept ==
    ASSUME IInv, NEW t \in Threads, vm_pagein_done(t)
    PROVE  IInv'
  <1>1. /\ pc[t] = "pagein" /\ fr' = fr /\ leaked' = leaked /\ stacks' = stacks
        /\ freelist' = freelist /\ pagelist' = pagelist /\ halted' = halted
        /\ frame' = [frame EXCEPT ![fr[t]].content = "CLEAN"]
        /\ pc' = Broadcast([pc EXCEPT ![t] = "holds"])
    BY DEF vm_pagein_done
  <1>2. PICK f \in Frames :
              /\ f = fr[t] /\ f # NoFrame /\ InQueue(f, pagelist)
              /\ frame[f].state = "VM_PGCACHE" /\ frame[f].content = "PENDING_INIT"
              /\ leaked[f] = 0 /\ frame[f].refcount = Cardinality(Users(fr, f))
              /\ \A u \in Threads : u # t /\ fr[u] = f => pc[u] \notin {"holds", "pagein"}
    BY <1>1, Reading
  <1>3. /\ pc \in [Threads -> PC] /\ fr \in [Threads -> Frames \cup {NoFrame}]
        /\ frame \in [Frames -> FrameRec] /\ leaked \in [Frames -> Nat] /\ ~halted
    BY Basics
  <1>4. PICK n \in Int : n = frame[f].refcount
    BY <1>3, FrameFields
  <1>5. PICK c \in Content : c = "CLEAN"
    BY DEF Content
  <1>6. Becomes(frame', frame, f, "VM_PGCACHE", n, c)
    BY <1>1, <1>2, <1>3, <1>4, <1>5, SetContent
  <1>7. n = Cardinality(Users(fr', f)) + leaked'[f]
    <2>1. Cardinality(Users(fr, f)) \in Nat
      BY UsersFinite
    <2>2. fr' = fr /\ leaked'[f] = 0 /\ n = Cardinality(Users(fr, f))
      BY <1>1, <1>2, <1>4
    <2> QED  BY <2>1, <2>2
  <1>8. /\ pc' \in [Threads -> PC] /\ pc'[t] = "holds"
        /\ \A u \in Threads : u # t => Drifts(pc[u], pc'[u])
    BY <1>1, <1>3 DEF Broadcast, PC, Drifts
  <1>9. \A u \in Threads : u # t =>
              /\ Drifts(pc[u], pc'[u]) /\ fr'[u] = fr[u]
              /\ fr[u] = f => /\ pc[u] = "holds" => c = "CLEAN"
                              /\ pc[u] = "pagein" => c = "PENDING_INIT"
    BY <1>1, <1>2, <1>8
  <1>10. /\ fr' \in [Threads -> Frames \cup {NoFrame}] /\ fr[t] = f /\ fr'[t] = f
         /\ leaked' \in [Frames -> Nat] /\ \A h \in Frames : h # f => leaked'[h] = leaked[h]
    BY <1>1, <1>2, <1>3
  <1>11. ~halted' /\ freelist' = freelist /\ pagelist' = pagelist /\ stacks' = stacks
    BY <1>1, <1>3
  <1>12. InQueue(f, pagelist) /\ f # NoFrame
    BY <1>2
  <1>13. ThreadOk(t)'
    <2>1. frame'[f].content = "CLEAN"
      BY <1>5, <1>6 DEF Becomes
    <2> QED  BY <1>8, <1>10, <1>11, <1>12, <2>1 DEF ThreadOk
  <1>14. pc'[t] # "pagein" /\ c # "FAILED_INIT"
    BY <1>5, <1>8
  <1>15. pc' \in [Threads -> PC]
    BY <1>8
  <1> QED  BY <1>5, <1>6, <1>7, <1>9, <1>10, <1>11, <1>12, <1>13, <1>14, <1>15, UseKept

LEMMA UnlockKept ==
    ASSUME IInv, NEW t \in Threads, vm_unlock_page(t)
    PROVE  IInv'
  <1>1. /\ pc[t] = "holds" /\ fr' = [fr EXCEPT ![t] = NoFrame] /\ leaked' = leaked
        /\ stacks' = stacks /\ freelist' = freelist /\ pagelist' = pagelist
        /\ halted' = ~(frame[fr[t]].refcount > 0)
        /\ frame' = [frame EXCEPT ![fr[t]].refcount = frame[fr[t]].refcount - 1]
        /\ pc' = [pc EXCEPT ![t] = "idle"]
    BY DEF vm_unlock_page, KASSERT
  <1>2. /\ fr \in [Threads -> Frames \cup {NoFrame}] /\ ThreadOk(t)
        /\ leaked \in [Frames -> Nat] /\ frame \in [Frames -> FrameRec]
    BY Basics
  <1>3. PICK f \in Frames : f = fr[t]
    BY <1>1, <1>2 DEF ThreadOk
  <1>4. f # NoFrame
    BY Sizes
  <1>5. InQueue(f, pagelist) /\ frame[f].content = "CLEAN"
    BY <1>1, <1>2, <1>3, <1>4 DEF ThreadOk
  <1>6. FrameOk(f) /\ CountOk(f)
    BY Basics
  <1>7. /\ Cardinality(Users(fr, f)) \in Nat /\ Cardinality(Users(fr, f)) > 0
        /\ leaked[f] \in Nat
        /\ frame[f].refcount = Cardinality(Users(fr, f)) + leaked[f]
    BY <1>2, <1>3, <1>5, <1>6, UsersFinite DEF CountOk
  <1>8. PICK n \in Int : n = frame[f].refcount - 1
    BY <1>7
  <1>9. PICK c \in Content : c = "CLEAN"
    BY DEF Content
  <1>10. Becomes(frame', frame, f, "VM_PGCACHE", n, c)
    <2>1. frame[f].state = "VM_PGCACHE"
      BY <1>5, <1>6 DEF FrameOk
    <2>2. frame' = [frame EXCEPT ![f].refcount = n]
      BY <1>1, <1>3, <1>8
    <2> QED  BY <1>2, <1>5, <1>9, <2>1, <2>2, SetCount
  <1>11. Goes(t, "idle", NoFrame)
    <2>1. "idle" \in PC /\ NoFrame \in Frames \cup {NoFrame}
      BY DEF PC
    <2> QED  BY <1>1, <2>1, OneGoes
  <1>12. n = Cardinality(Users(fr', f)) + leaked'[f]
    <2>1. fr'[t] = NoFrame /\ \A u \in Threads : u # t => fr'[u] = fr[u]
      BY <1>11 DEF Goes
    <2>2. Moved(fr', fr, t, NoFrame)
      BY <2>1, UsersMove
    <2>3. Cardinality(Users(fr', f)) = Cardinality(Users(fr, f)) - 1
      BY <1>3, <1>4, <2>2 DEF Moved
    <2>4. leaked'[f] = leaked[f]
      BY <1>1
    <2> QED  BY <1>7, <1>8, <2>3, <2>4
  <1>13. /\ pc' \in [Threads -> PC] /\ fr' \in [Threads -> Frames \cup {NoFrame}]
         /\ pc'[t] = "idle" /\ fr'[t] = NoFrame
         /\ \A u \in Threads : u # t => Drifts(pc[u], pc'[u]) /\ fr'[u] = fr[u]
    BY <1>11 DEF Goes, Drifts
  <1>14. \A u \in Threads : u # t =>
              /\ Drifts(pc[u], pc'[u]) /\ fr'[u] = fr[u]
              /\ fr[u] = f => /\ pc[u] = "holds" => c = "CLEAN"
                              /\ pc[u] = "pagein" => c = "PENDING_INIT"
    <2>1. \A u \in Threads : fr[u] = f => pc[u] # "pagein"
      BY <1>5, Basics DEF ThreadOk
    <2> QED  BY <1>9, <1>13, <2>1
  <1>15. leaked' \in [Frames -> Nat] /\ \A h \in Frames : h # f => leaked'[h] = leaked[h]
    BY <1>1, <1>2
  <1>16. freelist' = freelist /\ pagelist' = pagelist /\ stacks' = stacks
    BY <1>1
  <1>17. ~halted'
    <2>1. frame[fr[t]].refcount > 0
      BY <1>3, <1>7
    <2>2. halted' = ~(frame[fr[t]].refcount > 0)
      BY <1>1
    <2> QED  BY <2>1, <2>2, Zenon
  <1>18. ThreadOk(t)' /\ pc'[t] # "pagein" /\ c # "FAILED_INIT"
    BY <1>9, <1>13 DEF ThreadOk
  <1>19. fr[t] \in {f, NoFrame} /\ fr'[t] \in {f, NoFrame}
    BY <1>3, <1>13
  <1>20. pc' \in [Threads -> PC] /\ fr' \in [Threads -> Frames \cup {NoFrame}]
    BY <1>13
  <1> QED  BY <1>5, <1>9, <1>10, <1>12, <1>14, <1>15, <1>16, <1>17, <1>18, <1>19, <1>20, UseKept

-----------------------------------------------------------------------------
(***************************************************************************)
(* The invariant holds at boot, and every step keeps it.                   *)
(***************************************************************************)
LEMMA InitInv == Init => IInv
  <1> SUFFICES ASSUME Init  PROVE  IInv
    OBVIOUS
  <1>1. /\ freelist = mem_scan_regions.freelist /\ pagelist = << >>
        /\ pc = [t \in Threads |-> "idle"] /\ fr = [t \in Threads |-> NoFrame]
        /\ leaked = [f \in Frames |-> 0] /\ stacks = {} /\ halted = FALSE
    BY DEF Init
  <1>2. PICK st \in [Frames -> FrameState] : st = mem_scan_regions.state
    BY ScanResult
  <1>3. /\ frame \in [Frames -> FrameRec]
        /\ \A f \in Frames : frame[f].state = st[f] /\ frame[f].refcount = 0
                             /\ frame[f].content = "PENDING_INIT"
    <2>1. frame = [f \in Frames |-> [state |-> st[f], refcount |-> 0,
                                     content |-> "PENDING_INIT"]]
      BY <1>2 DEF Init
    <2>2. "PENDING_INIT" \in Content
      BY DEF Content
    <2>3. ASSUME NEW f \in Frames
          PROVE  [state |-> st[f], refcount |-> 0, content |-> "PENDING_INIT"] \in FrameRec
      BY <1>2, <2>2 DEF FrameRec
    <2> QED  BY <2>1, <2>3
  <1>4. /\ freelist \in Seq(Frames) /\ Distinct(freelist)
        /\ \A f \in Frames : InQueue(f, freelist) <=> st[f] = "AVAIL"
    BY <1>1, <1>2, ScanResult
  <1>5. pagelist \in Seq(Frames) /\ Distinct(pagelist) /\ \A f : ~InQueue(f, pagelist)
    BY <1>1 DEF Distinct, InQueue
  <1>6. Stacked = {}
    BY <1>1 DEF Stacked
  <1>7. Types
    <2>1. "idle" \in PC
      BY DEF PC
    <2> QED  BY <1>1, <1>3, <1>4, <1>5, <2>1 DEF Types
  <1>8. Places
    <2>1. \A f \in Frames : f \in Reserved <=> st[f] # "AVAIL"
      BY <1>2, ScanResult
    <2> QED  BY <1>4, <1>5, <1>6, <2>1 DEF Places, Placed
  <1>9. FramesOk
    <2> SUFFICES ASSUME NEW f \in Frames  PROVE  FrameOk(f)
      BY DEF FramesOk
    <2>1. leaked[f] = 0
      BY <1>1
    <2> QED  BY <1>3, <1>4, <1>5, <1>6, <2>1 DEF FrameOk
  <1>10. ThreadsOk /\ OneReader
    <2>1. \A t \in Threads : pc[t] = "idle" /\ fr[t] = NoFrame
      BY <1>1
    <2> QED  BY <2>1 DEF ThreadsOk, ThreadOk, OneReader
  <1>11. Counted
    BY <1>5 DEF Counted
  <1> QED  BY <1>1, <1>7, <1>8, <1>9, <1>10, <1>11 DEF IInv

LEMMA NextInv == IInv /\ [Next]_vars => IInv'
  <1> SUFFICES ASSUME IInv, [Next]_vars  PROVE  IInv'
    OBVIOUS
  <1>1. CASE stack_alloc
    BY <1>1, StackAllocKept
  <1>2. ASSUME NEW pa \in stacks, stack_free(pa)  PROVE  IInv'
    BY <1>2, StackFreeKept
  <1>3. ASSUME NEW t \in Threads, Step(t)  PROVE  IInv'
    <2>1. CASE vm_lock_page_hit(t)
      BY <2>1, HitKept
    <2>2. CASE vm_lock_page_miss(t)
      BY <2>2, MissKept
    <2>3. CASE mem_alloc_frame_wait(t)
      BY <2>3, FrameWaitKept
    <2>4. CASE vm_alloc_and_page_in(t)
      BY <2>4, PageInKept
    <2>5. CASE vm_pagein_failed(t)
      BY <2>5, PageinFailedKept
    <2>6. CASE vm_pagein_done(t)
      BY <2>6, PageinDoneKept
    <2>7. CASE cond_wait_returns(t)
      BY <2>7, WokenKept
    <2>8. CASE vm_unlock_page(t)
      BY <2>8, UnlockKept
    <2> QED  BY <1>3, <2>1, <2>2, <2>3, <2>4, <2>5, <2>6, <2>7, <2>8 DEF Step
  <1>4. ASSUME NEW t \in Threads, NEW p \in Pages, call_vm_lock_page(t, p)  PROVE  IInv'
    BY <1>4, CallKept
  <1>5. CASE UNCHANGED vars
    <2>1. /\ freelist' = freelist /\ frame' = frame /\ pagelist' = pagelist /\ pc' = pc
          /\ fr' = fr /\ leaked' = leaked /\ stacks' = stacks /\ halted' = halted
      BY <1>5 DEF vars
    <2>2. Types' /\ Places'
      BY <2>1 DEF IInv, Types, Places, Stacked
    <2>3. FramesOk' /\ Counted'
      BY <2>1 DEF IInv, FramesOk, FrameOk, Counted, Stacked
    <2>4. ThreadsOk' /\ OneReader'
      BY <2>1 DEF IInv, ThreadsOk, ThreadOk, OneReader
    <2> QED  BY <2>1, <2>2, <2>3, <2>4 DEF IInv
  <1> QED  BY <1>1, <1>2, <1>3, <1>4, <1>5 DEF Next

(***************************************************************************)
(* The inductive invariant holds in every behaviour of page frames and     *)
(* page cache: every frame is in one place and its structure says which,   *)
(* and a thread knows the truth about the frame it refers to.              *)
(***************************************************************************)
THEOREM IInvCorrect == Spec => []IInv
  <1>1. Init => IInv
    BY InitInv
  <1>2. IInv /\ [Next]_vars => IInv'
    BY NextInv
  <1> QED  BY <1>1, <1>2, PTL DEF Spec

-----------------------------------------------------------------------------
(***************************************************************************)
(* What the invariant says of the sets of frames.                          *)
(***************************************************************************)
LEMMA InRange ==
    ASSUME NEW q \in Seq(Frames)
    PROVE  Range(q) \subseteq Frames /\ \A f : f \in Range(q) <=> InQueue(f, q)
  BY DEF Range, InQueue

\* A list without duplicates is as long as its set of frames is large.
LEMMA ListSize ==
    ASSUME NEW q \in Seq(Frames), Distinct(q)
    PROVE  IsFiniteSet(Range(q)) /\ Cardinality(Range(q)) = Len(q)
  <1>1. Len(q) \in Nat /\ DOMAIN q = 1 .. Len(q)
    OBVIOUS
  <1>2. IsFiniteSet(1 .. Len(q)) /\ Cardinality(1 .. Len(q)) = Len(q)
    <2>1. 1 \in Int /\ Len(q) \in Int
      BY <1>1
    <2>2. IsFiniteSet(1 .. Len(q))
          /\ Cardinality(1 .. Len(q)) = IF 1 > Len(q) THEN 0 ELSE Len(q) - 1 + 1
      BY <2>1, FS_Interval
    <2> QED  BY <1>1, <2>2
  <1>3. Range(q) = {q[i] : i \in 1 .. Len(q)}
    BY <1>1 DEF Range
  <1>4. q \in Surjection(1 .. Len(q), Range(q))
    BY <1>1, <1>3 DEF Surjection
  <1>5. q \in Injection(1 .. Len(q), Range(q))
    BY <1>1, <1>3 DEF Injection, IsInjective, Distinct
  <1> QED  BY <1>2, <1>4, <1>5, FS_Surjection DEF ExistsSurjection

LEMMA LocksFollow == IInv => LocksCounted
  <1> SUFFICES ASSUME IInv  PROVE  LocksCounted
    OBVIOUS
  <1>1. pagelist \in Seq(Frames) /\ ~halted /\ \A f \in Frames : CountOk(f)
    BY Basics
  <1>2. ASSUME NEW f \in Cached
        PROVE  frame[f].refcount = Cardinality({t \in Threads : fr[t] = f}) + leaked[f]
    <2>1. f \in Frames /\ InQueue(f, pagelist)
      BY <1>1, <1>2, InRange DEF Cached
    <2> QED  BY <1>1, <2>1 DEF CountOk, Users
  <1> QED  BY <1>1, <1>2 DEF LocksCounted

(***************************************************************************)
(* The reference count of a page in the cache is the number of threads     *)
(* that read it, wait for it or have locked it, and of the locks that      *)
(* vm_lock_page reported as errors; no assert of vm.c or mem.c fails, as   *)
(* long as nothing has been written over the frame structures.             *)
(***************************************************************************)
THEOREM LocksCorrect == Spec => []LocksCounted
  BY IInvCorrect, LocksFollow, PTL

LEMMA FramesFollow == IInv => NoStaleFrame
  <1> SUFFICES ASSUME IInv  PROVE  NoStaleFrame
    OBVIOUS
  <1>1. /\ freelist \in Seq(Frames) /\ pagelist \in Seq(Frames)
        /\ Placed(freelist, Stacked, pagelist) /\ Stacked \subseteq Frames
        /\ \A f \in Frames : FrameOk(f)
        /\ \A t \in Threads : ThreadOk(t)
    BY Basics
  <1>2. /\ Free \subseteq Frames /\ Cached \subseteq Frames
        /\ \A f : f \in Free <=> InQueue(f, freelist)
        /\ \A f : f \in Cached <=> InQueue(f, pagelist)
    BY <1>1, InRange DEF Free, Cached
  <1>3. ASSUME NEW f \in Frames
        PROVE  /\ ~(f \in Free /\ f \in Stacked) /\ ~(f \in Free /\ f \in Cached)
               /\ ~(f \in Stacked /\ f \in Cached)
               /\ f \in Reserved <=> f \notin Free /\ f \notin Stacked /\ f \notin Cached
    BY <1>1, <1>2 DEF Placed
  <1>4. ASSUME NEW f \in Frames
        PROVE  Cardinality({s \in 1 .. 4 :
                              f \in << Reserved, Free, Stacked, Cached >>[s]}) = 1
    <2> DEFINE Q == {s \in 1 .. 4 : f \in << Reserved, Free, Stacked, Cached >>[s]}
    <2>1. /\ 1 \in Q <=> f \in Reserved
          /\ 2 \in Q <=> f \in Free
          /\ 3 \in Q <=> f \in Stacked
          /\ 4 \in Q <=> f \in Cached
          /\ Q \subseteq {1, 2, 3, 4}
      OBVIOUS
    <2> HIDE DEF Q
    <2>2. \E s : Q = {s}
      <3>1. CASE f \in Reserved
        <4>1. Q = {1}
          BY <1>3, <2>1, <3>1
        <4> QED  BY <4>1
      <3>2. CASE f \in Free
        <4>1. Q = {2}
          BY <1>3, <2>1, <3>2
        <4> QED  BY <4>1
      <3>3. CASE f \in Stacked
        <4>1. Q = {3}
          BY <1>3, <2>1, <3>3
        <4> QED  BY <4>1
      <3>4. CASE f \in Cached
        <4>1. Q = {4}
          BY <1>3, <2>1, <3>4
        <4> QED  BY <4>1
      <3> QED  BY <1>3, <3>1, <3>2, <3>3, <3>4
    <2>3. Cardinality(Q) = 1
      BY <2>2, FS_Singleton
    <2> QED  BY <2>3 DEF Q
  <1>5. \A f \in Frames \ Reserved :
           frame[f].state = IF f \in Free THEN "AVAIL"
                            ELSE IF f \in Cached THEN "VM_PGCACHE" ELSE "KSTACK"
    <2> SUFFICES ASSUME NEW f \in Frames, f \notin Reserved
                 PROVE  frame[f].state = IF f \in Free THEN "AVAIL"
                                         ELSE IF f \in Cached THEN "VM_PGCACHE" ELSE "KSTACK"
      OBVIOUS
    <2>1. FrameOk(f)
      BY <1>1
    <2> QED  BY <1>2, <1>3, <2>1 DEF FrameOk
  <1>6. Len(freelist) + Len(pagelist) = Cardinality(Free \cup Cached)
    <2>1. Distinct(freelist) /\ Distinct(pagelist)
      BY <1>1 DEF Placed
    <2>2. /\ IsFiniteSet(Free) /\ Cardinality(Free) = Len(freelist)
          /\ IsFiniteSet(Cached) /\ Cardinality(Cached) = Len(pagelist)
      BY <1>1, <2>1, ListSize DEF Free, Cached
    <2>3. Free \cap Cached = {}
      BY <1>2, <1>3
    <2>4. Cardinality(Free \cap Cached) = 0
      BY <2>3, FS_EmptySet
    <2>5. Cardinality(Free \cup Cached)
            = Cardinality(Free) + Cardinality(Cached) - Cardinality(Free \cap Cached)
      BY <2>2, FS_Union
    <2>6. Len(freelist) \in Nat /\ Len(pagelist) \in Nat
      BY <1>1
    <2> QED  BY <2>2, <2>4, <2>5, <2>6
  <1>7. \A f \in Free : frame[f].refcount = 0
    BY <1>1, <1>2 DEF FrameOk
  <1>8. \A t \in Threads : fr[t] # NoFrame =>
           fr[t] \in Cached /\ (pc[t] = "holds" => frame[fr[t]].content = "CLEAN")
    BY <1>1, <1>2 DEF ThreadOk
  <1>9. \A f \in Cached : frame[f].content = "FAILED_INIT" => frame[f].refcount > 0
    BY <1>1, <1>2 DEF FrameOk
  <1>10. \A t \in Threads : pc[t] = "sleep" => freelist = << >>
    BY <1>1 DEF ThreadOk
  <1> QED  BY <1>4, <1>5, <1>6, <1>7, <1>8, <1>9, <1>10 DEF NoStaleFrame

(***************************************************************************)
(* For every layout of memory, and as long as nothing has been written     *)
(* over the frame structures, which lie in frames that are free: every     *)
(* frame is in one place, what the layout reserves, free, the stack of a   *)
(* thread or in the page cache, and its state says which; no thread refers *)
(* to a frame that left the cache, whoever has locked a page finds it      *)
(* complete, a page that failed to come in leaves with its last user, and  *)
(* nobody sleeps in mem_alloc_frame while a frame is free.                 *)
(***************************************************************************)
THEOREM FramesCorrect == Spec => []NoStaleFrame
  BY IInvCorrect, FramesFollow, PTL

=============================================================================
