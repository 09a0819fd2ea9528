-------------------------------- MODULE Heap --------------------------------
(***************************************************************************)
(* The kernel heap: malloc and free (src/kernel/malloc.c) as mem_alloc and *)
(* mem_free (src/kernel/mem.c) call them, with interrupts disabled.        *)
(*                                                                         *)
(* A chunk is a header of sizeof(size_t) bytes that holds its size, and    *)
(* sz bytes of payload; a free chunk keeps the link of the free list in    *)
(* its payload.  The free list is the sequence of its chunks, __brkval the *)
(* first byte that was never handed out.  A thread's call of mem_alloc is  *)
(* split where it sleeps in s_heap_waitqueue; the queue is a set here,     *)
(* because mem_free wakes up everybody in it.                              *)
(***************************************************************************)
EXTENDS Integers, SequencesExt, FiniteSets

CONSTANTS
    Threads,
    Lens,                   \* the sizes threads ask for
    HeapStart, HeapEnd,     \* g_heapstart, g_heapend
    SIZE_T,                 \* sizeof(size_t)
    FREELIST                \* sizeof(struct __freelist)

ASSUME HeapAssumption ==
    /\ HeapStart \in Nat \ {0} /\ HeapEnd \in Nat /\ HeapStart < HeapEnd
    /\ SIZE_T \in Nat \ {0} /\ FREELIST \in Nat /\ SIZE_T < FREELIST
    /\ Lens \subseteq Nat \ {0}

VARIABLES
    flp,        \* __flp: the free chunks in the order of the list
    brkval,     \* __brkval, 0 before the first malloc that reaches for it
    used,       \* the chunks handed out, with the size that was asked for
    request,    \* the size a thread in mem_alloc asks for, 0 outside
    asleep      \* s_heap_waitqueue

vars == << flp, brkval, used, request, asleep >>

Init ==
    /\ flp = << >> /\ brkval = 0 /\ used = {}
    /\ request = [t \in Threads |-> 0] /\ asleep = {}

Brk == IF brkval = 0 THEN HeapStart ELSE brkval

\* Where chunk c ends.
End(c) == c.addr + SIZE_T + c.sz

-----------------------------------------------------------------------------
\* A free chunk must have room for the link of the free list.
Rounded(len) == Max({len, FREELIST - SIZE_T})

\* The sizes of the free chunks that a request fits into.
Fitting(len) == {s \in {flp[i].sz : i \in DOMAIN flp} : s >= Rounded(len)}

\* The first entry of the smallest size that fits: an exact match, if any.
BestFit(len) ==
    Min({i \in DOMAIN flp : flp[i].sz = Min(Fitting(len))})

Avail(len) == HeapEnd - Brk >= Rounded(len) + SIZE_T

\* Thread t leaves mem_alloc with the chunk at address a.
Grant(t, a, sz) ==
    /\ used' = used \cup {[addr |-> a, sz |-> sz, len |-> request[t]]}
    /\ request' = [request EXCEPT ![t] = 0]
    /\ UNCHANGED asleep

Trying(t) == request[t] # 0 /\ t \notin asleep

\* The whole free chunk, if the rest were too small for another entry.
malloc_whole(t) ==
    LET i == BestFit(request[t])
    IN /\ Trying(t) /\ Fitting(request[t]) # {}
       /\ flp[i].sz - Rounded(request[t]) < FREELIST
       /\ flp' = RemoveAt(flp, i)
       /\ Grant(t, flp[i].addr, flp[i].sz)
       /\ UNCHANGED brkval

\* A mutation: the header of the new chunk is not taken from the old one.
malloc_split_overlap(t) ==
    LET i == BestFit(request[t])
        len == Rounded(request[t])
        rest == flp[i].sz - len
    IN /\ Trying(t) /\ Fitting(request[t]) # {}
       /\ rest >= FREELIST
       /\ flp' = [flp EXCEPT ![i].sz = rest]
       /\ Grant(t, flp[i].addr + rest, len)
       /\ UNCHANGED brkval

\* Split the free chunk: its upper end is handed out.
malloc_split(t) ==
    LET i == BestFit(request[t])
        len == Rounded(request[t])
        rest == flp[i].sz - len
    IN /\ Trying(t) /\ Fitting(request[t]) # {}
       /\ rest >= FREELIST
       /\ flp' = [flp EXCEPT ![i].sz = rest - SIZE_T]
       /\ Grant(t, flp[i].addr + rest, len)
       /\ UNCHANGED brkval

\* A mutation: the test forgets the header.
malloc_extend_short(t) ==
    LET len == Rounded(request[t])
    IN /\ Trying(t) /\ Fitting(request[t]) = {} /\ HeapEnd - Brk >= len
       /\ brkval' = Brk + SIZE_T + len
       /\ Grant(t, Brk, len)
       /\ UNCHANGED flp

\* Nothing on the free list fits: a new chunk at the break.
malloc_extend(t) ==
    LET len == Rounded(request[t])
    IN /\ Trying(t) /\ Fitting(request[t]) = {} /\ Avail(request[t])
       /\ brkval' = Brk + SIZE_T + len
       /\ Grant(t, Brk, len)
       /\ UNCHANGED flp

\* malloc returns 0, and mem_alloc waits.
mem_alloc_wait(t) ==
    /\ Trying(t) /\ Fitting(request[t]) = {} /\ ~Avail(request[t])
    /\ brkval' = Brk
    /\ asleep' = asleep \cup {t}
    /\ UNCHANGED << flp, used, request >>

\* mem_alloc is called.
mem_alloc(t, len) ==
    /\ request[t] = 0
    /\ request' = [request EXCEPT ![t] = len]
    /\ UNCHANGED << flp, brkval, used, asleep >>

-----------------------------------------------------------------------------
\* The entries of the free list in front of chunk c.
Before(c) ==
    LET behind == {i \in DOMAIN flp : flp[i].addr >= c.addr}
    IN IF behind = {} THEN Len(flp) ELSE Min(behind) - 1

\* A mutation: a chunk is merged with the upper neighbour only.
free_upper_only(c) ==
    LET i == Before(c)
        hi == IF i < Len(flp) /\ End(c) = flp[i + 1].addr THEN 1 ELSE 0
        top == IF hi = 1 THEN End(flp[i + 1]) ELSE End(c)
    IN flp' = SubSeq(flp, 1, i)
                \o << [addr |-> c.addr, sz |-> top - c.addr - SIZE_T] >>
                \o SubSeq(flp, i + 1 + hi, Len(flp))

(***************************************************************************)
(* free: chunk c goes to its place in the order of addresses; it absorbs   *)
(* the upper neighbour if that one begins where c ends, and is absorbed by *)
(* the lower neighbour if that one ends where c begins.                    *)
(***************************************************************************)
free(c) ==
    LET i == Before(c)
        hi == IF i < Len(flp) /\ End(c) = flp[i + 1].addr THEN 1 ELSE 0
        lo == IF i > 0 /\ End(flp[i]) = c.addr THEN 1 ELSE 0
        bottom == IF lo = 1 THEN flp[i].addr ELSE c.addr
        top == IF hi = 1 THEN End(flp[i + 1]) ELSE End(c)
    IN flp' = SubSeq(flp, 1, i - lo)
                \o << [addr |-> bottom, sz |-> top - bottom - SIZE_T] >>
                \o SubSeq(flp, i + 1 + hi, Len(flp))

\* A mutation: mem_free wakes up one thread.
mem_free_wakes_one(c) ==
    /\ free(c)
    /\ used' = used \ {c}
    /\ asleep' = IF asleep = {} THEN {} ELSE asleep \ {CHOOSE t \in asleep : TRUE}
    /\ UNCHANGED << brkval, request >>

\* mem_free: any thread may free any buffer, and everybody asleep wakes up.
mem_free(c) ==
    /\ free(c)
    /\ used' = used \ {c}
    /\ asleep' = {}
    /\ UNCHANGED << brkval, request >>

Next ==
    \/ \E t \in Threads :
          \/ \E len \in Lens : mem_alloc(t, len)
          \/ malloc_whole(t) \/ malloc_split(t) \/ malloc_extend(t)
          \/ mem_alloc_wait(t)
    \/ \E c \in used : mem_free(c)

Spec == Init /\ [][Next]_vars

-----------------------------------------------------------------------------
Chunks == used \cup {flp[i] : i \in DOMAIN flp}

Extent(c) == c.addr .. End(c) - 1

(***************************************************************************)
(* Every byte below the break belongs to exactly one chunk, free or used:  *)
(* splitting and merging neither lose memory nor hand it out twice.        *)
(***************************************************************************)
Tiled ==
    \A x \in HeapStart .. HeapEnd - 1 :
        Cardinality({c \in Chunks : x \in Extent(c)}) = IF x < Brk THEN 1 ELSE 0

(***************************************************************************)
(* The free list is in the order of addresses, its chunks can hold the     *)
(* link, and no two of them touch: whatever the order of the calls of      *)
(* free, neighbours have been merged.                                      *)
(***************************************************************************)
Coalesced ==
    /\ \A i \in DOMAIN flp : flp[i].sz >= FREELIST - SIZE_T
    /\ \A i \in 1 .. Len(flp) - 1 : End(flp[i]) < flp[i + 1].addr

\* Nobody sleeps in mem_alloc for memory that malloc could give him now.
NoNeedlessSleep ==
    \A t \in asleep : Fitting(request[t]) = {} /\ ~Avail(request[t])

A == INSTANCE Allocator WITH
        buffers <- {[addr |-> c.addr + SIZE_T, len |-> c.len] : c \in used}

\* Seen through mem_alloc and mem_free, the heap is an allocator.
ImplementsAllocator == A!Spec

=============================================================================
