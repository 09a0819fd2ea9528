------------------------------ MODULE PageCache ------------------------------
(***************************************************************************)
(* Page frames (src/kernel/mem.c): how the scan of physical memory at boot *)
(* (src/x86/kernel/x86_mem.c) sorts them, mem_alloc_frame, mem_free_frame, *)
(* and a vm_pagecache that keeps pages of a pager in them (src/kernel/     *)
(* vm.c).                                                                  *)
(*                                                                         *)
(* obj->lock is a mutex and obj->cond its condition, with the meaning that *)
(* module Monitor gives them: what a thread does between taking the mutex  *)
(* and giving it up is one step here, except where the code sleeps in      *)
(* mem_alloc_frame with the mutex held, gives it up to read the page, or   *)
(* waits for the condition.  The pager is any read_page: it may fail.      *)
(* Frames are also taken and given back for the stacks of threads.         *)
(*                                                                         *)
(* The frame structures lie behind the kernel, in frames that the scan     *)
(* puts on the free list.  A stack or a page there overwrites them.  What  *)
(* the kernel does after that is not modelled: the run ends.               *)
(***************************************************************************)
EXTENDS Integers, SequencesExt, FiniteSets

CONSTANTS
    Threads,
    NoThread,
    Pages,          \* the pages threads ask for
    NumFrames,      \* numframes: frames of physical memory
    PAGE_SIZE, HEAP_SIZE, ISA_HOLE_START, ISA_HOLE_END,
    KernelEnd,      \* the symbol end, where the kernel's code and data end
    FRAME,          \* sizeof(struct frame)
    MaxCalls        \* bounds the calls of vm_lock_page of a thread

Frames == 0 .. NumFrames - 1
NoFrame == -1

\* Physical addresses.
mem_frame_to_pa(f) == f * PAGE_SIZE
mem_pa_to_frame(pa) == pa \div PAGE_SIZE
mem_round_to_page(pa) == mem_frame_to_pa(mem_pa_to_frame(pa + PAGE_SIZE - 1))

-----------------------------------------------------------------------------
(***************************************************************************)
(* The scan of memory at boot.  b is what it has found so far: the states  *)
(* of the frames, s_freelist, whether the heap was created, addr, and      *)
(* whether the assert on the regions held.                                 *)
(***************************************************************************)
mem_set_region_state(b, start, end, state) ==
    LET num == (end - start + PAGE_SIZE - 1) \div PAGE_SIZE
        region == [i \in 1 .. num |-> mem_pa_to_frame(start) + i - 1]
    IN [b EXCEPT !.ok = @ /\ start < end,
                 !.state = [f \in Frames |-> IF Contains(region, f) THEN state ELSE @[f]],
                 !.freelist = IF state = "AVAIL" THEN @ \o region ELSE @]

\* The heap is the beginning of the first region with enough memory.
mem_scan_region(b, start, end, state) ==
    IF ~b.heap /\ state = "AVAIL" /\ end - start >= HEAP_SIZE
    THEN mem_set_region_state(
            mem_set_region_state([b EXCEPT !.heap = TRUE], start, start + HEAP_SIZE, "HEAP"),
            start + HEAP_SIZE, end, state)
    ELSE mem_set_region_state(b, start, end, state)

kernel_end == mem_round_to_page(KernelEnd)
framelist_numframes == mem_pa_to_frame(mem_round_to_page(NumFrames * FRAME))

\* One call of the scan's callback, for the region from addr to end.
scan_reg_func(b, end, state) == [mem_scan_region(b, b.addr, end, state) EXCEPT !.addr = end]

\* The regions in turn.  The frame list follows the kernel; its number of
\* frames is added to an address as if it were bytes, so that its frames are
\* put on the free list.
mem_scan_regions ==
    LET boot == [state |-> [f \in Frames |-> "AVAIL"], freelist |-> << >>,
                 heap |-> FALSE, addr |-> 0, ok |-> TRUE]
        bios == scan_reg_func(boot, PAGE_SIZE, "UNUSED")
        low  == scan_reg_func(bios, ISA_HOLE_START, "AVAIL")
        isa  == scan_reg_func(low, ISA_HOLE_END, "HW")
        kstk == scan_reg_func(isa, ISA_HOLE_END + PAGE_SIZE, "KSTACK")
        kern == scan_reg_func(kstk, kernel_end + framelist_numframes, "KERN")
    IN scan_reg_func(kern, NumFrames * PAGE_SIZE, "AVAIL")

\* mem_init gets past the asserts and the PANIC_IF for a missing heap.
mem_init_returns == mem_scan_regions.heap /\ mem_scan_regions.ok

ASSUME PageCacheAssumption ==
    /\ NoThread \notin Threads /\ IsFiniteSet(Threads)
    /\ Pages \subseteq Nat /\ PAGE_SIZE \in Nat \ {0}
    /\ NumFrames \in Nat /\ MaxCalls \in Nat /\ KernelEnd \in Nat /\ FRAME \in Nat
    /\ mem_init_returns

\* The heap and the ISA hole are made of whole frames, the heap is in low
\* memory, and the kernel lies behind the initial stack.  The frame list is
\* shorter than PAGE_SIZE frames.
ASSUME LayoutAssumption ==
    /\ \A a \in {HEAP_SIZE, ISA_HOLE_START, ISA_HOLE_END} :
          a \in Nat /\ mem_round_to_page(a) = a
    /\ PAGE_SIZE + HEAP_SIZE <= ISA_HOLE_START
    /\ ISA_HOLE_END + PAGE_SIZE <= KernelEnd
    /\ framelist_numframes < PAGE_SIZE

VARIABLES
    freelist,   \* s_freelist
    frame,      \* the frame structures: state, refcount, content
    pagelist,   \* obj->pagelist
    lock,       \* who holds obj->lock
    pc,         \* where a thread is in vm_lock_page
    page,       \* the parameter page_num
    fr,         \* the local variable frame; once vm_lock_page has returned
                \* it with 0, the frame the caller has locked
    calls,      \* how often a thread has called vm_lock_page
    leaked,     \* frames returned with an rc that is not 0, how often
    stacks,     \* the addresses of the stacks in use
    halted,     \* a KASSERT has failed
    overwritten \* the frame structures have been overwritten

vars == << freelist, frame, pagelist, lock, pc, page, fr, calls, leaked,
           stacks, halted, overwritten >>

Init ==
    /\ freelist = mem_scan_regions.freelist
    /\ frame = [f \in Frames |-> [state |-> mem_scan_regions.state[f], refcount |-> 0,
                                  content |-> "PENDING_INIT"]]
    /\ pagelist = << >> /\ lock = NoThread
    /\ pc = [t \in Threads |-> "idle"]
    /\ page = [t \in Threads |-> 0] /\ fr = [t \in Threads |-> NoFrame]
    /\ calls = [t \in Threads |-> 0] /\ leaked = [f \in Frames |-> 0]
    /\ stacks = {} /\ halted = FALSE /\ overwritten = FALSE

KASSERT(c) == halted' = ~c

\* The frames that hold the frame structures: mem_create_framelist.
FrameListFrames ==
    LET first == mem_pa_to_frame(kernel_end)
    IN first .. first + framelist_numframes - 1

\* Something is written to frame f.  It may miss what the frame list uses of
\* its last frame, or leave it as it was.
Write(f) == overwritten' \in BOOLEAN /\ (overwritten' => f \in FrameListFrames)

-----------------------------------------------------------------------------
\* The frame that mem_alloc_frame takes off the free list.
Allocated(state, refcount) ==
    [frame EXCEPT ![Head(freelist)].state = state,
                  ![Head(freelist)].refcount = refcount]

\* mem_free_frame on frame f of frames fs; ready tells where the others are.
\* Everybody in s_frame_waitqueue looks at the free list again.
mem_free_frame(fs, f, ready) ==
    /\ frame' = [fs EXCEPT ![f].state = "AVAIL"]
    /\ freelist' = Append(freelist, f)
    /\ pc' = [t \in Threads |->
                IF ready[t] = "sleep" THEN "alloc" ELSE ready[t]]

\* A thread is created: a frame for its stack, where its context is put.
stack_alloc ==
    /\ freelist # << >>
    /\ frame' = Allocated("KSTACK", 0)
    /\ freelist' = Tail(freelist)
    /\ stacks' = stacks \cup {mem_frame_to_pa(Head(freelist))}
    /\ Write(Head(freelist))
    /\ UNCHANGED << pagelist, lock, pc, page, fr, calls, leaked, halted >>

\* A thread is destroyed.
stack_free(pa) ==
    LET f == mem_pa_to_frame(pa)
    IN /\ KASSERT(frame[f].refcount = 0)
       /\ mem_free_frame(frame, f, pc)
       /\ stacks' = stacks \ {pa}
       /\ UNCHANGED << pagelist, lock, page, fr, calls, leaked, overwritten >>

-----------------------------------------------------------------------------
\* A mutation: a page that failed to come in is discarded at once.
vm_release_frame_ref_early(fs, f, ready) ==
    LET gs == [fs EXCEPT ![f].refcount = @ - 1]
    IN /\ KASSERT(fs[f].refcount > 0 /\ fs[f].content # "PENDING_INIT")
       /\ IF gs[f].content = "FAILED_INIT"
          THEN pagelist' = RemoveFirst(pagelist, f)
               /\ mem_free_frame(gs, f, ready)
          ELSE frame' = gs /\ pc' = ready /\ UNCHANGED << pagelist, freelist >>

\* The last one to let go of a page that failed to come in discards it.
vm_release_frame_ref(fs, f, ready) ==
    LET gs == [fs EXCEPT ![f].refcount = @ - 1]
    IN /\ KASSERT(fs[f].refcount > 0 /\ fs[f].content # "PENDING_INIT")
       /\ IF gs[f].refcount = 0 /\ gs[f].content = "FAILED_INIT"
          THEN pagelist' = RemoveFirst(pagelist, f)
               /\ mem_free_frame(gs, f, ready)
          ELSE frame' = gs /\ pc' = ready /\ UNCHANGED << pagelist, freelist >>

\* The field vm_pgcache_page_num of a frame: nothing ever assigns it.
vm_pgcache_page_num(f) == 0

\* The frames of the cache that the search takes for the page.
Hits(p) == {i \in DOMAIN pagelist : vm_pgcache_page_num(pagelist[i]) = p}

(***************************************************************************)
(* The tail of vm_lock_page for a frame f that was found in the cache, with*)
(* the frames fs.  A page that is still coming in is waited for.  One that *)
(* failed is let go, with frame->errc, which is always 0, as the result.   *)
(* Otherwise the frame is returned, and the result is the uninitialised rc.*)
(***************************************************************************)
Found(t, f, fs) ==
    \/ /\ fs[f].content = "PENDING_INIT"
       /\ frame' = fs
       /\ pc' = [pc EXCEPT ![t] = "wait"] /\ fr' = [fr EXCEPT ![t] = f]
       /\ UNCHANGED << freelist, pagelist, leaked, halted >>
    \/ /\ fs[f].content = "FAILED_INIT"
       /\ vm_release_frame_ref(fs, f, [pc EXCEPT ![t] = "idle"])
       /\ fr' = [fr EXCEPT ![t] = NoFrame]
       /\ UNCHANGED leaked
    \/ /\ fs[f].content = "CLEAN"
       /\ frame' = fs
       /\ \/ /\ pc' = [pc EXCEPT ![t] = "holds"]
             /\ fr' = [fr EXCEPT ![t] = f]
             /\ UNCHANGED leaked
          \/ /\ pc' = [pc EXCEPT ![t] = "idle"]
             /\ fr' = [fr EXCEPT ![t] = NoFrame]
             /\ leaked' = [leaked EXCEPT ![f] = @ + 1]
       /\ UNCHANGED << freelist, pagelist, halted >>

\* A thread calls vm_lock_page, and then competes for the lock.
call_vm_lock_page(t, p) ==
    /\ pc[t] = "idle" /\ calls[t] < MaxCalls
    /\ calls' = [calls EXCEPT ![t] = @ + 1]
    /\ pc' = [pc EXCEPT ![t] = "lock"] /\ page' = [page EXCEPT ![t] = p]
    /\ UNCHANGED << freelist, frame, pagelist, lock, fr, leaked, stacks, halted, overwritten >>

\* A mutation: a page that is still coming in is not counted as locked.
vm_lock_page_hit_uncounted(t) ==
    /\ pc[t] = "lock" /\ lock = NoThread /\ Hits(page[t]) # {}
    /\ LET f == pagelist[Min(Hits(page[t]))]
       IN Found(t, f, IF frame[f].content = "PENDING_INIT" THEN frame
                      ELSE [frame EXCEPT ![f].refcount = @ + 1])
    /\ UNCHANGED << lock, page, calls, stacks, overwritten >>

\* The page is in the cache.
vm_lock_page_hit(t) ==
    /\ pc[t] = "lock" /\ lock = NoThread /\ Hits(page[t]) # {}
    /\ LET f == pagelist[Min(Hits(page[t]))]
       IN Found(t, f, [frame EXCEPT ![f].refcount = @ + 1])
    /\ UNCHANGED << lock, page, calls, stacks, overwritten >>

\* It is not: vm_alloc_and_page_in asks for a frame, with the lock held.
vm_lock_page_miss(t) ==
    /\ pc[t] = "lock" /\ lock = NoThread /\ Hits(page[t]) = {}
    /\ lock' = t /\ pc' = [pc EXCEPT ![t] = "alloc"]
    /\ UNCHANGED << freelist, frame, pagelist, page, fr, calls, leaked,
                    stacks, halted, overwritten >>

\* mem_alloc_frame sleeps: there is no frame.
mem_alloc_frame_wait(t) ==
    /\ pc[t] = "alloc" /\ freelist = << >>
    /\ pc' = [pc EXCEPT ![t] = "sleep"]
    /\ UNCHANGED << freelist, frame, pagelist, lock, page, fr, calls, leaked,
                    stacks, halted, overwritten >>

\* It has one, which joins the cache before the lock is given up.
vm_alloc_and_page_in(t) ==
    /\ pc[t] = "alloc" /\ freelist # << >>
    /\ frame' = [Allocated("VM_PGCACHE", 1)
                   EXCEPT ![Head(freelist)].content = "PENDING_INIT"]
    /\ freelist' = Tail(freelist)
    /\ pagelist' = Append(pagelist, Head(freelist))
    /\ fr' = [fr EXCEPT ![t] = Head(freelist)]
    /\ pc' = [pc EXCEPT ![t] = "pagein"] /\ lock' = NoThread
    /\ UNCHANGED << page, calls, leaked, stacks, halted, overwritten >>

\* Where the threads are after cond_broadcast(&obj->cond).
Broadcast(ready) ==
    [t \in Threads |-> IF ready[t] = "wait" THEN "woken" ELSE ready[t]]

\* A mutation: waiters hear of success only.
vm_pagein_failed_silent(t) ==
    /\ pc[t] = "pagein" /\ lock = NoThread /\ Write(fr[t])
    /\ vm_release_frame_ref([frame EXCEPT ![fr[t]].content = "FAILED_INIT"],
                            fr[t], [pc EXCEPT ![t] = "idle"])
    /\ fr' = [fr EXCEPT ![t] = NoFrame]
    /\ UNCHANGED << lock, page, calls, leaked, stacks >>

\* vm_pagein has failed, and the thread has the lock again.
vm_pagein_failed(t) ==
    /\ pc[t] = "pagein" /\ lock = NoThread /\ Write(fr[t])
    /\ vm_release_frame_ref([frame EXCEPT ![fr[t]].content = "FAILED_INIT"],
                            fr[t], Broadcast([pc EXCEPT ![t] = "idle"]))
    /\ fr' = [fr EXCEPT ![t] = NoFrame]
    /\ UNCHANGED << lock, page, calls, leaked, stacks >>

\* vm_pagein has succeeded, and the thread has the lock again.
vm_pagein_done(t) ==
    /\ pc[t] = "pagein" /\ lock = NoThread /\ Write(fr[t])
    /\ frame' = [frame EXCEPT ![fr[t]].content = "CLEAN"]
    /\ pc' = Broadcast([pc EXCEPT ![t] = "holds"])
    /\ UNCHANGED << freelist, pagelist, lock, page, fr, calls, leaked, stacks, halted >>

\* cond_wait returns, and the content of the frame is looked at again.
cond_wait_returns(t) ==
    /\ pc[t] = "woken" /\ lock = NoThread
    /\ Found(t, fr[t], frame)
    /\ UNCHANGED << lock, page, calls, stacks, overwritten >>

\* The caller has used the page.
vm_unlock_page(t) ==
    /\ pc[t] = "holds" /\ lock = NoThread
    /\ KASSERT(frame[fr[t]].refcount > 0)
    /\ frame' = [frame EXCEPT ![fr[t]].refcount = @ - 1]
    /\ pc' = [pc EXCEPT ![t] = "idle"] /\ fr' = [fr EXCEPT ![t] = NoFrame]
    /\ UNCHANGED << freelist, pagelist, lock, page, calls, leaked, stacks, overwritten >>

Step(t) ==
    \/ vm_lock_page_hit(t) \/ vm_lock_page_miss(t)
    \/ mem_alloc_frame_wait(t) \/ vm_alloc_and_page_in(t)
    \/ vm_pagein_failed(t) \/ vm_pagein_done(t)
    \/ cond_wait_returns(t) \/ vm_unlock_page(t)

Next ==
    /\ ~halted /\ ~overwritten
    /\ \/ stack_alloc \/ \E pa \in stacks : stack_free(pa)
       \/ \E t \in Threads : Step(t) \/ \E p \in Pages : call_vm_lock_page(t, p)

\* A thread that can run does run, and read_page returns.
Spec == Init /\ [][Next]_vars /\ \A t \in Threads : WF_vars(~halted /\ ~overwritten /\ Step(t))

-----------------------------------------------------------------------------
Cached == Range(pagelist)
Free == Range(freelist)
Stacked == {mem_pa_to_frame(pa) : pa \in stacks}

\* The frames of the BIOS data and the heap, and those from the ISA hole to the
\* end of the kernel.
Reserved ==
    {f \in Frames : \/ f < mem_pa_to_frame(PAGE_SIZE + HEAP_SIZE)
                     \/ f \in mem_pa_to_frame(ISA_HOLE_START) ..
                              mem_pa_to_frame(kernel_end) - 1}

(***************************************************************************)
(* The reference count of a page in the cache is the number of threads     *)
(* that read it, wait for it or have locked it, and of the locks that      *)
(* vm_lock_page reported as errors: the asserts about it never fail, and a *)
(* page in use is never discarded, as long as the frame structures have    *)
(* not been overwritten.                                                   *)
(***************************************************************************)
LocksCounted ==
    ~overwritten =>
    /\ ~halted
    /\ \A f \in Cached :
          frame[f].refcount = Cardinality({t \in Threads : fr[t] = f}) + leaked[f]

(***************************************************************************)
(* As long as the frame structures have not been overwritten, every frame  *)
(* is in one place: where the BIOS, the heap, the ISA hole, the first      *)
(* stack or the kernel lies, free, the stack of a thread, or in the cache, *)
(* and its state says which.  Nobody refers to a frame that left the       *)
(* cache; who has locked a page finds it complete; a page that failed to   *)
(* come in leaves the cache with the last thread that asked for it; and    *)
(* nobody sleeps for a frame while one is free.                            *)
(***************************************************************************)
NoStaleFrame ==
    ~overwritten =>
    /\ \A f \in Frames : Cardinality({s \in 1 .. 4 :
                            f \in << Reserved, Free, Stacked, Cached >>[s]}) = 1
    /\ \A f \in Frames \ Reserved :
          frame[f].state = IF f \in Free THEN "AVAIL"
                           ELSE IF f \in Cached THEN "VM_PGCACHE" ELSE "KSTACK"
    /\ Len(freelist) + Len(pagelist) = Cardinality(Free \cup Cached)
    /\ \A f \in Free : frame[f].refcount = 0
    /\ \A t \in Threads : fr[t] # NoFrame =>
          fr[t] \in Cached /\ (pc[t] = "holds" => frame[fr[t]].content = "CLEAN")
    /\ \A f \in Cached : frame[f].content = "FAILED_INIT" => frame[f].refcount > 0
    /\ \A t \in Threads : pc[t] = "sleep" => freelist = << >>

(***************************************************************************)
(* The frame list is kernel memory, as the comment in mem_scan_regions     *)
(* says: no stack and no page is put where the frame structures lie.  The  *)
(* code adds the length of the list in frames to an address in bytes, and  *)
(* this fails as soon as the frames of low memory are used up.             *)
(***************************************************************************)
FrameListKept == FrameListFrames \cap (Stacked \cup Cached) = {}

(***************************************************************************)
(* A thread that found its page still coming in gets an answer, unless     *)
(* somebody is stuck in mem_alloc_frame, which keeps the lock while it     *)
(* waits for a frame, or the frame structures have been overwritten.       *)
(***************************************************************************)
WaitersAnswered ==
    \A t \in Threads :
        pc[t] = "wait" ~>
            \/ pc[t] \in {"idle", "holds"} \/ overwritten
            \/ \E u \in Threads : pc[u] \in {"alloc", "sleep"}

=============================================================================
