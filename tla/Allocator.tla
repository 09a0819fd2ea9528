----------------------------- MODULE Allocator -----------------------------
(***************************************************************************)
(* What the kernel heap promises the callers of mem_alloc and mem_free:    *)
(* a buffer is inside the heap and shares no byte with another buffer      *)
(* until it is freed, and whoever sleeps for want of memory tries again    *)
(* after every mem_free.                                                   *)
(***************************************************************************)
EXTENDS Integers

CONSTANTS Threads, Lens, HeapStart, HeapEnd

VARIABLES
    buffers,    \* the buffers in use, [addr, len]
    request,    \* the size a thread asks for, or 0
    asleep      \* the threads that wait for memory

Bytes(b) == b.addr .. b.addr + b.len - 1

Init == buffers = {} /\ request = [t \in Threads |-> 0] /\ asleep = {}

Call(t, len) ==
    /\ request[t] = 0
    /\ request' = [request EXCEPT ![t] = len]
    /\ UNCHANGED << buffers, asleep >>

Grant(t) ==
    /\ request[t] # 0 /\ t \notin asleep
    /\ \E a \in HeapStart .. HeapEnd - request[t] :
          LET new == [addr |-> a, len |-> request[t]]
          IN /\ \A b \in buffers : Bytes(b) \cap Bytes(new) = {}
             /\ buffers' = buffers \cup {new}
    /\ request' = [request EXCEPT ![t] = 0]
    /\ UNCHANGED asleep

Refuse(t) ==
    /\ request[t] # 0
    /\ asleep' = asleep \cup {t}
    /\ UNCHANGED << buffers, request >>

Free(b) ==
    /\ b \in buffers
    /\ buffers' = buffers \ {b}
    /\ asleep' = {}
    /\ UNCHANGED request

Next ==
    \/ \E t \in Threads : Grant(t) \/ Refuse(t) \/ \E len \in Lens : Call(t, len)
    \/ \E b \in buffers : Free(b)

Spec == Init /\ [][Next]_<< buffers, request, asleep >>

=============================================================================
