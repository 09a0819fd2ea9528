------------------------------- MODULE Queues -------------------------------
(***************************************************************************)
(* What the list macros of include/geekos/list.h and the ordered insertion *)
(* of thread.c promise: a family of sequences over one set of nodes, each  *)
(* node in at most one of them.                                            *)
(***************************************************************************)
EXTENDS ThreadQueue

CONSTANTS Lists, Nodes,
          priority      \* process->priority, a function from Nodes

VARIABLE queue          \* the nodes of each list, from head to tail

Init == queue = [l \in Lists |-> << >>]

\* A node in no list, which is what every insertion expects.
Unlinked(n) == \A l \in Lists : ~Contains(queue[l], n)

Insert(l, n) ==
    /\ Unlinked(n)
    /\ \/ queue' = [queue EXCEPT ![l] = Append(@, n)]
       \/ queue' = [queue EXCEPT ![l] = << n >> \o @]
       \/ queue' = [queue EXCEPT
                       ![l] = thread_queue_insert_at_priority(@, n, priority)]

TakeOut(l) ==
    \E i \in DOMAIN queue[l] : queue' = [queue EXCEPT ![l] = RemoveAt(@, i)]

AppendAll(l, m) ==
    /\ l # m
    /\ queue' = [queue EXCEPT ![l] = queue[l] \o queue[m], ![m] = << >>]

Next ==
    \/ \E l \in Lists : TakeOut(l) \/ \E n \in Nodes : Insert(l, n)
    \/ \E l, m \in Lists : AppendAll(l, m)

Spec == Init /\ [][Next]_queue

=============================================================================
