---------------------------- MODULE ThreadQueue ----------------------------
(***************************************************************************)
(* The thread queues of GeekOS (include/geekos/list.h instantiated in      *)
(* src/60-330/kernel/thread.c, and the scheduler table of scheduler.c).    *)
(*                                                                         *)
(* A struct thread_queue is a doubly linked list threaded through the      *)
(* structs themselves; here it is the sequence of its threads from head to *)
(* tail.  thread_queue_append is Append, thread_queue_is_empty is          *)
(* q = << >>, and thread_queue_remove_first, which asserts that the list   *)
(* is not empty, is Head and Tail under that guard.                        *)
(***************************************************************************)
EXTENDS Integers, Sequences, SequencesExt

\* The values of scheduler_t (include/60-330/scheduler.h).
Scheduler == {"FCFS", "SJF", "PRIORITY", "RR"}

(***************************************************************************)
(* Where thread_queue_insert_at_priority stops its scan from the tail: at  *)
(* the last thread whose priority number is not larger than that of the    *)
(* thread being inserted.                                                  *)
(***************************************************************************)
ScanFromTail(q, t, priority) ==
    CHOOSE p \in 1 .. Len(q) :
        /\ priority[q[p]] <= priority[t]
        /\ \A k \in p + 1 .. Len(q) : priority[t] < priority[q[k]]

\* A mutation: the new thread goes before the one where the scan stopped.
insert_before_scan(q, t, priority) ==
    IF q = << >> \/ priority[t] >= priority[q[Len(q)]]
    THEN Append(q, t)
    ELSE IF priority[t] < priority[q[1]]
    THEN << t >> \o q
    ELSE InsertAt(q, ScanFromTail(q, t, priority), t)

(***************************************************************************)
(* thread_queue_insert_at_priority: a larger number is a lower priority,   *)
(* and threads of one priority keep the order of their arrival.            *)
(***************************************************************************)
thread_queue_insert_at_priority(q, t, priority) ==
    IF q = << >> \/ priority[t] >= priority[q[Len(q)]]
    THEN Append(q, t)
    ELSE IF priority[t] < priority[q[1]]
    THEN << t >> \o q
    ELSE InsertAt(q, 1 + ScanFromTail(q, t, priority), t)

(***************************************************************************)
(* SCHEDULER[g_scheduler](queue, thread): RR enqueues like FCFS, SJF and   *)
(* PRIORITY share the ordered insertion (SJF keeps the expected burst in   *)
(* the priority field).                                                    *)
(***************************************************************************)
SCHEDULER(g_scheduler, q, t, priority) ==
    IF g_scheduler \in {"SJF", "PRIORITY"}
    THEN thread_queue_insert_at_priority(q, t, priority)
    ELSE Append(q, t)

\* Thread t is in queue q.
InQueue(t, q) == \E i \in 1 .. Len(q) : q[i] = t

\* No thread is in q twice.
Distinct(q) == \A i, j \in 1 .. Len(q) : q[i] = q[j] => i = j

\* A queue that serves the smallest priority number first.
Ordered(q, priority) ==
    \A i, j \in 1 .. Len(q) : i < j => priority[q[i]] <= priority[q[j]]

=============================================================================
