----------------------------- MODULE LinkedList -----------------------------
(***************************************************************************)
(* The intrusive doubly linked lists of include/geekos/list.h, pointer by  *)
(* pointer, and thread_queue_insert_at_priority of thread.c, which works   *)
(* on the links directly.  Nodes carry one next and one prev link, shared  *)
(* by all the lists they may be in; a removal leaves the links of the      *)
(* removed node as they were.                                              *)
(***************************************************************************)
EXTENDS Integers, Sequences, FiniteSets

CONSTANTS Lists, Nodes, Null, priority

ASSUME NodeAssumption ==
    /\ Null \notin Nodes
    /\ IsFiniteSet(Nodes)
    /\ priority \in [Nodes -> Nat]

VARIABLES head, tail,   \* of each list
          next, prev    \* of each node

vars == << head, tail, next, prev >>

\* Lists start cleared (list_clear), nodes zero-filled (mem_alloc).
Init ==
    /\ head = [l \in Lists |-> Null] /\ tail = [l \in Lists |-> Null]
    /\ next = [n \in Nodes |-> Null] /\ prev = [n \in Nodes |-> Null]

(***************************************************************************)
(* The way from node n along link: the node met after each number of       *)
(* steps, Null when the end has been passed.  One step more than there are *)
(* nodes, so that a cycle shows.                                           *)
(***************************************************************************)
Steps == 0 .. Cardinality(Nodes)

Way(n, link) ==
    LET at[k \in Steps] ==
            IF k = 0 THEN n ELSE IF at[k - 1] = Null THEN Null ELSE link[at[k - 1]]
    IN  at

\* The nodes met on it.
Walk(n, link) ==
    LET way == Way(n, link)
    IN  [i \in 1 .. Cardinality({k \in Steps : way[k] # Null}) |-> way[i - 1]]

Contents(l) == Walk(head[l], next)

Linked(n, l) == LET c == Contents(l) IN \E i \in DOMAIN c : c[i] = n

Unlinked(n) == \A l \in Lists : ~Linked(n, l)

-----------------------------------------------------------------------------
append(l, n) ==
    /\ Unlinked(n)
    /\ IF head[l] = Null
       THEN /\ head' = [head EXCEPT ![l] = n]
            /\ next' = [next EXCEPT ![n] = Null]
            /\ prev' = [prev EXCEPT ![n] = Null]
       ELSE /\ next' = [next EXCEPT ![n] = Null, ![tail[l]] = n]
            /\ prev' = [prev EXCEPT ![n] = tail[l]]
            /\ UNCHANGED head
    /\ tail' = [tail EXCEPT ![l] = n]

prepend(l, n) ==
    /\ Unlinked(n)
    /\ IF head[l] = Null
       THEN /\ tail' = [tail EXCEPT ![l] = n]
            /\ next' = [next EXCEPT ![n] = Null]
            /\ prev' = [prev EXCEPT ![n] = Null]
       ELSE /\ next' = [next EXCEPT ![n] = head[l]]
            /\ prev' = [prev EXCEPT ![n] = Null, ![head[l]] = n]
            /\ UNCHANGED tail
    /\ head' = [head EXCEPT ![l] = n]

append_all(l, m) ==
    /\ l # m /\ head[m] # Null
    /\ IF head[l] = Null
       THEN /\ head' = [head EXCEPT ![l] = head[m], ![m] = Null]
            /\ UNCHANGED << next, prev >>
       ELSE /\ head' = [head EXCEPT ![m] = Null]
            /\ next' = [next EXCEPT ![tail[l]] = head[m]]
            /\ prev' = [prev EXCEPT ![head[m]] = tail[l]]
    /\ tail' = [tail EXCEPT ![l] = tail[m], ![m] = Null]

remove_first(l) ==
    /\ head[l] # Null
    /\ IF head[l] = tail[l]
       THEN /\ head' = [head EXCEPT ![l] = Null]
            /\ tail' = [tail EXCEPT ![l] = Null]
            /\ UNCHANGED prev
       ELSE /\ head' = [head EXCEPT ![l] = next[head[l]]]
            /\ prev' = [prev EXCEPT ![next[head[l]]] = Null]
            /\ UNCHANGED tail
    /\ UNCHANGED next

remove_last(l) ==
    /\ head[l] # Null
    /\ IF head[l] = tail[l]
       THEN /\ head' = [head EXCEPT ![l] = Null]
            /\ tail' = [tail EXCEPT ![l] = Null]
            /\ UNCHANGED next
       ELSE /\ tail' = [tail EXCEPT ![l] = prev[tail[l]]]
            /\ next' = [next EXCEPT ![prev[tail[l]]] = Null]
            /\ UNCHANGED head
    /\ UNCHANGED prev

remove(l, n) ==
    /\ Linked(n, l)
    /\ IF prev[n] # Null
       THEN next' = [next EXCEPT ![prev[n]] = next[n]] /\ UNCHANGED head
       ELSE head' = [head EXCEPT ![l] = next[n]] /\ UNCHANGED next
    /\ IF next[n] # Null
       THEN prev' = [prev EXCEPT ![next[n]] = prev[n]] /\ UNCHANGED tail
       ELSE tail' = [tail EXCEPT ![l] = prev[n]] /\ UNCHANGED prev

\* A mutation: the scan also passes nodes of the same priority.
ScanPastEqual(n, m) ==
    LET back == Walk(m, prev)
        stop == {i \in DOMAIN back :
                    priority[n] > priority[back[i]] \/ prev[back[i]] = Null}
    IN back[CHOOSE i \in stop : \A j \in stop : i <= j]

\* The scan of thread_queue_insert_at_priority, from node m towards the head.
Scan(n, m) ==
    LET back == Walk(m, prev)
        stop == {i \in DOMAIN back :
                    priority[n] >= priority[back[i]] \/ prev[back[i]] = Null}
    IN back[CHOOSE i \in stop : \A j \in stop : i <= j]

\* A mutation: the successor's prev link is not set.
InsertAfterOneWay(temp, n) ==
    /\ prev' = [prev EXCEPT ![n] = temp]
    /\ next' = [next EXCEPT ![n] = next[temp], ![temp] = n]
    /\ UNCHANGED << head, tail >>

\* Between temp and its successor.
InsertAfter(temp, n) ==
    /\ prev' = [prev EXCEPT ![n] = temp, ![next[temp]] = n]
    /\ next' = [next EXCEPT ![n] = next[temp], ![temp] = n]
    /\ UNCHANGED << head, tail >>

insert_at_priority(l, n) ==
    /\ Unlinked(n)
    /\ \/ /\ head[l] # Null => priority[n] >= priority[tail[l]]
          /\ append(l, n)
       \/ /\ head[l] # Null /\ priority[n] < priority[tail[l]]
          /\ priority[n] < priority[head[l]]
          /\ prepend(l, n)
       \/ /\ head[l] # Null /\ priority[n] < priority[tail[l]]
          /\ priority[n] >= priority[head[l]]
          /\ InsertAfter(Scan(n, tail[l]), n)

Next ==
    \/ \E l \in Lists : remove_first(l) \/ remove_last(l)
    \/ \E l \in Lists, n \in Nodes :
          append(l, n) \/ prepend(l, n) \/ insert_at_priority(l, n) \/ remove(l, n)
    \/ \E l, m \in Lists : append_all(l, m)

Spec == Init /\ [][Next]_vars

-----------------------------------------------------------------------------
(***************************************************************************)
(* Both directions tell the same story: read from the tail along prev, a   *)
(* list is its contents backwards, although removed nodes keep stale links *)
(* and may have been moved to another list in the meantime.                *)
(***************************************************************************)
BothWays ==
    \A l \in Lists :
        LET forth == Contents(l)
            back  == Walk(tail[l], prev)
        IN /\ Len(forth) = Len(back)
           /\ Len(forth) <= Cardinality(Nodes)
           /\ \A i \in 1 .. Len(forth) : forth[i] = back[Len(back) + 1 - i]

Q == INSTANCE Queues WITH queue <- [l \in Lists |-> Contents(l)]

\* Seen through next from the head, the lists behave as the sequences.
ImplementsQueues == Q!Spec

=============================================================================
