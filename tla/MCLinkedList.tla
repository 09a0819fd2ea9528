---------------------------- MODULE MCLinkedList ----------------------------
(***************************************************************************)
(* Two lists and four nodes, two of which have the same priority.          *)
(***************************************************************************)
EXTENDS LinkedList

CONSTANTS n1, n2, n3, n4

FourNodes == {n1, n2, n3, n4}
TwoEqual == [n \in Nodes |-> CASE n = n1 -> 1 [] n \in {n2, n3} -> 2 [] n = n4 -> 3]

=============================================================================
