------------------------------- MODULE MCHeap -------------------------------
(***************************************************************************)
(* A small heap.  A header takes two bytes and a link two more.            *)
(***************************************************************************)
EXTENDS Heap

Symmetry == Permutations(Threads)

=============================================================================
