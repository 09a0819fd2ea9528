----------------------------- MODULE MCThreads -----------------------------
(***************************************************************************)
(* Small instances of Threads.                                             *)
(***************************************************************************)
EXTENDS Threads

\* A job list whose SJF order and PRIORITY order differ, with a tie.
Mixed == << [fn |-> "fn", cpu_burst |-> 20, priority |-> 1],
            [fn |-> "fn", cpu_burst |-> 10, priority |-> 2],
            [fn |-> "fn", cpu_burst |-> 20, priority |-> 1] >>

Pair == << [fn |-> "fn", cpu_burst |-> 20, priority |-> 1],
           [fn |-> "fn", cpu_burst |-> 10, priority |-> 2] >>

\* Two of the synchronization simulations, shortened to two jobs each.
PreemptionToggle == << [fn |-> "fn", cpu_burst |-> 10, priority |-> 1],
                       [fn |-> "toggler", cpu_burst |-> 10, priority |-> 1] >>

Poets == << [fn |-> "poet", cpu_burst |-> 10, priority |-> 1],
            [fn |-> "poet", cpu_burst |-> 10, priority |-> 1] >>

MixedOnly == {Mixed}
PairOnly == {Pair}
TogglerAndPoets == {PreemptionToggle, Poets}
PoetsOnly == {Poets}
NoSims == {}

SlotSymmetry == Permutations(Slots)

=============================================================================
