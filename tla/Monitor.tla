------------------------------ MODULE Monitor ------------------------------
(***************************************************************************)
(* What synch.c promises its callers, without queues, preemption or        *)
(* interrupts: a mutex with at most one holder and a condition variable    *)
(* with Mesa semantics.  cond_wait gives up the mutex and starts waiting   *)
(* in one step, and a notified thread competes for the mutex again with    *)
(* everybody else.                                                         *)
(***************************************************************************)
CONSTANT Clients

VARIABLE phase     \* what each client is doing

Init == phase = [t \in Clients |-> "out"]

Free == \A t \in Clients : phase[t] # "holding"

\* mutex_lock is called.
Request(t) == phase[t] = "out" /\ phase' = [phase EXCEPT ![t] = "wanting"]

\* mutex_lock, or the relocking at the end of cond_wait, succeeds.
Acquire(t) ==
    phase[t] = "wanting" /\ Free /\ phase' = [phase EXCEPT ![t] = "holding"]

\* mutex_unlock.
Release(t) == phase[t] = "holding" /\ phase' = [phase EXCEPT ![t] = "out"]

\* cond_wait: release and wait, with nothing in between.
Wait(t) == phase[t] = "holding" /\ phase' = [phase EXCEPT ![t] = "waiting"]

\* cond_signal by t notifies one waiting thread.
Signal(t) ==
    /\ phase[t] = "holding"
    /\ \E u \in Clients :
          phase[u] = "waiting" /\ phase' = [phase EXCEPT ![u] = "wanting"]

\* cond_broadcast by t notifies all of them.
Broadcast(t) ==
    /\ phase[t] = "holding"
    /\ phase' = [u \in Clients |-> IF phase[u] = "waiting" THEN "wanting"
                                   ELSE phase[u]]

Next == \E t \in Clients :
            \/ Request(t) \/ Acquire(t) \/ Release(t)
            \/ Wait(t) \/ Signal(t) \/ Broadcast(t)

Spec == Init /\ [][Next]_phase

\* At most one client holds the mutex.
MutualExclusion ==
    \A t, u \in Clients : phase[t] = "holding" /\ phase[u] = "holding" => t = u

=============================================================================
