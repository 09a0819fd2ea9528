------------------------------- MODULE Synch -------------------------------
(***************************************************************************)
(* Mutexes and condition variables (src/kernel/synch.c) over thread_park   *)
(* and thread_wakeup_one (thread.c), on one CPU with a timer interrupt.    *)
(*                                                                         *)
(* Inside these functions a thread runs with g_preemption off: interrupts  *)
(* still arrive, but none of them switches threads.  thread_park disables  *)
(* interrupts, turns preemption on for the others and sleeps; the thread   *)
(* that comes back turns preemption off again before it enables            *)
(* interrupts.                                                             *)
(*                                                                         *)
(* The clients lock one mutex up to MaxLocks times each (mutex_poet locks  *)
(* it once) and, while they hold it, may use one condition variable as     *)
(* vm.c and vfs.c do.  The run queue is FIFO: the synchronization          *)
(* simulations run under RR.                                               *)
(***************************************************************************)
EXTENDS ThreadQueue, FiniteSets

CONSTANTS
    Clients,    \* the threads that use the mutex
    Idle,       \* the idle thread
    NoThread,   \* the null pointer
    Ops,        \* the condition operations clients use
    MaxLocks    \* mutex_lock calls of a client before it exits

ASSUME ClientAssumption ==
    /\ IsFiniteSet(Clients)
    /\ Idle \notin Clients /\ NoThread \notin Clients \cup {Idle}
    /\ Ops \subseteq {"wait", "signal", "broadcast"}
    /\ MaxLocks \in Nat

Thread == Clients \cup {Idle}

VARIABLES
    g_current, s_runqueue, g_preemption, g_need_reschedule,
    intr,                   \* EFLAGS.IF, of the CPU or saved on the stack
    pc,
    locks,                  \* mutex_lock calls a client has left
    mutex_state, owner,     \* mutex->state, mutex->owner
    mutex_waitqueue, cond_waitqueue

cpuVars == << g_current, s_runqueue >>
mutexVars == << mutex_state, owner >>
vars == << cpuVars, g_preemption, g_need_reschedule, intr, pc, locks,
           mutexVars, mutex_waitqueue, cond_waitqueue >>

\* A client is in a function that turned preemption off, and not asleep.
NoPreempt == {"lock_test", "lock_done", "unlock", "unlock_wake", "unlock_done",
              "wait_unlock", "wait_wake", "wait_park"}

PC == NoPreempt \cup {"out", "parked", "cs", "wait_parked", "broadcast",
                      "done", "halt", "yield", "yielded"}

(***************************************************************************)
(* mutex_init and cond_init have run; the clients wait in the run queue,   *)
(* created by long_term_scheduler, and the idle thread has the CPU.        *)
(***************************************************************************)
Init ==
    /\ g_current = Idle
    /\ s_runqueue \in {q \in [1 .. Cardinality(Clients) -> Clients] :
                          Distinct(q) /\ \A t \in Clients : InQueue(t, q)}
    /\ g_preemption = TRUE
    /\ g_need_reschedule = FALSE
    /\ intr = [t \in Thread |-> TRUE]
    /\ pc = [t \in Thread |-> IF t = Idle THEN "yield" ELSE "out"]
    /\ locks = [t \in Clients |-> MaxLocks]
    /\ mutex_state = "UNLOCKED"
    /\ owner = NoThread
    /\ mutex_waitqueue = << >>
    /\ cond_waitqueue = << >>

-----------------------------------------------------------------------------
At(t, l) == g_current = t /\ pc[t] = l
Goto(t, l) == pc' = [pc EXCEPT ![t] = l]
SetIntr(t, b) == intr' = [intr EXCEPT ![t] = b]

\* thread_schedule with run queue rq.
SwitchTo(rq) == g_current' = Head(rq) /\ s_runqueue' = Tail(rq)

\* A mutation: the thread that is interrupted is not made runnable.
interrupt_drops_current ==
    /\ intr[g_current]
    /\ \E expired \in BOOLEAN :
          IF g_preemption /\ (g_need_reschedule \/ expired)
          THEN g_need_reschedule' = FALSE /\ SwitchTo(s_runqueue)
          ELSE /\ g_need_reschedule' = (g_need_reschedule \/ expired)
               /\ UNCHANGED cpuVars
    /\ UNCHANGED << g_preemption, intr, pc, locks, mutexVars,
                    mutex_waitqueue, cond_waitqueue >>

(***************************************************************************)
(* A timer interrupt.  It may find the quantum used up, and on the way out *)
(* int_handle_interrupt switches threads if a switch is due, possibly      *)
(* since an earlier tick, and preemption is on.                            *)
(***************************************************************************)
timer_interrupt ==
    /\ intr[g_current]
    /\ \E expired \in BOOLEAN :
          IF g_preemption /\ (g_need_reschedule \/ expired)
          THEN /\ g_need_reschedule' = FALSE
               /\ SwitchTo(Append(s_runqueue, g_current))
          ELSE /\ g_need_reschedule' = (g_need_reschedule \/ expired)
               /\ UNCHANGED cpuVars
    /\ UNCHANGED << g_preemption, intr, pc, locks, mutexVars,
                    mutex_waitqueue, cond_waitqueue >>

\* The idle thread's thread_yield, and its return.
thread_yield ==
    /\ At(Idle, "yield")
    /\ SwitchTo(Append(s_runqueue, Idle))
    /\ Goto(Idle, "yielded") /\ SetIntr(Idle, FALSE)
    /\ UNCHANGED << g_preemption, g_need_reschedule, locks, mutexVars,
                    mutex_waitqueue, cond_waitqueue >>

thread_yield_return ==
    /\ At(Idle, "yielded")
    /\ Goto(Idle, "yield") /\ SetIntr(Idle, TRUE)
    /\ UNCHANGED << cpuVars, g_preemption, g_need_reschedule, locks, mutexVars,
                    mutex_waitqueue, cond_waitqueue >>

-----------------------------------------------------------------------------
(***************************************************************************)
(* thread_park: the part before the switch, for a queue the caller         *)
(* appends to, and the part after it.                                      *)
(***************************************************************************)
thread_park(t, l) ==
    /\ g_preemption' = TRUE
    /\ SetIntr(t, FALSE)
    /\ SwitchTo(s_runqueue)
    /\ Goto(t, l)

\* A mutation: preemption stays on after the sleep.
park_return_preemptible(t) ==
    /\ g_current = t /\ pc[t] \in {"parked", "wait_parked"}
    /\ SetIntr(t, TRUE)
    /\ Goto(t, "lock_test")
    /\ UNCHANGED << cpuVars, g_preemption, g_need_reschedule, locks, mutexVars,
                    mutex_waitqueue, cond_waitqueue >>

\* A mutation: the loop around thread_park is an if, so the mutex is not
\* tested again.
park_return_takes(t) ==
    /\ g_current = t /\ pc[t] \in {"parked", "wait_parked"}
    /\ g_preemption' = FALSE
    /\ SetIntr(t, TRUE)
    /\ mutex_state' = "LOCKED" /\ owner' = t
    /\ Goto(t, "lock_done")
    /\ UNCHANGED << cpuVars, g_need_reschedule, locks, mutex_waitqueue,
                    cond_waitqueue >>

thread_park_return(t) ==
    /\ g_current = t /\ pc[t] \in {"parked", "wait_parked"}
    /\ g_preemption' = FALSE
    /\ SetIntr(t, TRUE)
    /\ Goto(t, "lock_test")
    /\ UNCHANGED << cpuVars, g_need_reschedule, locks, mutexVars,
                    mutex_waitqueue, cond_waitqueue >>

\* A function of synch.c turns preemption off or on: the step from l to m.
SetPreemption(t, l, b, m) ==
    /\ At(t, l)
    /\ g_preemption' = b
    /\ Goto(t, m)
    /\ UNCHANGED << cpuVars, g_need_reschedule, intr, mutexVars,
                    mutex_waitqueue, cond_waitqueue >>

\* mutex_lock turns preemption off ...
mutex_lock(t) ==
    /\ locks[t] > 0
    /\ locks' = [locks EXCEPT ![t] = @ - 1]
    /\ SetPreemption(t, "out", FALSE, "lock_test")

\* A mutation: the idle thread is appended to the mutex's queue.
lock_parks_idle(t) ==
    /\ At(t, "lock_test") /\ mutex_state = "LOCKED"
    /\ mutex_waitqueue' = Append(mutex_waitqueue, Head(s_runqueue))
    /\ thread_park(t, "parked")
    /\ UNCHANGED << g_need_reschedule, locks, mutexVars, cond_waitqueue >>

\* ... mutex_lock_imp finds the mutex locked, and parks ...
mutex_lock_park(t) ==
    /\ At(t, "lock_test") /\ mutex_state = "LOCKED"
    /\ mutex_waitqueue' = Append(mutex_waitqueue, t)
    /\ thread_park(t, "parked")
    /\ UNCHANGED << g_need_reschedule, locks, mutexVars, cond_waitqueue >>

\* ... or takes it ...
mutex_lock_take(t) ==
    /\ At(t, "lock_test") /\ mutex_state = "UNLOCKED"
    /\ mutex_state' = "LOCKED" /\ owner' = t
    /\ Goto(t, "lock_done")
    /\ UNCHANGED << cpuVars, g_preemption, g_need_reschedule, intr, locks,
                    mutex_waitqueue, cond_waitqueue >>

\* ... and mutex_lock or cond_wait returns with preemption on.
mutex_lock_return(t) ==
    SetPreemption(t, "lock_done", TRUE, "cs") /\ UNCHANGED locks

\* mutex_unlock turns preemption off, and on again when it returns.
mutex_unlock(t) == SetPreemption(t, "cs", FALSE, "unlock") /\ UNCHANGED locks

mutex_unlock_return(t) ==
    SetPreemption(t, "unlock_done", TRUE, "out") /\ UNCHANGED locks

\* mutex_unlock_imp, called at l: release the mutex ...
mutex_unlock_imp(t, l, m) ==
    /\ At(t, l)
    /\ mutex_state' = "UNLOCKED" /\ owner' = NoThread
    /\ Goto(t, m)
    /\ UNCHANGED << cpuVars, g_preemption, g_need_reschedule, intr, locks,
                    mutex_waitqueue, cond_waitqueue >>

\* A mutation: nobody is woken up.
unlock_without_wake(t, l, m) ==
    /\ At(t, l)
    /\ Goto(t, m)
    /\ UNCHANGED << cpuVars, g_preemption, g_need_reschedule, intr, locks,
                    mutexVars, mutex_waitqueue, cond_waitqueue >>

\* A mutation: the woken thread stays in the wait queue.
unlock_wakes_twice(t, l, m) ==
    /\ At(t, l)
    /\ s_runqueue' = IF mutex_waitqueue = << >> THEN s_runqueue
                     ELSE Append(s_runqueue, Head(mutex_waitqueue))
    /\ Goto(t, m)
    /\ UNCHANGED << g_current, g_preemption, g_need_reschedule, intr, locks,
                    mutexVars, mutex_waitqueue, cond_waitqueue >>

\* ... and wake up one thread that waits for it.
mutex_unlock_wake(t, l, m) ==
    /\ At(t, l)
    /\ IF mutex_waitqueue # << >>
       THEN /\ s_runqueue' = Append(s_runqueue, Head(mutex_waitqueue))
            /\ mutex_waitqueue' = Tail(mutex_waitqueue)
       ELSE UNCHANGED << s_runqueue, mutex_waitqueue >>
    /\ Goto(t, m)
    /\ UNCHANGED << g_current, g_preemption, g_need_reschedule, intr, locks,
                    mutexVars, cond_waitqueue >>

-----------------------------------------------------------------------------
\* cond_wait turns preemption off, unlocks the mutex and parks.
cond_wait(t) ==
    /\ "wait" \in Ops
    /\ SetPreemption(t, "cs", FALSE, "wait_unlock")
    /\ UNCHANGED locks

cond_wait_park(t) ==
    /\ At(t, "wait_park")
    /\ cond_waitqueue' = Append(cond_waitqueue, t)
    /\ thread_park(t, "wait_parked")
    /\ UNCHANGED << g_need_reschedule, locks, mutexVars, mutex_waitqueue >>

(***************************************************************************)
(* cond_signal: thread_wakeup_one with interrupts disabled.  On an empty   *)
(* queue the assertion of thread_queue_remove_first fails.                 *)
(***************************************************************************)
cond_signal(t) ==
    /\ At(t, "cs") /\ "signal" \in Ops
    /\ \/ /\ cond_waitqueue # << >>
          /\ s_runqueue' = Append(s_runqueue, Head(cond_waitqueue))
          /\ cond_waitqueue' = Tail(cond_waitqueue)
          /\ UNCHANGED << intr, pc >>
       \/ /\ cond_waitqueue = << >>
          /\ Goto(t, "halt") /\ SetIntr(t, FALSE)
          /\ UNCHANGED << s_runqueue, cond_waitqueue >>
    /\ UNCHANGED << g_current, g_preemption, g_need_reschedule, locks,
                    mutexVars, mutex_waitqueue >>

\* cond_broadcast: thread_wakeup with interrupts disabled, ...
cond_broadcast(t) ==
    /\ At(t, "cs") /\ "broadcast" \in Ops
    /\ Goto(t, "broadcast") /\ SetIntr(t, FALSE)
    /\ UNCHANGED << cpuVars, g_preemption, g_need_reschedule, locks, mutexVars,
                    mutex_waitqueue, cond_waitqueue >>

\* A mutation: cond_broadcast wakes up one thread only.
broadcast_wakes_one(t) ==
    /\ At(t, "broadcast")
    /\ IF cond_waitqueue # << >>
       THEN /\ s_runqueue' = Append(s_runqueue, Head(cond_waitqueue))
            /\ cond_waitqueue' = Tail(cond_waitqueue)
       ELSE UNCHANGED << s_runqueue, cond_waitqueue >>
    /\ Goto(t, "cs") /\ SetIntr(t, TRUE)
    /\ UNCHANGED << g_current, g_preemption, g_need_reschedule, locks,
                    mutexVars, mutex_waitqueue >>

\* ... one iteration of its loop, or the end.
cond_broadcast_wake(t) ==
    /\ At(t, "broadcast")
    /\ \/ /\ cond_waitqueue # << >>
          /\ s_runqueue' = Append(s_runqueue, Head(cond_waitqueue))
          /\ cond_waitqueue' = Tail(cond_waitqueue)
          /\ UNCHANGED << intr, pc >>
       \/ /\ cond_waitqueue = << >>
          /\ Goto(t, "cs") /\ SetIntr(t, TRUE)
          /\ UNCHANGED << s_runqueue, cond_waitqueue >>
    /\ UNCHANGED << g_current, g_preemption, g_need_reschedule, locks,
                    mutexVars, mutex_waitqueue >>

\* A client that needs the mutex no more exits.
thread_exit(t) ==
    /\ At(t, "out") /\ locks[t] = 0
    /\ SwitchTo(s_runqueue)
    /\ Goto(t, "done") /\ SetIntr(t, FALSE)
    /\ UNCHANGED << g_preemption, g_need_reschedule, locks, mutexVars,
                    mutex_waitqueue, cond_waitqueue >>

\* HALT() after the failed assertion.
Halt == pc[g_current] = "halt" /\ UNCHANGED vars

-----------------------------------------------------------------------------
UnlockStep(t) ==
    \/ mutex_unlock(t)
    \/ mutex_unlock_imp(t, "unlock", "unlock_wake")
    \/ mutex_unlock_wake(t, "unlock_wake", "unlock_done")
    \/ mutex_unlock_return(t)

LockStep(t) ==
    \/ mutex_lock(t) \/ mutex_lock_park(t) \/ mutex_lock_take(t)
    \/ mutex_lock_return(t) \/ thread_park_return(t)

CondStep(t) ==
    \/ cond_wait(t)
    \/ mutex_unlock_imp(t, "wait_unlock", "wait_wake")
    \/ mutex_unlock_wake(t, "wait_wake", "wait_park")
    \/ cond_wait_park(t)
    \/ cond_signal(t) \/ cond_broadcast(t) \/ cond_broadcast_wake(t)

ClientStep(t) == LockStep(t) \/ UnlockStep(t) \/ CondStep(t) \/ thread_exit(t)

IdleStep == thread_yield \/ thread_yield_return

Next ==
    \/ IdleStep \/ timer_interrupt \/ Halt
    \/ \E t \in Clients : ClientStep(t)

Spec == Init /\ [][Next]_vars

(***************************************************************************)
(* A thread that is scheduled again and again executes its code: a quantum *)
(* is millions of instructions long.  A client that keeps coming back to   *)
(* its critical section leaves it at last: it does not wait on conditions  *)
(* or notify others for ever.                                              *)
(***************************************************************************)
FairSpec ==
    /\ Spec
    /\ SF_vars(IdleStep)
    /\ \A t \in Clients : SF_vars(ClientStep(t)) /\ SF_vars(mutex_unlock(t))

-----------------------------------------------------------------------------
\* Every variable has its type.
TypeOK ==
    /\ g_current \in Thread
    /\ s_runqueue \in Seq(Thread)
    /\ g_preemption \in BOOLEAN
    /\ g_need_reschedule \in BOOLEAN
    /\ intr \in [Thread -> BOOLEAN]
    /\ pc \in [Thread -> PC]
    /\ locks \in [Clients -> Nat]
    /\ mutex_state \in {"LOCKED", "UNLOCKED"}
    /\ owner \in Clients \cup {NoThread}
    /\ mutex_waitqueue \in Seq(Clients)
    /\ cond_waitqueue \in Seq(Clients)

\* The labels at which a client owns the mutex.
Holding == {"lock_done", "cs", "unlock", "wait_unlock", "broadcast", "halt"}

(***************************************************************************)
(* The mutex works: a client inside its critical section is the owner, so  *)
(* that there is at most one, and a locked mutex has an owner in there.    *)
(* The mutex is only a pair of fields, tested and set in separate steps    *)
(* with interrupts enabled.  The assertions on MUTEX_IS_HELD in synch.c    *)
(* therefore hold.                                                         *)
(***************************************************************************)
OwnerHolds ==
    /\ \A t \in Clients : pc[t] \in Holding <=> owner = t
    /\ mutex_state = "LOCKED" <=> owner # NoThread

(***************************************************************************)
(* Preemption is off exactly while the current thread is inside a function *)
(* of synch.c, and no other thread is inside one: whoever is not current   *)
(* is asleep or in its own code.                                           *)
(***************************************************************************)
PreemptionDiscipline ==
    /\ ~g_preemption <=> pc[g_current] \in NoPreempt
    /\ \A t \in Clients : pc[t] \in NoPreempt => t = g_current

(***************************************************************************)
(* A client is in at most one queue, at one place, and a sleeper is in the *)
(* queue its program counter says: nobody can be woken up twice, or for    *)
(* the wrong reason.                                                       *)
(***************************************************************************)
OneQueue ==
    /\ Distinct(s_runqueue) /\ Distinct(mutex_waitqueue) /\ Distinct(cond_waitqueue)
    /\ ~InQueue(g_current, s_runqueue)
    /\ \A t \in Clients : InQueue(t, mutex_waitqueue) =>
           pc[t] = "parked" /\ t # g_current /\ ~InQueue(t, s_runqueue)
    /\ \A t \in Clients : InQueue(t, cond_waitqueue) =>
           pc[t] = "wait_parked" /\ t # g_current /\ ~InQueue(t, s_runqueue)

(***************************************************************************)
(* No thread gets lost: until it exits it has the CPU, or is in a queue    *)
(* from which somebody can take it.                                        *)
(***************************************************************************)
NoThreadLost ==
    \A t \in Thread :
        \/ pc[t] = "done" \/ t = g_current \/ InQueue(t, s_runqueue)
        \/ InQueue(t, mutex_waitqueue) \/ InQueue(t, cond_waitqueue)

(***************************************************************************)
(* No wake-up is lost: when clients sleep on a mutex that is free, somebody *)
(* is on the way who will take it or wake one of them: a thread about to   *)
(* wake the first waiter, or one already woken that has yet to retry.      *)
(***************************************************************************)
NoLostWakeup ==
    mutex_waitqueue # << >> /\ mutex_state = "UNLOCKED" =>
        \E t \in Clients :
            \/ pc[t] \in {"unlock_wake", "wait_wake", "lock_test"}
            \/ pc[t] = "parked" /\ ~InQueue(t, mutex_waitqueue)

(***************************************************************************)
(* A client that calls mutex_lock, or returns to it from cond_wait, gets   *)
(* the mutex, although mutex_unlock does not hand it to the thread it      *)
(* wakes up; unless a failed assertion stopped the kernel.                 *)
(***************************************************************************)
LockGranted ==
    \A t \in Clients :
        pc[t] = "lock_test" ~> pc[t] = "cs" \/ pc[g_current] = "halt"

-----------------------------------------------------------------------------
(***************************************************************************)
(* The refinement: what a client is doing, seen from outside.  A client    *)
(* waits from the step that releases the mutex until a notification takes  *)
(* it out of the condition's queue; a broadcast notifies when it begins.   *)
(***************************************************************************)
Broadcasting == \E t \in Clients : pc[t] = "broadcast"

phase == [t \in Clients |->
    CASE pc[t] \in {"out", "unlock_wake", "unlock_done", "done"} -> "out"
      [] pc[t] \in {"lock_test", "parked"} -> "wanting"
      [] pc[t] \in Holding -> "holding"
      [] pc[t] \in {"wait_wake", "wait_park"} -> "waiting"
      [] OTHER -> IF InQueue(t, cond_waitqueue) /\ ~Broadcasting
                  THEN "waiting" ELSE "wanting"]

M == INSTANCE Monitor

\* synch.c implements the monitor.
ImplementsMonitor == M!Spec

=============================================================================
