----------------------------- MODULE SynchProofs -----------------------------
(***************************************************************************)
(* The mutexes and condition variables of synch.c are correct for every    *)
(* number of clients, every number of mutex_lock calls and every mix of    *)
(* condition operations.                                                   *)
(***************************************************************************)
EXTENDS Synch, SequenceTheorems, FiniteSetTheorems, TLAPS

(***************************************************************************)
(* thread_queue_append: the queue gains the thread, at its tail, and       *)
(* nothing else; a queue without duplicates stays one if the thread was in *)
(* none.                                                                   *)
(***************************************************************************)
LEMMA AppendQueue ==
    ASSUME NEW S, NEW q \in Seq(S), NEW x \in S
    PROVE  /\ Append(q, x) \in Seq(S)
           /\ Append(q, x) # << >>
           /\ \A t : InQueue(t, Append(q, x)) <=> InQueue(t, q) \/ t = x
           /\ Distinct(q) /\ ~InQueue(x, q) => Distinct(Append(q, x))
  <1> DEFINE r == Append(q, x)
  <1>1. /\ r \in Seq(S) /\ r # << >>
        /\ Len(q) \in Nat /\ Len(r) = Len(q) + 1
        /\ \A i \in 1 .. Len(q) : r[i] = q[i]
        /\ r[Len(q) + 1] = x
    BY AppendProperties, LenProperties
  <1> HIDE DEF r
  <1>2. \A t : InQueue(t, r) <=> InQueue(t, q) \/ t = x
    BY <1>1 DEF InQueue
  <1>3. Distinct(q) /\ ~InQueue(x, q) => Distinct(r)
    BY <1>1 DEF InQueue, Distinct
  <1> QED  BY <1>1, <1>2, <1>3 DEF r

(***************************************************************************)
(* thread_queue_remove_first on a queue that is not empty: the first       *)
(* thread leaves it, and nothing else.                                     *)
(***************************************************************************)
LEMMA RemoveFirstQueue ==
    ASSUME NEW S, NEW q \in Seq(S), q # << >>
    PROVE  /\ Head(q) \in S
           /\ Tail(q) \in Seq(S)
           /\ \A t : InQueue(t, q) <=> t = Head(q) \/ InQueue(t, Tail(q))
           /\ Distinct(q) => Distinct(Tail(q)) /\ ~InQueue(Head(q), Tail(q))
  <1>1. /\ Head(q) \in S /\ Tail(q) \in Seq(S) /\ Head(q) = q[1]
        /\ Len(q) \in Nat \ {0} /\ Len(Tail(q)) = Len(q) - 1
        /\ \A i \in 1 .. Len(Tail(q)) : Tail(q)[i] = q[i + 1]
    BY HeadTailProperties, LenProperties, EmptySeq
  <1>2. \A t : InQueue(t, q) <=> t = Head(q) \/ InQueue(t, Tail(q))
    <2> TAKE t
    <2>1. ASSUME NEW i \in 1 .. Len(q), q[i] = t, i # 1
          PROVE  InQueue(t, Tail(q))
      <3>1. i - 1 \in 1 .. Len(Tail(q)) /\ Tail(q)[i - 1] = q[i]
        BY <1>1, <2>1
      <3> QED  BY <2>1, <3>1 DEF InQueue
    <2>2. ASSUME NEW i \in 1 .. Len(Tail(q)), Tail(q)[i] = t
          PROVE  InQueue(t, q)
      <3>1. i + 1 \in 1 .. Len(q)
        BY <1>1
      <3> QED  BY <1>1, <2>2, <3>1 DEF InQueue
    <2>3. 1 \in 1 .. Len(q)
      BY <1>1
    <2> QED  BY <1>1, <2>1, <2>2, <2>3 DEF InQueue
  <1>3. Distinct(q) => Distinct(Tail(q)) /\ ~InQueue(Head(q), Tail(q))
    BY <1>1 DEF InQueue, Distinct
  <1> QED  BY <1>1, <1>2, <1>3

-----------------------------------------------------------------------------

\* The idle thread is running or runnable, so that the run queue is never
\* empty when another thread gives the CPU away.
IdleReady == g_current = Idle \/ InQueue(Idle, s_runqueue)

\* The idle thread executes thread_idle, and the clients their own code.
Labels ==
    /\ pc[Idle] \in {"yield", "yielded"}
    /\ \A t \in Clients : pc[t] \notin {"yield", "yielded"}

\* cond_broadcast's loop runs with interrupts disabled, by the current thread.
BroadcastAtomic ==
    \A t \in Clients : pc[t] = "broadcast" => t = g_current /\ intr[t] = FALSE

\* The inductive invariant.
Running == TypeOK /\ IdleReady /\ Labels
Locking == OwnerHolds /\ PreemptionDiscipline /\ BroadcastAtomic
IInv == Running /\ Locking /\ OneQueue /\ NoThreadLost /\ NoLostWakeup

-----------------------------------------------------------------------------
\* A queue with a thread in it is not empty.
LEMMA InQueueNonEmpty ==
    ASSUME NEW q, NEW t, InQueue(t, q)
    PROVE  q # << >>
  BY DEF InQueue

\* Another thread than the idle thread finds the run queue not empty.
LEMMA RunqueueNonEmpty ==
    ASSUME IdleReady, g_current # Idle
    PROVE  s_runqueue # << >>
  BY InQueueNonEmpty DEF IdleReady

(***************************************************************************)
(* thread_schedule: one thread moves from the head of the run queue to the *)
(* CPU, and no other thread moves.                                         *)
(***************************************************************************)
LEMMA SwitchMoves ==
    ASSUME NEW rq \in Seq(Thread), rq # << >>, SwitchTo(rq)
    PROVE  /\ g_current' \in Thread
           /\ s_runqueue' \in Seq(Thread)
           /\ \A t : InQueue(t, rq) <=> t = g_current' \/ InQueue(t, s_runqueue')
           /\ Distinct(rq) => Distinct(s_runqueue') /\ ~InQueue(g_current', s_runqueue')
  BY RemoveFirstQueue DEF SwitchTo

\* The same for the run queue as it is, and with the current thread appended.
LEMMA ScheduleMoves ==
    ASSUME TypeOK, IdleReady, g_current # Idle, SwitchTo(s_runqueue)
    PROVE  /\ g_current' \in Thread
           /\ s_runqueue' \in Seq(Thread)
           /\ \A t : InQueue(t, s_runqueue) <=> t = g_current' \/ InQueue(t, s_runqueue')
           /\ Distinct(s_runqueue) =>
                  Distinct(s_runqueue') /\ ~InQueue(g_current', s_runqueue')
  BY RunqueueNonEmpty, SwitchMoves DEF TypeOK

LEMMA RequeueMoves ==
    ASSUME TypeOK, SwitchTo(Append(s_runqueue, g_current))
    PROVE  /\ g_current' \in Thread
           /\ s_runqueue' \in Seq(Thread)
           /\ \A t : InQueue(t, s_runqueue) \/ t = g_current
                         <=> t = g_current' \/ InQueue(t, s_runqueue')
           /\ Distinct(s_runqueue) /\ ~InQueue(g_current, s_runqueue) =>
                  Distinct(s_runqueue') /\ ~InQueue(g_current', s_runqueue')
  <1> DEFINE rq == Append(s_runqueue, g_current)
  <1>1. /\ rq \in Seq(Thread) /\ rq # << >>
        /\ \A t : InQueue(t, rq) <=> InQueue(t, s_runqueue) \/ t = g_current
        /\ Distinct(s_runqueue) /\ ~InQueue(g_current, s_runqueue) => Distinct(rq)
    BY AppendQueue DEF TypeOK
  <1>2. SwitchTo(rq)
    OBVIOUS
  <1> HIDE DEF rq
  <1> QED  BY <1>1, <1>2, SwitchMoves

\* thread_wakeup_one on the mutex's queue, when it is not empty ...
LEMMA MutexWakeup ==
    ASSUME TypeOK, mutex_waitqueue # << >>,
           s_runqueue' = Append(s_runqueue, Head(mutex_waitqueue)),
           mutex_waitqueue' = Tail(mutex_waitqueue)
    PROVE  /\ Head(mutex_waitqueue) \in Clients
           /\ s_runqueue' \in Seq(Thread)
           /\ mutex_waitqueue' \in Seq(Clients)
           /\ \A t : InQueue(t, mutex_waitqueue) <=>
                         t = Head(mutex_waitqueue) \/ InQueue(t, mutex_waitqueue')
           /\ \A t : InQueue(t, s_runqueue') <=>
                         InQueue(t, s_runqueue) \/ t = Head(mutex_waitqueue)
           /\ Distinct(mutex_waitqueue) =>
                  Distinct(mutex_waitqueue') /\ ~InQueue(Head(mutex_waitqueue), mutex_waitqueue')
           /\ Distinct(s_runqueue) /\ ~InQueue(Head(mutex_waitqueue), s_runqueue) =>
                  Distinct(s_runqueue')
  <1>1. mutex_waitqueue \in Seq(Clients) /\ s_runqueue \in Seq(Thread)
    BY DEF TypeOK
  <1>2. Head(mutex_waitqueue) \in Clients /\ Head(mutex_waitqueue) \in Thread
    BY <1>1, RemoveFirstQueue DEF Thread
  <1> QED  BY <1>1, <1>2, RemoveFirstQueue, AppendQueue

\* ... and on the condition's.
LEMMA CondWakeup ==
    ASSUME TypeOK, cond_waitqueue # << >>,
           s_runqueue' = Append(s_runqueue, Head(cond_waitqueue)),
           cond_waitqueue' = Tail(cond_waitqueue)
    PROVE  /\ Head(cond_waitqueue) \in Clients
           /\ s_runqueue' \in Seq(Thread)
           /\ cond_waitqueue' \in Seq(Clients)
           /\ \A t : InQueue(t, cond_waitqueue) <=>
                         t = Head(cond_waitqueue) \/ InQueue(t, cond_waitqueue')
           /\ \A t : InQueue(t, s_runqueue') <=>
                         InQueue(t, s_runqueue) \/ t = Head(cond_waitqueue)
           /\ Distinct(cond_waitqueue) =>
                  Distinct(cond_waitqueue') /\ ~InQueue(Head(cond_waitqueue), cond_waitqueue')
           /\ Distinct(s_runqueue) /\ ~InQueue(Head(cond_waitqueue), s_runqueue) =>
                  Distinct(s_runqueue')
  <1>1. cond_waitqueue \in Seq(Clients) /\ s_runqueue \in Seq(Thread)
    BY DEF TypeOK
  <1>2. Head(cond_waitqueue) \in Clients /\ Head(cond_waitqueue) \in Thread
    BY <1>1, RemoveFirstQueue DEF Thread
  <1> QED  BY <1>1, <1>2, RemoveFirstQueue, AppendQueue

-----------------------------------------------------------------------------
\* The invariant holds initially.
LEMMA InitIInv == Init => IInv
  <1> SUFFICES ASSUME Init PROVE IInv
    OBVIOUS
  <1> USE ClientAssumption
  <1>1. Cardinality(Clients) \in Nat
    BY FS_CardinalityType
  <1>2. /\ s_runqueue \in [1 .. Cardinality(Clients) -> Clients]
        /\ Distinct(s_runqueue) /\ \A t \in Clients : InQueue(t, s_runqueue)
    BY DEF Init
  <1>3. s_runqueue \in Seq(Clients) /\ Len(s_runqueue) = Cardinality(Clients)
    BY <1>1, <1>2
  <1>4. s_runqueue \in Seq(Thread)
    BY <1>3, SeqMonotonic DEF Thread
  <1>5. ~InQueue(Idle, s_runqueue)
    BY <1>2, <1>3 DEF InQueue
  <1>6. << >> \in Seq(Clients) /\ Distinct(<< >>) /\ \A t : ~InQueue(t, << >>)
    BY DEF Distinct, InQueue
  <1>7. Running
    BY <1>4, <1>6 DEF Init, Running, TypeOK, IdleReady, Labels, Thread, PC, NoPreempt
  <1>8. Locking
    BY DEF Init, Locking, OwnerHolds, PreemptionDiscipline, BroadcastAtomic,
           Holding, NoPreempt, Thread
  <1>9. OneQueue
    BY <1>2, <1>5, <1>6 DEF Init, OneQueue
  <1>10. NoThreadLost
    BY <1>2 DEF Init, NoThreadLost, Thread
  <1>11. NoLostWakeup
    BY DEF Init, NoLostWakeup
  <1> QED  BY <1>7, <1>8, <1>9, <1>10, <1>11 DEF IInv

-----------------------------------------------------------------------------
(***************************************************************************)
(* Every step keeps the types, the idle thread runnable and the threads in *)
(* their own code.                                                         *)
(***************************************************************************)
LEMMA RunningStep == Running /\ [Next]_vars => Running'
  <1> SUFFICES ASSUME Running, [Next]_vars PROVE Running'
    OBVIOUS
  <1> USE ClientAssumption DEF Running
  <1>1. CASE timer_interrupt
    <2>1. PICK expired \in BOOLEAN :
              \/ /\ g_need_reschedule' = FALSE
                 /\ SwitchTo(Append(s_runqueue, g_current))
              \/ /\ g_need_reschedule' = (g_need_reschedule \/ expired)
                 /\ UNCHANGED cpuVars
      BY <1>1 DEF timer_interrupt
    <2>2. g_need_reschedule' \in BOOLEAN
      BY <2>1
    <2>3. g_current' \in Thread /\ s_runqueue' \in Seq(Thread) /\ IdleReady'
      BY <2>1, RequeueMoves DEF TypeOK, IdleReady, cpuVars
    <2> QED  BY <1>1, <2>2, <2>3 DEF timer_interrupt, TypeOK, Labels, mutexVars
  <1>2. CASE thread_yield
    <2>1. g_current' \in Thread /\ s_runqueue' \in Seq(Thread) /\ IdleReady'
      BY <1>2, RequeueMoves DEF thread_yield, At, TypeOK, IdleReady
    <2> QED  BY <1>2, <2>1 DEF thread_yield, At, Goto, SetIntr, TypeOK, Labels,
                 mutexVars, Thread, PC
  <1>3. CASE thread_yield_return
    BY <1>3 DEF thread_yield_return, At, Goto, SetIntr, TypeOK, IdleReady, Labels,
                cpuVars, mutexVars, Thread, PC
  <1>4. ASSUME NEW t \in Clients, ClientStep(t)
        PROVE  Running'
    <2> USE DEF At, Goto, SetIntr, Thread
    <2>0. t # Idle
      OBVIOUS
    <2>1. CASE mutex_lock_park(t) \/ cond_wait_park(t) \/ thread_exit(t)
      <3>1. g_current = t /\ SwitchTo(s_runqueue)
        BY <2>1 DEF mutex_lock_park, cond_wait_park, thread_exit, thread_park
      <3>2. g_current' \in Thread /\ s_runqueue' \in Seq(Thread) /\ IdleReady'
        BY <2>0, <3>1, ScheduleMoves DEF IdleReady
      <3>3. mutex_waitqueue' \in Seq(Clients) /\ cond_waitqueue' \in Seq(Clients)
        <4>1. /\ Append(mutex_waitqueue, t) \in Seq(Clients)
              /\ Append(cond_waitqueue, t) \in Seq(Clients)
          BY AppendQueue DEF TypeOK
        <4> QED  BY <2>1, <4>1 DEF TypeOK, mutex_lock_park, cond_wait_park, thread_exit
      <3> QED  BY <2>0, <2>1, <3>2, <3>3 DEF TypeOK, Labels, PC, mutexVars,
                   mutex_lock_park, cond_wait_park, thread_exit, thread_park
    <2>2. CASE mutex_lock(t)
      <3>1. locks' \in [Clients -> Nat]
        BY <2>2 DEF TypeOK, mutex_lock
      <3> QED  BY <2>0, <2>2, <3>1 DEF TypeOK, IdleReady, Labels, PC, NoPreempt, cpuVars, mutexVars,
                   mutex_lock, SetPreemption
    <2>3. CASE \/ mutex_lock_return(t) \/ mutex_unlock(t)
               \/ mutex_unlock_return(t) \/ cond_wait(t)
      BY <2>0, <2>3, ZenonT(60) DEF TypeOK, IdleReady, Labels, PC, NoPreempt, cpuVars, mutexVars,
                   SetPreemption, mutex_lock_return, mutex_unlock,
                   mutex_unlock_return, cond_wait
    <2>4. CASE mutex_lock_take(t) \/ thread_park_return(t) \/ cond_broadcast(t)
      BY <2>0, <2>4, ZenonT(60) DEF TypeOK, IdleReady, Labels, PC, NoPreempt, cpuVars, mutexVars,
                   mutex_lock_take, thread_park_return, cond_broadcast
    <2>5. CASE \/ mutex_unlock_imp(t, "unlock", "unlock_wake")
               \/ mutex_unlock_imp(t, "wait_unlock", "wait_wake")
      BY <2>0, <2>5, ZenonT(60) DEF TypeOK, IdleReady, Labels, PC, NoPreempt, cpuVars, mutexVars,
                   mutex_unlock_imp
    <2>6. CASE \/ mutex_unlock_wake(t, "unlock_wake", "unlock_done")
               \/ mutex_unlock_wake(t, "wait_wake", "wait_park")
      <3>1. /\ s_runqueue' \in Seq(Thread) /\ mutex_waitqueue' \in Seq(Clients)
            /\ IdleReady'
        <4>1. CASE mutex_waitqueue = << >>
          BY <2>6, <4>1 DEF TypeOK, IdleReady, mutex_unlock_wake
        <4>2. CASE mutex_waitqueue # << >>
          <5>1. /\ s_runqueue' = Append(s_runqueue, Head(mutex_waitqueue))
                /\ mutex_waitqueue' = Tail(mutex_waitqueue)
                /\ g_current' = g_current
            BY <2>6, <4>2 DEF mutex_unlock_wake
          <5> QED  BY <4>2, <5>1, MutexWakeup DEF IdleReady
        <4> QED  BY <4>1, <4>2
      <3> QED  BY <2>0, <2>6, <3>1, ZenonT(60) DEF TypeOK, Labels, PC, NoPreempt, mutexVars,
                   mutex_unlock_wake
    <2>7. CASE cond_signal(t) \/ cond_broadcast_wake(t)
      <3>1. /\ s_runqueue' \in Seq(Thread) /\ cond_waitqueue' \in Seq(Clients)
            /\ IdleReady'
        <4>1. CASE cond_waitqueue = << >>
          BY <2>7, <4>1 DEF TypeOK, IdleReady, cond_signal, cond_broadcast_wake
        <4>2. CASE cond_waitqueue # << >>
          <5>1. /\ s_runqueue' = Append(s_runqueue, Head(cond_waitqueue))
                /\ cond_waitqueue' = Tail(cond_waitqueue)
                /\ g_current' = g_current
            BY <2>7, <4>2 DEF cond_signal, cond_broadcast_wake
          <5> QED  BY <4>2, <5>1, CondWakeup DEF IdleReady
        <4> QED  BY <4>1, <4>2
      <3> QED  BY <2>0, <2>7, <3>1, ZenonT(60) DEF TypeOK, Labels, PC, NoPreempt, mutexVars,
                   cond_signal, cond_broadcast_wake
    <2> QED
      BY <1>4, <2>1, <2>2, <2>3, <2>4, <2>5, <2>6, <2>7
         DEF ClientStep, LockStep, UnlockStep, CondStep
  <1>5. CASE UNCHANGED vars
    BY <1>5 DEF TypeOK, IdleReady, Labels, vars, cpuVars, mutexVars
  <1> QED  BY <1>1, <1>2, <1>3, <1>4, <1>5 DEF Next, IdleStep, Halt

(***************************************************************************)
(* Every step keeps the mutex with its owner, preemption off exactly       *)
(* inside the functions of synch.c, and broadcasts uninterrupted.          *)
(***************************************************************************)
LEMMA LockingStep == Running /\ Running' /\ Locking /\ [Next]_vars => Locking'
  <1> SUFFICES ASSUME Running, Running', Locking, [Next]_vars PROVE Locking'
    OBVIOUS
  <1>0. /\ Idle \notin Clients /\ NoThread \notin Clients
        /\ g_current \in Thread /\ g_current' \in Thread
        /\ intr \in [Thread -> BOOLEAN] /\ pc \in [Thread -> PC]
        /\ g_preemption \in BOOLEAN /\ mutex_state \in {"LOCKED", "UNLOCKED"}
    BY ClientAssumption DEF Running, TypeOK
  <1> USE DEF Locking, Thread
  <1>1. CASE timer_interrupt
    <2>1. OwnerHolds' /\ pc' = pc /\ intr' = intr /\ g_preemption' = g_preemption
      BY <1>1 DEF timer_interrupt, OwnerHolds, mutexVars
    <2>2. CASE g_current' = g_current
      BY <2>1, <2>2 DEF PreemptionDiscipline, BroadcastAtomic
    <2>3. CASE g_current' # g_current
      <3>1. g_preemption /\ intr[g_current]
        BY <1>1, <2>3 DEF timer_interrupt, cpuVars
      <3>2. \A t \in Thread : pc[t] \notin NoPreempt
        BY <3>1 DEF Running, Labels, PreemptionDiscipline, NoPreempt
      <3>3. \A t \in Clients : pc[t] # "broadcast"
        BY <1>0, <3>1 DEF BroadcastAtomic
      <3> QED  BY <1>0, <2>1, <3>1, <3>2, <3>3 DEF PreemptionDiscipline, BroadcastAtomic
    <2> QED  BY <2>2, <2>3
  <1>2. CASE thread_yield \/ thread_yield_return
    <2>1. /\ g_current = Idle /\ g_preemption' = g_preemption
          /\ \A t \in Clients : pc'[t] = pc[t]
          /\ pc'[Idle] \in {"yield", "yielded"}
          /\ mutex_state' = mutex_state /\ owner' = owner
      BY <1>0, <1>2 DEF thread_yield, thread_yield_return, At, Goto, mutexVars
    <2>2. pc[Idle] \notin NoPreempt /\ pc'[Idle] \notin NoPreempt
      BY <2>1 DEF Running, Labels, NoPreempt
    <2>3. \A t \in Clients : pc[t] \notin NoPreempt /\ pc[t] # "broadcast"
      BY <1>0, <2>1 DEF PreemptionDiscipline, BroadcastAtomic
    <2>4. OwnerHolds'
      BY <2>1 DEF OwnerHolds
    <2> QED  BY <1>0, <2>1, <2>2, <2>3, <2>4 DEF PreemptionDiscipline, BroadcastAtomic
  <1>3. ASSUME NEW t \in Clients, ClientStep(t)
        PROVE  Locking'
    <2> USE DEF At, Goto, SetIntr
    <2>1. g_current = t
      BY <1>3 DEF ClientStep, LockStep, UnlockStep, CondStep, thread_exit,
             mutex_lock, mutex_lock_park, mutex_lock_take, mutex_lock_return,
             thread_park_return, mutex_unlock, mutex_unlock_return,
             mutex_unlock_imp, mutex_unlock_wake, cond_wait, cond_wait_park,
             cond_signal, cond_broadcast, cond_broadcast_wake, SetPreemption
    <2>2. pc[Idle] \notin NoPreempt /\ Idle # t
      BY <1>0 DEF Running, Labels, NoPreempt
    <2>3. CASE mutex_lock_park(t) \/ cond_wait_park(t) \/ thread_exit(t)
      <3>1. /\ pc[t] \in {"lock_test", "wait_park", "out"} /\ g_preemption' = TRUE
            /\ mutex_state' = mutex_state /\ owner' = owner
            /\ \E l \in {"parked", "wait_parked", "done"} :
                   pc' = [pc EXCEPT ![t] = l]
        BY <2>1, <2>3 DEF mutex_lock_park, cond_wait_park, thread_exit, thread_park,
                          mutexVars, PreemptionDiscipline, NoPreempt
      <3>2. \A u \in Thread : pc'[u] \notin NoPreempt
        BY <1>0, <2>1, <2>2, <3>1 DEF PreemptionDiscipline, NoPreempt
      <3>3. OwnerHolds'
        BY <1>0, <3>1 DEF OwnerHolds, Holding
      <3>4. \A u \in Clients : pc'[u] # "broadcast"
        BY <1>0, <2>1, <3>1 DEF BroadcastAtomic
      <3> QED  BY <1>0, <3>1, <3>2, <3>3, <3>4 DEF PreemptionDiscipline, BroadcastAtomic
    <2>4. CASE \/ mutex_lock(t) \/ mutex_lock_return(t) \/ mutex_unlock(t)
               \/ mutex_unlock_return(t) \/ cond_wait(t) \/ thread_park_return(t)
      <3> USE DEF mutex_lock, mutex_lock_return, mutex_unlock, mutex_unlock_return,
                  cond_wait, thread_park_return, SetPreemption, cpuVars, mutexVars
      <3>1. OwnerHolds'
        BY <1>0, <2>4 DEF OwnerHolds, Holding
      <3>2. PreemptionDiscipline'
        BY <1>0, <2>1, <2>2, <2>4 DEF PreemptionDiscipline, NoPreempt
      <3>3. BroadcastAtomic'
        BY <1>0, <2>1, <2>4 DEF BroadcastAtomic
      <3> QED  BY <3>1, <3>2, <3>3
    <2>5. CASE \/ mutex_lock_take(t) \/ mutex_unlock_imp(t, "unlock", "unlock_wake")
               \/ mutex_unlock_imp(t, "wait_unlock", "wait_wake")
      <3> USE DEF mutex_lock_take, mutex_unlock_imp, cpuVars
      <3>1. OwnerHolds'
        BY <1>0, <2>5 DEF OwnerHolds, Holding
      <3>2. PreemptionDiscipline'
        BY <1>0, <2>1, <2>5 DEF PreemptionDiscipline, NoPreempt
      <3>3. BroadcastAtomic'
        BY <1>0, <2>1, <2>5 DEF BroadcastAtomic
      <3> QED  BY <3>1, <3>2, <3>3
    <2>6. CASE \/ mutex_unlock_wake(t, "unlock_wake", "unlock_done")
               \/ mutex_unlock_wake(t, "wait_wake", "wait_park")
               \/ cond_signal(t) \/ cond_broadcast(t) \/ cond_broadcast_wake(t)
      <3> USE DEF mutex_unlock_wake, cond_signal, cond_broadcast,
                  cond_broadcast_wake, cpuVars, mutexVars
      <3>1. OwnerHolds'
        BY <1>0, <2>6 DEF OwnerHolds, Holding
      <3>2. PreemptionDiscipline'
        BY <1>0, <2>1, <2>6 DEF PreemptionDiscipline, NoPreempt
      <3>3. BroadcastAtomic'
        BY <1>0, <2>1, <2>6 DEF BroadcastAtomic
      <3> QED  BY <3>1, <3>2, <3>3
    <2> QED  BY <1>3, <2>3, <2>4, <2>5, <2>6 DEF ClientStep, LockStep, UnlockStep, CondStep
  <1>4. CASE UNCHANGED vars
    BY <1>4 DEF OwnerHolds, PreemptionDiscipline, BroadcastAtomic, vars, cpuVars, mutexVars
  <1> QED  BY <1>1, <1>2, <1>3, <1>4 DEF Next, IdleStep, Halt

(***************************************************************************)
(* Steps that move no thread between queues and let only the current       *)
(* client's program counter change, to a label outside a sleep.            *)
(***************************************************************************)
Local(t) ==
    /\ g_current = t /\ g_current' = t
    /\ \E l \in PC : pc' = [pc EXCEPT ![t] = l]
    /\ UNCHANGED << s_runqueue, mutex_waitqueue, cond_waitqueue >>

LEMMA LocalSteps ==
    ASSUME TypeOK, NEW t \in Clients,
           \/ mutex_lock(t) \/ mutex_lock_return(t) \/ mutex_unlock(t)
           \/ mutex_unlock_return(t) \/ cond_wait(t) \/ thread_park_return(t)
           \/ mutex_lock_take(t) \/ mutex_unlock_imp(t, "unlock", "unlock_wake")
           \/ mutex_unlock_imp(t, "wait_unlock", "wait_wake") \/ cond_broadcast(t)
    PROVE  Local(t)
  BY DEF mutex_lock, mutex_lock_return, mutex_unlock, mutex_unlock_return, cond_wait,
         thread_park_return, mutex_lock_take, mutex_unlock_imp, cond_broadcast,
         SetPreemption, At, Goto, cpuVars, PC, NoPreempt, Local

(***************************************************************************)
(* Every step keeps each client in at most one queue, the one where its    *)
(* program counter says it sleeps, and loses no thread.                    *)
(***************************************************************************)
LEMMA QueueStep ==
    Running /\ OneQueue /\ NoThreadLost /\ [Next]_vars => OneQueue' /\ NoThreadLost'
  <1> SUFFICES ASSUME Running, OneQueue, NoThreadLost, [Next]_vars
               PROVE  OneQueue' /\ NoThreadLost'
    OBVIOUS
  <1>0. /\ Idle \notin Clients /\ Thread = Clients \cup {Idle} /\ TypeOK /\ IdleReady
        /\ g_current \in Thread /\ pc \in [Thread -> PC]
    BY ClientAssumption DEF Running, TypeOK, Thread
  <1>1. CASE timer_interrupt
    <2>1. UNCHANGED << pc, mutex_waitqueue, cond_waitqueue >>
      BY <1>1 DEF timer_interrupt
    <2>2. CASE UNCHANGED cpuVars
      BY <2>1, <2>2 DEF OneQueue, NoThreadLost, cpuVars
    <2>3. CASE SwitchTo(Append(s_runqueue, g_current))
      BY <1>0, <2>1, <2>3, RequeueMoves DEF OneQueue, NoThreadLost
    <2> QED  BY <1>1, <2>2, <2>3 DEF timer_interrupt
  <1>2. CASE thread_yield
    <2>1. /\ UNCHANGED << mutex_waitqueue, cond_waitqueue >>
          /\ \A t \in Clients : pc'[t] = pc[t]
          /\ g_current = Idle
          /\ SwitchTo(Append(s_runqueue, g_current))
      BY <1>0, <1>2 DEF thread_yield, At, Goto
    <2>2. OneQueue'
      BY <1>0, <2>1, RequeueMoves DEF OneQueue
    <2>3. NoThreadLost'
      BY <1>0, <2>1, RequeueMoves DEF NoThreadLost
    <2> QED  BY <2>2, <2>3
  <1>3. CASE thread_yield_return
    <2>1. /\ UNCHANGED << g_current, s_runqueue, mutex_waitqueue, cond_waitqueue >>
          /\ g_current = Idle /\ \A t \in Clients : pc'[t] = pc[t]
      BY <1>0, <1>3 DEF thread_yield_return, At, Goto, cpuVars
    <2> QED  BY <1>0, <2>1 DEF OneQueue, NoThreadLost
  <1>4. ASSUME NEW t \in Clients, ClientStep(t)
        PROVE  OneQueue' /\ NoThreadLost'
    <2>0. t # Idle /\ t \in Thread
      BY <1>0
    <2>1. CASE Local(t)
      <3>1. /\ g_current = t /\ g_current' = t
            /\ UNCHANGED << s_runqueue, mutex_waitqueue, cond_waitqueue >>
            /\ \A u \in Thread : u # t => pc'[u] = pc[u]
        BY <1>0, <2>1 DEF Local
      <3> QED  BY <1>0, <3>1 DEF OneQueue, NoThreadLost
    <2>2. CASE mutex_lock_park(t)
      <3>1. /\ g_current = t /\ SwitchTo(s_runqueue)
            /\ mutex_waitqueue' = Append(mutex_waitqueue, t)
            /\ UNCHANGED cond_waitqueue
            /\ pc'[t] = "parked" /\ \A u \in Thread : u # t => pc'[u] = pc[u]
        BY <1>0, <2>0, <2>2 DEF mutex_lock_park, thread_park, At, Goto
      <3>2. /\ \A u : InQueue(u, mutex_waitqueue') <=> InQueue(u, mutex_waitqueue) \/ u = t
            /\ Distinct(mutex_waitqueue) /\ ~InQueue(t, mutex_waitqueue) =>
                   Distinct(mutex_waitqueue')
        BY <1>0, <3>1, AppendQueue DEF TypeOK
      <3>3. /\ \A u : InQueue(u, s_runqueue) <=> u = g_current' \/ InQueue(u, s_runqueue')
            /\ Distinct(s_runqueue) =>
                   Distinct(s_runqueue') /\ ~InQueue(g_current', s_runqueue')
        BY <1>0, <2>0, <3>1, ScheduleMoves
      <3>4. OneQueue'
        BY <1>0, <3>1, <3>2, <3>3 DEF OneQueue
      <3>5. NoThreadLost'
        BY <1>0, <3>1, <3>2, <3>3 DEF NoThreadLost
      <3> QED  BY <3>4, <3>5
    <2>3. CASE cond_wait_park(t)
      <3>1. /\ g_current = t /\ SwitchTo(s_runqueue)
            /\ cond_waitqueue' = Append(cond_waitqueue, t)
            /\ UNCHANGED mutex_waitqueue
            /\ pc'[t] = "wait_parked" /\ \A u \in Thread : u # t => pc'[u] = pc[u]
        BY <1>0, <2>0, <2>3 DEF cond_wait_park, thread_park, At, Goto
      <3>2. /\ \A u : InQueue(u, cond_waitqueue') <=> InQueue(u, cond_waitqueue) \/ u = t
            /\ Distinct(cond_waitqueue) /\ ~InQueue(t, cond_waitqueue) =>
                   Distinct(cond_waitqueue')
        BY <1>0, <3>1, AppendQueue DEF TypeOK
      <3>3. /\ \A u : InQueue(u, s_runqueue) <=> u = g_current' \/ InQueue(u, s_runqueue')
            /\ Distinct(s_runqueue) =>
                   Distinct(s_runqueue') /\ ~InQueue(g_current', s_runqueue')
        BY <1>0, <2>0, <3>1, ScheduleMoves
      <3>4. OneQueue'
        BY <1>0, <3>1, <3>2, <3>3 DEF OneQueue
      <3>5. NoThreadLost'
        BY <1>0, <3>1, <3>2, <3>3 DEF NoThreadLost
      <3> QED  BY <3>4, <3>5
    <2>4. CASE thread_exit(t)
      <3>1. /\ g_current = t /\ SwitchTo(s_runqueue)
            /\ UNCHANGED << mutex_waitqueue, cond_waitqueue >>
            /\ pc'[t] = "done" /\ \A u \in Thread : u # t => pc'[u] = pc[u]
        BY <1>0, <2>0, <2>4 DEF thread_exit, At, Goto
      <3>2. /\ \A u : InQueue(u, s_runqueue) <=> u = g_current' \/ InQueue(u, s_runqueue')
            /\ Distinct(s_runqueue) =>
                   Distinct(s_runqueue') /\ ~InQueue(g_current', s_runqueue')
        BY <1>0, <2>0, <3>1, ScheduleMoves
      <3>3. OneQueue'
        BY <1>0, <3>1, <3>2 DEF OneQueue
      <3>4. NoThreadLost'
        BY <1>0, <3>1, <3>2 DEF NoThreadLost
      <3> QED  BY <3>3, <3>4
    <2>5. CASE /\ mutex_waitqueue # << >>
               /\ \/ mutex_unlock_wake(t, "unlock_wake", "unlock_done")
                  \/ mutex_unlock_wake(t, "wait_wake", "wait_park")
      <3>1. /\ g_current = t /\ g_current' = t /\ UNCHANGED cond_waitqueue
            /\ s_runqueue' = Append(s_runqueue, Head(mutex_waitqueue))
            /\ mutex_waitqueue' = Tail(mutex_waitqueue)
            /\ \A u \in Thread : u # t => pc'[u] = pc[u]
        BY <1>0, <2>5 DEF mutex_unlock_wake, At, Goto
      <3> DEFINE h == Head(mutex_waitqueue)
      <3>2. /\ h \in Clients
            /\ \A u : InQueue(u, mutex_waitqueue) <=> u = h \/ InQueue(u, mutex_waitqueue')
            /\ \A u : InQueue(u, s_runqueue') <=> InQueue(u, s_runqueue) \/ u = h
            /\ Distinct(mutex_waitqueue) =>
                   Distinct(mutex_waitqueue') /\ ~InQueue(h, mutex_waitqueue')
            /\ Distinct(s_runqueue) /\ ~InQueue(h, s_runqueue) => Distinct(s_runqueue')
        BY <1>0, <2>5, <3>1, MutexWakeup
      <3> HIDE DEF h
      <3>3. OneQueue'
        BY <1>0, <3>1, <3>2 DEF OneQueue
      <3>4. NoThreadLost'
        BY <1>0, <3>1, <3>2 DEF NoThreadLost
      <3> QED  BY <3>3, <3>4
    <2>6. CASE /\ cond_waitqueue # << >>
               /\ cond_signal(t) \/ cond_broadcast_wake(t)
      <3>1. /\ g_current = t /\ g_current' = t /\ UNCHANGED << pc, mutex_waitqueue >>
            /\ s_runqueue' = Append(s_runqueue, Head(cond_waitqueue))
            /\ cond_waitqueue' = Tail(cond_waitqueue)
        BY <2>6 DEF cond_signal, cond_broadcast_wake, At
      <3> DEFINE h == Head(cond_waitqueue)
      <3>2. /\ h \in Clients
            /\ \A u : InQueue(u, cond_waitqueue) <=> u = h \/ InQueue(u, cond_waitqueue')
            /\ \A u : InQueue(u, s_runqueue') <=> InQueue(u, s_runqueue) \/ u = h
            /\ Distinct(cond_waitqueue) =>
                   Distinct(cond_waitqueue') /\ ~InQueue(h, cond_waitqueue')
            /\ Distinct(s_runqueue) /\ ~InQueue(h, s_runqueue) => Distinct(s_runqueue')
        BY <1>0, <2>6, <3>1, CondWakeup
      <3> HIDE DEF h
      <3>3. OneQueue'
        BY <1>0, <3>1, <3>2 DEF OneQueue
      <3>4. NoThreadLost'
        BY <1>0, <3>1, <3>2 DEF NoThreadLost
      <3> QED  BY <3>3, <3>4
    <2>7. CASE /\ mutex_waitqueue = << >>
               /\ \/ mutex_unlock_wake(t, "unlock_wake", "unlock_done")
                  \/ mutex_unlock_wake(t, "wait_wake", "wait_park")
      BY <2>1, <2>7 DEF mutex_unlock_wake, At, Goto, Local, PC, NoPreempt
    <2>8. CASE /\ cond_waitqueue = << >>
               /\ cond_signal(t) \/ cond_broadcast_wake(t)
      BY <2>1, <2>8 DEF cond_signal, cond_broadcast_wake, At, Goto, Local, PC
    <2> QED  BY <1>0, <1>4, <2>1, <2>2, <2>3, <2>4, <2>5, <2>6, <2>7, <2>8, LocalSteps
             DEF ClientStep, LockStep, UnlockStep, CondStep
  <1>5. CASE UNCHANGED vars
    BY <1>5 DEF OneQueue, NoThreadLost, vars, cpuVars
  <1> QED  BY <1>1, <1>2, <1>3, <1>4, <1>5 DEF Next, IdleStep, Halt

(***************************************************************************)
(* Every step keeps somebody on the way to clients that sleep on a free    *)
(* mutex.                                                                  *)
(***************************************************************************)
OnTheWay(t) ==
    \/ pc[t] \in {"unlock_wake", "wait_wake", "lock_test"}
    \/ pc[t] = "parked" /\ ~InQueue(t, mutex_waitqueue)

LEMMA WakeupStep ==
    Running /\ OneQueue /\ NoLostWakeup /\ [Next]_vars => NoLostWakeup'
  <1> SUFFICES ASSUME Running, OneQueue, NoLostWakeup, [Next]_vars,
                      mutex_waitqueue' # << >>, mutex_state' = "UNLOCKED"
               PROVE  \E t \in Clients : OnTheWay(t)'
    BY DEF NoLostWakeup, OnTheWay
  <1>0. /\ Idle \notin Clients /\ Thread = Clients \cup {Idle} /\ TypeOK
        /\ pc \in [Thread -> PC]
    BY ClientAssumption DEF Running, TypeOK, Thread
  <1>1. ASSUME UNCHANGED << mutex_waitqueue, mutex_state >>,
               \A u \in Clients : pc'[u] = pc[u]
        PROVE  \E t \in Clients : OnTheWay(t)'
    BY <1>1 DEF NoLostWakeup, OnTheWay
  <1>2. CASE timer_interrupt \/ thread_yield \/ thread_yield_return \/ UNCHANGED vars
    BY <1>0, <1>1, <1>2 DEF timer_interrupt, thread_yield, thread_yield_return,
         vars, mutexVars, At, Goto
  <1>3. ASSUME NEW t \in Clients, ClientStep(t)
        PROVE  \E u \in Clients : OnTheWay(u)'
    <2> USE DEF At, Goto, mutexVars
    <2>1. ASSUME UNCHANGED << mutex_waitqueue, mutex_state >>,
                 \A u \in Clients : u # t => pc'[u] = pc[u],
                 pc[t] \notin {"unlock_wake", "wait_wake", "lock_test", "parked"}
          PROVE  \E u \in Clients : OnTheWay(u)'
      <3>1. PICK u \in Clients : OnTheWay(u)
        BY <2>1 DEF NoLostWakeup, OnTheWay
      <3>2. u # t
        BY <2>1, <3>1 DEF OnTheWay
      <3> QED  BY <2>1, <3>1, <3>2 DEF OnTheWay
    <2>2. CASE mutex_lock_park(t) \/ mutex_lock_take(t)
      BY <2>2 DEF mutex_lock_park, mutex_lock_take
    <2>3. CASE mutex_lock(t) \/ thread_park_return(t)
      <3>1. pc'[t] = "lock_test"
        BY <1>0, <2>3 DEF mutex_lock, thread_park_return, SetPreemption
      <3> QED  BY <3>1 DEF OnTheWay
    <2>4. CASE \/ mutex_lock_return(t) \/ mutex_unlock(t) \/ mutex_unlock_return(t)
               \/ cond_wait(t) \/ cond_wait_park(t) \/ cond_broadcast(t) \/ thread_exit(t)
      BY <1>0, <2>1, <2>4 DEF mutex_lock_return, mutex_unlock, mutex_unlock_return,
           cond_wait, cond_wait_park, thread_park, cond_broadcast, thread_exit,
           SetPreemption
    <2>5. CASE cond_signal(t) \/ cond_broadcast_wake(t)
      BY <1>0, <2>1, <2>5 DEF cond_signal, cond_broadcast_wake
    <2>6. CASE \/ mutex_unlock_imp(t, "unlock", "unlock_wake")
               \/ mutex_unlock_imp(t, "wait_unlock", "wait_wake")
      <3>1. pc'[t] \in {"unlock_wake", "wait_wake"}
        BY <1>0, <2>6 DEF mutex_unlock_imp
      <3> QED  BY <3>1 DEF OnTheWay
    <2>7. CASE \/ mutex_unlock_wake(t, "unlock_wake", "unlock_done")
               \/ mutex_unlock_wake(t, "wait_wake", "wait_park")
      <3>1. /\ mutex_waitqueue # << >> /\ g_current = t
            /\ s_runqueue' = Append(s_runqueue, Head(mutex_waitqueue))
            /\ mutex_waitqueue' = Tail(mutex_waitqueue)
            /\ \A u \in Clients : u # t => pc'[u] = pc[u]
        BY <1>0, <2>7 DEF mutex_unlock_wake
      <3>2. PICK h \in Clients :
                /\ InQueue(h, mutex_waitqueue)
                /\ Distinct(mutex_waitqueue) => ~InQueue(h, mutex_waitqueue')
        BY <1>0, <3>1, MutexWakeup
      <3>3. pc[h] = "parked" /\ h # t /\ ~InQueue(h, mutex_waitqueue')
        BY <3>1, <3>2 DEF OneQueue
      <3>4. OnTheWay(h)'
        BY <3>1, <3>2, <3>3 DEF OnTheWay
      <3> QED  BY <3>2, <3>4
    <2> QED  BY <1>3, <2>2, <2>3, <2>4, <2>5, <2>6, <2>7
             DEF ClientStep, LockStep, UnlockStep, CondStep
  <1> QED  BY <1>2, <1>3 DEF Next, IdleStep, Halt

(***************************************************************************)
(* The inductive invariant of synch.c.                                     *)
(***************************************************************************)
LEMMA Invariance == Spec => []IInv
  <1>1. IInv /\ [Next]_vars => IInv'
    BY RunningStep, LockingStep, QueueStep, WakeupStep DEF IInv
  <1> QED  BY InitIInv, <1>1, PTL DEF Spec

-----------------------------------------------------------------------------
\* Every variable of the model keeps its type.
THEOREM TypeCorrect == Spec => []TypeOK
  <1>1. IInv => TypeOK
    BY DEF IInv, Running
  <1> QED  BY Invariance, <1>1, PTL

(***************************************************************************)
(* The mutex excludes: the client in its critical section is the owner,    *)
(* although mutex_lock_imp tests and sets the mutex in separate steps with *)
(* interrupts enabled.                                                     *)
(***************************************************************************)
THEOREM MutexCorrect == Spec => []OwnerHolds
  <1>1. IInv => OwnerHolds
    BY DEF IInv, Locking
  <1> QED  BY Invariance, <1>1, PTL

(***************************************************************************)
(* Preemption is off exactly while the current thread is in a function of  *)
(* synch.c, across thread_park's detour through other threads.             *)
(***************************************************************************)
THEOREM PreemptionCorrect == Spec => []PreemptionDiscipline
  <1>1. IInv => PreemptionDiscipline
    BY DEF IInv, Locking
  <1> QED  BY Invariance, <1>1, PTL

\* No client is in two queues, and a sleeper is in the queue it sleeps in.
THEOREM QueuesCorrect == Spec => []OneQueue
  <1>1. IInv => OneQueue
    BY DEF IInv
  <1> QED  BY Invariance, <1>1, PTL

\* No thread is ever out of reach of those who could run it.
THEOREM NobodyLost == Spec => []NoThreadLost
  <1>1. IInv => NoThreadLost
    BY DEF IInv
  <1> QED  BY Invariance, <1>1, PTL

\* mutex_unlock_imp and thread_park lose no wake-up.
THEOREM WakeupsKept == Spec => []NoLostWakeup
  <1>1. IInv => NoLostWakeup
    BY DEF IInv
  <1> QED  BY Invariance, <1>1, PTL

-----------------------------------------------------------------------------
(***************************************************************************)
(* What a client is doing, read off its program counter.                   *)
(***************************************************************************)
Outside == {"out", "unlock_wake", "unlock_done", "done"}

PhaseFacts ==
    /\ phase = [t \in Clients |-> phase[t]]
    /\ \A t \in Clients :
           /\ pc[t] \in Outside => phase[t] = "out"
           /\ pc[t] \in {"lock_test", "parked"} => phase[t] = "wanting"
           /\ pc[t] \in Holding => phase[t] = "holding"
           /\ pc[t] \notin Holding => phase[t] # "holding"
           /\ pc[t] \in {"wait_wake", "wait_park"} => phase[t] = "waiting"
           /\ pc[t] = "wait_parked" =>
                  phase[t] = IF InQueue(t, cond_waitqueue) /\ ~Broadcasting
                             THEN "waiting" ELSE "wanting"

LEMMA PhaseValues == PhaseFacts
  <1>1. phase = [t \in Clients |-> phase[t]]
    BY DEF phase
  <1>2. ASSUME NEW t \in Clients
        PROVE  /\ pc[t] \in Outside => phase[t] = "out"
               /\ pc[t] \in {"lock_test", "parked"} => phase[t] = "wanting"
               /\ pc[t] \in Holding => phase[t] = "holding"
               /\ pc[t] \notin Holding => phase[t] # "holding"
               /\ pc[t] \in {"wait_wake", "wait_park"} => phase[t] = "waiting"
               /\ pc[t] = "wait_parked" =>
                      phase[t] = IF InQueue(t, cond_waitqueue) /\ ~Broadcasting
                                 THEN "waiting" ELSE "wanting"
    BY DEF phase, Outside, Holding
  <1> QED  BY <1>1, <1>2 DEF PhaseFacts

\* The same in the next state.
LEMMA PhaseValuesNext == PhaseFacts'
  BY PhaseValues, PTL

\* A client's phase depends on its program counter and, while it sleeps in
\* cond_wait, on the condition's queue and on a broadcast in progress.
LEMMA PhaseKept ==
    ASSUME NEW u \in Clients, pc'[u] = pc[u],
           InQueue(u, cond_waitqueue') /\ ~Broadcasting' <=>
               InQueue(u, cond_waitqueue) /\ ~Broadcasting
    PROVE  phase'[u] = phase[u]
  <1>1. CASE InQueue(u, cond_waitqueue) /\ ~Broadcasting
    <2>1. InQueue(u, cond_waitqueue') /\ ~Broadcasting'
      BY <1>1
    <2> QED  BY <1>1, <2>1 DEF phase
  <1>2. CASE ~(InQueue(u, cond_waitqueue) /\ ~Broadcasting)
    <2>1. ~(InQueue(u, cond_waitqueue') /\ ~Broadcasting')
      BY <1>2
    <2> QED  BY <1>2, <2>1 DEF phase
  <1> QED  BY <1>1, <1>2

\* The phases after a step that changes none, or that of t only.
LEMMA PhaseStutter ==
    ASSUME \A u \in Clients : phase'[u] = phase[u]
    PROVE  phase' = phase
  BY PhaseValues, PhaseValuesNext DEF PhaseFacts

LEMMA PhaseChange ==
    ASSUME NEW t \in Clients, NEW v, phase'[t] = v,
           \A u \in Clients : u # t => phase'[u] = phase[u]
    PROVE  phase' = [phase EXCEPT ![t] = v]
  BY PhaseValues, PhaseValuesNext DEF PhaseFacts

(***************************************************************************)
(* Every step of synch.c is a step of the monitor, or invisible.           *)
(***************************************************************************)
LEMMA MonitorStep == IInv /\ IInv' /\ [Next]_vars => [M!Next]_phase
  <1> SUFFICES ASSUME IInv, IInv', [Next]_vars
               PROVE  M!Next \/ phase' = phase
    OBVIOUS
  <1>0. /\ Idle \notin Clients /\ NoThread \notin Clients
        /\ Thread = Clients \cup {Idle} /\ TypeOK /\ pc \in [Thread -> PC]
        /\ mutex_state \in {"LOCKED", "UNLOCKED"}
    BY ClientAssumption DEF IInv, Running, TypeOK, Thread
  <1>1. /\ \A u \in Clients : pc[u] = "broadcast" => u = g_current
        /\ \A u \in Clients : pc'[u] = "broadcast" => u = g_current'
    BY DEF IInv, Locking, BroadcastAtomic
  <1>2. ASSUME \A u \in Clients : pc'[u] = pc[u], UNCHANGED cond_waitqueue
        PROVE  phase' = phase
    <2>1. Broadcasting' <=> Broadcasting
      BY <1>2 DEF Broadcasting
    <2>2. \A u \in Clients : phase'[u] = phase[u]
      BY <1>2, <2>1, PhaseKept
    <2> QED  BY <2>2, PhaseStutter
  <1>3. CASE timer_interrupt \/ thread_yield \/ thread_yield_return \/ UNCHANGED vars
    BY <1>0, <1>2, <1>3 DEF timer_interrupt, thread_yield, thread_yield_return,
         vars, At, Goto
  <1>4. ASSUME NEW t \in Clients, ClientStep(t)
        PROVE  M!Next \/ phase' = phase
    <2> USE DEF At, Goto
    <2>0. t \in Thread
      BY <1>0
    \* All steps but those on the condition's queue keep the other clients'
    \* phases.
    <2>1. ASSUME \A u \in Clients : u # t => pc'[u] = pc[u],
                 UNCHANGED cond_waitqueue,
                 pc[t] # "broadcast", pc'[t] # "broadcast"
          PROVE  \A u \in Clients : u # t => phase'[u] = phase[u]
      <3>1. Broadcasting' <=> Broadcasting
        BY <2>1 DEF Broadcasting
      <3> QED  BY <2>1, <3>1, PhaseKept
    <2>2. CASE \/ mutex_lock_park(t) \/ mutex_lock_return(t) \/ mutex_unlock(t)
               \/ mutex_unlock_return(t) \/ cond_wait(t) \/ thread_exit(t)
               \/ mutex_unlock_wake(t, "unlock_wake", "unlock_done")
               \/ mutex_unlock_wake(t, "wait_wake", "wait_park")
      <3>1. /\ \A u \in Clients : u # t => pc'[u] = pc[u]
            /\ UNCHANGED cond_waitqueue
            /\ \/ pc[t] = "lock_test" /\ pc'[t] = "parked"
               \/ pc[t] \in {"lock_done", "cs"} /\ pc'[t] \in {"cs", "unlock", "wait_unlock"}
               \/ pc[t] \in Outside /\ pc'[t] \in Outside
               \/ pc[t] = "wait_wake" /\ pc'[t] = "wait_park"
        BY <1>0, <2>0, <2>2 DEF mutex_lock_park, thread_park, mutex_lock_return,
             mutex_unlock, mutex_unlock_return, cond_wait, thread_exit,
             mutex_unlock_wake, SetPreemption, Outside
      <3>2. pc[t] # "broadcast" /\ pc'[t] # "broadcast"
        BY <3>1 DEF Outside
      <3>3. phase'[t] = phase[t]
        BY <3>1, PhaseValues, PhaseValuesNext DEF PhaseFacts, Holding
      <3> QED  BY <2>1, <3>1, <3>2, <3>3, PhaseStutter
    <2>3. CASE thread_park_return(t)
      <3>1. /\ \A u \in Clients : u # t => pc'[u] = pc[u]
            /\ UNCHANGED cond_waitqueue /\ g_current = t
            /\ pc[t] \in {"parked", "wait_parked"} /\ pc'[t] = "lock_test"
        BY <1>0, <2>0, <2>3 DEF thread_park_return
      <3>2. ~InQueue(t, cond_waitqueue)
        BY <3>1 DEF IInv, OneQueue
      <3>3. phase'[t] = phase[t]
        BY <3>1, <3>2, PhaseValues, PhaseValuesNext DEF PhaseFacts
      <3> QED  BY <2>1, <3>1, <3>3, PhaseStutter
    <2>4. CASE mutex_lock(t)
      <3>1. /\ \A u \in Clients : u # t => pc'[u] = pc[u]
            /\ UNCHANGED cond_waitqueue
            /\ pc[t] = "out" /\ pc'[t] = "lock_test"
        BY <1>0, <2>0, <2>4 DEF mutex_lock, SetPreemption
      <3>2. phase[t] = "out" /\ phase'[t] = "wanting"
        BY <3>1, PhaseValues, PhaseValuesNext DEF PhaseFacts, Outside
      <3>3. M!Request(t)
        BY <2>1, <3>1, <3>2, PhaseChange DEF M!Request
      <3> QED  BY <3>3 DEF M!Next
    <2>5. CASE mutex_lock_take(t)
      <3>1. /\ \A u \in Clients : u # t => pc'[u] = pc[u]
            /\ UNCHANGED cond_waitqueue /\ mutex_state = "UNLOCKED"
            /\ pc[t] = "lock_test" /\ pc'[t] = "lock_done"
        BY <1>0, <2>0, <2>5 DEF mutex_lock_take
      <3>2. \A u \in Clients : pc[u] \notin Holding
        BY <1>0, <3>1 DEF IInv, Locking, OwnerHolds
      <3>3. M!Free
        BY <3>2, PhaseValues DEF PhaseFacts, M!Free
      <3>4. phase[t] = "wanting" /\ phase'[t] = "holding"
        BY <3>1, PhaseValues, PhaseValuesNext DEF PhaseFacts, Holding
      <3>5. M!Acquire(t)
        BY <2>1, <3>1, <3>3, <3>4, PhaseChange DEF M!Acquire
      <3> QED  BY <3>5 DEF M!Next
    <2>6. CASE mutex_unlock_imp(t, "unlock", "unlock_wake")
      <3>1. /\ \A u \in Clients : u # t => pc'[u] = pc[u]
            /\ UNCHANGED cond_waitqueue
            /\ pc[t] = "unlock" /\ pc'[t] = "unlock_wake"
        BY <1>0, <2>0, <2>6 DEF mutex_unlock_imp
      <3>2. phase[t] = "holding" /\ phase'[t] = "out"
        BY <3>1, PhaseValues, PhaseValuesNext DEF PhaseFacts, Holding, Outside
      <3>3. M!Release(t)
        BY <2>1, <3>1, <3>2, PhaseChange DEF M!Release
      <3> QED  BY <3>3 DEF M!Next
    <2>7. CASE mutex_unlock_imp(t, "wait_unlock", "wait_wake")
      <3>1. /\ \A u \in Clients : u # t => pc'[u] = pc[u]
            /\ UNCHANGED cond_waitqueue
            /\ pc[t] = "wait_unlock" /\ pc'[t] = "wait_wake"
        BY <1>0, <2>0, <2>7 DEF mutex_unlock_imp
      <3>2. phase[t] = "holding" /\ phase'[t] = "waiting"
        BY <3>1, PhaseValues, PhaseValuesNext DEF PhaseFacts, Holding
      <3>3. M!Wait(t)
        BY <2>1, <3>1, <3>2, PhaseChange DEF M!Wait
      <3> QED  BY <3>3 DEF M!Next
    <2>8. CASE cond_wait_park(t)
      <3>1. /\ \A u \in Clients : u # t => pc'[u] = pc[u]
            /\ cond_waitqueue' = Append(cond_waitqueue, t) /\ g_current = t
            /\ pc[t] = "wait_park" /\ pc'[t] = "wait_parked"
        BY <1>0, <2>0, <2>8 DEF cond_wait_park, thread_park
      <3>2. \A u : InQueue(u, cond_waitqueue') <=> InQueue(u, cond_waitqueue) \/ u = t
        BY <1>0, <3>1, AppendQueue DEF TypeOK
      <3>3. ~Broadcasting /\ ~Broadcasting'
        BY <1>1, <3>1 DEF Broadcasting
      <3>4. phase'[t] = phase[t]
        BY <3>1, <3>2, <3>3, PhaseValues, PhaseValuesNext DEF PhaseFacts
      <3>5. \A u \in Clients : u # t => phase'[u] = phase[u]
        BY <3>1, <3>2, <3>3, PhaseKept
      <3> QED  BY <3>4, <3>5, PhaseStutter
    <2>9. CASE cond_signal(t) /\ cond_waitqueue # << >>
      <3>1. /\ pc' = pc /\ g_current = t /\ pc[t] = "cs"
            /\ s_runqueue' = Append(s_runqueue, Head(cond_waitqueue))
            /\ cond_waitqueue' = Tail(cond_waitqueue)
        BY <2>9 DEF cond_signal
      <3>2. PICK h \in Clients :
                /\ \A u : InQueue(u, cond_waitqueue) <=> u = h \/ InQueue(u, cond_waitqueue')
                /\ Distinct(cond_waitqueue) => ~InQueue(h, cond_waitqueue')
        BY <1>0, <2>9, <3>1, CondWakeup
      <3>3. pc[h] = "wait_parked" /\ ~InQueue(h, cond_waitqueue')
        BY <3>2 DEF IInv, OneQueue
      <3>4. ~Broadcasting /\ ~Broadcasting'
        BY <1>1, <3>1 DEF Broadcasting
      <3>5. phase[h] = "waiting" /\ phase'[h] = "wanting" /\ phase[t] = "holding"
        BY <3>1, <3>2, <3>3, <3>4, PhaseValues, PhaseValuesNext DEF PhaseFacts, Holding
      <3>6. \A u \in Clients : u # h => phase'[u] = phase[u]
        BY <3>1, <3>2, <3>4, PhaseKept
      <3>7. M!Signal(t)
        BY <3>5, <3>6, PhaseChange DEF M!Signal
      <3> QED  BY <3>7 DEF M!Next
    <2>10. CASE cond_signal(t) /\ cond_waitqueue = << >>
      <3>1. /\ \A u \in Clients : u # t => pc'[u] = pc[u]
            /\ UNCHANGED cond_waitqueue /\ pc[t] = "cs" /\ pc'[t] = "halt"
        BY <1>0, <2>0, <2>10 DEF cond_signal
      <3>2. phase'[t] = phase[t]
        BY <3>1, PhaseValues, PhaseValuesNext DEF PhaseFacts, Holding
      <3> QED  BY <2>1, <3>1, <3>2, PhaseStutter
    <2>11. CASE cond_broadcast(t)
      <3>1. /\ \A u \in Clients : u # t => pc'[u] = pc[u]
            /\ UNCHANGED cond_waitqueue /\ g_current = t
            /\ pc[t] = "cs" /\ pc'[t] = "broadcast"
        BY <1>0, <2>0, <2>11 DEF cond_broadcast
      <3>2. ~Broadcasting /\ Broadcasting'
        BY <1>1, <3>1 DEF Broadcasting
      <3>3. phase[t] = "holding" /\ phase'[t] = "holding"
        BY <3>1, PhaseValues, PhaseValuesNext DEF PhaseFacts, Holding
      <3>4. ASSUME NEW u \in Clients, u # t
            PROVE  phase'[u] = IF phase[u] = "waiting" THEN "wanting" ELSE phase[u]
        <4>1. pc[u] \notin NoPreempt /\ pc[u] \in PC /\ pc[u] \notin {"yield", "yielded"}
          BY <1>0, <3>1, <3>4 DEF IInv, Locking, PreemptionDiscipline, Running, Labels
        <4>2. CASE pc[u] = "wait_parked"
          BY <3>1, <3>2, <3>4, <4>2, PhaseValues, PhaseValuesNext DEF PhaseFacts
        <4>3. CASE pc[u] # "wait_parked"
          <5>1. pc[u] \in Outside \cup {"parked"} \cup Holding /\ pc'[u] = pc[u]
            BY <3>1, <3>4, <4>1, <4>3 DEF PC, NoPreempt, Outside, Holding
          <5>2. phase[u] # "waiting" /\ phase'[u] = phase[u]
            BY <5>1, PhaseValues, PhaseValuesNext DEF PhaseFacts
          <5> QED  BY <5>2
        <4> QED  BY <4>2, <4>3
      <3>5. phase' = [u \in Clients |-> IF phase[u] = "waiting" THEN "wanting"
                                        ELSE phase[u]]
        BY <3>3, <3>4, PhaseValuesNext DEF PhaseFacts
      <3>6. M!Broadcast(t)
        BY <3>3, <3>5 DEF M!Broadcast
      <3> QED  BY <3>6 DEF M!Next
    <2>12. CASE cond_broadcast_wake(t) /\ cond_waitqueue # << >>
      <3>1. pc' = pc /\ pc[t] = "broadcast"
        BY <2>12 DEF cond_broadcast_wake
      <3>2. Broadcasting /\ Broadcasting'
        BY <3>1 DEF Broadcasting
      <3>3. \A u \in Clients : phase'[u] = phase[u]
        BY <3>1, <3>2, PhaseKept
      <3> QED  BY <3>3, PhaseStutter
    <2>13. CASE cond_broadcast_wake(t) /\ cond_waitqueue = << >>
      <3>1. /\ \A u \in Clients : u # t => pc'[u] = pc[u]
            /\ cond_waitqueue' = << >> /\ g_current = t
            /\ pc[t] = "broadcast" /\ pc'[t] = "cs"
        BY <1>0, <2>0, <2>13 DEF cond_broadcast_wake
      <3>2. \A u : ~InQueue(u, cond_waitqueue) /\ ~InQueue(u, cond_waitqueue')
        BY <2>13, <3>1, InQueueNonEmpty
      <3>3. phase'[t] = phase[t]
        BY <3>1, PhaseValues, PhaseValuesNext DEF PhaseFacts, Holding
      <3>4. \A u \in Clients : u # t => phase'[u] = phase[u]
        BY <3>1, <3>2, PhaseKept
      <3> QED  BY <3>3, <3>4, PhaseStutter
    <2> QED  BY <1>4, <2>2, <2>3, <2>4, <2>5, <2>6, <2>7, <2>8, <2>9, <2>10, <2>11,
                <2>12, <2>13
             DEF ClientStep, LockStep, UnlockStep, CondStep
  <1> QED  BY <1>3, <1>4 DEF Next, IdleStep, Halt

(***************************************************************************)
(* synch.c implements the monitor: a mutex with at most one holder, and    *)
(* a condition variable whose cond_wait gives up the mutex and starts to   *)
(* wait in one step, so that no signal in between is missed.               *)
(***************************************************************************)
THEOREM Refinement == Spec => ImplementsMonitor
  <1>1. Init => M!Init
    <2> SUFFICES ASSUME Init PROVE M!Init
      OBVIOUS
    <2>1. \A t \in Clients : pc[t] = "out"
      BY ClientAssumption DEF Init, Thread
    <2>2. \A t \in Clients : phase[t] = "out"
      BY <2>1, PhaseValues DEF PhaseFacts, Outside
    <2> QED  BY <2>2, PhaseValues DEF PhaseFacts, M!Init
  <1> QED  BY <1>1, Invariance, MonitorStep, PTL DEF Spec, ImplementsMonitor, M!Spec

\* Seen from outside, at most one client holds the mutex.
THEOREM Exclusion == Spec => []M!MutualExclusion
  <1>1. IInv => M!MutualExclusion
    <2> SUFFICES ASSUME IInv, NEW t \in Clients, NEW u \in Clients,
                        phase[t] = "holding", phase[u] = "holding"
                 PROVE  t = u
      BY DEF M!MutualExclusion
    <2>1. pc[t] \in Holding /\ pc[u] \in Holding
      BY PhaseValues DEF PhaseFacts
    <2> QED  BY <2>1 DEF IInv, Locking, OwnerHolds
  <1> QED  BY <1>1, Invariance, PTL

=============================================================================
