------------------------------ MODULE Threads ------------------------------
(***************************************************************************)
(* The thread subsystem of GeekOS and the simulation that drives it:       *)
(*                                                                         *)
(*   thread.c       thread life cycle, run queue, new queue, join, exit    *)
(*   scheduler.c    FCFS, SJF, PRIORITY and RR                             *)
(*   timer.c, x86_int_asm.S    the tick, and the switch on the way out of  *)
(*                  an interrupt                                           *)
(*   workqueue.c    the thread that destroys exited threads                *)
(*   keyboard.c, x86_keyb.c    the key queue, whose readers sleep in the   *)
(*                  same wait queue as the work queue thread               *)
(*   menu.c, simulation.c, stat.c, main.c    what the main thread does     *)
(*                                                                         *)
(* There is one CPU.  A step of the current thread is a stretch of code    *)
(* that runs with interrupts disabled, or one whose intermediate states no *)
(* other thread reads; an interrupt may come between any two steps taken   *)
(* with interrupts enabled.  Loops that run with interrupts disabled take  *)
(* one step per iteration, and nothing else is enabled meanwhile.          *)
(*                                                                         *)
(* Time is abstract: a busy_wait of a job, ten ticks long, ends at some    *)
(* step after a tick, and of the clock and the times of a job it matters   *)
(* only whether they are zero; that the clock wraps to zero after 2^32     *)
(* ticks is left out.  The memory allocator always succeeds.               *)
(***************************************************************************)
EXTENDS ThreadQueue, FiniteSets

CONSTANTS
    Main, Idle, WorkQ,  \* the threads of the kernel itself
    Slots,              \* the memory a job's struct thread can occupy
    NoThread,           \* the null pointer
    Schedulers,         \* the schedulers the user may choose from the menu
    SchedulerSims,      \* g_scheduler_sim: the job lists for the schedulers
    SynchSims,          \* g_synch_sim: the synchronization job lists
    Quanta,             \* RR_QUANTUM1, RR_QUANTUM2, RR_QUANTUM3
    SynchQuantum,       \* the quantum of the synchronization simulations
    TickMax,            \* num_ticks saturates here, above every quantum
    MAX_THREADS,
    DEFAULT_PRIORITY,
    KeyQueueMax         \* the key queue holds QUEUE_SIZE - 1 keys

\* What a job's function does: busy_wait only (fn1, fn2, fn3), a critical
\* section with interrupts off (interrupt_toggler), or one under a mutex,
\* whose lock and unlock turn preemption off (mutex_poet).
Job == [fn : {"fn", "toggler", "poet"}, cpu_burst : Nat, priority : Nat]

ASSUME ThreadAssumption ==
    /\ Main # Idle /\ Main # WorkQ /\ Idle # WorkQ
    /\ {Main, Idle, WorkQ} \cap Slots = {}
    /\ NoThread \notin Slots
    /\ \A n \in {"run", "new", "wait"} : n \notin Slots

ASSUME MenuAssumption ==
    /\ Schedulers \subseteq Scheduler
    /\ SchedulerSims \subseteq Seq(Job) \ {<< >>}
    /\ SynchSims \subseteq Seq(Job) \ {<< >>}

ASSUME BoundAssumption ==
    /\ TickMax \in Nat /\ MAX_THREADS \in Nat /\ KeyQueueMax \in Nat
    /\ DEFAULT_PRIORITY \in Nat
    /\ SynchQuantum \in 0 .. TickMax - 1
    /\ Quanta \subseteq 0 .. TickMax - 1

Thread == {Main, Idle, WorkQ} \cup Slots

\* The fields of struct time_stat.
TimeField == {"arrival", "first_response", "running", "termination"}

VARIABLES
    g_current,          \* the thread that has the CPU
    state,              \* thread->state; FREE is memory not in use
    intr,               \* EFLAGS.IF, of the CPU or saved on the stack
    pc,                 \* where each thread is in its code
    s_runqueue, s_newqueue,
    s_waitqueue,        \* of workqueue.c, shared with keyboard.c
    waitqueue,          \* thread->waitqueue, where a parent waits
    refcount, priority,
    fn,                 \* the job's function
    time,               \* the fields of process->time that are not zero
    g_numticks,         \* the clock: 0 before the first tick, then 1
    s_workqueue,        \* threads waiting to be destroyed, in order
    item,               \* the work queue thread's current item
    num_ticks,          \* g_current->num_ticks; zero for all other threads
    g_need_reschedule, g_preemption,
    isr,                \* the interrupt handler's progress
    g_scheduler, g_quantum,
    simulation,         \* the job list being run
    threads, child,     \* run_simulation's array and the loop index i
    g_num_threads,
    keys,               \* the number of keycodes in the key queue
    keyb_irq            \* is the keyboard interrupt unmasked?

cpuVars  == << g_current, s_runqueue, state, num_ticks >>
statVars == << time, g_numticks >>
jobVars  == << refcount, priority, fn, statVars >>
workVars == << s_workqueue, item >>
intVars  == << g_need_reschedule, g_preemption, isr >>
menuVars == << g_scheduler, g_quantum, simulation >>
simVars  == << threads, child, g_num_threads >>
keyVars  == << keys, keyb_irq >>
vars == << cpuVars, intr, pc, s_newqueue, s_waitqueue, waitqueue, jobVars,
           workVars, intVars, menuVars, simVars, keyVars >>

Prompts == {"mode", "synch", "scheduler", "quantum", "joblist", "stats"}
MainPC == Prompts \cup
          {"mask", "create", "merge", "yield", "yielded", "join", "unmask",
           "stat_halt", "halt"}
IdlePC == {"start", "yield", "yielded"}
WorkPC == {"start", "loop", "run"}
JobPC  == {"start", "lock", "locking", "body", "critical", "unlocking",
           "exit", "detached", "exit_wake", "gone", "halt"}

(***************************************************************************)
(* The state in which geekos_main enters its loop: thread_init made main   *)
(* the current thread and created the idle thread, workqueue_init created  *)
(* the work queue thread (pids 0, 1, 2), keyboard_init enabled interrupts  *)
(* and preemption, and no other thread has run yet.                        *)
(***************************************************************************)
Init ==
    /\ g_current = Main
    /\ state = [t \in Thread |-> CASE t = Main -> "RUNNING"
                                   [] t \in {Idle, WorkQ} -> "READY"
                                   [] OTHER -> "FREE"]
    /\ intr = [t \in Thread |-> t = Main]
    /\ pc = [t \in Thread |-> IF t = Main THEN "mode" ELSE "start"]
    /\ s_runqueue = << Idle, WorkQ >>
    /\ s_newqueue = << >>
    /\ s_waitqueue = << >>
    /\ waitqueue = [c \in Slots |-> << >>]
    /\ refcount = [c \in Slots |-> 0]
    /\ priority = [t \in Thread |-> IF t \in Slots THEN 0 ELSE DEFAULT_PRIORITY]
    /\ fn = [c \in Slots |-> "fn"]
    /\ time = [c \in Slots |-> {}] /\ g_numticks = 0
    /\ s_workqueue = << >>
    /\ item = NoThread
    /\ num_ticks = 0
    /\ g_need_reschedule = FALSE
    /\ g_preemption = TRUE
    /\ isr = "none"
    /\ g_scheduler = "FCFS"
    /\ g_quantum = 0
    /\ simulation = << >>
    /\ threads = << >>
    /\ child = 1
    /\ g_num_threads = 3
    /\ keys = 0
    /\ keyb_irq = TRUE

-----------------------------------------------------------------------------
(***************************************************************************)
(* The primitives of thread.c.                                             *)
(***************************************************************************)

\* Thread t executes at label l: it has the CPU and no handler is running.
At(t, l) == g_current = t /\ pc[t] = l /\ isr = "none"

\* Field f of c's times becomes the clock, which may still be zero.
Stamp(c, f) == time' = IF g_numticks = 0 THEN time ELSE [time EXCEPT ![c] = @ \cup {f}]

Goto(t, l) == pc' = [pc EXCEPT ![t] = l]
SetIntr(t, b) == intr' = [intr EXCEPT ![t] = b]

\* The run queue after thread_make_runnable(t).
RunqueueWith(t) == SCHEDULER(g_scheduler, s_runqueue, t, priority)

(***************************************************************************)
(* thread_next_runnable and thread_switch_to, with rq the run queue and st *)
(* the states the caller left behind.                                      *)
(***************************************************************************)
SwitchTo(rq, st) ==
    /\ g_current' = Head(rq)
    /\ s_runqueue' = Tail(rq)
    /\ state' = [st EXCEPT ![Head(rq)] = "RUNNING"]
    /\ num_ticks' = 0

\* thread_schedule: the caller is on a wait queue, or exiting.
thread_schedule == SwitchTo(s_runqueue, state)

\* thread_relinquish_cpu, thread_make_runnable(g_current), thread_schedule.
thread_requeue_current ==
    SwitchTo(RunqueueWith(g_current), [state EXCEPT ![g_current] = "READY"])

\* thread_wakeup_one: the first thread of the wait queue becomes runnable.
thread_wakeup_one(q) ==
    /\ state' = [state EXCEPT ![Head(q)] = "READY"]
    /\ s_runqueue' = RunqueueWith(Head(q))
    /\ UNCHANGED << g_current, num_ticks >>

\* A mutation: the work queue thread is not notified of the new item.
detach_without_notify(c, t, next, iflag) ==
    /\ refcount' = [refcount EXCEPT ![c] = @ - 1]
    /\ s_workqueue' = IF refcount[c] = 1 THEN Append(s_workqueue, c) ELSE s_workqueue
    /\ Goto(t, next) /\ SetIntr(t, iflag)
    /\ UNCHANGED << cpuVars, s_waitqueue >>
    /\ UNCHANGED << s_newqueue, waitqueue, priority, fn, statVars, item, intVars,
                    menuVars, g_num_threads, keyVars >>

\* A mutation: the thread is given up one reference too early.
detach_too_early(c, t, next, iflag) ==
    /\ refcount' = [refcount EXCEPT ![c] = @ - 1]
    /\ IF refcount[c] = 2 /\ s_waitqueue # << >>
       THEN /\ s_workqueue' = Append(s_workqueue, c)
            /\ thread_wakeup_one(s_waitqueue)
            /\ s_waitqueue' = Tail(s_waitqueue)
       ELSE UNCHANGED << cpuVars, s_workqueue, s_waitqueue >>
    /\ Goto(t, next) /\ SetIntr(t, iflag)
    /\ UNCHANGED << s_newqueue, waitqueue, priority, fn, statVars, item, intVars,
                    menuVars, g_num_threads, keyVars >>

(***************************************************************************)
(* thread_detach(c), executed by t with interrupts disabled: drop one      *)
(* reference and, with the last one, workqueue_schedule_work: append the   *)
(* item and wake up one thread of s_waitqueue.  thread_wakeup_one calls    *)
(* thread_queue_remove_first, which asserts that the queue is not empty:   *)
(* when nobody waits the kernel halts there, with interrupts disabled.     *)
(* Otherwise t goes on at next with its interrupt flag set to iflag.       *)
(***************************************************************************)
thread_detach(c, t, next, iflag) ==
    /\ refcount' = [refcount EXCEPT ![c] = @ - 1]
    /\ \/ /\ refcount[c] > 1
          /\ Goto(t, next) /\ SetIntr(t, iflag)
          /\ UNCHANGED << cpuVars, s_workqueue, s_waitqueue >>
       \/ /\ refcount[c] = 1 /\ s_waitqueue # << >>
          /\ s_workqueue' = Append(s_workqueue, c)
          /\ thread_wakeup_one(s_waitqueue)
          /\ s_waitqueue' = Tail(s_waitqueue)
          /\ Goto(t, next) /\ SetIntr(t, iflag)
       \/ /\ refcount[c] = 1 /\ s_waitqueue = << >>
          /\ s_workqueue' = Append(s_workqueue, c)
          /\ Goto(t, "halt") /\ SetIntr(t, FALSE)
          /\ UNCHANGED << cpuVars, s_waitqueue >>
    /\ UNCHANGED << s_newqueue, waitqueue, priority, fn, statVars, item, intVars,
                    menuVars, g_num_threads, keyVars >>

-----------------------------------------------------------------------------
(***************************************************************************)
(* Interrupts.  They are taken between two steps of the current thread,    *)
(* when it has interrupts enabled; the handler itself runs with interrupts *)
(* disabled, and the common exit path decides whether to switch threads.   *)
(***************************************************************************)
InterruptsEnabled == isr = "none" /\ intr[g_current]

\* timer_process_tick, which charges the tick to the current job, and
\* RR_scheduler.
timer_process_tick ==
    /\ InterruptsEnabled
    /\ g_numticks' = 1
    /\ time' = [c \in Slots |-> IF c = g_current THEN time[c] \cup {"running"} ELSE time[c]]
    /\ num_ticks' = IF num_ticks = TickMax THEN TickMax ELSE num_ticks + 1
    /\ g_need_reschedule' =
           (g_need_reschedule \/ (g_scheduler = "RR" /\ num_ticks + 1 > g_quantum))
    /\ isr' = "return"
    /\ UNCHANGED << g_current, s_runqueue, state, intr, pc, s_newqueue,
                    s_waitqueue, waitqueue, refcount, priority, fn, workVars,
                    g_preemption, menuVars, simVars, keyVars >>

\* A mutation: enqueue does not test for a full queue.
keyboard_overrun ==
    /\ InterruptsEnabled /\ keyb_irq
    /\ isr' = "wakeup"
    /\ keys' = keys + 1
    /\ UNCHANGED << cpuVars, intr, pc, s_newqueue, s_waitqueue, waitqueue,
                    jobVars, workVars, g_need_reschedule, g_preemption,
                    menuVars, simVars, keyb_irq >>

(***************************************************************************)
(* keyboard_int_handler, up to the wake-up loop: a shift key or an unknown *)
(* scan code is not queued; a keycode is, unless the queue is full.        *)
(***************************************************************************)
keyboard_int_handler ==
    /\ InterruptsEnabled /\ keyb_irq
    /\ \/ /\ isr' = "return"
          /\ UNCHANGED keys
       \/ /\ isr' = "wakeup"
          /\ keys' = IF keys = KeyQueueMax THEN keys ELSE keys + 1
    /\ UNCHANGED << cpuVars, intr, pc, s_newqueue, s_waitqueue, waitqueue,
                    jobVars, workVars, g_need_reschedule, g_preemption,
                    menuVars, simVars, keyb_irq >>

\* A mutation: the handler wakes up one thread instead of all.
keyboard_wakeup_first ==
    /\ isr = "wakeup"
    /\ IF s_waitqueue # << >>
       THEN /\ thread_wakeup_one(s_waitqueue)
            /\ s_waitqueue' = Tail(s_waitqueue)
       ELSE UNCHANGED << cpuVars, s_waitqueue >>
    /\ g_need_reschedule' = TRUE
    /\ isr' = "return"
    /\ UNCHANGED << intr, pc, s_newqueue, waitqueue, jobVars, workVars,
                    g_preemption, menuVars, simVars, keyVars >>

\* thread_wakeup(&s_waitqueue) in the handler: one iteration, or the end.
keyboard_wakeup ==
    /\ isr = "wakeup"
    /\ \/ /\ s_waitqueue # << >>
          /\ thread_wakeup_one(s_waitqueue)
          /\ s_waitqueue' = Tail(s_waitqueue)
          /\ UNCHANGED << g_need_reschedule, isr >>
       \/ /\ s_waitqueue = << >>
          /\ g_need_reschedule' = TRUE
          /\ isr' = "return"
          /\ UNCHANGED << cpuVars, s_waitqueue >>
    /\ UNCHANGED << intr, pc, s_newqueue, waitqueue, jobVars, workVars,
                    g_preemption, menuVars, simVars, keyVars >>

\* A mutation: the interrupted thread is not put back on the run queue.
interrupt_drops_current ==
    /\ isr = "return"
    /\ isr' = "none"
    /\ IF g_preemption /\ g_need_reschedule /\ s_runqueue # << >>
       THEN g_need_reschedule' = FALSE /\ thread_schedule
       ELSE UNCHANGED << g_need_reschedule, cpuVars >>
    /\ UNCHANGED << intr, pc, s_newqueue, s_waitqueue, waitqueue, jobVars,
                    workVars, g_preemption, menuVars, simVars, keyVars >>

\* A mutation: g_preemption is not consulted.
interrupt_always_switches ==
    /\ isr = "return"
    /\ isr' = "none"
    /\ IF g_need_reschedule
       THEN g_need_reschedule' = FALSE /\ thread_requeue_current
       ELSE UNCHANGED << g_need_reschedule, cpuVars >>
    /\ UNCHANGED << intr, pc, s_newqueue, s_waitqueue, waitqueue, jobVars,
                    workVars, g_preemption, menuVars, simVars, keyVars >>

\* The exit path of int_handle_interrupt.
int_handle_interrupt ==
    /\ isr = "return"
    /\ isr' = "none"
    /\ IF g_preemption /\ g_need_reschedule
       THEN g_need_reschedule' = FALSE /\ thread_requeue_current
       ELSE UNCHANGED << g_need_reschedule, cpuVars >>
    /\ UNCHANGED << intr, pc, s_newqueue, s_waitqueue, waitqueue, jobVars,
                    workVars, g_preemption, menuVars, simVars, keyVars >>

-----------------------------------------------------------------------------
(***************************************************************************)
(* thread_yield, called by the idle thread and by wait_for_children.       *)
(***************************************************************************)
thread_yield(t) ==
    /\ At(t, "yield")
    /\ thread_requeue_current
    /\ Goto(t, "yielded") /\ SetIntr(t, FALSE)
    /\ UNCHANGED << s_newqueue, s_waitqueue, waitqueue, jobVars, workVars,
                    intVars, menuVars, simVars, keyVars >>

\* ... and its return, once the thread has the CPU again.
thread_yield_return(t) ==
    /\ At(t, "yielded")
    /\ Goto(t, IF t = Main THEN "join" ELSE "yield") /\ SetIntr(t, TRUE)
    /\ UNCHANGED << cpuVars, s_newqueue, s_waitqueue, waitqueue, jobVars,
                    workVars, intVars, menuVars, simVars, keyVars >>

\* thread_run: a new thread enables interrupts and calls its function, and the
\* function of a job calls first_response before anything else.
thread_run(t) ==
    /\ At(t, "start")
    /\ Goto(t, CASE t = Idle -> "yield"
                 [] t = WorkQ -> "loop"
                 [] OTHER -> IF fn[t] = "poet" THEN "lock" ELSE "body")
    /\ SetIntr(t, TRUE)
    /\ \/ t \in Slots /\ Stamp(t, "first_response")
       \/ t \notin Slots /\ UNCHANGED time
    /\ UNCHANGED << cpuVars, s_newqueue, s_waitqueue, waitqueue, refcount, priority,
                    fn, g_numticks, workVars, intVars, menuVars, simVars, keyVars >>

-----------------------------------------------------------------------------
(***************************************************************************)
(* workqueue_thread: wait for an item with interrupts disabled, take it,   *)
(* and call thread_destroy on it with interrupts enabled.                  *)
(***************************************************************************)
workqueue_wait ==
    /\ At(WorkQ, "loop") /\ s_workqueue = << >>
    /\ s_waitqueue' = Append(s_waitqueue, WorkQ)
    /\ thread_schedule
    /\ SetIntr(WorkQ, FALSE)
    /\ UNCHANGED << pc, s_newqueue, waitqueue, jobVars, workVars, intVars,
                    menuVars, simVars, keyVars >>

workqueue_next ==
    /\ At(WorkQ, "loop") /\ s_workqueue # << >>
    /\ item' = Head(s_workqueue)
    /\ s_workqueue' = Tail(s_workqueue)
    /\ Goto(WorkQ, "run") /\ SetIntr(WorkQ, TRUE)
    /\ UNCHANGED << cpuVars, s_newqueue, s_waitqueue, waitqueue, jobVars,
                    intVars, menuVars, simVars, keyVars >>

\* thread_destroy frees the process, the stack and the struct thread.
thread_destroy ==
    /\ At(WorkQ, "run")
    /\ state' = [state EXCEPT ![item] = "FREE"]
    /\ priority' = [priority EXCEPT ![item] = 0]
    /\ fn' = [fn EXCEPT ![item] = "fn"]
    /\ time' = [time EXCEPT ![item] = {}]
    /\ pc' = [pc EXCEPT ![item] = "start", ![WorkQ] = "loop"]
    /\ item' = NoThread
    /\ UNCHANGED << g_current, s_runqueue, num_ticks, intr, s_newqueue,
                    s_waitqueue, waitqueue, refcount, g_numticks, s_workqueue,
                    intVars, menuVars, simVars, keyVars >>

-----------------------------------------------------------------------------
(***************************************************************************)
(* The main thread at a prompt: wait_for_key sleeps while the key queue is *)
(* empty; a key that is no valid answer is ignored.                        *)
(***************************************************************************)
wait_for_key ==
    /\ g_current = Main /\ pc[Main] \in Prompts /\ isr = "none"
    /\ keys = 0
    /\ s_waitqueue' = Append(s_waitqueue, Main)
    /\ thread_schedule
    /\ SetIntr(Main, FALSE)
    /\ UNCHANGED << pc, s_newqueue, waitqueue, jobVars, workVars, intVars,
                    menuVars, simVars, keyVars >>

GotKey ==
    /\ g_current = Main /\ pc[Main] \in Prompts /\ isr = "none"
    /\ keys > 0
    /\ keys' = keys - 1
    /\ SetIntr(Main, TRUE)
    /\ UNCHANGED << cpuVars, s_newqueue, s_waitqueue, waitqueue, jobVars,
                    workVars, intVars, simVars, keyb_irq >>

InvalidKey == GotKey /\ UNCHANGED << pc, menuVars >>

main_menu ==
    /\ At(Main, "mode") /\ GotKey
    /\ \/ SynchSims # {} /\ Goto(Main, "synch")
       \/ SchedulerSims # {} /\ Goto(Main, "scheduler")
    /\ UNCHANGED menuVars

get_synch_simulation ==
    /\ At(Main, "synch") /\ GotKey
    /\ g_scheduler' = "RR"
    /\ g_quantum' = SynchQuantum
    /\ simulation' \in SynchSims
    /\ Goto(Main, "mask")

get_scheduler ==
    /\ At(Main, "scheduler") /\ GotKey
    /\ g_scheduler' \in Schedulers
    /\ Goto(Main, IF g_scheduler' = "RR" THEN "quantum" ELSE "joblist")
    /\ UNCHANGED << g_quantum, simulation >>

get_quantum ==
    /\ At(Main, "quantum") /\ GotKey
    /\ g_quantum' \in Quanta
    /\ Goto(Main, "joblist")
    /\ UNCHANGED << g_scheduler, simulation >>

get_scheduler_simulation ==
    /\ At(Main, "joblist") /\ GotKey
    /\ simulation' \in SchedulerSims
    /\ Goto(Main, "mask")
    /\ UNCHANGED << g_scheduler, g_quantum >>

\* ask_for_stats, and geekos_main's loop test before the next main_menu.
ask_for_stats ==
    /\ At(Main, "stats") /\ GotKey
    /\ Goto(Main, IF g_num_threads < MAX_THREADS THEN "mode" ELSE "halt")
    /\ UNCHANGED menuVars

-----------------------------------------------------------------------------
(***************************************************************************)
(* run_simulation: mask the keyboard, let long_term_scheduler create all   *)
(* jobs and merge them into the run queue, wait for each of them in turn,  *)
(* and unmask the keyboard.                                                *)
(***************************************************************************)
irq_disable_keyboard ==
    /\ At(Main, "mask")
    /\ keyb_irq' = FALSE
    /\ Goto(Main, "create")
    /\ UNCHANGED << cpuVars, intr, s_newqueue, s_waitqueue, waitqueue, jobVars,
                    workVars, intVars, menuVars, simVars, keys >>

\* The priority field of a new job's thread, by the scheduler in force.
JobPriority(j) ==
    CASE g_scheduler = "SJF" -> j.cpu_burst
      [] g_scheduler = "PRIORITY" -> j.priority
      [] OTHER -> DEFAULT_PRIORITY

\* A mutation: the parent's reference is not counted.
create_without_parent_reference(t) ==
    LET job == simulation[Len(threads) + 1] IN
    /\ At(Main, "create") /\ state[t] = "FREE"
    /\ refcount' = [refcount EXCEPT ![t] = 1]
    /\ priority' = [priority EXCEPT ![t] = JobPriority(job)]
    /\ fn' = [fn EXCEPT ![t] = job.fn]
    /\ g_num_threads' = g_num_threads + 1
    /\ state' = [state EXCEPT ![t] = "NEW"]
    /\ s_newqueue' = SCHEDULER(g_scheduler, s_newqueue, t, priority')
    /\ threads' = Append(threads, t)
    /\ intr' = [intr EXCEPT ![t] = FALSE]
    /\ Stamp(t, "arrival")
    /\ Goto(Main, IF Len(threads) + 1 < Len(simulation) THEN "create" ELSE "merge")
    /\ UNCHANGED << g_current, s_runqueue, num_ticks, s_waitqueue, waitqueue,
                    g_numticks, workVars, intVars, menuVars, child, keyVars >>

\* thread_create_from_job and thread_make_new, THREAD_ATTACHED.
thread_create_from_job(t) ==
    LET job == simulation[Len(threads) + 1] IN
    /\ At(Main, "create") /\ state[t] = "FREE"
    /\ refcount' = [refcount EXCEPT ![t] = 2]
    /\ priority' = [priority EXCEPT ![t] = JobPriority(job)]
    /\ fn' = [fn EXCEPT ![t] = job.fn]
    /\ g_num_threads' = g_num_threads + 1
    /\ state' = [state EXCEPT ![t] = "NEW"]
    /\ s_newqueue' = SCHEDULER(g_scheduler, s_newqueue, t, priority')
    /\ threads' = Append(threads, t)
    /\ intr' = [intr EXCEPT ![t] = FALSE]
    /\ Stamp(t, "arrival")
    /\ Goto(Main, IF Len(threads) + 1 < Len(simulation) THEN "create" ELSE "merge")
    /\ UNCHANGED << g_current, s_runqueue, num_ticks, s_waitqueue, waitqueue,
                    g_numticks, workVars, intVars, menuVars, child, keyVars >>

\* A mutation: thread_queue_get_first instead of thread_queue_remove_first.
merge_without_removal ==
    /\ At(Main, "merge") /\ s_newqueue # << >>
    /\ state' = [state EXCEPT ![Head(s_newqueue)] = "READY"]
    /\ s_runqueue' = RunqueueWith(Head(s_newqueue))
    /\ SetIntr(Main, FALSE)
    /\ UNCHANGED << s_newqueue, pc >>
    /\ UNCHANGED << g_current, num_ticks, s_waitqueue, waitqueue, jobVars,
                    workVars, intVars, menuVars, simVars, keyVars >>

\* merge_new_with_runnable: one iteration, or the end of the loop.
merge_new_with_runnable ==
    /\ At(Main, "merge")
    /\ \/ /\ s_newqueue # << >>
          /\ s_newqueue' = Tail(s_newqueue)
          /\ state' = [state EXCEPT ![Head(s_newqueue)] = "READY"]
          /\ s_runqueue' = RunqueueWith(Head(s_newqueue))
          /\ SetIntr(Main, FALSE)
          /\ UNCHANGED pc
       \/ /\ s_newqueue = << >>
          /\ SetIntr(Main, TRUE)
          /\ Goto(Main, "yield")
          /\ UNCHANGED << s_newqueue, state, s_runqueue >>
    /\ UNCHANGED << g_current, num_ticks, s_waitqueue, waitqueue, jobVars,
                    workVars, intVars, menuVars, simVars, keyVars >>

\* thread_wait_until(&thread[i]->waitqueue, &thread_not_running, thread[i])
wait_for_child ==
    /\ At(Main, "join") /\ state[threads[child]] # "EXITED"
    /\ waitqueue' = [waitqueue EXCEPT ![threads[child]] = Append(@, Main)]
    /\ thread_schedule
    /\ SetIntr(Main, FALSE)
    /\ UNCHANGED << pc, s_newqueue, s_waitqueue, jobVars, workVars, intVars,
                    menuVars, simVars, keyVars >>

\* The assertions of calculate_simulation_stat hold of job c.
StatDefined(c) == TimeField \subseteq time[c]

\* The child has exited, but an assertion fails: halt with interrupts disabled.
calculate_simulation_stat_halt ==
    /\ At(Main, "join") /\ state[threads[child]] = "EXITED"
    /\ ~StatDefined(threads[child])
    /\ Goto(Main, "stat_halt") /\ SetIntr(Main, FALSE)
    /\ UNCHANGED << cpuVars, s_newqueue, s_waitqueue, waitqueue, jobVars, workVars,
                    intVars, menuVars, simVars, keyVars >>

\* A mutation: wait_for_children does not yield before every child.
join_without_yield ==
    /\ At(Main, "join") /\ state[threads[child]] = "EXITED"
    /\ StatDefined(threads[child])
    /\ thread_detach(threads[child], Main,
                     IF child < Len(threads) THEN "join" ELSE "unmask", TRUE)
    /\ child' = child + 1
    /\ UNCHANGED threads

\* The child has exited: calculate its statistics, drop the parent's reference,
\* go to the next child.
join_child ==
    /\ At(Main, "join") /\ state[threads[child]] = "EXITED"
    /\ StatDefined(threads[child])
    /\ thread_detach(threads[child], Main,
                     IF child < Len(threads) THEN "yield" ELSE "unmask", TRUE)
    /\ child' = child + 1
    /\ UNCHANGED threads

\* The end of run_simulation, whose local arrays go out of scope.
irq_enable_keyboard ==
    /\ At(Main, "unmask")
    /\ keyb_irq' = TRUE
    /\ simulation' = << >> /\ threads' = << >> /\ child' = 1
    /\ Goto(Main, "stats")
    /\ UNCHANGED << cpuVars, intr, s_newqueue, s_waitqueue, waitqueue, jobVars,
                    workVars, intVars, g_scheduler, g_quantum, g_num_threads, keys >>

-----------------------------------------------------------------------------
(***************************************************************************)
(* The jobs.                                                               *)
(***************************************************************************)
JobUnchanged ==
    UNCHANGED << cpuVars, s_newqueue, s_waitqueue, waitqueue, jobVars, workVars,
                 g_need_reschedule, isr, menuVars, simVars, keyVars >>

(***************************************************************************)
(* The busy_waits of the body are over: leave it, or enter a critical      *)
(* section.  A tick has been charged to the job by then, as a job loses    *)
(* the CPU to such a tick only.                                            *)
(***************************************************************************)
job_body(t) ==
    /\ At(t, "body") /\ "running" \in time[t]
    /\ CASE fn[t] = "fn" ->
              Goto(t, "exit") /\ UNCHANGED << intr, g_preemption >>
         [] fn[t] = "toggler" ->
              Goto(t, "critical") /\ SetIntr(t, FALSE) /\ UNCHANGED g_preemption
         [] fn[t] = "poet" ->
              Goto(t, "unlocking") /\ g_preemption' = FALSE /\ UNCHANGED intr
    /\ JobUnchanged

\* interrupt_toggler's int_end_atomic.
toggler_end_atomic(t) ==
    /\ At(t, "critical")
    /\ Goto(t, "exit") /\ SetIntr(t, TRUE)
    /\ UNCHANGED g_preemption
    /\ JobUnchanged

\* mutex_poet: preemption is off inside (uncontended) mutex_lock ...
poet_lock(t) ==
    /\ At(t, "lock")
    /\ Goto(t, "locking") /\ g_preemption' = FALSE
    /\ UNCHANGED intr
    /\ JobUnchanged

\* ... and on again when mutex_lock or mutex_unlock returns.
poet_preemption_on(t) ==
    /\ pc[t] \in {"locking", "unlocking"} /\ At(t, pc[t])
    /\ Goto(t, IF pc[t] = "locking" THEN "body" ELSE "exit")
    /\ g_preemption' = TRUE
    /\ UNCHANGED intr
    /\ JobUnchanged

\* thread_exit: disable interrupts and drop the thread's self-reference ...
exit_detach(t) ==
    /\ At(t, "exit")
    /\ thread_detach(t, t, "detached", FALSE)
    /\ UNCHANGED << threads, child >>

\* ... the thread has exited ...
exit_state(t) ==
    /\ At(t, "detached")
    /\ state' = [state EXCEPT ![t] = "EXITED"]
    /\ Stamp(t, "termination")
    /\ Goto(t, "exit_wake")
    /\ UNCHANGED << g_current, s_runqueue, num_ticks, intr, s_newqueue, s_waitqueue,
                    waitqueue, refcount, priority, fn, g_numticks, workVars,
                    intVars, menuVars, simVars, keyVars >>

\* A mutation: the waiters are left asleep when only the parent refers to t.
exit_forgets_parent(t) ==
    /\ At(t, "exit_wake")
    /\ thread_schedule
    /\ Goto(t, "gone")
    /\ UNCHANGED waitqueue
    /\ UNCHANGED << intr, s_newqueue, s_waitqueue, jobVars, workVars, intVars,
                    menuVars, simVars, keyVars >>

\* ... wake up the parent, one waiter at a time, and never come back.
exit_wakeup(t) ==
    /\ At(t, "exit_wake")
    /\ \/ /\ refcount[t] > 0 /\ waitqueue[t] # << >>
          /\ thread_wakeup_one(waitqueue[t])
          /\ waitqueue' = [waitqueue EXCEPT ![t] = Tail(@)]
          /\ UNCHANGED pc
       \/ /\ refcount[t] = 0 \/ waitqueue[t] = << >>
          /\ thread_schedule
          /\ Goto(t, "gone")
          /\ UNCHANGED waitqueue
    /\ UNCHANGED << intr, s_newqueue, s_waitqueue, jobVars, workVars, intVars,
                    menuVars, simVars, keyVars >>

-----------------------------------------------------------------------------
MainStep ==
    \/ wait_for_key \/ InvalidKey \/ main_menu \/ get_synch_simulation
    \/ get_scheduler \/ get_quantum \/ get_scheduler_simulation \/ ask_for_stats
    \/ irq_disable_keyboard \/ \E t \in Slots : thread_create_from_job(t)
    \/ merge_new_with_runnable \/ thread_yield(Main) \/ thread_yield_return(Main)
    \/ wait_for_child \/ calculate_simulation_stat_halt \/ join_child
    \/ irq_enable_keyboard

IdleStep == thread_run(Idle) \/ thread_yield(Idle) \/ thread_yield_return(Idle)

WorkStep ==
    thread_run(WorkQ) \/ workqueue_wait \/ workqueue_next \/ thread_destroy

JobStep(t) ==
    \/ thread_run(t) \/ job_body(t) \/ toggler_end_atomic(t)
    \/ poet_lock(t) \/ poet_preemption_on(t)
    \/ exit_detach(t) \/ exit_state(t) \/ exit_wakeup(t)

Interrupt == timer_process_tick \/ keyboard_int_handler

Handler == keyboard_wakeup \/ int_handle_interrupt

\* HALT(): a failed assertion, or the end of geekos_main.
Halt == pc[g_current] \in {"halt", "stat_halt"} /\ isr = "none" /\ UNCHANGED vars

Next ==
    \/ MainStep \/ IdleStep \/ WorkStep \/ \E t \in Slots : JobStep(t)
    \/ Interrupt \/ Handler \/ Halt

Spec == Init /\ [][Next]_vars

(***************************************************************************)
(* A thread that has the CPU executes its next instructions before the     *)
(* interrupts that could take the CPU away again go on for ever: ticks and *)
(* key presses are millions of instructions apart.  A thread that gets the *)
(* CPU again and again therefore takes its steps (strong fairness), and a  *)
(* handler that has begun ends.  The timer does not stop.  Nothing is      *)
(* assumed of the user.                                                    *)
(***************************************************************************)
Fairness ==
    /\ SF_vars(MainStep)
    /\ SF_vars(IdleStep)
    /\ SF_vars(WorkStep)
    /\ \A t \in Slots : SF_vars(JobStep(t))
    /\ WF_vars(Handler)
    /\ WF_vars(timer_process_tick)

FairSpec == Spec /\ Fairness

-----------------------------------------------------------------------------
(***************************************************************************)
(* Properties.                                                             *)
(***************************************************************************)

\* Every variable has its type.
TypeOK ==
    /\ g_current \in Thread
    /\ state \in [Thread -> {"FREE", "NEW", "READY", "RUNNING", "EXITED"}]
    /\ intr \in [Thread -> BOOLEAN]
    /\ pc \in [Thread -> MainPC \cup IdlePC \cup WorkPC \cup JobPC]
    /\ s_runqueue \in Seq(Thread)
    /\ s_newqueue \in Seq(Slots)
    /\ s_waitqueue \in Seq(Thread)
    /\ waitqueue \in [Slots -> Seq(Thread)]
    /\ refcount \in [Slots -> Nat]
    /\ priority \in [Thread -> Nat]
    /\ fn \in [Slots -> {"fn", "toggler", "poet"}]
    /\ time \in [Slots -> SUBSET TimeField]
    /\ g_numticks \in {0, 1}
    /\ s_workqueue \in Seq(Slots)
    /\ item \in Slots \cup {NoThread}
    /\ num_ticks \in 0 .. TickMax
    /\ g_need_reschedule \in BOOLEAN
    /\ g_preemption \in BOOLEAN
    /\ isr \in {"none", "wakeup", "return"}
    /\ g_scheduler \in Scheduler
    /\ g_quantum \in 0 .. TickMax
    /\ simulation \in Seq(Job)
    /\ threads \in Seq(Slots)
    /\ child \in Nat \ {0}
    /\ g_num_threads \in Nat
    /\ keys \in 0 .. KeyQueueMax
    /\ keyb_irq \in BOOLEAN

QueueNames == {"run", "new", "wait"} \cup Slots

Queue(n) == CASE n = "run" -> s_runqueue
              [] n = "new" -> s_newqueue
              [] n = "wait" -> s_waitqueue
              [] OTHER -> waitqueue[n]

(***************************************************************************)
(* A thread is threaded through at most one queue, at one place, and the   *)
(* current thread through none: struct thread has a single pair of links,  *)
(* so a second insertion would corrupt both queues.                        *)
(***************************************************************************)
OneQueue ==
    /\ \A n \in QueueNames : Distinct(Queue(n)) /\ ~InQueue(g_current, Queue(n))
    /\ \A m, n \in QueueNames : \A t \in Thread :
           InQueue(t, Queue(m)) /\ InQueue(t, Queue(n)) => m = n

(***************************************************************************)
(* No thread gets lost: a thread that has not exited has the CPU or is in  *)
(* a queue from which it can be taken again.                               *)
(***************************************************************************)
NoThreadLost ==
    \A t \in Thread :
        \/ state[t] = "FREE" \/ pc[t] = "gone" \/ t = g_current
        \/ \E n \in QueueNames : InQueue(t, Queue(n))

(***************************************************************************)
(* thread->state agrees with the queues: READY in the run queue only, NEW  *)
(* in the new queue only.                                                  *)
(***************************************************************************)
StateMatchesQueue ==
    \A t \in Thread :
        /\ state[t] = "READY" <=> InQueue(t, s_runqueue)
        /\ state[t] = "NEW" <=> InQueue(t, s_newqueue)

(***************************************************************************)
(* The queues are consistent after every step of every thread and every    *)
(* interrupt, although they share the threads' links and a switch may be   *)
(* pending for a thread that has moved on: one queue per thread, no thread *)
(* outside them all, and thread->state in agreement with the queue.        *)
(***************************************************************************)
QueuesConsistent == OneQueue /\ NoThreadLost /\ StateMatchesQueue

(***************************************************************************)
(* The idle thread is running or runnable, so that thread_next_runnable    *)
(* never finds the run queue empty (thread.c, KASSERT(next)).              *)
(***************************************************************************)
IdleReady == g_current = Idle \/ InQueue(Idle, s_runqueue)

(***************************************************************************)
(* Under SJF and PRIORITY the run queue is sorted at every moment, across  *)
(* changes of the scheduler between simulations.                           *)
(***************************************************************************)
RunqueueOrdered ==
    g_scheduler \in {"SJF", "PRIORITY"} => Ordered(s_runqueue, priority)

\* The main thread still holds its reference to c.
ParentHolds(c) == \E k \in child .. Len(threads) : threads[k] = c

\* Thread c has not yet dropped the reference to itself.
SelfHolds(c) ==
    state[c] # "FREE" /\ pc[c] \notin {"detached", "exit_wake", "gone"}

(***************************************************************************)
(* A job's refcount is the number of references that exist: its own and    *)
(* its parent's.                                                           *)
(***************************************************************************)
RefcountAccurate ==
    \A c \in Slots :
        refcount[c] = (IF SelfHolds(c) THEN 1 ELSE 0)
                      + (IF ParentHolds(c) THEN 1 ELSE 0)

(***************************************************************************)
(* Nobody uses freed memory: a free slot has no reader left, and a thread  *)
(* waiting for destruction is dead, unreferenced and queued only once.     *)
(***************************************************************************)
Doomed == ToSet(s_workqueue) \cup ({item} \ {NoThread})

NoDanglingReference ==
    /\ \A c \in Slots : state[c] = "FREE" =>
           /\ c # g_current /\ c \notin Doomed /\ ~ParentHolds(c)
           /\ waitqueue[c] = << >>
           /\ \A n \in QueueNames : ~InQueue(c, Queue(n))
    /\ \A c \in Doomed :
           /\ state[c] = "EXITED" /\ refcount[c] = 0 /\ waitqueue[c] = << >>
           /\ c # g_current
    /\ \A i, j \in DOMAIN s_workqueue : s_workqueue[i] = s_workqueue[j] => i = j
    /\ \A i \in DOMAIN s_workqueue : s_workqueue[i] # item

(***************************************************************************)
(* The work queue thread never sleeps on pending work: an item in the      *)
(* queue means that it is awake (a wake-up is not lost, and not spent on   *)
(* the keyboard's reader in the same wait queue).                          *)
(***************************************************************************)
NoLostWork ==
    s_workqueue # << >> => ~InQueue(WorkQ, s_waitqueue)

(***************************************************************************)
(* Nobody sleeps while keys are available, although the work queue thread  *)
(* sleeps in the same queue as the keyboard's readers.                     *)
(***************************************************************************)
NoLostKey ==
    keys > 0 /\ isr # "wakeup" => ~InQueue(Main, s_waitqueue)

(***************************************************************************)
(* No assertion fails of those modelled (list.h, thread.c, stat.c), except *)
(* those of calculate_simulation_stat on a job that was created before the *)
(* first tick, whose time of arrival is zero: otherwise the kernel halts   *)
(* only at the end of geekos_main, with interrupts enabled.                *)
(***************************************************************************)
NoAssertionFails ==
    /\ \A t \in Thread : pc[t] = "halt" => intr[t]
    /\ pc[Main] = "stat_halt" => "arrival" \notin time[threads[child]]

(***************************************************************************)
(* A thread that turned preemption off keeps the CPU until it turns it on. *)
(***************************************************************************)
PreemptionRespected == [][~g_preemption => g_current' = g_current]_vars

(***************************************************************************)
(* Memory is released only after the thread exited, lost its last          *)
(* reference and left the CPU for good.                                    *)
(***************************************************************************)
OnlyDeadDestroyed ==
    [][\A c \in Slots :
          state[c] # "FREE" /\ state'[c] = "FREE" =>
              state[c] = "EXITED" /\ refcount[c] = 0 /\ pc[c] = "gone"
                /\ c # g_current]_vars

\* A simulation that was started comes to its end.
SimulationEnds == pc[Main] = "mask" ~> pc[Main] \in {"stats", "halt", "stat_halt"}

(***************************************************************************)
(* The memory of a job that exited is released, unless the main thread     *)
(* reaches a HALT first and keeps the CPU.                                 *)
(***************************************************************************)
ExitedDestroyed ==
    \A c \in Slots : state[c] = "EXITED" ~>
        state[c] = "FREE" \/ pc[Main] \in {"halt", "stat_halt"}

=============================================================================
