-------------------------------- MODULE Task --------------------------------
(***************************************************************************)
(* The preemptive priority scheduler, task events and mutexes of           *)
(* core/cortex-m/task.c, with the one-shot task timers of common/timer.c   *)
(* reduced to "an armed timer may expire".                                 *)
(*                                                                         *)
(* One CPU: a task takes a step only while it is current_task.  Interrupts *)
(* come between any two steps of a task; an interrupt handler runs to      *)
(* completion before any task runs again, so it is one action, with the    *)
(* rescheduling at its exit.  A step of a task is one access to shared     *)
(* state: the ldrex/strex loops of atomic.h are one step each, because an  *)
(* exception between the two clears the monitor and the loop starts again. *)
(*                                                                         *)
(* Task identifiers are priorities: IDLE is 0, higher numbers win.         *)
(***************************************************************************)
EXTENDS Integers

CONSTANTS
  TASK_ID_COUNT,  \* number of tasks, the idle task included
  HOOKS,          \* TASK_ID_HOOKS, the task that enables all the others
  Mutexes,        \* the mutexes clients use
  UserEvents,     \* events clients and drivers send: WAKE, I2C_IDLE, ...
  Calls           \* the kernel calls clients make, a subset of AllCalls

AllCalls == {"wait", "mask", "usleep", "lock", "set", "set_wait"}

Events == UserEvents \cup {"TIMER", "MUTEX"}
IDLE == 0
SCRATCH == -1     \* main() runs on the scratchpad context before task_start()
Tasks == 0 .. TASK_ID_COUNT - 1
NoMutex == "no mutex"

ASSUME TaskAssumption ==
  /\ TASK_ID_COUNT \in Nat
  /\ HOOKS \in Tasks \ {IDLE}
  /\ NoMutex \notin Mutexes
  /\ UserEvents \cap {"TIMER", "MUTEX"} = {}
  /\ Calls \subseteq AllCalls

VARIABLES
  start_called,   \* task_start() has run
  current_task,   \* the running task, or SCRATCH before the first switch
  tasks_ready,    \* the ready bitmap
  events,         \* per task: pending events
  timer_running,  \* the tasks whose one-shot timer is armed
  lock,           \* per mutex: lock field is 2
  waiters,        \* per mutex: waiters bitmap
  enabled,        \* task_enable_all_tasks() has set the ready bitmap
  \* the stack of each task, flattened: where it is and in which call
  pc, call, timed, want, got, resched, mtx, snap,
  holds,          \* per task: mutexes whose lock call returned to the client
  elapsed         \* per task: the delay of its current usleep() has passed

vars == <<start_called, current_task, tasks_ready, events, timer_running,
          lock, waiters, enabled, pc, call, timed, want, got, resched, mtx,
          snap, holds, elapsed>>

sched   == <<start_called, current_task, tasks_ready>>
mutex   == <<lock, waiters, mtx, snap, holds>>
waiting == <<call, timed, want, got>>

Labels == {"run", "arm", "read", "desched", "cancel", "check", "repost",
           "set_resched", "enable_resched",
           "lock_try", "lock_done",
           "unlock_store", "unlock_next", "unlock_resched",
           "unlock_clear"}

Init ==
  /\ start_called = FALSE
  /\ current_task = SCRATCH
  /\ tasks_ready = {HOOKS}
  /\ events = [t \in Tasks |-> {}]
  /\ timer_running = {}
  /\ lock = [m \in Mutexes |-> FALSE]
  /\ waiters = [m \in Mutexes |-> {}]
  /\ enabled = FALSE
  /\ pc = [t \in Tasks |-> "run"]
  /\ call = [t \in Tasks |-> "none"]
  /\ timed = [t \in Tasks |-> FALSE]
  /\ want = [t \in Tasks |-> {}]
  /\ got = [t \in Tasks |-> {}]
  /\ resched = [t \in Tasks |-> IDLE]
  /\ mtx = [t \in Tasks |-> NoMutex]
  /\ snap = [t \in Tasks |-> {}]
  /\ holds = [t \in Tasks |-> {}]
  /\ elapsed = [t \in Tasks |-> FALSE]

-----------------------------------------------------------------------------
(* Scheduling *)

\* Store the ready bitmap and switch to its highest task:
\* next = 31 - __builtin_clz(tasks_ready)
Reschedule(ready) ==
  /\ tasks_ready' = ready
  /\ \E next \in ready :
        /\ \A t \in ready : t <= next
        /\ current_task' = next

\* Mutant: deschedules without looking at the pending events again
svc_handler_no_recheck(desched, id) ==
  Reschedule((IF desched THEN tasks_ready \ {current_task} ELSE tasks_ready)
             \cup {id})

\* The scheduling system call made by the running task
svc_handler(desched, id) ==
  Reschedule((IF desched /\ events[current_task] = {}
              THEN tasks_ready \ {current_task} ELSE tasks_ready) \cup {id})

Goto(t, label) == pc' = [pc EXCEPT ![t] = label]

At(t, label) ==
  /\ current_task = t
  /\ pc[t] = label

task_start ==
  /\ ~start_called
  /\ start_called' = TRUE
  /\ Reschedule(tasks_ready \cup {IDLE})
  /\ UNCHANGED <<events, timer_running, enabled, pc, resched, elapsed,
                 mutex, waiting>>

\* The hooks task, its HOOK_INIT hooks done, makes every task ready...
task_enable_all_tasks(t) ==
  /\ t = HOOKS
  /\ At(t, "run")
  /\ ~enabled
  /\ enabled' = TRUE
  /\ tasks_ready' = Tasks
  /\ Goto(t, "enable_resched")
  /\ UNCHANGED <<start_called, current_task, events, timer_running, resched,
                 elapsed, mutex, waiting>>

\* ...and reschedules
enable_resched(t) ==
  /\ At(t, "enable_resched")
  /\ svc_handler(FALSE, IDLE)
  /\ Goto(t, "run")
  /\ UNCHANGED <<start_called, events, timer_running, enabled, resched,
                 elapsed, mutex, waiting>>

-----------------------------------------------------------------------------
(* Interrupts: set an event for some tasks, mark them ready, reschedule at *)
(* the exit of the outermost handler once task_start() has run.            *)

\* Mutant: the handler's exit does not reschedule
FromIrq_no_resched(targets, e) ==
  /\ events' = [t \in Tasks |->
                  IF t \in targets THEN events[t] \cup {e} ELSE events[t]]
  /\ tasks_ready' = tasks_ready \cup targets
  /\ UNCHANGED current_task

FromIrq(targets, e) ==
  /\ events' = [t \in Tasks |->
                  IF t \in targets THEN events[t] \cup {e} ELSE events[t]]
  /\ IF start_called
     THEN Reschedule(tasks_ready \cup targets \cup {IDLE})
     ELSE /\ tasks_ready' = tasks_ready \cup targets
          /\ UNCHANGED current_task

\* A driver's handler calls task_set_event() for one task
DriverIrq ==
  /\ \E t \in Tasks \ {IDLE}, e \in UserEvents : FromIrq({t}, e)
  /\ UNCHANGED <<start_called, timer_running, enabled, pc, resched, elapsed,
                 mutex, waiting>>

\* The timer interrupt expires the armed timers whose deadline has passed.
\* A timer armed by usleep() is never earlier than the end of the delay.
TimerIrq ==
  \E due \in SUBSET timer_running \ {{}} :
    /\ timer_running' = timer_running \ due
    /\ FromIrq(due, "TIMER")
    /\ elapsed' = [t \in Tasks |->
                      elapsed[t] \/ (t \in due /\ call[t] = "usleep")]
    /\ UNCHANGED <<start_called, enabled, pc, resched, mutex, waiting>>

\* The hardware clock reaches the end of a usleep() delay
ClockTick ==
  \E t \in Tasks :
    /\ call[t] = "usleep"
    /\ ~elapsed[t]
    /\ elapsed' = [elapsed EXCEPT ![t] = TRUE]
    /\ UNCHANGED <<start_called, current_task, tasks_ready, events,
                   timer_running, enabled, pc, resched, mutex, waiting>>

-----------------------------------------------------------------------------
(* Waiting: __wait_evt() and its callers *)

\* Enter __wait_evt() on behalf of a call, collecting events in mask
EnterWait(t, c, timeout, mask) ==
  /\ call' = [call EXCEPT ![t] = c]
  /\ timed' = [timed EXCEPT ![t] = timeout]
  /\ want' = [want EXCEPT ![t] = mask]
  /\ got' = [got EXCEPT ![t] = {}]
  /\ Goto(t, IF timeout THEN "arm" ELSE "read")

\* Clients wait with or without a timeout; usleep() always has one.  Until
\* the other tasks are enabled nothing waits for ever.
CallWait(t) ==
  /\ t # IDLE
  /\ At(t, "run")
  /\ \/ /\ "wait" \in Calls
        /\ \E timeout \in BOOLEAN :
              /\ timeout \/ enabled
              /\ EnterWait(t, "wait", timeout, Events)
     \/ /\ "mask" \in Calls
        /\ \E timeout \in BOOLEAN, e \in UserEvents :
              /\ timeout \/ enabled
              /\ EnterWait(t, "mask", timeout, {e, "TIMER"})
     \/ /\ "usleep" \in Calls
        /\ EnterWait(t, "usleep", TRUE, {"TIMER"})
  /\ UNCHANGED <<sched, events, timer_running, enabled, resched, elapsed,
                 mutex>>

\* Mutant: sets the bit of the next task
wait_arm_next_bit(t) ==
  /\ At(t, "arm")
  /\ t \notin timer_running
  /\ timer_running' = timer_running \cup {t + 1}
  /\ Goto(t, "read")
  /\ UNCHANGED <<sched, events, enabled, resched, elapsed, mutex, waiting>>

\* timer_arm(): refuses a second timer for the same task
wait_arm(t) ==
  /\ At(t, "arm")
  /\ t \notin timer_running
  /\ timer_running' = timer_running \cup {t}
  /\ Goto(t, "read")
  /\ UNCHANGED <<sched, events, enabled, resched, elapsed, mutex, waiting>>

\* evt = atomic_read_clear(&tsk->events)
wait_read(t) ==
  /\ At(t, "read")
  /\ got' = [got EXCEPT ![t] = @ \cup events[t]]
  /\ events' = [events EXCEPT ![t] = {}]
  /\ IF events[t] = {}
     THEN /\ Goto(t, "desched")
          /\ UNCHANGED resched
     ELSE /\ Goto(t, IF timed[t] THEN "cancel" ELSE "check")
          /\ resched' = [resched EXCEPT ![t] = IDLE]
  /\ UNCHANGED <<sched, timer_running, enabled, call, timed, want, elapsed,
                 mutex>>

\* __schedule(1, resched), then read again when it returns
wait_desched(t) ==
  /\ At(t, "desched")
  /\ svc_handler(TRUE, resched[t])
  /\ resched' = [resched EXCEPT ![t] = IDLE]
  /\ Goto(t, "read")
  /\ UNCHANGED <<start_called, events, timer_running, enabled, elapsed,
                 mutex, waiting>>

\* Mutant: leaves the timer running
wait_cancel_forgotten(t) ==
  /\ At(t, "cancel")
  /\ Goto(t, "check")
  /\ UNCHANGED <<sched, events, timer_running, enabled, resched, elapsed,
                 mutex, waiting>>

wait_cancel(t) ==
  /\ At(t, "cancel")
  /\ timer_running' = timer_running \ {t}
  /\ Goto(t, "check")
  /\ UNCHANGED <<sched, events, enabled, resched, elapsed, mutex, waiting>>

\* task_wait_event() is done after one wait; task_wait_event_mask() and
\* usleep() decide whether to wait again.  When a timed mask wait finds its
\* deadline passed, it adds TIMER and stops.
wait_check(t) ==
  /\ At(t, "check")
  /\ \/ /\ call[t] = "mask"
        /\ timed[t]
        /\ got' = [got EXCEPT ![t] = @ \cup {"TIMER"}]
        /\ Goto(t, "repost")
     \/ /\ IF \/ call[t] = "wait"
              \/ got[t] \cap want[t] # {}
              \/ elapsed[t]
           THEN Goto(t, "repost")
           ELSE Goto(t, IF timed[t] THEN "arm" ELSE "read")
        /\ UNCHANGED got
  /\ UNCHANGED <<sched, events, timer_running, enabled, call, timed, want,
                 resched, elapsed, mutex>>

\* Mutant: the events nobody asked for are dropped
wait_repost_dropped(t) ==
  /\ At(t, "repost")
  /\ call' = [call EXCEPT ![t] = "none"]
  /\ timed' = [timed EXCEPT ![t] = FALSE]
  /\ want' = [want EXCEPT ![t] = {}]
  /\ got' = [got EXCEPT ![t] = {}]
  /\ elapsed' = [elapsed EXCEPT ![t] = FALSE]
  /\ Goto(t, IF call[t] = "lock" THEN "lock_try" ELSE "run")
  /\ UNCHANGED <<sched, events, timer_running, enabled, resched, mutex>>

\* The events nobody asked for are set again; the mutex wait goes back to
\* try the lock, the others return to their client
wait_repost(t) ==
  /\ At(t, "repost")
  /\ events' = [events EXCEPT ![t] = @ \cup (got[t] \ want[t])]
  /\ call' = [call EXCEPT ![t] = "none"]
  /\ timed' = [timed EXCEPT ![t] = FALSE]
  /\ want' = [want EXCEPT ![t] = {}]
  /\ got' = [got EXCEPT ![t] = {}]
  /\ elapsed' = [elapsed EXCEPT ![t] = FALSE]
  /\ Goto(t, IF call[t] = "lock" THEN "lock_try" ELSE "run")
  /\ UNCHANGED <<sched, timer_running, enabled, resched, mutex>>

-----------------------------------------------------------------------------
(* task_set_event() from a task *)

\* atomic_or(&receiver->events, event); then either wait for a response,
\* leaving the receiver to the first __schedule() of that wait, or reschedule
CallSetEvent(t) ==
  /\ t # IDLE
  /\ At(t, "run")
  /\ \E u \in Tasks \ {IDLE}, e \in UserEvents :
       /\ events' = [events EXCEPT ![u] = @ \cup {e}]
       /\ resched' = [resched EXCEPT ![t] = u]
       /\ \/ /\ "set" \in Calls
             /\ Goto(t, "set_resched")
             /\ UNCHANGED waiting
          \/ /\ "set_wait" \in Calls
             /\ EnterWait(t, "wait", FALSE, Events)
  /\ UNCHANGED <<sched, timer_running, enabled, elapsed, mutex>>

set_resched(t) ==
  /\ At(t, "set_resched")
  /\ svc_handler(FALSE, resched[t])
  /\ resched' = [resched EXCEPT ![t] = IDLE]
  /\ Goto(t, "run")
  /\ UNCHANGED <<start_called, events, timer_running, enabled, elapsed,
                 mutex, waiting>>

-----------------------------------------------------------------------------
(* Mutexes *)

\* mutex_lock(): atomic_or(&mtx->waiters, id)
mutex_lock(t) ==
  /\ t # IDLE
  /\ At(t, "run")
  /\ "lock" \in Calls
  /\ \E m \in Mutexes \ holds[t] :
       /\ mtx' = [mtx EXCEPT ![t] = m]
       /\ waiters' = [waiters EXCEPT ![m] = @ \cup {t}]
  /\ Goto(t, "lock_try")
  /\ UNCHANGED <<sched, events, timer_running, enabled, resched, elapsed,
                 waiting, lock, snap, holds>>

\* Mutant: takes the lock without the exclusive test
lock_try_blind(t) ==
  /\ At(t, "lock_try")
  /\ lock' = [lock EXCEPT ![mtx[t]] = TRUE]
  /\ Goto(t, "lock_done")
  /\ UNCHANGED <<sched, events, timer_running, enabled, resched, elapsed,
                 waiting, waiters, mtx, snap, holds>>

\* Take a free lock; when it is taken, task_wait_event_mask(MUTEX, 0)
lock_try(t) ==
  /\ At(t, "lock_try")
  /\ IF lock[mtx[t]]
     THEN /\ EnterWait(t, "lock", FALSE, {"MUTEX", "TIMER"})
          /\ UNCHANGED lock
     ELSE /\ lock' = [lock EXCEPT ![mtx[t]] = TRUE]
          /\ Goto(t, "lock_done")
          /\ UNCHANGED waiting
  /\ UNCHANGED <<sched, events, timer_running, enabled, resched, elapsed,
                 waiters, mtx, snap, holds>>

\* atomic_clear(&mtx->waiters, id), and return to the client
lock_done(t) ==
  /\ At(t, "lock_done")
  /\ waiters' = [waiters EXCEPT ![mtx[t]] = @ \ {t}]
  /\ holds' = [holds EXCEPT ![t] = @ \cup {mtx[t]}]
  /\ mtx' = [mtx EXCEPT ![t] = NoMutex]
  /\ Goto(t, "run")
  /\ UNCHANGED <<sched, events, timer_running, enabled, resched, elapsed,
                 waiting, lock, snap>>

\* mutex_unlock(): the client leaves its critical section; ldr waiters
mutex_unlock(t) ==
  /\ At(t, "run")
  /\ \E m \in holds[t] :
       /\ holds' = [holds EXCEPT ![t] = @ \ {m}]
       /\ mtx' = [mtx EXCEPT ![t] = m]
       /\ snap' = [snap EXCEPT ![t] = waiters[m]]
  /\ Goto(t, "unlock_store")
  /\ UNCHANGED <<sched, events, timer_running, enabled, resched, elapsed,
                 waiting, lock, waiters>>

\* str 0 to the lock field
unlock_store(t) ==
  /\ At(t, "unlock_store")
  /\ lock' = [lock EXCEPT ![mtx[t]] = FALSE]
  /\ Goto(t, "unlock_next")
  /\ UNCHANGED <<sched, events, timer_running, enabled, resched, elapsed,
                 waiting, waiters, mtx, snap, holds>>

\* Mutant: wakes only the highest waiter
unlock_next_first_only(t) ==
  /\ At(t, "unlock_next")
  /\ IF snap[t] = {}
     THEN /\ Goto(t, "unlock_clear")
          /\ UNCHANGED <<events, resched, snap>>
     ELSE \E id \in snap[t] :
            /\ \A u \in snap[t] : u <= id
            /\ events' = [events EXCEPT ![id] = @ \cup {"MUTEX"}]
            /\ resched' = [resched EXCEPT ![t] = id]
            /\ snap' = [snap EXCEPT ![t] = {}]
            /\ Goto(t, "unlock_resched")
  /\ UNCHANGED <<sched, timer_running, enabled, elapsed, waiting, lock,
                 waiters, mtx, holds>>

\* Set MUTEX for the highest task of the snapshot, until none is left
unlock_next(t) ==
  /\ At(t, "unlock_next")
  /\ IF snap[t] = {}
     THEN /\ Goto(t, "unlock_clear")
          /\ UNCHANGED <<events, resched, snap>>
     ELSE \E id \in snap[t] :
            /\ \A u \in snap[t] : u <= id
            /\ events' = [events EXCEPT ![id] = @ \cup {"MUTEX"}]
            /\ resched' = [resched EXCEPT ![t] = id]
            /\ snap' = [snap EXCEPT ![t] = @ \ {id}]
            /\ Goto(t, "unlock_resched")
  /\ UNCHANGED <<sched, timer_running, enabled, elapsed, waiting, lock,
                 waiters, mtx, holds>>

unlock_resched(t) ==
  /\ At(t, "unlock_resched")
  /\ svc_handler(FALSE, resched[t])
  /\ resched' = [resched EXCEPT ![t] = IDLE]
  /\ Goto(t, "unlock_next")
  /\ UNCHANGED <<start_called, events, timer_running, enabled, elapsed,
                 mutex, waiting>>

\* atomic_clear(&tsk->events, TASK_EVENT_MUTEX)
unlock_clear(t) ==
  /\ At(t, "unlock_clear")
  /\ events' = [events EXCEPT ![t] = @ \ {"MUTEX"}]
  /\ mtx' = [mtx EXCEPT ![t] = NoMutex]
  /\ Goto(t, "run")
  /\ UNCHANGED <<sched, timer_running, enabled, resched, elapsed, waiting,
                 lock, waiters, snap, holds>>

-----------------------------------------------------------------------------
TaskStep(t) ==
  \/ task_enable_all_tasks(t) \/ enable_resched(t)
  \/ CallWait(t) \/ wait_arm(t) \/ wait_read(t) \/ wait_desched(t)
  \/ wait_cancel(t) \/ wait_check(t) \/ wait_repost(t)
  \/ CallSetEvent(t) \/ set_resched(t)
  \/ mutex_lock(t) \/ lock_try(t) \/ lock_done(t)
  \/ mutex_unlock(t) \/ unlock_store(t) \/ unlock_next(t)
  \/ unlock_resched(t) \/ unlock_clear(t)

Next ==
  \/ task_start
  \/ DriverIrq \/ TimerIrq \/ ClockTick
  \/ \E t \in Tasks : TaskStep(t)

Spec == Init /\ [][Next]_vars

-----------------------------------------------------------------------------
\* Every variable has its type.
TypeOK ==
  /\ start_called \in BOOLEAN
  /\ current_task \in Tasks \cup {SCRATCH}
  /\ tasks_ready \subseteq Tasks
  /\ events \in [Tasks -> SUBSET Events]
  /\ timer_running \subseteq Tasks
  /\ lock \in [Mutexes -> BOOLEAN]
  /\ waiters \in [Mutexes -> SUBSET Tasks]
  /\ enabled \in BOOLEAN
  /\ pc \in [Tasks -> Labels]
  /\ call \in [Tasks -> {"none", "wait", "mask", "usleep", "lock"}]
  /\ timed \in [Tasks -> BOOLEAN]
  /\ want \in [Tasks -> SUBSET Events]
  /\ got \in [Tasks -> SUBSET Events]
  /\ resched \in [Tasks -> Tasks]
  /\ mtx \in [Tasks -> Mutexes \cup {NoMutex}]
  /\ snap \in [Tasks -> SUBSET Tasks]
  /\ holds \in [Tasks -> SUBSET Mutexes]
  /\ elapsed \in [Tasks -> BOOLEAN]

-----------------------------------------------------------------------------
(* Scheduling and events *)

\* An event is never left unnoticed: its task is ready, or the task that set
\* it is ready and still has the rescheduling call to make, which names the
\* receiver.  (atomic_or(&receiver->events) and __schedule(0, tskid) of
\* task_set_event() are two steps, with interrupts and preemption between.)
PendingEventsKeepTaskReady ==
  \A t \in Tasks \ {IDLE} :
    events[t] # {} => \/ t \in tasks_ready
                      \/ \E u \in tasks_ready : resched[u] = t

\* A task of higher priority than the running one has no event pending,
\* unless its setter was preempted before rescheduling, or the hooks task is
\* about to reschedule after enabling all tasks.
UrgentTaskRuns ==
  \A t \in Tasks :
    /\ start_called
    /\ current_task < t
    /\ events[t] # {}
    => \/ pc[HOOKS] = "enable_resched"
       \/ \E u \in tasks_ready : u <= current_task /\ resched[u] = t

\* The ASSERT(ret == EC_SUCCESS) of __wait_evt(): a task never arms its timer
\* while an earlier wait's is still running.
TimerNotBusy ==
  \A t \in Tasks : pc[t] = "arm" => t \notin timer_running

\* A client's event leaves a task, pending or collected by a wait, only when
\* a wait that asked for it returns it to the client: mutex_lock(), usleep()
\* and the mask wait put back what they read for others.
OnlyAClientConsumesItsEvent ==
  [][\A t \in Tasks, e \in UserEvents :
       e \in events[t] \cup got[t] /\ e \notin events'[t] \cup got'[t]
       => e \in want[t] /\ call[t] \in {"wait", "mask"}]_vars

-----------------------------------------------------------------------------
(* Mutexes *)

Owns(t, m) ==
  \/ m \in holds[t]
  \/ mtx[t] = m /\ pc[t] \in {"lock_done", "unlock_store"}

\* Two tasks never own a mutex at once, from the store that takes it to the
\* one that frees it.
MutualExclusion ==
  \A m \in Mutexes : \A t, u \in Tasks : Owns(t, m) /\ Owns(u, m) => t = u

\* t waits for a mutex that is free, no wake-up is pending for it, and no
\* unlocker has it in the waiters it still has to wake
Stranded(t) ==
  /\ call[t] = "lock"
  /\ pc[t] \in {"read", "desched"}
  /\ "MUTEX" \notin events[t]
  /\ ~lock[mtx[t]]
  /\ \A u \in Tasks : t \in snap[u] => mtx[u] # mtx[t]

\* The mutex wake-up always reaches the lowest client task: nothing it does
\* can come between the two instructions of mutex_unlock() of another.
LowestWaiterIsWoken ==
  \A t \in Tasks : (\A u \in Tasks : u < t => u = IDLE) => ~Stranded(t)

\* The same of every task (include/task.h: mutex_lock() "de-schedules the
\* current task until the mutex is again unlocked").
EveryWaiterIsWoken ==
  \A t \in Tasks : ~Stranded(t)
=============================================================================
