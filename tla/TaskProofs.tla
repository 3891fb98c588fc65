---------------------------- MODULE TaskProofs ----------------------------
(* Theorems about the scheduler, the events and the mutexes of Task. *)
EXTENDS Task, TLAPS

\* The two tasks the code names are tasks.
LEMMA NamedTasks == IDLE \in Tasks /\ HOOKS \in Tasks
BY TaskAssumption DEF Tasks, IDLE

\* Task identifiers are natural numbers, so none is the scratchpad.
LEMMA TasksNat == \A t \in Tasks : t \in Nat /\ t # SCRATCH /\ t <= t
BY TaskAssumption DEF Tasks, SCRATCH

USE NamedTasks

(***************************************************************************)
(* Types                                                                   *)
(***************************************************************************)

\* A task inside the mutex code knows its mutex; it waits for it untimed.
StackOK ==
  \A t \in Tasks :
    /\ call[t] = "lock" => /\ pc[t] \in {"read", "desched", "check", "repost"}
                           /\ ~timed[t]
                           /\ want[t] = {"MUTEX", "TIMER"}
    /\ \/ call[t] = "lock"
       \/ pc[t] \in {"lock_try", "lock_done", "unlock_store"}
       => mtx[t] \in Mutexes

\* What an interrupt does to the scheduler keeps the types.
LEMMA FromIrqType ==
  ASSUME TypeOK, NEW targets \in SUBSET Tasks, NEW e \in Events,
         FromIrq(targets, e)
  PROVE  /\ events' \in [Tasks -> SUBSET Events]
         /\ tasks_ready' \subseteq Tasks
         /\ current_task' \in Tasks \cup {SCRATCH}
BY DEF TypeOK, FromIrq, Reschedule

\* So does what entering a wait does to the task's stack.
LEMMA EnterWaitType ==
  ASSUME TypeOK, NEW t \in Tasks,
         NEW c \in {"wait", "mask", "usleep", "lock"},
         NEW timeout \in BOOLEAN, NEW mask \in SUBSET Events,
         EnterWait(t, c, timeout, mask)
  PROVE  /\ call' \in [Tasks -> {"none", "wait", "mask", "usleep", "lock"}]
         /\ timed' \in [Tasks -> BOOLEAN]
         /\ want' \in [Tasks -> SUBSET Events]
         /\ got' \in [Tasks -> SUBSET Events]
         /\ pc' \in [Tasks -> Labels]
BY DEF TypeOK, EnterWait, Goto, Labels

\* The initial state has the declared types.
LEMMA InitType == Init => TypeOK
<1> SUFFICES ASSUME Init PROVE TypeOK
  OBVIOUS
<1>1. /\ start_called \in BOOLEAN /\ enabled \in BOOLEAN
      /\ current_task \in Tasks \cup {SCRATCH}
      /\ tasks_ready \subseteq Tasks /\ timer_running \subseteq Tasks
  BY DEF Init
<1>2. /\ events \in [Tasks -> SUBSET Events]
      /\ want \in [Tasks -> SUBSET Events]
      /\ got \in [Tasks -> SUBSET Events]
      /\ snap \in [Tasks -> SUBSET Tasks]
      /\ holds \in [Tasks -> SUBSET Mutexes]
  BY DEF Init
<1>3. /\ lock \in [Mutexes -> BOOLEAN]
      /\ waiters \in [Mutexes -> SUBSET Tasks]
      /\ timed \in [Tasks -> BOOLEAN] /\ elapsed \in [Tasks -> BOOLEAN]
  BY DEF Init
<1>4. /\ pc \in [Tasks -> Labels]
      /\ call \in [Tasks -> {"none", "wait", "mask", "usleep", "lock"}]
      /\ resched \in [Tasks -> Tasks]
      /\ mtx \in [Tasks -> Mutexes \cup {NoMutex}]
  BY DEF Init, Labels
<1> QED
  BY <1>1, <1>2, <1>3, <1>4 DEF TypeOK

\* Every step keeps the types.
LEMMA NextType == TypeOK /\ StackOK /\ [Next]_vars => TypeOK'
<1> SUFFICES ASSUME TypeOK, StackOK, [Next]_vars PROVE TypeOK'
  OBVIOUS
<1> USE DEF sched, mutex, waiting, Goto, At
<1>1. CASE task_start
  BY <1>1 DEF TypeOK, task_start, Reschedule
<1>2. CASE DriverIrq
  <2>1. PICK t \in Tasks \ {IDLE}, e \in UserEvents : FromIrq({t}, e)
    BY <1>2 DEF DriverIrq
  <2>2. e \in Events /\ {t} \in SUBSET Tasks
    BY DEF Events
  <2> QED
    BY <1>2, <2>1, <2>2, FromIrqType DEF TypeOK, DriverIrq
<1>3. CASE TimerIrq
  <2>1. PICK due \in SUBSET timer_running \ {{}} :
          /\ timer_running' = timer_running \ due
          /\ FromIrq(due, "TIMER")
          /\ elapsed' = [t \in Tasks |->
                           elapsed[t] \/ (t \in due /\ call[t] = "usleep")]
          /\ UNCHANGED <<start_called, enabled, pc, resched, mutex, waiting>>
    BY <1>3 DEF TimerIrq
  <2>2. "TIMER" \in Events /\ due \in SUBSET Tasks
    BY DEF Events, TypeOK
  <2> HIDE DEF mutex, waiting
  <2>3. /\ events' \in [Tasks -> SUBSET Events]
        /\ tasks_ready' \subseteq Tasks
        /\ current_task' \in Tasks \cup {SCRATCH}
    BY <2>1, <2>2, FromIrqType
  <2>4. \A t \in Tasks :
          (elapsed[t] \/ (t \in due /\ call[t] = "usleep")) \in BOOLEAN
    OBVIOUS
  <2>5. elapsed' \in [Tasks -> BOOLEAN]
    BY <2>1, <2>4, Zenon
  <2> QED
    BY <2>1, <2>3, <2>5 DEF TypeOK, mutex, waiting
<1>4. CASE ClockTick
  BY <1>4 DEF TypeOK, ClockTick
<1>5. ASSUME NEW t \in Tasks, task_enable_all_tasks(t) PROVE TypeOK'
  BY <1>5 DEF TypeOK, task_enable_all_tasks, Labels
<1>6. ASSUME NEW t \in Tasks, CallWait(t) PROVE TypeOK'
  <2> HIDE DEF Goto
  <2>1. \E c \in {"wait", "mask", "usleep"}, timeout \in BOOLEAN,
           mask \in SUBSET Events : EnterWait(t, c, timeout, mask)
    BY <1>6 DEF CallWait, Events
  <2> QED
    BY <1>6, <2>1, EnterWaitType DEF TypeOK, CallWait
<1>7. ASSUME NEW t \in Tasks, wait_arm(t) \/ wait_read(t)
      PROVE  TypeOK'
  <2>1. CASE wait_arm(t)
    BY <2>1 DEF TypeOK, wait_arm, Labels
  <2>2. CASE wait_read(t)
    BY <2>2 DEF TypeOK, wait_read, Labels
  <2> QED
    BY <1>7, <2>1, <2>2
<1>8. ASSUME NEW t \in Tasks, wait_desched(t) \/ set_resched(t)
      PROVE  TypeOK'
  <2>1. CASE wait_desched(t)
    BY <2>1 DEF TypeOK, wait_desched, svc_handler, Reschedule, Labels
  <2>2. CASE set_resched(t)
    BY <2>2 DEF TypeOK, set_resched, svc_handler, Reschedule, Labels
  <2> QED
    BY <1>8, <2>1, <2>2
<1>9. ASSUME NEW t \in Tasks, wait_cancel(t) \/ wait_check(t)
      PROVE  TypeOK'
  <2>1. CASE wait_cancel(t)
    BY <2>1 DEF TypeOK, wait_cancel, Labels
  <2>2. CASE wait_check(t)
    <3>1. /\ \E label \in {"repost", "arm", "read"} : Goto(t, label)
          /\ \/ got' = [got EXCEPT ![t] = @ \cup {"TIMER"}]
             \/ UNCHANGED got
      BY <2>2 DEF wait_check
    <3> QED
      BY <2>2, <3>1 DEF TypeOK, wait_check, Labels, Events
  <2> QED
    BY <1>9, <2>1, <2>2
<1>10. ASSUME NEW t \in Tasks, wait_repost(t) PROVE TypeOK'
  BY <1>10 DEF TypeOK, wait_repost, Labels
<1>11. ASSUME NEW t \in Tasks, CallSetEvent(t) PROVE TypeOK'
  <2> HIDE DEF Goto
  <2>1. PICK u \in Tasks \ {IDLE}, e \in UserEvents :
          /\ events' = [events EXCEPT ![u] = @ \cup {e}]
          /\ resched' = [resched EXCEPT ![t] = u]
          /\ \/ Goto(t, "set_resched") /\ UNCHANGED waiting
             \/ EnterWait(t, "wait", FALSE, Events)
    BY <1>11 DEF CallSetEvent
  <2>2. e \in Events
    BY DEF Events
  <2>3. /\ events' \in [Tasks -> SUBSET Events]
        /\ resched' \in [Tasks -> Tasks]
    BY <2>1, <2>2 DEF TypeOK
  <2>4. CASE Goto(t, "set_resched") /\ UNCHANGED waiting
    BY <1>11, <2>3, <2>4 DEF TypeOK, CallSetEvent, Goto, Labels
  <2>5. CASE EnterWait(t, "wait", FALSE, Events)
    BY <1>11, <2>3, <2>5, EnterWaitType DEF TypeOK, CallSetEvent
  <2> QED
    BY <2>1, <2>4, <2>5
<1>12. ASSUME NEW t \in Tasks, mutex_lock(t) PROVE TypeOK'
  BY <1>12 DEF TypeOK, mutex_lock, Labels
<1>13. ASSUME NEW t \in Tasks, lock_try(t) PROVE TypeOK'
  <2>1. {"MUTEX", "TIMER"} \in SUBSET Events
    BY DEF Events
  <2>2. CASE lock[mtx[t]]
    BY <1>13, <2>1, <2>2, EnterWaitType DEF TypeOK, lock_try
  <2>3. CASE ~lock[mtx[t]]
    BY <1>13, <2>3 DEF TypeOK, lock_try, Labels
  <2> QED
    BY <2>2, <2>3
<1>14. ASSUME NEW t \in Tasks, lock_done(t) PROVE TypeOK'
  BY <1>14 DEF TypeOK, StackOK, lock_done, Labels
<1>15. ASSUME NEW t \in Tasks, mutex_unlock(t) \/ unlock_store(t)
       PROVE  TypeOK'
  <2>1. CASE mutex_unlock(t)
    BY <2>1 DEF TypeOK, mutex_unlock, Labels
  <2>2. CASE unlock_store(t)
    BY <2>2 DEF TypeOK, unlock_store, Labels
  <2> QED
    BY <1>15, <2>1, <2>2
<1>16. ASSUME NEW t \in Tasks, unlock_next(t) PROVE TypeOK'
  <2>1. CASE snap[t] = {}
    BY <1>16, <2>1 DEF TypeOK, unlock_next, Labels
  <2>2. ASSUME NEW id \in snap[t],
               /\ events' = [events EXCEPT ![id] = @ \cup {"MUTEX"}]
               /\ resched' = [resched EXCEPT ![t] = id]
               /\ snap' = [snap EXCEPT ![t] = @ \ {id}]
               /\ Goto(t, "unlock_resched")
        PROVE  TypeOK'
    BY <1>16, <2>2 DEF TypeOK, unlock_next, Labels, Events
  <2> QED
    BY <1>16, <2>1, <2>2 DEF unlock_next
<1>17. ASSUME NEW t \in Tasks,
              enable_resched(t) \/ unlock_resched(t) \/ unlock_clear(t)
       PROVE  TypeOK'
  <2>1. CASE enable_resched(t)
    BY <2>1 DEF TypeOK, enable_resched, svc_handler, Reschedule, Labels
  <2>2. CASE unlock_resched(t)
    BY <2>2 DEF TypeOK, unlock_resched, svc_handler, Reschedule, Labels
  <2>3. CASE unlock_clear(t)
    BY <2>3 DEF TypeOK, unlock_clear, Labels
  <2> QED
    BY <1>17, <2>1, <2>2, <2>3
<1>18. CASE UNCHANGED vars
  BY <1>18 DEF TypeOK, vars
<1> QED
  BY <1>1, <1>2, <1>3, <1>4, <1>5, <1>6, <1>7, <1>8, <1>9, <1>10, <1>11,
     <1>12, <1>13, <1>14, <1>15, <1>16, <1>17, <1>18
  DEF Next, TaskStep

\* A task's step leaves the stacks of the other tasks alone.
LEMMA OtherStacks ==
  ASSUME TypeOK, NEW t \in Tasks, NEW u \in Tasks, u # t, TaskStep(t)
  PROVE  /\ pc'[u] = pc[u] /\ call'[u] = call[u] /\ timed'[u] = timed[u]
         /\ want'[u] = want[u] /\ got'[u] = got[u]
         /\ resched'[u] = resched[u] /\ mtx'[u] = mtx[u]
         /\ snap'[u] = snap[u] /\ holds'[u] = holds[u]
<1> USE DEF TypeOK, mutex, waiting, Goto
<1>1. CASE task_enable_all_tasks(t) \/ enable_resched(t) \/ wait_arm(t)
  BY <1>1 DEF task_enable_all_tasks, enable_resched, wait_arm
<1>9. CASE wait_desched(t) \/ wait_cancel(t) \/ set_resched(t)
  BY <1>9 DEF wait_desched, wait_cancel, set_resched
<1>10. CASE unlock_resched(t)
  BY <1>10 DEF unlock_resched
<1>11. CASE unlock_clear(t) \/ unlock_store(t)
  BY <1>11 DEF unlock_clear, unlock_store
<1>2. CASE CallWait(t)
  BY <1>2 DEF CallWait, EnterWait
<1>3. CASE wait_read(t) \/ wait_check(t)
  BY <1>3 DEF wait_read, wait_check
<1>4. CASE wait_repost(t)
  BY <1>4 DEF wait_repost
<1>5. CASE CallSetEvent(t)
  BY <1>5 DEF CallSetEvent, EnterWait
<1>6. CASE mutex_lock(t) \/ mutex_unlock(t) \/ lock_done(t)
  BY <1>6 DEF mutex_lock, mutex_unlock, lock_done
<1>7. CASE lock_try(t)
  BY <1>7 DEF lock_try, EnterWait
<1>8. CASE unlock_next(t)
  BY <1>8 DEF unlock_next
<1> QED
  BY <1>1, <1>2, <1>3, <1>4, <1>5, <1>6, <1>7, <1>8, <1>9, <1>10,
     <1>11 DEF TaskStep

\* Entering and leaving the mutex code keeps the stack consistent.
LEMMA NextStack == TypeOK /\ StackOK /\ [Next]_vars => StackOK'
<1> SUFFICES ASSUME TypeOK, StackOK, [Next]_vars PROVE StackOK'
  OBVIOUS
<1> USE DEF sched, mutex, waiting, Goto, At
<1>1. CASE task_start \/ DriverIrq \/ TimerIrq \/ ClockTick
  BY <1>1 DEF StackOK, task_start, DriverIrq, TimerIrq, ClockTick
<1>2. ASSUME NEW t \in Tasks, TaskStep(t) PROVE StackOK'
  <2> SUFFICES ASSUME NEW u \in Tasks
               PROVE  /\ call'[u] = "lock" =>
                          /\ pc'[u] \in {"read", "desched", "check", "repost"}
                          /\ ~timed'[u]
                          /\ want'[u] = {"MUTEX", "TIMER"}
                      /\ \/ call'[u] = "lock"
                         \/ pc'[u] \in {"lock_try", "lock_done",
                                        "unlock_store"}
                         => mtx'[u] \in Mutexes
    BY DEF StackOK
  <2> USE DEF StackOK, TypeOK
  <2>1. CASE u # t
    BY <1>2, <2>1, OtherStacks
  <2> SUFFICES ASSUME u = t
               PROVE  /\ call'[t] = "lock" =>
                          /\ pc'[t] \in {"read", "desched", "check", "repost"}
                          /\ ~timed'[t]
                          /\ want'[t] = {"MUTEX", "TIMER"}
                      /\ \/ call'[t] = "lock"
                         \/ pc'[t] \in {"lock_try", "lock_done",
                                        "unlock_store"}
                         => mtx'[t] \in Mutexes
    BY <2>1
  <2>2. CASE \/ task_enable_all_tasks(t) \/ enable_resched(t)
             \/ wait_arm(t) \/ set_resched(t)
             \/ wait_cancel(t) \/ unlock_resched(t) \/ unlock_clear(t)
    <3>1. /\ call'[t] = call[t] /\ call[t] # "lock"
          /\ pc'[t] \in {"enable_resched", "run", "read", "check",
                        "unlock_next"}
      <4>1. CASE task_enable_all_tasks(t) \/ enable_resched(t)
        BY <4>1 DEF task_enable_all_tasks, enable_resched
      <4>4. CASE wait_arm(t)
        BY <4>4 DEF wait_arm
      <4>2. CASE set_resched(t) \/ wait_cancel(t)
        BY <4>2 DEF set_resched, wait_cancel
      <4>3. CASE unlock_resched(t)
        BY <4>3 DEF unlock_resched
      <4>5. CASE unlock_clear(t)
        BY <4>5 DEF unlock_clear
      <4> QED
        BY <2>2, <4>1, <4>2, <4>3, <4>4, <4>5
    <3> QED
      BY <3>1
  <2>3. CASE CallWait(t)
    BY <2>3 DEF CallWait, EnterWait
  <2>4. CASE wait_read(t)
    <3>1. CASE events[t] = {}
      BY <2>4, <3>1 DEF wait_read
    <3>2. CASE events[t] # {}
      BY <2>4, <3>2 DEF wait_read
    <3> QED
      BY <3>1, <3>2
  <2>5. CASE wait_check(t)
    <3>1. /\ pc'[t] \in {"repost", "arm", "read"}
          /\ timed[t] \/ pc'[t] # "arm"
      BY <2>5 DEF wait_check
    <3> QED
      BY <2>5, <3>1 DEF wait_check
  <2>10. CASE wait_desched(t)
    BY <2>10 DEF wait_desched
  <2>11. CASE wait_repost(t)
    BY <2>11 DEF wait_repost
  <2>6. CASE CallSetEvent(t)
    BY <2>6 DEF CallSetEvent, EnterWait
  <2>7. CASE mutex_lock(t)
    <3>1. pc'[t] = "lock_try" /\ mtx'[t] \in Mutexes
      BY <2>7 DEF mutex_lock
    <3> QED
      BY <2>7, <3>1 DEF mutex_lock
  <2>12. CASE mutex_unlock(t)
    <3>1. pc'[t] = "unlock_store" /\ mtx'[t] \in Mutexes
      BY <2>12 DEF mutex_unlock
    <3> QED
      BY <2>12, <3>1 DEF mutex_unlock
  <2>8. CASE lock_try(t)
    <3>1. mtx[t] \in Mutexes /\ mtx'[t] = mtx[t]
      BY <2>8 DEF lock_try
    <3>2. CASE EnterWait(t, "lock", FALSE, {"MUTEX", "TIMER"})
      BY <3>1, <3>2 DEF EnterWait
    <3>3. CASE Goto(t, "lock_done") /\ UNCHANGED waiting
      BY <2>8, <3>1, <3>3 DEF lock_try
    <3> QED
      BY <2>8, <3>2, <3>3 DEF lock_try
  <2>9. CASE lock_done(t) \/ unlock_store(t) \/ unlock_next(t)
    BY <2>9 DEF lock_done, unlock_store, unlock_next
  <2> QED
    BY <1>2, <2>2, <2>3, <2>4, <2>5, <2>6, <2>7, <2>8, <2>9, <2>10,
       <2>11, <2>12
    DEF TaskStep
<1>3. CASE UNCHANGED vars
  BY <1>3 DEF StackOK, vars
<1> QED
  BY <1>1, <1>2, <1>3 DEF Next

\* Every reachable state has the declared types.
THEOREM TypeCorrect == Spec => []TypeOK
<1>1. Init => StackOK
  BY DEF Init, StackOK
<1> QED
  BY <1>1, InitType, NextType, NextStack, PTL DEF Spec

(***************************************************************************)
(* Scheduling                                                              *)
(***************************************************************************)

\* Before task_start() no task has run.  Afterwards the running task is
\* ready, a task that is anywhere but at the start of a call or blocked in
\* its wait is ready and has no higher priority than the running one, and no
\* ready task has, until the hooks task enables all of them.
ReadyInv ==
  /\ start_called => current_task \in tasks_ready
  /\ ~start_called => /\ current_task = SCRATCH
                      /\ \A t \in Tasks : pc[t] = "run"
  /\ \A t \in Tasks : pc[t] \notin {"run", "read"} =>
                       t \in tasks_ready /\ t <= current_task
  /\ start_called /\ pc[HOOKS] # "enable_resched" =>
        \A t \in tasks_ready : t <= current_task

\* A task's step leaves the scheduler alone, enables all tasks, or makes the
\* scheduling call, which deschedules only at the label "desched".
LEMMA StepKind ==
  ASSUME TypeOK, NEW t \in Tasks, TaskStep(t)
  PROVE  /\ current_task = t
         /\ UNCHANGED start_called
         /\ \/ UNCHANGED sched /\ pc'[t] # "enable_resched"
               /\ pc[t] # "enable_resched"
            \/ /\ t = HOOKS /\ pc'[t] = "enable_resched"
               /\ tasks_ready' = Tasks
               /\ UNCHANGED current_task
            \/ /\ \E id \in Tasks : svc_handler(FALSE, id)
               /\ pc'[t] # "enable_resched"
            \/ /\ pc[t] = "desched" /\ pc'[t] = "read"
               /\ svc_handler(TRUE, resched[t])
<1> USE DEF TypeOK, sched, Goto, At
<1>1. CASE task_enable_all_tasks(t) \/ enable_resched(t)
  BY <1>1 DEF task_enable_all_tasks, enable_resched
<1>2. CASE CallWait(t)
  BY <1>2 DEF CallWait, EnterWait
<1>3. CASE wait_arm(t) \/ wait_cancel(t) \/ unlock_clear(t)
           \/ unlock_store(t)
  BY <1>3 DEF wait_arm, wait_cancel, unlock_clear, unlock_store
<1>4. CASE wait_read(t) \/ wait_check(t)
  <2>1. \E label \in {"desched", "cancel", "check", "repost", "arm", "read"} :
           Goto(t, label)
    BY <1>4 DEF wait_read, wait_check
  <2>2. UNCHANGED sched /\ current_task = t /\ pc[t] # "enable_resched"
    BY <1>4 DEF wait_read, wait_check
  <2> QED
    BY <2>1, <2>2
<1>5. CASE wait_repost(t)
  BY <1>5 DEF wait_repost
<1>6. CASE wait_desched(t) \/ set_resched(t) \/ unlock_resched(t)
  BY <1>6 DEF wait_desched, set_resched, unlock_resched
<1>7. CASE CallSetEvent(t)
  <2>1. Goto(t, "set_resched") \/ Goto(t, "read")
    BY <1>7 DEF CallSetEvent, EnterWait
  <2> QED
    BY <1>7, <2>1 DEF CallSetEvent
<1>8. CASE mutex_lock(t) \/ mutex_unlock(t) \/ lock_done(t)
  BY <1>8 DEF mutex_lock, mutex_unlock, lock_done
<1>9. CASE lock_try(t)
  BY <1>9 DEF lock_try, EnterWait
<1>10. CASE unlock_next(t)
  BY <1>10 DEF unlock_next
<1> QED
  BY <1>1, <1>2, <1>3, <1>4, <1>5, <1>6, <1>7, <1>8, <1>9, <1>10
  DEF TaskStep

\* Rescheduling on a set that keeps every task that is in the middle of a
\* call keeps the scheduling invariant.
LEMMA RescheduleReady ==
  ASSUME TypeOK, TypeOK', NEW ready \in SUBSET Tasks, Reschedule(ready),
         start_called',
         \A t \in Tasks : pc'[t] \notin {"run", "read"} => t \in ready
  PROVE  ReadyInv'
<1>1. current_task' \in ready /\ tasks_ready' = ready
  BY DEF Reschedule
<1>2. \A t \in ready : t <= current_task'
  BY DEF Reschedule
<1> QED
  BY <1>1, <1>2 DEF ReadyInv

\* Every step keeps the scheduling invariant.
LEMMA NextReady ==
  TypeOK /\ TypeOK' /\ ReadyInv /\ [Next]_vars => ReadyInv'
<1> SUFFICES ASSUME TypeOK, TypeOK', ReadyInv, [Next]_vars PROVE ReadyInv'
  OBVIOUS
<1>1. CASE task_start
  <2>1. tasks_ready \cup {IDLE} \in SUBSET Tasks
    BY DEF TypeOK
  <2> QED
    BY <1>1, <2>1, RescheduleReady DEF task_start, ReadyInv
<1>2. ASSUME NEW targets \in SUBSET Tasks, NEW e \in Events,
             FromIrq(targets, e), UNCHANGED <<start_called, pc>>
      PROVE  ReadyInv'
  <2>1. CASE start_called
    <3>1. tasks_ready \cup targets \cup {IDLE} \in SUBSET Tasks
      BY DEF TypeOK
    <3> QED
      BY <1>2, <2>1, <3>1, RescheduleReady DEF FromIrq, ReadyInv
  <2>2. CASE ~start_called
    BY <1>2, <2>2 DEF FromIrq, ReadyInv, TypeOK
  <2> QED
    BY <2>1, <2>2 DEF TypeOK
<1>3. CASE DriverIrq
  BY <1>2, <1>3 DEF DriverIrq, Events
<1>4. CASE TimerIrq
  BY <1>2, <1>4 DEF TimerIrq, Events, TypeOK
<1>5. CASE ClockTick \/ UNCHANGED vars
  BY <1>5 DEF ClockTick, vars, ReadyInv
<1>6. ASSUME NEW t \in Tasks, TaskStep(t) PROVE ReadyInv'
  <2>1. /\ current_task = t /\ UNCHANGED start_called
        /\ \A u \in Tasks : u # t => pc'[u] = pc[u]
    BY <1>6, StepKind, OtherStacks
  <2>2. start_called /\ t \in tasks_ready /\ t <= t
    BY <2>1, TasksNat DEF ReadyInv, TypeOK
  <2>3. CASE UNCHANGED sched /\ pc'[t] # "enable_resched"
             /\ pc[t] # "enable_resched"
    <3>1. pc[HOOKS] = "enable_resched" <=> pc'[HOOKS] = "enable_resched"
      BY <2>1, <2>3
    <3> QED
      BY <2>1, <2>2, <2>3, <3>1 DEF ReadyInv, sched
  <2>4. CASE /\ t = HOOKS /\ pc'[t] = "enable_resched"
             /\ tasks_ready' = Tasks
             /\ UNCHANGED current_task
    BY <2>1, <2>2, <2>4 DEF ReadyInv, TypeOK
  <2>5. ASSUME NEW id \in Tasks, svc_handler(FALSE, id) PROVE ReadyInv'
    <3>1. tasks_ready \cup {id} \in SUBSET Tasks
      BY DEF TypeOK
    <3>2. Reschedule(tasks_ready \cup {id})
      BY <2>5 DEF svc_handler
    <3>3. \A u \in Tasks : pc'[u] \notin {"run", "read"} =>
                            u \in tasks_ready \cup {id}
      BY <2>1, <2>2 DEF ReadyInv
    <3> QED
      BY <2>1, <2>2, <3>1, <3>2, <3>3, RescheduleReady
  <2>6. CASE /\ pc[t] = "desched" /\ pc'[t] = "read"
             /\ svc_handler(TRUE, resched[t])
    <3> DEFINE kept == IF events[t] = {} THEN tasks_ready \ {t}
                                         ELSE tasks_ready
               ready == kept \cup {resched[t]}
    <3>1. Reschedule(ready) /\ ready \in SUBSET Tasks
      BY <2>1, <2>6 DEF svc_handler, TypeOK
    <3>2. \A u \in Tasks : pc'[u] \notin {"run", "read"} => u \in ready
      BY <2>1, <2>6 DEF ReadyInv
    <3> QED
      BY <2>1, <2>2, <3>1, <3>2, RescheduleReady
  <2> QED
    BY <1>6, <2>3, <2>4, <2>5, <2>6, StepKind
<1> QED
  BY <1>1, <1>3, <1>4, <1>5, <1>6 DEF Next

LEMMA InitReady == Init => ReadyInv
BY DEF Init, ReadyInv

(***************************************************************************)
(* Events                                                                  *)
(***************************************************************************)

\* Without task_set_event(..., wait = 1), a receiver still to be rescheduled
\* is remembered only between setting its event and the scheduling call.
SetterInv ==
  \A u \in Tasks : resched[u] # IDLE => pc[u] \in {"set_resched",
                                                   "unlock_resched"}

EventInv == SetterInv /\ PendingEventsKeepTaskReady

\* A step of t keeps the other ready tasks ready; t itself is descheduled
\* only with no event pending.
LEMMA ReadyKept ==
  ASSUME TypeOK, ReadyInv, NEW t \in Tasks, TaskStep(t)
  PROVE  /\ t \in tasks_ready
         /\ \A u \in tasks_ready : u = t \/ u \in tasks_ready'
         /\ (pc[t] = "desched" /\ events[t] = {}) \/ t \in tasks_ready'
<1>1. current_task = t /\ t \in tasks_ready
  BY StepKind, TasksNat DEF ReadyInv, TypeOK
<1>2. ASSUME UNCHANGED sched \/ tasks_ready' = Tasks
      PROVE  \A u \in tasks_ready : u \in tasks_ready'
  BY <1>2 DEF sched, TypeOK
<1>3. ASSUME NEW id \in Tasks, svc_handler(FALSE, id)
      PROVE  \A u \in tasks_ready : u \in tasks_ready'
  BY <1>3 DEF svc_handler, Reschedule
<1>4. ASSUME NEW id \in Tasks, svc_handler(TRUE, id), events[t] # {}
      PROVE  \A u \in tasks_ready : u \in tasks_ready'
  BY <1>1, <1>4 DEF svc_handler, Reschedule
<1>5. ASSUME NEW id \in Tasks, svc_handler(TRUE, id), events[t] = {}
      PROVE  \A u \in tasks_ready : u = t \/ u \in tasks_ready'
  BY <1>1, <1>5 DEF svc_handler, Reschedule
<1>6. resched[t] \in Tasks
  BY DEF TypeOK
<1> QED
  BY <1>1, <1>2, <1>3, <1>4, <1>5, <1>6, StepKind

\* Every step keeps a pending event noticed.
LEMMA NextEvent ==
  ASSUME "set_wait" \notin Calls
  PROVE  TypeOK /\ ReadyInv /\ EventInv /\ [Next]_vars => EventInv'
<1> SUFFICES ASSUME TypeOK, ReadyInv, EventInv, [Next]_vars PROVE EventInv'
  OBVIOUS
<1>1. CASE task_start
  <2>1. tasks_ready \subseteq tasks_ready'
    BY <1>1 DEF task_start, Reschedule
  <2> QED
    BY <1>1, <2>1 DEF task_start, EventInv, SetterInv,
                      PendingEventsKeepTaskReady
<1>2. ASSUME NEW targets \in SUBSET Tasks, NEW e \in Events,
             FromIrq(targets, e), UNCHANGED <<pc, resched>>
      PROVE  EventInv'
  <2>1. tasks_ready \cup targets \subseteq tasks_ready'
    BY <1>2 DEF FromIrq, Reschedule
  <2>2. \A t \in Tasks : t \in targets \/ events'[t] = events[t]
    BY <1>2 DEF FromIrq
  <2> QED
    BY <1>2, <2>1, <2>2 DEF EventInv, SetterInv, PendingEventsKeepTaskReady
<1>3. CASE DriverIrq
  BY <1>2, <1>3 DEF DriverIrq, Events
<1>4. CASE TimerIrq
  BY <1>2, <1>4 DEF TimerIrq, Events, TypeOK
<1>5. CASE ClockTick \/ UNCHANGED vars
  BY <1>5 DEF ClockTick, vars, EventInv, SetterInv,
              PendingEventsKeepTaskReady
<1>6. ASSUME NEW t \in Tasks, TaskStep(t) PROVE EventInv'
  <2> USE DEF TypeOK, Goto, At, sched, mutex, waiting
  <2>1. /\ t \in tasks_ready
        /\ \A u \in tasks_ready : u = t \/ u \in tasks_ready'
        /\ (pc[t] = "desched" /\ events[t] = {}) \/ t \in tasks_ready'
    BY <1>6, ReadyKept
  <2>2. \A u \in Tasks : u # t => pc'[u] = pc[u] /\ resched'[u] = resched[u]
    BY <1>6, OtherStacks
  \* It is enough that t itself remembers a receiver only at the two labels,
  \* and that an event it sets, or a receiver it forgets, is accounted for.
  <2>3. ASSUME resched'[t] # IDLE => pc'[t] \in {"set_resched",
                                                 "unlock_resched"},
               \A u \in Tasks \ {IDLE} :
                  \/ events'[u] = {}
                  \/ u \in tasks_ready'
                  \/ resched'[t] = u /\ t \in tasks_ready'
                  \/ events[u] # {} /\ resched[t] # u /\ u \notin tasks_ready
        PROVE  EventInv'
    <3>1. SetterInv'
      BY <2>2, <2>3 DEF EventInv, SetterInv
    <3>2. ASSUME NEW u \in Tasks \ {IDLE}, events'[u] # {}
          PROVE  \/ u \in tasks_ready'
                 \/ \E w \in tasks_ready' : resched'[w] = u
      <4>1. CASE events[u] # {} /\ resched[t] # u /\ u \notin tasks_ready
        <5>1. PICK w \in tasks_ready : resched[w] = u
          BY <4>1 DEF EventInv, PendingEventsKeepTaskReady
        <5>2. w # t /\ w \in Tasks
          BY <4>1, <5>1
        <5> QED
          BY <2>1, <2>2, <5>1, <5>2
      <4> QED
        BY <2>3, <3>2, <4>1
    <3> QED
      BY <3>1, <3>2 DEF EventInv, PendingEventsKeepTaskReady
  \* Steps that set no event and forget no receiver
  <2>4. ASSUME UNCHANGED resched,
               resched[t] # IDLE => pc'[t] = pc[t],
               \A u \in Tasks : u # t => events'[u] = events[u],
               pc[t] # "desched"
        PROVE  EventInv'
    <3>1. \A u \in Tasks : u = t \/ events'[u] = {} \/ events[u] # {}
      BY <2>4
    <3>2. t \in tasks_ready'
      BY <2>1, <2>4
    <3>3. resched'[t] # IDLE => pc'[t] \in {"set_resched", "unlock_resched"}
      BY <2>4 DEF EventInv, SetterInv
    <3> HIDE DEF TypeOK
    <3>4. ASSUME NEW u \in Tasks \ {IDLE}
          PROVE  \/ events'[u] = {}
                 \/ u \in tasks_ready'
                 \/ resched'[t] = u /\ t \in tasks_ready'
                 \/ events[u] # {} /\ resched[t] # u /\ u \notin tasks_ready
      BY <2>1, <2>4, <3>1, <3>2
    <3> QED
      BY <2>3, <3>3, <3>4
  <2>5. CASE \/ task_enable_all_tasks(t) \/ wait_arm(t) \/ wait_cancel(t)
             \/ unlock_clear(t) \/ unlock_store(t)
    BY <2>4, <2>5 DEF task_enable_all_tasks, wait_arm, wait_cancel,
                      unlock_clear, unlock_store, EventInv, SetterInv
  <2>6. CASE CallWait(t) \/ mutex_lock(t) \/ mutex_unlock(t) \/ lock_done(t)
    BY <2>4, <2>6 DEF CallWait, mutex_lock, mutex_unlock, lock_done,
                      EventInv, SetterInv
  <2>7. CASE lock_try(t)
    BY <2>4, <2>7 DEF lock_try, EventInv, SetterInv
  <2>8. CASE wait_check(t) \/ wait_repost(t)
    BY <2>4, <2>8 DEF wait_check, wait_repost, EventInv, SetterInv
  <2>9. CASE wait_read(t)
    <3>1. resched[t] = IDLE /\ resched'[t] = IDLE
      BY <2>9 DEF wait_read, EventInv, SetterInv
    <3>2. UNCHANGED resched
      BY <2>9, <3>1 DEF wait_read
    <3> QED
      BY <2>4, <2>9, <3>1, <3>2 DEF wait_read
  \* Steps that make the scheduling call with the receiver
  <2>10. ASSUME NEW d \in BOOLEAN, svc_handler(d, resched[t]),
                UNCHANGED events, resched'[t] = IDLE
         PROVE  EventInv'
    <3>1. resched[t] \in tasks_ready'
      BY <2>10 DEF svc_handler, Reschedule
    <3>2. \A u \in tasks_ready : events[u] # {} => u \in tasks_ready'
      BY <2>1
    <3> HIDE DEF TypeOK
    <3>3. ASSUME NEW u \in Tasks \ {IDLE}
          PROVE  \/ events'[u] = {}
                 \/ u \in tasks_ready'
                 \/ events[u] # {} /\ resched[t] # u /\ u \notin tasks_ready
      BY <2>10, <3>1, <3>2
    <3> QED
      BY <2>3, <2>10, <3>3
  <2>11. CASE wait_desched(t) \/ set_resched(t) \/ unlock_resched(t)
    BY <2>10, <2>11 DEF wait_desched, set_resched, unlock_resched
  <2>12. CASE enable_resched(t)
    <3>1. resched[t] = IDLE
      BY <2>12 DEF enable_resched, EventInv, SetterInv
    <3> QED
      BY <2>10, <2>12, <3>1 DEF enable_resched
  \* Steps that set an event for a receiver
  <2>13. ASSUME NEW r \in Tasks, pc[t] \in {"run", "unlock_next"},
                \A u \in Tasks : u # r => events'[u] = events[u],
                resched'[t] = r,
                pc'[t] \in {"set_resched", "unlock_resched"}
         PROVE  EventInv'
    <3>1. resched[t] = IDLE /\ t \in tasks_ready'
      BY <2>1, <2>13 DEF EventInv, SetterInv
    <3>2. \A u \in Tasks \ {IDLE} :
             \/ events'[u] = {}
             \/ u \in tasks_ready'
             \/ resched'[t] = u
             \/ events[u] # {} /\ u \notin tasks_ready
      BY <2>1, <2>13
    <3> QED
      BY <2>3, <2>13, <3>1, <3>2
  <2>14. CASE CallSetEvent(t)
    <3>1. PICK r \in Tasks \ {IDLE}, e \in UserEvents :
            /\ events' = [events EXCEPT ![r] = @ \cup {e}]
            /\ resched' = [resched EXCEPT ![t] = r]
            /\ Goto(t, "set_resched")
      BY <2>14 DEF CallSetEvent
    <3>2. pc[t] = "run" /\ pc'[t] = "set_resched"
      BY <2>14, <3>1 DEF CallSetEvent
    <3> QED
      BY <2>13, <3>1, <3>2
  <2>15. CASE unlock_next(t)
    BY <2>4, <2>13, <2>15 DEF unlock_next, EventInv, SetterInv
  <2> QED
    BY <1>6, <2>5, <2>6, <2>7, <2>8, <2>9, <2>11, <2>12, <2>14, <2>15
    DEF TaskStep
<1> QED
  BY <1>1, <1>3, <1>4, <1>5, <1>6 DEF Next

LEMMA InitEvent == Init => EventInv
BY DEF Init, EventInv, SetterInv, PendingEventsKeepTaskReady

\* With task_set_event() used as the firmware images use it, without waiting
\* for a response, no event is ever left unnoticed: whatever the number of
\* tasks, the interrupts and the preemptions between setting an event and
\* rescheduling.
THEOREM EventsNoticed ==
  ASSUME "set_wait" \notin Calls
  PROVE  Spec => []PendingEventsKeepTaskReady
<1>1. Init => TypeOK /\ StackOK /\ ReadyInv /\ EventInv
  BY InitType, InitReady, InitEvent DEF Init, StackOK
<1>2. TypeOK /\ StackOK /\ ReadyInv /\ EventInv /\ [Next]_vars
      => TypeOK' /\ StackOK' /\ ReadyInv' /\ EventInv'
  BY NextType, NextStack, NextReady, NextEvent
<1>3. EventInv => PendingEventsKeepTaskReady
  BY DEF EventInv
<1> QED
  BY <1>1, <1>2, <1>3, PTL DEF Spec

\* Under the same condition a task with an event pending is never kept
\* waiting by one of lower priority, except while its setter, itself kept
\* from the processor, has not rescheduled yet.
THEOREM UrgentFirst ==
  ASSUME "set_wait" \notin Calls
  PROVE  Spec => []UrgentTaskRuns
<1>1. Init => TypeOK /\ StackOK /\ ReadyInv /\ EventInv
  BY InitType, InitReady, InitEvent DEF Init, StackOK
<1>2. TypeOK /\ StackOK /\ ReadyInv /\ EventInv /\ [Next]_vars
      => TypeOK' /\ StackOK' /\ ReadyInv' /\ EventInv'
  BY NextType, NextStack, NextReady, NextEvent
<1>3. TypeOK /\ ReadyInv /\ EventInv => UrgentTaskRuns
  <2> SUFFICES ASSUME TypeOK, ReadyInv, EventInv, NEW t \in Tasks,
                      start_called, current_task < t, events[t] # {},
                      pc[HOOKS] # "enable_resched"
               PROVE  \E u \in tasks_ready :
                         u <= current_task /\ resched[u] = t
    BY DEF UrgentTaskRuns
  <2>1. /\ current_task \in tasks_ready
        /\ \A u \in tasks_ready : u <= current_task
    BY DEF ReadyInv
  <2>2. t # IDLE /\ t \notin tasks_ready
    BY <2>1, TasksNat DEF TypeOK, IDLE
  <2> QED
    BY <2>1, <2>2 DEF EventInv, PendingEventsKeepTaskReady
<1> QED
  BY <1>1, <1>2, <1>3, PTL DEF Spec

(***************************************************************************)
(* Mutexes                                                                 *)
(***************************************************************************)

\* The lock field is set exactly while some task owns the mutex, and a task
\* about to free a mutex no longer counts as its holder.
MutexInv ==
  /\ MutualExclusion
  /\ \A m \in Mutexes : lock[m] <=> \E t \in Tasks : Owns(t, m)
  /\ \A t \in Tasks : pc[t] = "unlock_store" => mtx[t] \notin holds[t]

\* Steps that concern no mutex
LEMMA NotMutex ==
  ASSUME TypeOK, MutexInv, UNCHANGED <<lock, mtx, holds>>,
         \A t \in Tasks : \/ pc'[t] = pc[t]
                          \/ /\ pc[t] \notin {"lock_done", "unlock_store"}
                             /\ pc'[t] \notin {"lock_done", "unlock_store"}
  PROVE  MutexInv'
BY DEF MutexInv, MutualExclusion, Owns

\* Every step keeps one owner.
LEMMA NextMutex ==
  TypeOK /\ StackOK /\ MutexInv /\ [Next]_vars => MutexInv'
<1> SUFFICES ASSUME TypeOK, StackOK, MutexInv, [Next]_vars PROVE MutexInv'
  OBVIOUS
<1>1. CASE task_start \/ DriverIrq \/ TimerIrq \/ ClockTick
           \/ UNCHANGED vars
  BY <1>1, NotMutex DEF task_start, DriverIrq, TimerIrq, ClockTick, vars, mutex
<1>2. ASSUME NEW t \in Tasks, TaskStep(t) PROVE MutexInv'
  <2> USE DEF Goto, At, mutex
  <2>1. \A u \in Tasks : u # t => /\ pc'[u] = pc[u] /\ mtx'[u] = mtx[u]
                                  /\ holds'[u] = holds[u]
    BY <1>2, OtherStacks
  \* A step of t outside lock_try ... unlock_store
  <2>2. ASSUME UNCHANGED <<lock, mtx, holds>>,
               pc[t] \notin {"lock_done", "unlock_store"},
               pc'[t] \notin {"lock_done", "unlock_store"}
        PROVE  MutexInv'
    BY <2>1, <2>2, NotMutex
  <2>3. CASE task_enable_all_tasks(t) \/ enable_resched(t) \/ wait_arm(t)
             \/ wait_desched(t) \/ wait_cancel(t) \/ set_resched(t)
             \/ unlock_resched(t)
    BY <2>2, <2>3
    DEF task_enable_all_tasks, enable_resched, wait_arm, wait_desched,
        wait_cancel, set_resched, unlock_resched, TypeOK
  <2>4. CASE CallWait(t)
    <3>1. pc'[t] \in {"arm", "read"}
      BY <2>4 DEF CallWait, EnterWait, TypeOK
    <3> QED
      BY <2>2, <2>4, <3>1 DEF CallWait
  <2>5. CASE wait_read(t) \/ wait_check(t)
    <3>1. pc'[t] \in {"desched", "cancel", "check", "repost", "arm", "read"}
      BY <2>5 DEF wait_read, wait_check, TypeOK
    <3> QED
      BY <2>2, <2>5, <3>1 DEF wait_read, wait_check
  <2>6. CASE wait_repost(t)
    BY <2>2, <2>6 DEF wait_repost, TypeOK
  <2>7. CASE CallSetEvent(t)
    <3>1. pc'[t] \in {"set_resched", "read"}
      BY <2>7 DEF CallSetEvent, EnterWait, TypeOK
    <3> QED
      BY <2>2, <2>7, <3>1 DEF CallSetEvent
  <2>8. CASE unlock_next(t)
    <3>1. pc'[t] \in {"unlock_clear", "unlock_resched"}
      BY <2>8 DEF unlock_next, TypeOK
    <3> QED
      BY <2>2, <2>8, <3>1 DEF unlock_next
  <2>9. CASE mutex_lock(t) \/ unlock_clear(t)
    <3>1. /\ UNCHANGED <<lock, holds>>
          /\ pc[t] \in {"run", "unlock_clear"}
          /\ pc'[t] \in {"lock_try", "run"}
      BY <2>9 DEF mutex_lock, unlock_clear, TypeOK
    <3>2. \A u \in Tasks, m \in Mutexes : Owns(u, m)' <=> Owns(u, m)
      BY <2>1, <3>1 DEF Owns
    <3> QED
      BY <2>1, <3>1, <3>2 DEF MutexInv, MutualExclusion
  <2>10. CASE lock_try(t)
    <3>1. CASE lock[mtx[t]]
      <4>1. pc'[t] = "read"
        BY <2>10, <3>1 DEF lock_try, EnterWait, TypeOK
      <4> QED
        BY <2>2, <2>10, <3>1, <4>1 DEF lock_try
    <3>2. CASE ~lock[mtx[t]]
      <4>1. /\ mtx[t] \in Mutexes /\ pc'[t] = "lock_done"
            /\ pc[t] = "lock_try"
            /\ lock' = [lock EXCEPT ![mtx[t]] = TRUE]
            /\ UNCHANGED <<mtx, holds>>
        BY <2>10, <3>2 DEF lock_try, StackOK, TypeOK
      <4>2. \A u \in Tasks, m \in Mutexes :
               Owns(u, m)' <=> (Owns(u, m) \/ (u = t /\ m = mtx[t]))
        BY <2>1, <4>1 DEF Owns
      <4>3. \A u \in Tasks : ~Owns(u, mtx[t])
        BY <3>2, <4>1 DEF MutexInv
      <4> QED
        BY <2>1, <4>1, <4>2, <4>3 DEF MutexInv, MutualExclusion, TypeOK
    <3> QED
      BY <3>1, <3>2
  <2>11. CASE lock_done(t)
    <3>1. /\ mtx[t] \in Mutexes /\ pc[t] = "lock_done" /\ pc'[t] = "run"
          /\ UNCHANGED lock
          /\ holds'[t] = holds[t] \cup {mtx[t]}
      BY <2>11 DEF lock_done, StackOK, TypeOK
    <3>2. \A u \in Tasks, m \in Mutexes : Owns(u, m)' <=> Owns(u, m)
      BY <2>1, <3>1 DEF Owns
    <3> QED
      BY <2>1, <3>1, <3>2 DEF MutexInv, MutualExclusion
  <2>12. CASE mutex_unlock(t)
    <3>1. PICK m \in holds[t] : /\ holds' = [holds EXCEPT ![t] = @ \ {m}]
                                /\ mtx' = [mtx EXCEPT ![t] = m]
      BY <2>12 DEF mutex_unlock
    <3>2. /\ m \in Mutexes /\ pc[t] = "run" /\ pc'[t] = "unlock_store"
          /\ UNCHANGED lock /\ mtx'[t] = m /\ holds'[t] = holds[t] \ {m}
      BY <2>12, <3>1 DEF mutex_unlock, TypeOK
    <3>3. \A u \in Tasks, n \in Mutexes : Owns(u, n)' <=> Owns(u, n)
      BY <2>1, <3>1, <3>2 DEF Owns
    <3> QED
      BY <2>1, <3>2, <3>3 DEF MutexInv, MutualExclusion
  <2>13. CASE unlock_store(t)
    <3>1. /\ mtx[t] \in Mutexes /\ pc'[t] = "unlock_next"
          /\ pc[t] = "unlock_store"
          /\ lock' = [lock EXCEPT ![mtx[t]] = FALSE]
          /\ UNCHANGED <<mtx, holds>>
      BY <2>13 DEF unlock_store, StackOK, TypeOK
    <3>2. \A u \in Tasks, m \in Mutexes :
             Owns(u, m)' <=> (Owns(u, m) /\ ~(u = t /\ m = mtx[t]))
      BY <2>1, <3>1 DEF Owns, MutexInv
    <3>3. \A u \in Tasks : Owns(u, mtx[t]) <=> u = t
      BY <3>1 DEF MutexInv, MutualExclusion, Owns
    <3> QED
      BY <2>1, <3>1, <3>2, <3>3 DEF MutexInv, MutualExclusion, TypeOK
  <2> QED
    BY <1>2, <2>3, <2>4, <2>5, <2>6, <2>7, <2>8, <2>9, <2>10, <2>11, <2>12,
       <2>13 DEF TaskStep
<1> QED
  BY <1>1, <1>2 DEF Next

LEMMA InitMutex == Init => MutexInv
BY DEF Init, MutexInv, MutualExclusion, Owns

\* Two tasks never own a mutex at once, for any number of tasks and mutexes.
THEOREM MutexesExclude == Spec => []MutualExclusion
<1>1. Init => TypeOK /\ StackOK /\ MutexInv
  BY InitType, InitMutex DEF Init, StackOK
<1>2. TypeOK /\ StackOK /\ MutexInv /\ [Next]_vars
      => TypeOK' /\ StackOK' /\ MutexInv'
  BY NextType, NextStack, NextMutex
<1>3. MutexInv => MutualExclusion
  BY DEF MutexInv
<1> QED
  BY <1>1, <1>2, <1>3, PTL DEF Spec

(***************************************************************************)
(* Mutex wake-ups                                                          *)
(***************************************************************************)

\* The idle task makes no kernel call; a task is registered as a waiter from
\* mutex_lock() until it has the mutex; it looks at the lock again as soon as
\* it has collected MUTEX; the waiters still to be woken exist only inside
\* mutex_unlock().
IdleInv == pc[IDLE] = "run" /\ call[IDLE] = "none" /\ holds[IDLE] = {}

WaiterInv ==
  \A t \in Tasks :
    /\ call[t] = "lock" \/ pc[t] \in {"lock_try", "lock_done"} =>
          t \in waiters[mtx[t]]
    /\ call[t] = "lock" /\ pc[t] \in {"read", "desched"} =>
          "MUTEX" \notin got[t]
    /\ snap[t] # {} => pc[t] \in {"unlock_store", "unlock_next",
                                  "unlock_resched"}

\* u will wake t, or it has the mutex and has not read its waiters yet
WillWake(u, t) ==
  \/ t \in snap[u] /\ mtx[u] = mtx[t]
  \/ mtx[t] \in holds[u]
  \/ mtx[u] = mtx[t] /\ pc[u] = "lock_done"

Blocked(t) ==
  /\ call[t] = "lock"
  /\ pc[t] \in {"read", "desched", "check"}
  /\ "MUTEX" \notin events[t] \cup got[t]

Lowest(t) == \A u \in Tasks : u < t => u = IDLE

WakeInv ==
  \A t \in Tasks : Lowest(t) /\ Blocked(t) => \E u \in Tasks : WillWake(u, t)

\* Every step keeps what is known about idle task and waiters.
LEMMA NextWaiter ==
  /\ TypeOK /\ StackOK /\ IdleInv /\ WaiterInv /\ [Next]_vars
  => IdleInv' /\ WaiterInv'
<1> SUFFICES ASSUME TypeOK, StackOK, IdleInv, WaiterInv, [Next]_vars
             PROVE  IdleInv' /\ WaiterInv'
  OBVIOUS
<1>1. CASE task_start \/ DriverIrq \/ TimerIrq \/ ClockTick
           \/ UNCHANGED vars
  BY <1>1 DEF IdleInv, WaiterInv, task_start, DriverIrq, TimerIrq, ClockTick,
              vars, mutex, waiting
<1>2. ASSUME NEW t \in Tasks, TaskStep(t) PROVE IdleInv' /\ WaiterInv'
  <2> USE DEF Goto, At, mutex, waiting
  <2>1. \A u \in Tasks : u # t =>
           /\ pc'[u] = pc[u] /\ mtx'[u] = mtx[u] /\ holds'[u] = holds[u]
           /\ call'[u] = call[u] /\ got'[u] = got[u] /\ snap'[u] = snap[u]
    BY <1>2, OtherStacks
  <2>2. t # IDLE
    BY <1>2, TaskAssumption
    DEF TaskStep, IdleInv, task_enable_all_tasks, enable_resched, CallWait,
        wait_arm, wait_read, wait_desched, wait_cancel, wait_check,
        wait_repost, CallSetEvent, set_resched, mutex_lock, lock_try,
        lock_done, mutex_unlock, unlock_store, unlock_next, unlock_resched,
        unlock_clear
  <2>3. IdleInv'
    BY <2>1, <2>2 DEF IdleInv
  <2> SUFFICES WaiterInv'
    BY <2>3
  <2> DEFINE Own == /\ call'[t] = "lock" \/ pc'[t] \in {"lock_try", "lock_done"}
                         => t \in waiters'[mtx'[t]]
                    /\ call'[t] = "lock" /\ pc'[t] \in {"read", "desched"}
                         => "MUTEX" \notin got'[t]
                    /\ snap'[t] # {} => pc'[t] \in {"unlock_store",
                                           "unlock_next", "unlock_resched"}
  <2>4. ASSUME Own, \A u \in Tasks, m \in Mutexes :
                       u # t /\ u \in waiters[m] => u \in waiters'[m]
        PROVE  WaiterInv'
    <3>1. ASSUME NEW u \in Tasks, u # t,
                 call[u] = "lock" \/ pc[u] \in {"lock_try", "lock_done"}
          PROVE  mtx[u] \in Mutexes
      BY <3>1 DEF StackOK
    <3> QED
      BY <2>1, <2>4, <3>1 DEF WaiterInv
  <2>5. CASE /\ UNCHANGED <<waiters, mtx, snap, got, call>>
             /\ pc[t] \notin {"unlock_store", "unlock_next", "unlock_resched"}
             /\ \/ call[t] # "lock" /\ pc'[t] \notin {"lock_try", "lock_done"}
                \/ pc[t] = "desched" /\ pc'[t] = "read"
    BY <2>4, <2>5 DEF WaiterInv
  <2>6. CASE task_enable_all_tasks(t) \/ enable_resched(t) \/ wait_arm(t)
    BY <2>5, <2>6 DEF task_enable_all_tasks, enable_resched, wait_arm, TypeOK,
                      StackOK
  <2>7. CASE wait_desched(t) \/ set_resched(t) \/ wait_cancel(t)
    BY <2>5, <2>7 DEF wait_desched, set_resched, wait_cancel, TypeOK, StackOK
  <2>8. CASE unlock_resched(t)
    BY <2>4, <2>8 DEF unlock_resched, TypeOK, StackOK
  <2>9. CASE unlock_clear(t)
    BY <2>4, <2>9 DEF unlock_clear, TypeOK, StackOK, WaiterInv
  <2>10. CASE unlock_store(t)
    BY <2>4, <2>10 DEF unlock_store, TypeOK, StackOK
  <2>11. CASE CallWait(t)
    <3>1. /\ call'[t] # "lock" /\ pc'[t] \in {"arm", "read"}
          /\ snap[t] = {} /\ UNCHANGED <<waiters, snap>>
      BY <2>11 DEF CallWait, EnterWait, TypeOK, WaiterInv
    <3> QED
      BY <2>4, <3>1
  <2>12. CASE wait_read(t)
    <3>1. /\ pc'[t] \in {"desched", "cancel", "check"}
          /\ pc'[t] = "desched" => got'[t] = got[t]
          /\ pc[t] = "read" /\ UNCHANGED <<waiters, snap, mtx, call>>
      BY <2>12 DEF wait_read, TypeOK
    <3> QED
      BY <2>4, <3>1 DEF WaiterInv
  <2>13. CASE wait_check(t)
    <3>1. /\ pc'[t] \in {"repost", "arm", "read"}
          /\ pc'[t] = "read" => got[t] \cap want[t] = {} /\ got'[t] = got[t]
          /\ pc[t] = "check" /\ UNCHANGED <<waiters, snap, mtx, call>>
      BY <2>13 DEF wait_check, TypeOK
    <3> QED
      BY <2>4, <3>1 DEF WaiterInv, StackOK
  <2>14. CASE wait_repost(t)
    <3>1. /\ call'[t] = "none" /\ pc[t] = "repost"
          /\ pc'[t] = "lock_try" => call[t] = "lock"
          /\ pc'[t] \in {"lock_try", "run"}
          /\ UNCHANGED <<waiters, snap, mtx>>
      BY <2>14 DEF wait_repost, TypeOK
    <3> QED
      BY <2>4, <3>1 DEF WaiterInv
  <2>15. CASE CallSetEvent(t)
    <3>1. /\ call'[t] # "lock" /\ pc'[t] \in {"set_resched", "read"}
          /\ snap[t] = {} /\ UNCHANGED <<waiters, snap>>
      BY <2>15 DEF CallSetEvent, EnterWait, TypeOK, WaiterInv, StackOK
    <3> QED
      BY <2>4, <3>1
  <2>16. CASE mutex_lock(t)
    <3>1. PICK m \in Mutexes :
             /\ mtx' = [mtx EXCEPT ![t] = m]
             /\ waiters' = [waiters EXCEPT ![m] = @ \cup {t}]
      BY <2>16 DEF mutex_lock
    <3>2. pc[t] = "run" /\ pc'[t] = "lock_try" /\ UNCHANGED snap
      BY <2>16 DEF mutex_lock, TypeOK
    <3>3. /\ mtx'[t] = m /\ t \in waiters'[m]
          /\ \A n \in Mutexes : waiters[n] \subseteq waiters'[n]
      BY <3>1 DEF TypeOK
    <3>4. snap'[t] = {}
      BY <3>2 DEF WaiterInv
    <3> QED
      BY <2>4, <3>2, <3>3, <3>4
  <2>17. CASE lock_try(t)
    <3>1. /\ pc'[t] \in {"read", "lock_done"} /\ pc[t] = "lock_try"
          /\ pc'[t] = "read" => got'[t] = {}
          /\ UNCHANGED <<waiters, snap, mtx>>
      BY <2>17 DEF lock_try, EnterWait, TypeOK
    <3> QED
      BY <2>4, <3>1 DEF WaiterInv
  <2>18. CASE lock_done(t)
    <3>1. /\ pc'[t] = "run" /\ pc[t] = "lock_done" /\ mtx[t] \in Mutexes
          /\ call'[t] # "lock" /\ UNCHANGED snap
          /\ waiters' = [waiters EXCEPT ![mtx[t]] = @ \ {t}]
      BY <2>18 DEF lock_done, TypeOK, StackOK
    <3> QED
      BY <2>4, <3>1 DEF WaiterInv, TypeOK
  <2>19. CASE mutex_unlock(t)
    <3>1. pc'[t] = "unlock_store" /\ call'[t] # "lock" /\ UNCHANGED waiters
      BY <2>19 DEF mutex_unlock, TypeOK, StackOK
    <3> QED
      BY <2>4, <3>1
  <2>20. CASE unlock_next(t)
    <3>1. /\ pc'[t] \in {"unlock_clear", "unlock_resched"}
          /\ pc'[t] = "unlock_clear" => snap'[t] = {}
          /\ call'[t] # "lock" /\ UNCHANGED waiters
      BY <2>20 DEF unlock_next, TypeOK, StackOK
    <3> QED
      BY <2>4, <3>1
  <2> QED
    BY <1>2, <2>6, <2>7, <2>8, <2>9, <2>10, <2>11, <2>12, <2>13, <2>14,
       <2>15, <2>16, <2>17, <2>18, <2>19, <2>20 DEF TaskStep
<1> QED
  BY <1>1, <1>2 DEF Next

\* Every step keeps the lowest client task's wake-up on its way.
LEMMA NextWake ==
  /\ TypeOK /\ TypeOK' /\ StackOK /\ ReadyInv /\ MutexInv
  /\ IdleInv /\ WaiterInv /\ WakeInv /\ [Next]_vars
  => WakeInv'
<1> SUFFICES ASSUME TypeOK, TypeOK', StackOK, ReadyInv, MutexInv, IdleInv,
                    WaiterInv, WakeInv, [Next]_vars,
                    NEW t \in Tasks, Lowest(t), Blocked(t)'
             PROVE  \E u \in Tasks : WillWake(u, t)'
  BY DEF WakeInv, Lowest
<1>1. CASE task_start \/ DriverIrq \/ TimerIrq \/ ClockTick
           \/ UNCHANGED vars
  <2>1. UNCHANGED <<pc, mutex, waiting>>
    BY <1>1 DEF task_start, DriverIrq, TimerIrq, ClockTick, vars, mutex,
                waiting
  <2>4. ASSUME NEW targets \in SUBSET Tasks, NEW e \in Events,
               FromIrq(targets, e)
        PROVE  events[t] \subseteq events'[t]
    BY <2>4 DEF FromIrq
  <2>5. DriverIrq => events[t] \subseteq events'[t]
    BY <2>4 DEF DriverIrq, Events
  <2>6. TimerIrq => events[t] \subseteq events'[t]
    BY <2>4 DEF TimerIrq, Events, TypeOK
  <2>2. events[t] \subseteq events'[t]
    BY <1>1, <2>5, <2>6 DEF task_start, ClockTick, vars
  <2>3. Blocked(t)
    BY <2>1, <2>2 DEF Blocked, waiting
  <2> QED
    BY <2>1, <2>3 DEF WakeInv, WillWake, mutex
<1>2. ASSUME NEW s \in Tasks, TaskStep(s)
      PROVE  \E u \in Tasks : WillWake(u, t)'
  <2> USE DEF Goto, At, mutex, waiting
  <2>1. \A u \in Tasks : u # s =>
           /\ pc'[u] = pc[u] /\ mtx'[u] = mtx[u] /\ holds'[u] = holds[u]
           /\ call'[u] = call[u] /\ got'[u] = got[u] /\ snap'[u] = snap[u]
    BY <1>2, OtherStacks
  \* The step of t itself
  <2>2. CASE s = t
    <3>1. CASE Blocked(t) /\ UNCHANGED <<mtx, snap, holds>>
      <4>1. PICK u \in Tasks : WillWake(u, t)
        BY <3>1 DEF WakeInv
      <4>2. pc[u] = "lock_done" => pc'[u] = pc[u]
        BY <2>1, <2>2, <3>1 DEF Blocked
      <4> QED
        BY <3>1, <4>1, <4>2 DEF WillWake
    <3>2. CASE lock_try(t)
      <4>1. lock[mtx[t]] /\ mtx[t] \in Mutexes /\ UNCHANGED <<mtx, holds>>
        BY <3>2 DEF lock_try, Blocked, StackOK, TypeOK
      <4>2. PICK u \in Tasks : Owns(u, mtx[t])
        BY <4>1 DEF MutexInv
      <4>3. pc[u] = "unlock_store" => u <= t
        BY <3>2 DEF ReadyInv, lock_try
      <4>4. pc[u] # "unlock_store"
        <5>1. pc[t] = "lock_try"
          BY <3>2 DEF lock_try
        <5>2. pc[u] = "unlock_store" => u < t
          BY <4>3, <5>1, TasksNat
        <5> QED
          BY <5>2 DEF Lowest, IdleInv
      <4>5. \/ mtx[t] \in holds[u]
            \/ mtx[u] = mtx[t] /\ pc[u] = "lock_done"
        BY <4>2, <4>4 DEF Owns
      <4>6. u # t \/ mtx[t] \in holds[u]
        BY <3>2, <4>5 DEF lock_try
      <4> QED
        BY <2>1, <2>2, <4>1, <4>5, <4>6 DEF WillWake
    <3>3. CASE wait_read(t)
      <4>1. /\ pc[t] = "read" /\ call'[t] = call[t]
            /\ got'[t] = got[t] \cup events[t]
            /\ UNCHANGED <<mtx, snap, holds>>
        BY <3>3 DEF wait_read, TypeOK
      <4> QED
        BY <3>1, <4>1 DEF Blocked
    <3>4. CASE wait_desched(t)
      BY <3>1, <3>4 DEF wait_desched, Blocked
    <3>5. CASE wait_check(t)
      <4>1. /\ pc[t] = "check" /\ call'[t] = call[t]
            /\ got[t] \subseteq got'[t]
            /\ UNCHANGED <<mtx, snap, holds, events>>
        BY <3>5 DEF wait_check, TypeOK
      <4> QED
        BY <3>1, <4>1 DEF Blocked
    <3>6. call'[t] = "lock" /\ pc'[t] \in {"read", "desched", "check"}
      BY DEF Blocked
    <3>7. CASE \/ task_enable_all_tasks(t) \/ enable_resched(t)
               \/ wait_arm(t) \/ wait_cancel(t) \/ set_resched(t)
      <4>1. call[t] # "lock" /\ call'[t] = call[t]
        BY <3>7 DEF task_enable_all_tasks, enable_resched, wait_arm,
                    wait_cancel, set_resched, StackOK
      <4> QED
        BY <3>6, <4>1
    <3>8. CASE CallWait(t)
      BY <3>6, <3>8 DEF CallWait, EnterWait, TypeOK
    <3>9. CASE CallSetEvent(t)
      BY <3>6, <3>9 DEF CallSetEvent, EnterWait, TypeOK, StackOK
    <3>10. CASE wait_repost(t)
      BY <3>6, <3>10 DEF wait_repost, TypeOK
    <3>11. CASE mutex_lock(t) \/ lock_done(t) \/ mutex_unlock(t)
      <4>1. call[t] # "lock" /\ call'[t] = call[t]
        BY <3>11 DEF mutex_lock, lock_done, mutex_unlock, StackOK
      <4> QED
        BY <3>6, <4>1
    <3>12. CASE unlock_store(t) \/ unlock_next(t)
      <4>1. call[t] # "lock" /\ call'[t] = call[t]
        BY <3>12 DEF unlock_store, unlock_next, StackOK
      <4> QED
        BY <3>6, <4>1
    <3>13. CASE unlock_resched(t) \/ unlock_clear(t)
      <4>1. call[t] # "lock" /\ call'[t] = call[t]
        BY <3>13 DEF unlock_resched, unlock_clear, StackOK
      <4> QED
        BY <3>6, <4>1
    <3> QED
      BY <1>2, <2>2, <3>2, <3>3, <3>4, <3>5, <3>7, <3>8, <3>9, <3>10, <3>11,
         <3>12, <3>13 DEF TaskStep
  \* A step of another task
  <2>3. CASE s # t
    <3>1. Blocked(t) \/ "MUTEX" \in events[t]
      BY <2>1, <2>3 DEF Blocked
    <3>2. events[t] \subseteq events'[t]
      <4>1. CASE wait_read(s) \/ wait_repost(s) \/ unlock_clear(s)
        BY <2>3, <4>1 DEF TypeOK, wait_read, wait_repost, unlock_clear
      <4>2. CASE CallSetEvent(s)
        BY <4>2 DEF TypeOK, CallSetEvent
      <4>3. CASE unlock_next(s)
        BY <4>3 DEF TypeOK, unlock_next
      <4> QED
        BY <1>2, <4>1, <4>2, <4>3
        DEF TaskStep, task_enable_all_tasks, enable_resched, CallWait,
            wait_arm, wait_desched, wait_cancel, wait_check, set_resched,
            mutex_lock, lock_try, lock_done, mutex_unlock, unlock_store,
            unlock_resched
    <3>3. Blocked(t) /\ t \in waiters[mtx[t]] /\ mtx[t] \in Mutexes
      BY <2>1, <2>3, <3>1, <3>2 DEF Blocked, WaiterInv, StackOK
    <3>4. PICK u \in Tasks : WillWake(u, t)
      BY <3>3 DEF WakeInv
    <3>5. CASE u # s
      BY <2>1, <2>3, <3>4, <3>5 DEF WillWake
    <3>6. CASE u = s /\ UNCHANGED <<mtx, snap, holds>>
               /\ pc[s] # "lock_done"
      BY <3>4, <3>6 DEF WillWake
    <3>7. CASE u = s /\ lock_done(s)
      <4>1. /\ mtx[s] \in Mutexes /\ pc[s] = "lock_done"
            /\ holds'[s] = holds[s] \cup {mtx[s]}
        BY <3>7 DEF lock_done, StackOK, TypeOK
      <4>3. snap[s] = {}
        BY <4>1 DEF WaiterInv
      <4>2. mtx[t] \in holds'[s] /\ mtx'[t] = mtx[t]
        BY <2>1, <2>3, <3>4, <3>7, <4>1, <4>3 DEF WillWake
      <4> QED
        BY <4>2 DEF WillWake
    <3>8. CASE u = s /\ mutex_unlock(s)
      <4>1. PICK m \in holds[s] : /\ holds' = [holds EXCEPT ![s] = @ \ {m}]
                                  /\ mtx' = [mtx EXCEPT ![s] = m]
                                  /\ snap' = [snap EXCEPT ![s] = waiters[m]]
        BY <3>8 DEF mutex_unlock
      <4>2. /\ pc[s] = "run" /\ snap[s] = {}
            /\ holds'[s] = holds[s] \ {m} /\ mtx'[s] = m
            /\ snap'[s] = waiters[m] /\ mtx'[t] = mtx[t]
        <5>1. pc[s] = "run"
          BY <3>8 DEF mutex_unlock
        <5>2. snap[s] = {}
          BY <5>1 DEF WaiterInv
        <5>3. /\ holds'[s] = holds[s] \ {m} /\ mtx'[s] = m
              /\ snap'[s] = waiters[m]
          BY <4>1 DEF TypeOK
        <5> QED
          BY <2>1, <2>3, <5>1, <5>2, <5>3
      <4>3. mtx[t] \in holds[s]
        BY <3>4, <3>8, <4>2 DEF WillWake
      <4>4. CASE m = mtx[t]
        BY <3>3, <4>2, <4>4 DEF WillWake
      <4>5. CASE m # mtx[t]
        BY <4>2, <4>3, <4>5 DEF WillWake
      <4> QED
        BY <4>4, <4>5
    <3>9. CASE u = s /\ mutex_lock(s)
      <4>1. pc[s] = "run" /\ snap[s] = {} /\ UNCHANGED holds
        BY <3>9 DEF mutex_lock, WaiterInv
      <4> QED
        BY <2>1, <2>3, <3>4, <3>9, <4>1 DEF WillWake
    <3>10. CASE u = s /\ unlock_clear(s)
      <4>1. pc[s] = "unlock_clear" /\ snap[s] = {} /\ UNCHANGED holds
        BY <3>10 DEF unlock_clear, WaiterInv
      <4> QED
        BY <2>1, <2>3, <3>4, <3>10, <4>1 DEF WillWake
    <3>11. CASE u = s /\ unlock_next(s)
      <4>1. CASE snap[s] = {}
        BY <3>6, <3>11, <4>1 DEF unlock_next
      <4>2. CASE snap[s] # {}
        <5>1. PICK id \in snap[s] :
                /\ events' = [events EXCEPT ![id] = @ \cup {"MUTEX"}]
                /\ snap' = [snap EXCEPT ![s] = @ \ {id}]
          BY <3>11, <4>2 DEF unlock_next
        <5>2. id # t
          BY <5>1 DEF Blocked, TypeOK
        <5>3. snap'[s] = snap[s] \ {id} /\ UNCHANGED <<mtx, holds>>
              /\ pc[s] = "unlock_next"
          BY <3>11, <5>1 DEF TypeOK, unlock_next
        <5> QED
          BY <3>4, <3>11, <5>2, <5>3 DEF WillWake
      <4> QED
        BY <4>1, <4>2
    <3>12. CASE u = s /\ lock_try(s)
      BY <3>6, <3>12 DEF lock_try
    <3>13. CASE u = s /\ \/ task_enable_all_tasks(s) \/ enable_resched(s)
                         \/ CallWait(s) \/ wait_arm(s) \/ wait_read(s)
                         \/ wait_desched(s) \/ wait_cancel(s)
                         \/ wait_check(s)
      BY <3>6, <3>13
      DEF task_enable_all_tasks, enable_resched, CallWait, wait_arm,
          wait_read, wait_desched, wait_cancel, wait_check
    <3>14. CASE u = s /\ \/ wait_repost(s) \/ CallSetEvent(s)
                         \/ set_resched(s) \/ unlock_store(s)
                         \/ unlock_resched(s)
      BY <3>6, <3>14
      DEF wait_repost, CallSetEvent, set_resched, unlock_store,
          unlock_resched
    <3> QED
      BY <1>2, <3>5, <3>7, <3>8, <3>9, <3>10, <3>11, <3>12, <3>13, <3>14
      DEF TaskStep
  <2> QED
    BY <2>2, <2>3
<1> QED
  BY <1>1, <1>2 DEF Next

LEMMA InitWake == Init => IdleInv /\ WaiterInv /\ WakeInv
BY DEF Init, IdleInv, WaiterInv, WakeInv, Blocked

\* The wake-up of the lowest client task is never lost, for any number of
\* tasks and mutexes: another task is between the two instructions of
\* mutex_unlock() only when it is running or preempted by a higher one.
THEOREM LowestWaiterWoken == Spec => []LowestWaiterIsWoken
<1> DEFINE Inv == /\ TypeOK /\ StackOK /\ ReadyInv /\ MutexInv
                  /\ IdleInv /\ WaiterInv /\ WakeInv
<1>1. Init => Inv
  BY InitType, InitReady, InitMutex, InitWake DEF Init, StackOK
<1>2. Inv /\ [Next]_vars => Inv'
  BY NextType, NextStack, NextReady, NextMutex, NextWaiter, NextWake
<1>3. Inv => LowestWaiterIsWoken
  <2> SUFFICES ASSUME Inv, NEW t \in Tasks, Lowest(t), Stranded(t)
               PROVE  FALSE
    BY DEF LowestWaiterIsWoken, Lowest
  <2>1. Blocked(t) /\ mtx[t] \in Mutexes /\ ~lock[mtx[t]]
    BY DEF Stranded, Blocked, WaiterInv, StackOK
  <2>2. PICK u \in Tasks : WillWake(u, t)
    BY <2>1 DEF WakeInv
  <2>3. t \in snap[u] /\ mtx[u] = mtx[t]
    BY <2>1, <2>2 DEF WillWake, MutexInv, Owns
  <2> QED
    BY <2>3 DEF Stranded
<1> QED
  BY <1>1, <1>2, <1>3, PTL DEF Spec

(***************************************************************************)
(* Timers and events of the waits                                          *)
(***************************************************************************)

\* A running timer is that of the wait its task is in, and is cancelled
\* before the wait ends; only a timed wait arms one.
TimerInv ==
  \A t \in Tasks :
    /\ pc[t] = "arm" => timed[t]
    /\ t \in timer_running =>
         timed[t] /\ pc[t] \in {"read", "desched", "cancel"}

\* Events are collected inside a wait only, and only the waits of clients
\* ask for events of clients.
WaitInv ==
  \A t \in Tasks :
    /\ pc[t] \notin {"arm", "read", "desched", "cancel", "check", "repost"}
         => got[t] = {}
    /\ call[t] \notin {"wait", "mask"} => want[t] \cap UserEvents = {}

\* Every step keeps the timers with their waits.
LEMMA NextTimer == TypeOK /\ StackOK /\ TimerInv /\ [Next]_vars => TimerInv'
<1> SUFFICES ASSUME TypeOK, StackOK, TimerInv, [Next]_vars,
                    NEW t \in Tasks
             PROVE  /\ pc'[t] = "arm" => timed'[t]
                    /\ t \in timer_running' =>
                         /\ timed'[t]
                         /\ pc'[t] \in {"read", "desched", "cancel"}
  BY DEF TimerInv
<1> USE DEF Goto, At, mutex, waiting
<1>1. CASE UNCHANGED <<pc, timed>> /\ timer_running' \subseteq timer_running
  BY <1>1 DEF TimerInv
<1>2. CASE task_start \/ DriverIrq \/ TimerIrq \/ ClockTick
           \/ UNCHANGED vars
  BY <1>1, <1>2 DEF task_start, DriverIrq, TimerIrq, ClockTick, vars
<1>3. ASSUME NEW s \in Tasks, TaskStep(s), s # t
      PROVE  /\ pc'[t] = "arm" => timed'[t]
             /\ t \in timer_running' =>
                  /\ timed'[t]
                  /\ pc'[t] \in {"read", "desched", "cancel"}
  <2>1. pc'[t] = pc[t] /\ timed'[t] = timed[t]
    BY <1>3, OtherStacks
  <2>2. t \in timer_running' => t \in timer_running
    BY <1>3
    DEF TaskStep, task_enable_all_tasks, enable_resched, CallWait, wait_arm,
        wait_read, wait_desched, wait_cancel, wait_check, wait_repost,
        CallSetEvent, set_resched, mutex_lock, lock_try, lock_done,
        mutex_unlock, unlock_store, unlock_next, unlock_resched, unlock_clear
  <2> QED
    BY <2>1, <2>2 DEF TimerInv
<1>4. ASSUME TaskStep(t)
      PROVE  /\ pc'[t] = "arm" => timed'[t]
             /\ t \in timer_running' =>
                  /\ timed'[t]
                  /\ pc'[t] \in {"read", "desched", "cancel"}
  <2> USE DEF TypeOK
  <2>1. CASE wait_arm(t)
    BY <2>1 DEF wait_arm, TimerInv
  <2>2. CASE wait_read(t)
    <3>1. /\ pc'[t] \in {"desched", "cancel", "check"}
          /\ timed[t] => pc'[t] # "check"
          /\ UNCHANGED <<timer_running, timed>>
      BY <2>2 DEF wait_read
    <3> QED
      BY <3>1 DEF TimerInv
  <2>3. CASE wait_desched(t)
    BY <2>3 DEF wait_desched, TimerInv
  <2>4. CASE wait_cancel(t)
    BY <2>4 DEF wait_cancel, TimerInv
  <2>5. CASE wait_check(t)
    <3>1. /\ pc[t] = "check" /\ pc'[t] \in {"repost", "arm", "read"}
          /\ pc'[t] = "arm" => timed[t]
          /\ UNCHANGED <<timer_running, timed>>
      BY <2>5 DEF wait_check
    <3> QED
      BY <3>1 DEF TimerInv
  <2>6. CASE CallWait(t)
    <3>1. /\ pc[t] = "run" /\ UNCHANGED timer_running
          /\ pc'[t] = "arm" => timed'[t]
      BY <2>6 DEF CallWait, EnterWait
    <3> QED
      BY <3>1 DEF TimerInv
  <2>7. CASE CallSetEvent(t)
    <3>1. pc[t] = "run" /\ pc'[t] # "arm" /\ UNCHANGED timer_running
      BY <2>7 DEF CallSetEvent, EnterWait
    <3> QED
      BY <3>1 DEF TimerInv
  <2>8. CASE lock_try(t)
    <3>1. pc[t] = "lock_try" /\ pc'[t] # "arm" /\ UNCHANGED timer_running
      BY <2>8 DEF lock_try, EnterWait
    <3> QED
      BY <3>1 DEF TimerInv
  <2>9. CASE /\ pc[t] \notin {"read", "desched", "cancel"}
             /\ pc'[t] # "arm" /\ UNCHANGED timer_running
    BY <2>9 DEF TimerInv
  <2>10. CASE task_enable_all_tasks(t) \/ enable_resched(t) \/ wait_repost(t)
    BY <2>9, <2>10 DEF task_enable_all_tasks, enable_resched, wait_repost
  <2>11. CASE set_resched(t) \/ mutex_lock(t) \/ lock_done(t)
    BY <2>9, <2>11 DEF set_resched, mutex_lock, lock_done
  <2>12. CASE mutex_unlock(t) \/ unlock_store(t) \/ unlock_next(t)
    BY <2>9, <2>12 DEF mutex_unlock, unlock_store, unlock_next
  <2>13. CASE unlock_resched(t) \/ unlock_clear(t)
    BY <2>9, <2>13 DEF unlock_resched, unlock_clear
  <2> QED
    BY <1>4, <2>1, <2>2, <2>3, <2>4, <2>5, <2>6, <2>7, <2>8, <2>10, <2>11,
       <2>12, <2>13 DEF TaskStep
<1> QED
  BY <1>2, <1>3, <1>4 DEF Next

\* The assertion of __wait_evt() holds for any number of tasks: whatever the
\* interrupts do, a task's timer is free when its wait arms it.
THEOREM TimerAlwaysFree == Spec => []TimerNotBusy
<1>1. Init => TypeOK /\ StackOK /\ TimerInv
  BY InitType DEF Init, StackOK, TimerInv
<1>2. TypeOK /\ StackOK /\ TimerInv /\ [Next]_vars
      => TypeOK' /\ StackOK' /\ TimerInv'
  BY NextType, NextStack, NextTimer
<1>3. TimerInv => TimerNotBusy
  BY DEF TimerInv, TimerNotBusy
<1> QED
  BY <1>1, <1>2, <1>3, PTL DEF Spec

\* Every step keeps collected events inside their waits.
LEMMA NextWait == TypeOK /\ WaitInv /\ [Next]_vars => WaitInv'
<1> SUFFICES ASSUME TypeOK, WaitInv, [Next]_vars, NEW t \in Tasks
             PROVE  /\ pc'[t] \notin {"arm", "read", "desched", "cancel",
                                      "check", "repost"} => got'[t] = {}
                    /\ call'[t] \notin {"wait", "mask"}
                         => want'[t] \cap UserEvents = {}
  BY DEF WaitInv
<1> USE DEF Goto, At, mutex, waiting
<1>2. CASE task_start \/ DriverIrq \/ TimerIrq \/ ClockTick
           \/ UNCHANGED vars
  BY <1>2 DEF task_start, DriverIrq, TimerIrq, ClockTick, vars, WaitInv
<1>3. ASSUME NEW s \in Tasks, TaskStep(s), s # t
      PROVE  /\ pc'[t] \notin {"arm", "read", "desched", "cancel",
                               "check", "repost"} => got'[t] = {}
             /\ call'[t] \notin {"wait", "mask"}
                  => want'[t] \cap UserEvents = {}
  <2>1. /\ pc'[t] = pc[t] /\ call'[t] = call[t]
        /\ want'[t] = want[t] /\ got'[t] = got[t]
    BY <1>3, OtherStacks
  <2> QED
    BY <2>1 DEF WaitInv
<1>4. ASSUME TaskStep(t)
      PROVE  /\ pc'[t] \notin {"arm", "read", "desched", "cancel",
                               "check", "repost"} => got'[t] = {}
             /\ call'[t] \notin {"wait", "mask"}
                  => want'[t] \cap UserEvents = {}
  <2> USE DEF TypeOK
  <2>1. CASE /\ pc'[t] \in {"arm", "read", "desched", "cancel", "check",
                            "repost"}
             /\ call'[t] = call[t] /\ want'[t] = want[t]
    BY <2>1 DEF WaitInv
  <2>2. CASE wait_arm(t) \/ wait_desched(t) \/ wait_cancel(t)
    BY <2>1, <2>2 DEF wait_arm, wait_desched, wait_cancel
  <2>3. CASE wait_read(t) \/ wait_check(t)
    BY <2>1, <2>3 DEF wait_read, wait_check
  <2>4. CASE wait_repost(t)
    BY <2>4 DEF wait_repost
  <2>5. CASE CallWait(t)
    <3>1. call'[t] \in {"wait", "mask", "usleep"}
      BY <2>5 DEF CallWait, EnterWait
    <3>2. /\ pc'[t] \in {"arm", "read"}
          /\ call'[t] = "usleep" => want'[t] = {"TIMER"}
      BY <2>5 DEF CallWait, EnterWait
    <3> QED
      BY <3>1, <3>2, TaskAssumption
  <2>6. CASE CallSetEvent(t)
    <3>1. \/ UNCHANGED waiting /\ pc[t] = "run"
          \/ call'[t] = "wait" /\ pc'[t] = "read"
      BY <2>6 DEF CallSetEvent, EnterWait
    <3> QED
      BY <3>1 DEF WaitInv
  <2>7. CASE lock_try(t)
    <3>1. \/ UNCHANGED waiting /\ pc[t] = "lock_try"
          \/ /\ call'[t] = "lock" /\ pc'[t] = "read"
             /\ want'[t] = {"MUTEX", "TIMER"}
      BY <2>7 DEF lock_try, EnterWait
    <3> QED
      BY <3>1, TaskAssumption DEF WaitInv
  <2>8. CASE /\ pc[t] \notin {"arm", "read", "desched", "cancel", "check",
                              "repost"}
             /\ UNCHANGED waiting
    BY <2>8 DEF WaitInv
  <2>9. CASE task_enable_all_tasks(t) \/ enable_resched(t) \/ set_resched(t)
    BY <2>8, <2>9 DEF task_enable_all_tasks, enable_resched, set_resched
  <2>10. CASE mutex_lock(t) \/ lock_done(t) \/ mutex_unlock(t)
    BY <2>8, <2>10 DEF mutex_lock, lock_done, mutex_unlock
  <2>11. CASE unlock_store(t) \/ unlock_next(t)
    BY <2>8, <2>11 DEF unlock_store, unlock_next
  <2>12. CASE unlock_resched(t) \/ unlock_clear(t)
    BY <2>8, <2>12 DEF unlock_resched, unlock_clear
  <2> QED
    BY <1>4, <2>2, <2>3, <2>4, <2>5, <2>6, <2>7, <2>9, <2>10, <2>11, <2>12
    DEF TaskStep
<1> QED
  BY <1>2, <1>3, <1>4 DEF Next

\* A client's event a step takes from a task, the task's own wait asked for.
LEMMA StepConsumes ==
  ASSUME TypeOK, WaitInv, [Next]_vars, NEW t \in Tasks, NEW e \in UserEvents,
         e \in events[t] \cup got[t], e \notin events'[t] \cup got'[t]
  PROVE  e \in want[t] /\ call[t] \in {"wait", "mask"}
<1> USE DEF Goto, At, mutex, waiting
<1>1. e \in Events /\ e # "MUTEX"
  BY TaskAssumption DEF Events
<1>2. ASSUME events[t] \subseteq events'[t], got[t] \subseteq got'[t]
      PROVE  FALSE
  BY <1>2
<1>3. CASE task_start \/ DriverIrq \/ TimerIrq \/ ClockTick
           \/ UNCHANGED vars
  <2>1. got' = got
    BY <1>3 DEF task_start, DriverIrq, TimerIrq, ClockTick, vars
  <2>2. ASSUME NEW targets \in SUBSET Tasks, NEW f \in Events,
               FromIrq(targets, f)
        PROVE  events[t] \subseteq events'[t]
    BY <2>2 DEF FromIrq
  <2>3. DriverIrq => events[t] \subseteq events'[t]
    BY <2>2 DEF DriverIrq, Events
  <2>4. TimerIrq => events[t] \subseteq events'[t]
    BY <2>2 DEF TimerIrq, Events, TypeOK
  <2> QED
    BY <1>2, <1>3, <2>1, <2>3, <2>4 DEF task_start, ClockTick, vars
<1>4. ASSUME NEW s \in Tasks, TaskStep(s), s # t
      PROVE  FALSE
  <2>1. got'[t] = got[t]
    BY <1>4, OtherStacks
  <2>2. events[t] \subseteq events'[t]
    <3>1. CASE wait_read(s) \/ wait_repost(s) \/ unlock_clear(s)
      BY <1>4, <3>1 DEF TypeOK, wait_read, wait_repost, unlock_clear
    <3>2. CASE CallSetEvent(s)
      BY <3>2 DEF TypeOK, CallSetEvent
    <3>3. CASE unlock_next(s)
      BY <3>3 DEF TypeOK, unlock_next
    <3> QED
      BY <1>4, <3>1, <3>2, <3>3
      DEF TaskStep, task_enable_all_tasks, enable_resched, CallWait,
          wait_arm, wait_desched, wait_cancel, wait_check, set_resched,
          mutex_lock, lock_try, lock_done, mutex_unlock, unlock_store,
          unlock_resched
  <2> QED
    BY <1>2, <2>1, <2>2
<1>5. ASSUME TaskStep(t)
      PROVE  e \in want[t] /\ call[t] \in {"wait", "mask"}
  <2> USE DEF TypeOK
  <2>1. CASE wait_read(t)
    <3>1. got'[t] = got[t] \cup events[t]
      BY <2>1 DEF wait_read
    <3> QED
      BY <3>1
  <2>2. CASE wait_repost(t)
    <3>1. e \in got[t] /\ e \in want[t]
      BY <2>2 DEF wait_repost
    <3> QED
      BY <3>1 DEF WaitInv
  <2>3. CASE wait_check(t)
    <3>1. UNCHANGED events /\ got[t] \subseteq got'[t]
      BY <2>3 DEF wait_check
    <3> QED
      BY <1>2, <3>1
  <2>4. CASE CallWait(t)
    <3>1. UNCHANGED events /\ pc[t] = "run"
      BY <2>4 DEF CallWait
    <3> QED
      BY <3>1 DEF WaitInv
  <2>5. CASE CallSetEvent(t)
    <3>1. events[t] \subseteq events'[t] /\ pc[t] = "run"
      BY <2>5 DEF CallSetEvent
    <3> QED
      BY <3>1 DEF WaitInv
  <2>6. CASE lock_try(t)
    <3>1. UNCHANGED events /\ pc[t] = "lock_try"
      BY <2>6 DEF lock_try
    <3> QED
      BY <3>1 DEF WaitInv
  <2>7. CASE unlock_next(t)
    <3>1. events[t] \subseteq events'[t] /\ UNCHANGED got
      BY <2>7 DEF unlock_next
    <3> QED
      BY <1>2, <3>1
  <2>8. CASE unlock_clear(t)
    <3>1. events'[t] = events[t] \ {"MUTEX"} /\ UNCHANGED got
      BY <2>8 DEF unlock_clear
    <3> QED
      BY <1>1, <3>1
  <2>9. CASE UNCHANGED <<events, got>>
    BY <2>9
  <2> QED
    BY <1>5, <2>1, <2>2, <2>3, <2>4, <2>5, <2>6, <2>7, <2>8, <2>9
    DEF TaskStep, task_enable_all_tasks, enable_resched, wait_arm,
        wait_desched, wait_cancel, set_resched, mutex_lock, lock_done,
        mutex_unlock, unlock_store, unlock_resched
<1> QED
  BY <1>3, <1>4, <1>5 DEF Next

\* No wait of the kernel itself swallows a client's event, for any set of
\* tasks, events and mutexes.
THEOREM ClientsConsume == Spec => OnlyAClientConsumesItsEvent
<1> DEFINE Inv == TypeOK /\ StackOK /\ WaitInv
           Step == \A t \in Tasks, e \in UserEvents :
                     e \in events[t] \cup got[t]
                     /\ e \notin events'[t] \cup got'[t]
                     => e \in want[t] /\ call[t] \in {"wait", "mask"}
<1>1. Init => Inv
  BY InitType DEF Init, StackOK, WaitInv
<1>2. Inv /\ [Next]_vars => Inv'
  BY NextType, NextStack, NextWait
<1>3. Inv /\ [Next]_vars => Step
  BY StepConsumes
<1>4. Step => [Step]_vars
  OBVIOUS
<1> QED
  BY <1>1, <1>2, <1>3, <1>4, PTL DEF Spec, OnlyAClientConsumesItsEvent
=============================================================================
