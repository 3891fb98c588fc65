-------------------------------- MODULE Hooks --------------------------------
(***************************************************************************)
(* The hook task and its deferred calls, common/hooks.c.                   *)
(*                                                                         *)
(* hook_task() runs the routines whose time has come, then the periodic    *)
(* hooks, and sleeps until the next thing to do.  HOOKS is the lowest task *)
(* but the idle one: any task or interrupt may call hook_call_deferred()   *)
(* between two of its steps, and so may the routines it calls itself.      *)
(***************************************************************************)
EXTENDS Integers, FiniteSets

CONSTANTS
  N,            \* DEFERRED_FUNCS_COUNT
  Delays,       \* the delays routines are called with
  TickInterval, \* HOOK_TICK_INTERVAL
  Second,       \* SECOND
  MaxTime,      \* bound: the clock stops here
  MaxCalls,     \* bound: number of calls to hook_call_deferred()
  MaxLag        \* bound: ticks the hook task takes for a pass of its loop

ASSUME HooksAssumption ==
  /\ {N, MaxTime, MaxCalls, MaxLag} \subseteq Nat /\ MaxTime > 0
  /\ Delays \subseteq Nat
  /\ {TickInterval, Second} \subseteq Nat \ {0}

Routines == 1 .. N

VARIABLES
  now,                \* get_time().val; the clock has started at 1
  defer_until,        \* per routine: when to call it, 0 for never
  defer_new_call,
  hook_task_started,
  event,              \* an event is pending for the hook task
  pc, t, i, next,     \* the hook task: where it is, its local variables
  last_tick, last_second,
  wake_at,            \* end of the timeout of task_wait_event()
  lag,                \* ticks since the hook task could last start a pass
  calls,              \* calls made to hook_call_deferred()
  requested           \* routines requested, not cancelled and not yet called

deferred == <<defer_until, defer_new_call, requested>>
clients  == <<hook_task_started, calls>>
periods  == <<last_tick, last_second>>
vars == <<now, deferred, clients, event, pc, t, i, next, periods, wake_at, lag>>

Init ==
  /\ now = 1
  /\ defer_until = [r \in Routines |-> 0]
  /\ defer_new_call = FALSE /\ hook_task_started = FALSE
  /\ event = FALSE
  /\ pc = "start" /\ t = 0 /\ i = 1 /\ next = 0
  /\ last_tick = -TickInterval /\ last_second = -Second
  /\ wake_at = 0 /\ lag = 0 /\ calls = 0
  /\ requested = {}

Asleep == pc = "asleep" /\ ~event /\ now < wake_at

Tick ==
  /\ now < MaxTime
  /\ Asleep \/ lag < MaxLag
  /\ now' = now + 1
  /\ lag' = IF Asleep THEN 0 ELSE lag + 1
  /\ UNCHANGED <<deferred, clients, event, pc, t, i, next, periods, wake_at>>

-----------------------------------------------------------------------------
(* Clients                                                                 *)

\* Mutant: relies on defer_new_call and does not wake the hook task
hook_call_deferred_no_wake(r, us) ==
  /\ calls < MaxCalls /\ now + us + MaxLag < MaxTime
  /\ calls' = calls + 1
  /\ defer_until' = [defer_until EXCEPT ![r] = now + us]
  /\ defer_new_call' = TRUE
  /\ requested' = requested \cup {r}
  /\ UNCHANGED <<now, hook_task_started, event, pc, t, i, next, periods,
                 wake_at, lag>>

\* Set the alarm, flag the call, wake the hook task once it has started.
\* The delay ends before the model's clock does.
hook_call_deferred(r, us) ==
  /\ calls < MaxCalls /\ now + us + MaxLag < MaxTime
  /\ calls' = calls + 1
  /\ defer_until' = [defer_until EXCEPT ![r] = now + us]
  /\ defer_new_call' = TRUE
  /\ event' = (event \/ hook_task_started)
  /\ requested' = requested \cup {r}
  /\ UNCHANGED <<now, hook_task_started, pc, t, i, next, periods, wake_at, lag>>

\* us == -1
hook_cancel_deferred(r) ==
  /\ calls < MaxCalls
  /\ calls' = calls + 1
  /\ defer_until' = [defer_until EXCEPT ![r] = 0]
  /\ requested' = requested \ {r}
  /\ UNCHANGED <<now, defer_new_call, hook_task_started, event, pc, t, i,
                 next, periods, wake_at, lag>>

Client == \E r \in Routines : \/ \E us \in Delays : hook_call_deferred(r, us)
                              \/ hook_cancel_deferred(r)

-----------------------------------------------------------------------------
(* hook_task()                                                             *)

\* Started; HOOK_INIT hooks; the other tasks are enabled
start ==
  /\ pc = "start"
  /\ hook_task_started' = TRUE
  /\ pc' = "top"
  /\ UNCHANGED <<now, deferred, calls, event, t, i, next, periods, wake_at, lag>>

\* t = get_time().val
top ==
  /\ pc = "top"
  /\ t' = now /\ i' = 1 /\ next' = 0 /\ lag' = 0
  /\ pc' = "check"
  /\ UNCHANGED <<now, deferred, clients, event, periods, wake_at>>

\* if (defer_until[i] && defer_until[i] < t)
check ==
  /\ pc = "check"
  /\ IF i > N THEN pc' = "periodic" /\ UNCHANGED i
     ELSE IF defer_until[i] # 0 /\ defer_until[i] < t
     THEN pc' = "clear" /\ UNCHANGED i
     ELSE i' = i + 1 /\ UNCHANGED pc
  /\ UNCHANGED <<now, deferred, clients, event, t, next, periods, wake_at, lag>>

\* Clear the timer first, so that the routine can request itself
clear ==
  /\ pc = "clear"
  /\ defer_until' = [defer_until EXCEPT ![i] = 0]
  /\ pc' = "call"
  /\ UNCHANGED <<now, defer_new_call, requested, clients, event, t, i, next,
                 periods, wake_at, lag>>

\* Mutant: clears the timer after the call, which may have set it again
call_then_clear ==
  /\ pc = "call"
  /\ requested' = IF defer_until[i] = 0 THEN requested \ {i} ELSE requested
  /\ defer_until' = [defer_until EXCEPT ![i] = 0]
  /\ i' = i + 1
  /\ pc' = "check"
  /\ UNCHANGED <<now, defer_new_call, clients, event, t, next, periods,
                 wake_at, lag>>

\* The routine is called; what it requests itself are calls of Client
call ==
  /\ pc = "call"
  /\ requested' = IF defer_until[i] = 0 THEN requested \ {i} ELSE requested
  /\ i' = i + 1
  /\ pc' = "check"
  /\ UNCHANGED <<now, defer_until, defer_new_call, clients, event, t, next,
                 periods, wake_at, lag>>

\* Mutant: one kind of periodic hook in each pass
periodic_one ==
  /\ pc = "periodic"
  /\ last_tick' = IF t - last_tick >= TickInterval THEN t ELSE last_tick
  /\ last_second' = IF t - last_tick < TickInterval /\ t - last_second >= Second
                    THEN t ELSE last_second
  /\ pc' = "calc"
  /\ UNCHANGED <<now, deferred, clients, event, t, i, next, wake_at, lag>>

\* HOOK_TICK and HOOK_SECOND
periodic ==
  /\ pc = "periodic"
  /\ last_tick' = IF t - last_tick >= TickInterval THEN t ELSE last_tick
  /\ last_second' = IF t - last_second >= Second THEN t ELSE last_second
  /\ pc' = "calc"
  /\ UNCHANGED <<now, deferred, clients, event, t, i, next, wake_at, lag>>

\* Mutant: does not look whether the tick is already due
calc_no_floor ==
  /\ pc = "calc"
  /\ t' = now
  /\ next' = last_tick + TickInterval - now
  /\ pc' = "flag"
  /\ UNCHANGED <<now, deferred, clients, event, i, periods, wake_at, lag>>

\* t = get_time().val; when must the next tick occur?
calc ==
  /\ pc = "calc"
  /\ t' = now
  /\ next' = IF last_tick + TickInterval > now
             THEN last_tick + TickInterval - now ELSE 0
  /\ pc' = "flag"
  /\ UNCHANGED <<now, deferred, clients, event, i, periods, wake_at, lag>>

\* defer_new_call = 0
flag ==
  /\ pc = "flag"
  /\ defer_new_call' = FALSE
  /\ i' = 1
  /\ pc' = "plan"
  /\ UNCHANGED <<now, defer_until, requested, clients, event, t, next,
                 periods, wake_at, lag>>

\* Wake earlier if needed by deferred routine i
plan ==
  /\ pc = "plan"
  /\ IF i > N \/ next = 0
     THEN pc' = "decide" /\ UNCHANGED <<i, next>>
     ELSE /\ i' = i + 1
          /\ next' = CASE defer_until[i] = 0 -> next
                       [] defer_until[i] # 0 /\ defer_until[i] < t -> 0
                       [] OTHER -> IF defer_until[i] - t < next
                                   THEN defer_until[i] - t ELSE next
          /\ UNCHANGED pc
  /\ UNCHANGED <<now, deferred, clients, event, t, periods, wake_at, lag>>

\* if (next > 0 && !defer_new_call)
decide ==
  /\ pc = "decide"
  /\ pc' = IF next > 0 /\ ~defer_new_call THEN "wait" ELSE "top"
  /\ UNCHANGED <<now, deferred, clients, event, t, i, next, periods, wake_at,
                 lag>>

\* task_wait_event(next), which returns when an event is already pending
wait ==
  /\ pc = "wait"
  /\ IF event THEN pc' = "top" /\ event' = FALSE /\ UNCHANGED wake_at
              ELSE pc' = "asleep" /\ wake_at' = now + next /\ UNCHANGED event
  /\ UNCHANGED <<now, deferred, clients, t, i, next, periods, lag>>

wake ==
  /\ pc = "asleep" /\ ~Asleep
  /\ event' = FALSE
  /\ pc' = "top"
  /\ wake_at' = 0
  /\ UNCHANGED <<now, deferred, clients, t, i, next, periods, lag>>

hook_task == \/ start \/ top \/ check \/ clear \/ call \/ periodic
             \/ calc \/ flag \/ plan \/ decide \/ wait \/ wake

Next == Tick \/ Client \/ hook_task

\* Time passes and the hook task, which nothing starves for ever, goes on.
Spec == Init /\ [][Next]_vars /\ WF_vars(Tick) /\ WF_vars(hook_task)

-----------------------------------------------------------------------------
\* Every variable has its type; in particular the hook task never plans to
\* sleep for less than no time or for more than a tick.
TypeOK ==
  /\ now \in 1 .. MaxTime
  /\ defer_until \in [Routines -> 0 .. MaxTime]
  /\ {defer_new_call, hook_task_started, event} \subseteq BOOLEAN
  /\ pc \in {"start", "top", "check", "clear", "call", "periodic", "calc",
             "flag", "plan", "decide", "wait", "asleep"}
  /\ t \in 0 .. MaxTime /\ i \in 1 .. N + 1 /\ next \in 0 .. TickInterval
  /\ last_tick \in -TickInterval .. MaxTime
  /\ last_second \in -Second .. MaxTime
  /\ wake_at \in 0 .. MaxTime + TickInterval
  /\ lag \in 0 .. MaxLag /\ calls \in 0 .. MaxCalls
  /\ requested \subseteq Routines

\* While the hook task sleeps with no event pending, its timeout ends in time
\* for the next tick and for every deferred routine, whenever that was
\* requested: before the sleep was planned, while it was, or since.
SleepIsShort ==
  Asleep =>
    /\ wake_at <= last_tick + TickInterval + MaxLag
    /\ \A r \in Routines : defer_until[r] # 0 =>
                             wake_at <= defer_until[r] + MaxLag

\* Neither kind of periodic hook falls behind by more than the interval of
\* the wake-ups and the time two passes of the loop take.
PeriodicHooksOnTime ==
  pc \notin {"start", "top", "check", "clear", "call", "periodic"} =>
    /\ now - last_tick <= TickInterval + 2 * MaxLag
    /\ now - last_second < Second + TickInterval + 2 * MaxLag

\* A requested routine is called or cancelled, although the request may come
\* at any point of the loop, even from the routine itself.
RequestsAreServed ==
  \A r \in Routines : r \in requested ~> r \notin requested
=============================================================================
