------------------------------- MODULE Timers -------------------------------
(***************************************************************************)
(* The task timers and the 64-bit clock of common/timer.c, with the        *)
(* hardware counter they are built on (chip/lm4/hwtimer.c).                *)
(*                                                                         *)
(* A free-running counter of Wrap values is extended by a word in memory   *)
(* that the timer interrupt increments when the counter wraps.  One match  *)
(* register serves the deadlines of all tasks.  Time passes between any    *)
(* two steps, of the tasks and of the interrupt handler; tasks take no     *)
(* step while the timer interrupt is pending or being handled.             *)
(***************************************************************************)
EXTENDS Naturals, FiniteSets

CONSTANTS
  Tasks,        \* the tasks that use timers
  Wrap,         \* values of the hardware counter (2^32 in the code)
  Timeouts,     \* the delays tasks ask for
  MaxTime,      \* bound: the model ends after this many ticks
  MaxLatency    \* bound: ticks from a timer interrupt to the end of handling

ASSUME TimersAssumption ==
  /\ Wrap \in Nat \ {0} /\ MaxTime \in Nat
  /\ Timeouts \subseteq Nat
  /\ MaxLatency \in Nat /\ 2 * MaxLatency <= Wrap

None == Wrap - 1     \* next_deadline when the match register is not in use

VARIABLES
  now,             \* ticks since the clock was started
  clksrc_high,     \* high word of the clock
  overflow,        \* interrupt status: the counter has wrapped
  matched,         \* interrupt status: the counter has reached the match
  triggered,       \* task_trigger_irq(timer_irq)
  match,           \* match register, or Wrap when its interrupt is disabled
  next_deadline,   \* low word of the deadline in the match register
  timer_running,   \* tasks whose timer is running
  timer_deadline,  \* per task: the 64-bit deadline
  timer_event,     \* tasks with TASK_EVENT_TIMER pending
  isr, isr_next,   \* the handler: where it is, the deadline it will set
  latency,         \* ticks since the interrupt became pending
  pc, ts_hi, ts_lo, timeout,  \* per task: where it is, its timestamp, delay
  asked            \* per task: the time at which its get_time() was called

hardware == <<overflow, matched, match>>
handler  == <<isr, isr_next, latency>>
timers   == <<timer_running, timer_deadline, timer_event>>
tasks    == <<pc, ts_hi, ts_lo, timeout, asked>>
vars == <<now, clksrc_high, hardware, triggered, next_deadline, timers,
          handler, tasks>>

hi(val) == val \div Wrap
lo(val) == val % Wrap
Least(S) == CHOOSE x \in S : \A y \in S : x <= y

IrqPending == overflow \/ matched \/ triggered
InIsr == isr # "idle"

Init ==
  /\ now = 0 /\ clksrc_high = 0
  /\ overflow = FALSE /\ matched = FALSE /\ triggered = FALSE
  /\ match = Wrap /\ next_deadline = None
  /\ timer_running = {}
  /\ timer_deadline = [t \in Tasks |-> 0]
  /\ timer_event = {}
  /\ isr = "idle" /\ isr_next = 0 /\ latency = 0
  /\ pc = [t \in Tasks |-> "run"]
  /\ ts_hi = [t \in Tasks |-> 0]
  /\ ts_lo = [t \in Tasks |-> 0]
  /\ timeout = [t \in Tasks |-> 0]
  /\ asked = [t \in Tasks |-> 0]

-----------------------------------------------------------------------------
(* The hardware counter, extended with the time the counter has run in all *)

\* No get_time() and no timer interrupt takes a whole period of the counter.
Tick ==
  /\ now < MaxTime
  /\ IrqPending \/ InIsr => latency < MaxLatency
  /\ \A t \in Tasks : pc[t] \in {"read_lo", "recheck", "reread_lo"} =>
                      now - asked[t] < Wrap - 1
  /\ now' = now + 1
  /\ overflow' = (overflow \/ lo(now + 1) = 0)
  /\ matched' = (matched \/ lo(now + 1) = match)
  /\ latency' = IF IrqPending \/ InIsr THEN latency + 1 ELSE 0
  /\ UNCHANGED <<clksrc_high, match, triggered, next_deadline, timers, isr,
                 isr_next, tasks>>

-----------------------------------------------------------------------------
(* The timer interrupt: __hw_clock_source_irq() and process_timers()       *)

\* Mutant: loses the wrap of the counter
isr_enter_no_overflow ==
  /\ ~InIsr /\ IrqPending
  /\ overflow' = FALSE /\ matched' = FALSE /\ triggered' = FALSE
  /\ isr' = "scan"
  /\ UNCHANGED <<now, clksrc_high, match, next_deadline, timers, isr_next,
                 latency, tasks>>

\* Read and clear the interrupt status; if (overflow) clksrc_high++
isr_enter ==
  /\ ~InIsr /\ IrqPending
  /\ overflow' = FALSE /\ matched' = FALSE /\ triggered' = FALSE
  /\ clksrc_high' = IF overflow THEN clksrc_high + 1 ELSE clksrc_high
  /\ isr' = "scan"
  /\ UNCHANGED <<now, match, next_deadline, timers, isr_next, latency, tasks>>

\* get_time() while no task and no timer interrupt can run
IsrTime == clksrc_high * Wrap + lo(now)

\* The deadlines of this period of the counter that are still ahead.  The
\* search starts from 0xffffffff with a strict comparison, so the last value
\* of the period is never chosen.
Ahead == {timer_deadline[t] : t \in
            {u \in timer_running : /\ IsrTime < timer_deadline[u]
                                   /\ hi(timer_deadline[u]) = clksrc_high
                                   /\ lo(timer_deadline[u]) < None}}

\* Mutant: expires a timer of this period whatever its low word
isr_scan_high_only ==
  LET expired == {t \in timer_running : hi(timer_deadline[t]) <= clksrc_high}
  IN /\ isr = "scan"
     /\ timer_running' = timer_running \ expired
     /\ timer_event' = timer_event \cup expired
     /\ match' = Wrap /\ next_deadline' = None
     /\ isr' = "idle" /\ isr_next' = 0 /\ latency' = 0
     /\ UNCHANGED <<now, clksrc_high, overflow, matched, triggered,
                    timer_deadline, tasks>>

\* Expire what is due at the time just read; look for the next deadline.
\* When there is none, disable the match interrupt and return.
isr_scan ==
  LET expired == {t \in timer_running : timer_deadline[t] <= IsrTime}
  IN /\ isr = "scan"
     /\ timer_running' = timer_running \ expired
     /\ timer_event' = timer_event \cup expired
     /\ IF Ahead = {}
        THEN /\ match' = Wrap /\ next_deadline' = None
             /\ isr' = "idle" /\ isr_next' = 0 /\ latency' = 0
        ELSE /\ isr' = "set" /\ isr_next' = Least(Ahead)
             /\ UNCHANGED <<match, next_deadline, latency>>
     /\ UNCHANGED <<now, clksrc_high, overflow, matched, triggered,
                    timer_deadline, tasks>>

\* Mutant: keeps more of the deadline than its low word
isr_set_whole_deadline ==
  /\ isr = "set"
  /\ match' = lo(isr_next)
  /\ next_deadline' = isr_next
  /\ isr' = "recheck"
  /\ UNCHANGED <<now, clksrc_high, overflow, matched, triggered, timers,
                 isr_next, latency, tasks>>

\* __hw_clock_event_set(next.le.lo); next_deadline = next.le.lo
isr_set ==
  /\ isr = "set"
  /\ match' = lo(isr_next)
  /\ next_deadline' = lo(isr_next)
  /\ isr' = "recheck"
  /\ UNCHANGED <<now, clksrc_high, overflow, matched, triggered, timers,
                 isr_next, latency, tasks>>

\* Mutant: does not look whether the deadline passed before it was set
isr_recheck_skipped ==
  /\ isr = "recheck"
  /\ isr' = "idle" /\ isr_next' = 0 /\ latency' = 0
  /\ UNCHANGED <<now, clksrc_high, hardware, triggered, next_deadline,
                 timers, tasks>>

\* while (next.val <= get_time().val)
isr_recheck ==
  /\ isr = "recheck"
  /\ isr_next' = 0
  /\ IF isr_next <= IsrTime
     THEN isr' = "scan" /\ UNCHANGED latency
     ELSE isr' = "idle" /\ latency' = 0
  /\ UNCHANGED <<now, clksrc_high, hardware, triggered, next_deadline,
                 timers, tasks>>

Isr == isr_enter \/ isr_scan \/ isr_set \/ isr_recheck

-----------------------------------------------------------------------------
(* A task: get_time(), timer_arm(), then timer_cancel()                    *)

TaskAt(t, label) ==
  /\ ~IrqPending /\ ~InIsr
  /\ pc[t] = label

Goto(t, label) == pc' = [pc EXCEPT ![t] = label]

\* __wait_evt(timeout): ts.le.hi = clksrc_high
get_time(t) ==
  /\ TaskAt(t, "run")
  /\ \E us \in Timeouts : /\ now + us + Wrap < MaxTime
                          /\ timeout' = [timeout EXCEPT ![t] = us]
  /\ asked' = [asked EXCEPT ![t] = now]
  /\ ts_hi' = [ts_hi EXCEPT ![t] = clksrc_high]
  /\ Goto(t, "read_lo")
  /\ UNCHANGED <<now, clksrc_high, hardware, triggered, next_deadline,
                 timers, handler, ts_lo>>

\* ts.le.lo = __hw_clock_source_read()
get_time_lo(t) ==
  /\ pc[t] \in {"read_lo", "reread_lo"}
  /\ TaskAt(t, pc[t])
  /\ ts_lo' = [ts_lo EXCEPT ![t] = lo(now)]
  /\ Goto(t, IF pc[t] = "read_lo" THEN "recheck" ELSE "arm")
  /\ UNCHANGED <<now, clksrc_high, hardware, triggered, next_deadline,
                 timers, handler, ts_hi, timeout, asked>>

\* Mutant: returns without looking at the high word again
get_time_hi_once(t) ==
  /\ TaskAt(t, "recheck")
  /\ Goto(t, "arm")
  /\ UNCHANGED <<now, clksrc_high, hardware, triggered, next_deadline,
                 timers, handler, ts_hi, ts_lo, timeout, asked>>

\* if (ts.le.hi != clksrc_high), read both words again
get_time_hi(t) ==
  /\ TaskAt(t, "recheck")
  /\ ts_hi' = [ts_hi EXCEPT ![t] = clksrc_high]
  /\ Goto(t, IF ts_hi[t] # clksrc_high THEN "reread_lo" ELSE "arm")
  /\ UNCHANGED <<now, clksrc_high, hardware, triggered, next_deadline,
                 timers, handler, ts_lo, timeout, asked>>

TimeRead(t) == ts_hi[t] * Wrap + ts_lo[t]

\* timer_arm(): set the deadline, mark the timer running.  The tasks arm
\* their own timer only, and never while it is running.
timer_arm(t) ==
  /\ TaskAt(t, "arm")
  /\ timer_deadline' = [timer_deadline EXCEPT ![t] = TimeRead(t) + timeout[t]]
  /\ timer_running' = timer_running \cup {t}
  /\ Goto(t, "trigger")
  /\ UNCHANGED <<now, clksrc_high, hardware, triggered, next_deadline,
                 timer_event, handler, ts_hi, ts_lo, timeout, asked>>

\* Trigger the interrupt if the deadline comes before the one that is set
arm_trigger(t) ==
  /\ TaskAt(t, "trigger")
  /\ triggered' = \/ hi(timer_deadline[t]) < clksrc_high
                  \/ /\ hi(timer_deadline[t]) = clksrc_high
                     /\ lo(timer_deadline[t]) <= next_deadline
  /\ Goto(t, "wait")
  /\ ts_hi' = [ts_hi EXCEPT ![t] = 0]
  /\ ts_lo' = [ts_lo EXCEPT ![t] = 0]
  /\ timeout' = [timeout EXCEPT ![t] = 0]
  /\ asked' = [asked EXCEPT ![t] = 0]
  /\ UNCHANGED <<now, clksrc_high, hardware, next_deadline, timers, handler>>

\* The wait is over, by the timer or by another event: timer_cancel()
timer_cancel(t) ==
  /\ TaskAt(t, "wait")
  /\ timer_running' = timer_running \ {t}
  /\ timer_event' = timer_event \ {t}
  /\ timer_deadline' = [timer_deadline EXCEPT ![t] = 0]
  /\ Goto(t, "run")
  /\ UNCHANGED <<now, clksrc_high, hardware, triggered, next_deadline,
                 handler, ts_hi, ts_lo, timeout, asked>>

TaskStep(t) ==
  \/ get_time(t) \/ get_time_lo(t) \/ get_time_hi(t)
  \/ timer_arm(t) \/ arm_trigger(t) \/ timer_cancel(t)

Next == Tick \/ Isr \/ \E t \in Tasks : TaskStep(t)

\* Time passes, a pending interrupt is handled, and a task that is reading
\* the clock or arming its timer goes on.
Spec == Init /\ [][Next]_vars /\ WF_vars(Tick) /\ WF_vars(Isr)
             /\ \A t \in Tasks : WF_vars(get_time_lo(t) \/ get_time_hi(t)
                                         \/ timer_arm(t) \/ arm_trigger(t))

-----------------------------------------------------------------------------
\* Every variable has its type; in particular the clock never carries more
\* often than the counter wraps and a deadline fits the match register.
TypeOK ==
  /\ now \in 0 .. MaxTime
  /\ clksrc_high \in 0 .. MaxTime \div Wrap
  /\ {overflow, matched, triggered} \subseteq BOOLEAN
  /\ match \in 0 .. Wrap /\ next_deadline \in 0 .. None
  /\ timer_running \subseteq Tasks /\ timer_event \subseteq Tasks
  /\ timer_deadline \in [Tasks -> 0 .. MaxTime]
  /\ isr \in {"idle", "scan", "set", "recheck"}
  /\ isr_next \in 0 .. MaxTime /\ latency \in 0 .. MaxLatency
  /\ pc \in [Tasks -> {"run", "read_lo", "recheck", "reread_lo", "arm",
                       "trigger", "wait"}]
  /\ ts_hi \in [Tasks -> 0 .. MaxTime \div Wrap]
  /\ ts_lo \in [Tasks -> 0 .. None]
  /\ timeout \in [Tasks -> 0 .. MaxTime]
  /\ asked \in [Tasks -> 0 .. MaxTime]

\* get_time() in a task returns a time between its call and its return,
\* although the two words are read apart and the counter may wrap between.
GetTimeIsCurrent ==
  \A t \in Tasks : pc[t] = "arm" => /\ asked[t] <= TimeRead(t)
                                    /\ TimeRead(t) <= now

\* A timer that has been armed never stays running after its deadline unless
\* its interrupt is on the way.  The last value of a period is the exception:
\* the interrupt of that deadline is the one of the wrap that follows.
NoTimerIsMissed ==
  \A t \in timer_running :
    pc[t] = "wait" /\ ~IrqPending /\ ~InIsr =>
      \/ now < timer_deadline[t]
      \/ now = timer_deadline[t] /\ lo(now) = None

\* The timer interrupt ends a timer only at or after its deadline.
NoTimerIsEarly ==
  [][\A t \in timer_event' \ timer_event : timer_deadline[t] <= now]_vars

\* Every timer is ended: it expires or its task cancels it.
TimersEnd ==
  \A t \in Tasks : t \in timer_running ~> t \notin timer_running
=============================================================================
