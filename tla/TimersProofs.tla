---------------------------- MODULE TimersProofs ----------------------------
(***************************************************************************)
(* Theorems about the clock and the task timers of Timers.  The inductive  *)
(* invariant IInv says how far the word in memory may be behind the        *)
(* counter, what a task that reads the clock has read so far, and which    *)
(* deadlines the match register and the handler answer for.                *)
(***************************************************************************)
EXTENDS Timers, TLAPS, WellFoundedInduction

-----------------------------------------------------------------------------
(* The two words of a time                                                 *)

LEMMA Constants ==
  /\ Wrap \in Nat /\ Wrap > 0 /\ MaxTime \in Nat /\ MaxLatency \in Nat
  /\ 2 * MaxLatency <= Wrap /\ Timeouts \subseteq Nat
BY TimersAssumption

USE Constants

\* A time is made of its words.
LEMMA Divide ==
  ASSUME NEW n \in Nat
  PROVE  hi(n) \in Nat /\ lo(n) \in 0 .. Wrap - 1 /\ n = hi(n) * Wrap + lo(n)
<1>1. \A m \in Int, w \in Nat \ {0} : m - (m % w) = (m \div w) * w
  OBVIOUS
<1>2. n - (n % Wrap) = (n \div Wrap) * Wrap
  BY <1>1
<1>3. n \div Wrap \in Nat /\ n % Wrap \in 0 .. Wrap - 1
  OBVIOUS
<1>4. PICK p \in Int : p = (n \div Wrap) * Wrap
  BY <1>3
<1>5. n = p + (n % Wrap)
  BY <1>2, <1>3, <1>4
<1> QED
  BY <1>3, <1>4, <1>5 DEF hi, lo

\* Words make up a time that has them.
LEMMA Compose ==
  ASSUME NEW q \in Nat, NEW r \in 0 .. Wrap - 1
  PROVE  q * Wrap + r \in Nat /\ hi(q * Wrap + r) = q /\ lo(q * Wrap + r) = r
<1>1. \A n \in Int, w \in Nat \ {0} : \A s \in 0 .. w - 1 :
        n = q * w + s => n \div w = q /\ n % w = s
  OBVIOUS
<1>2. q * Wrap + r \in Nat
  OBVIOUS
<1> QED
  BY <1>1, <1>2 DEF hi, lo

\* The counter goes on by one, or wraps.
LEMMA Succ ==
  ASSUME NEW n \in Nat
  PROVE  \/ lo(n + 1) = 0 /\ hi(n + 1) = hi(n) + 1 /\ lo(n) = Wrap - 1
         \/ lo(n + 1) = lo(n) + 1 /\ hi(n + 1) = hi(n)
<1>1. hi(n) \in Nat /\ lo(n) \in 0 .. Wrap - 1 /\ n = hi(n) * Wrap + lo(n)
  BY Divide
<1>2. CASE lo(n) = Wrap - 1
  <2>1. (hi(n) + 1) * Wrap = hi(n) * Wrap + Wrap
    BY <1>1
  <2>2. n + 1 = (hi(n) + 1) * Wrap + 0
    BY <1>1, <1>2, <2>1
  <2>3. hi((hi(n) + 1) * Wrap + 0) = hi(n) + 1 /\ lo((hi(n) + 1) * Wrap + 0) = 0
    <3>1. PICK q \in Nat : q = hi(n) + 1
      BY <1>1
    <3>2. PICK r \in 0 .. Wrap - 1 : r = 0
      OBVIOUS
    <3>3. hi(q * Wrap + r) = q /\ lo(q * Wrap + r) = r
      BY Compose
    <3> QED
      BY <3>1, <3>2, <3>3
  <2> QED
    BY <1>2, <2>2, <2>3
<1>3. CASE lo(n) # Wrap - 1
  <2>1. lo(n) + 1 \in 0 .. Wrap - 1 /\ n + 1 = hi(n) * Wrap + (lo(n) + 1)
    BY <1>1, <1>3
  <2>2. /\ hi(hi(n) * Wrap + (lo(n) + 1)) = hi(n)
        /\ lo(hi(n) * Wrap + (lo(n) + 1)) = lo(n) + 1
    BY <1>1, <2>1, Compose
  <2> QED
    BY <2>1, <2>2
<1> QED
  BY <1>2, <1>3

\* Times are ordered by their high words, then by their low words.
LEMMA Order ==
  ASSUME NEW m \in Nat, NEW n \in Nat
  PROVE  /\ hi(m) < hi(n) => m < n
         /\ m <= n => hi(m) <= hi(n)
         /\ hi(m) = hi(n) => n - m = lo(n) - lo(m)
         /\ hi(n) = hi(m) + 1 => n - m = lo(n) + Wrap - lo(m)
         /\ hi(m) + 2 <= hi(n) => n - m > Wrap
<1>1. /\ hi(n) \in Nat /\ lo(n) \in 0 .. Wrap - 1 /\ n = hi(n) * Wrap + lo(n)
      /\ hi(m) \in Nat /\ lo(m) \in 0 .. Wrap - 1 /\ m = hi(m) * Wrap + lo(m)
  BY Divide
<1>2. /\ hi(n) * Wrap \in Int /\ hi(m) * Wrap \in Int
      /\ hi(n) * Wrap - hi(m) * Wrap = (hi(n) - hi(m)) * Wrap
  BY <1>1
<1>3. PICK d \in Int : d = hi(n) - hi(m)
  BY <1>1
<1>4. /\ d > 0 => d * Wrap >= Wrap
      /\ d = 0 => d * Wrap = 0
      /\ d = 1 => d * Wrap = Wrap
      /\ d >= 2 => d * Wrap >= 2 * Wrap
      /\ -d > 0 => -(d * Wrap) >= Wrap
  BY <1>3
<1>5. PICK e \in Int : e = d * Wrap
  OBVIOUS
<1>6. n - m = e + lo(n) - lo(m)
  <2>1. PICK a \in Int : a = hi(n) * Wrap
    BY <1>2
  <2>2. PICK b \in Int : b = hi(m) * Wrap
    BY <1>2
  <2>3. a - b = e
    BY <1>2, <1>3, <1>5, <2>1, <2>2
  <2> QED
    BY <1>1, <2>1, <2>2, <2>3
<1>7. /\ d > 0 => e >= Wrap
      /\ d = 0 => e = 0
      /\ d = 1 => e = Wrap
      /\ d >= 2 => e >= 2 * Wrap
      /\ d < 0 => e <= -Wrap
  BY <1>4, <1>5
<1> HIDE <1>2, <1>4, <1>5
<1>8. PICK x \in 0 .. Wrap - 1 : x = lo(n)
  BY <1>1
<1>9. PICK y \in 0 .. Wrap - 1 : y = lo(m)
  BY <1>1
<1>10. n - m = e + x - y
  BY <1>6, <1>8, <1>9
<1>11. /\ hi(m) < hi(n) => d > 0
       /\ hi(m) > hi(n) => d < 0
       /\ hi(m) = hi(n) => d = 0
       /\ hi(n) = hi(m) + 1 => d = 1
       /\ hi(m) + 2 <= hi(n) => d >= 2
  BY <1>1, <1>3
<1>12. /\ d > 0 => m < n
       /\ d < 0 => m > n
       /\ d = 0 => n - m = x - y
       /\ d = 1 => n - m = x + Wrap - y
       /\ d >= 2 => n - m > Wrap
  BY <1>7, <1>10
<1>13. hi(m) <= hi(n) \/ hi(m) > hi(n)
  BY <1>1
<1> QED
  BY <1>8, <1>9, <1>11, <1>12, <1>13

\* A set of natural numbers that is not empty has a least element.
LEMMA LeastIsLeast ==
  ASSUME NEW S \in SUBSET Nat, S # {}
  PROVE  Least(S) \in S /\ \A y \in S : Least(S) <= y
<1>1. PICK x \in S : \A y \in S : <<y, x>> \notin OpToRel(<, Nat)
  BY NatLessThanWellFounded, WFMin
<1>2. \A y \in S : ~(y < x)
  BY <1>1 DEF OpToRel
<1>3. \A y \in S : x \in Nat /\ y \in Nat
  OBVIOUS
<1>4. \A y \in S : x <= y
  BY <1>2, <1>3
<1> QED
  BY <1>4 DEF Least

-----------------------------------------------------------------------------
(* The invariant                                                           *)

\* The word in memory is right, or one behind while the wrap is not handled.
\* That is soon: a wrap during the handling of an interrupt waits for the
\* next one.
Clock ==
  /\ IF overflow THEN clksrc_high + 1 = hi(now) ELSE clksrc_high = hi(now)
  /\ overflow => \/ lo(now) < latency
                 \/ ~InIsr /\ (lo(now) <= latency \/ lo(now) < latency + MaxLatency)

\* What get_time() has read so far
ReadHigh(t) == pc[t] = "read_lo" => ts_hi[t] = hi(asked[t])
ReadLow(t) ==
  pc[t] = "recheck" =>
    /\ ts_hi[t] = hi(asked[t])
    /\ \E x \in Nat : asked[t] <= x /\ x <= now /\ ts_lo[t] = lo(x)
ReadAgain(t) ==
  pc[t] = "reread_lo" => ts_hi[t] = hi(asked[t]) + 1 /\ ts_hi[t] <= hi(now)
HasRead(t) ==
  pc[t] = "arm" => /\ asked[t] <= TimeRead(t) /\ TimeRead(t) <= now
                   /\ TimeRead(t) < asked[t] + Wrap
InTime(t) ==
  /\ pc[t] \in {"read_lo", "recheck", "reread_lo"} =>
       asked[t] <= now /\ now < asked[t] + Wrap
  /\ pc[t] \in {"read_lo", "recheck", "reread_lo", "arm"} =>
       asked[t] + timeout[t] + Wrap < MaxTime
Reading(t) == ReadHigh(t) /\ ReadLow(t) /\ ReadAgain(t) /\ HasRead(t) /\ InTime(t)

\* The deadline of t is in a later period, or not before the one that is (or
\* is about to be) in the match register.
Later(t) == hi(timer_deadline[t]) > clksrc_high
SamePeriod(t) == hi(timer_deadline[t]) = clksrc_high
Answered(t) == Later(t) \/ (SamePeriod(t) /\ next_deadline <= lo(timer_deadline[t]))
WillBeAnswered(t) ==
  Later(t) \/ (SamePeriod(t) /\ (\/ lo(timer_deadline[t]) = None
                                 \/ isr_next <= timer_deadline[t]))

\* The handler has found the next deadline.
Handling ==
  /\ isr \in {"set", "recheck"} =>
       /\ hi(isr_next) = clksrc_high /\ lo(isr_next) < None
       /\ \A t \in timer_running : pc[t] = "wait" => WillBeAnswered(t)
  /\ isr = "recheck" => match = lo(isr_next) /\ next_deadline = match

Quiet == ~IrqPending /\ ~InIsr

\* Nothing is pending: the match is ahead, and it answers for all timers.
Armed ==
  Quiet => /\ next_deadline # None => next_deadline = match /\ lo(now) < match
           /\ \A t \in timer_running : pc[t] = "wait" => Answered(t)

IInv == TypeOK /\ Clock /\ (\A t \in Tasks : Reading(t)) /\ Handling /\ Armed

\* The types, as facts about numbers
LEMMA Types ==
  ASSUME TypeOK
  PROVE  /\ now \in Nat /\ clksrc_high \in Nat /\ match \in Nat
         /\ next_deadline \in Nat /\ next_deadline <= None /\ None \in Int
         /\ isr_next \in Nat /\ latency \in Nat /\ latency <= MaxLatency
         /\ lo(now) \in 0 .. Wrap - 1 /\ hi(now) \in Nat
BY Divide DEF TypeOK, None

LEMMA InitIInv == Init => IInv
<1> SUFFICES ASSUME Init PROVE IInv
  OBVIOUS
<1>1. hi(0) = 0 /\ lo(0) = 0
  BY DEF hi, lo
<1>2. hi(MaxTime) \in Nat
  BY Divide
<1>3. TypeOK
  <2>1. \A S : 0 \in S => [t \in Tasks |-> 0] \in [Tasks -> S]
    OBVIOUS
  <2>2. 0 \in 0 .. MaxTime /\ 0 \in 0 .. None /\ 0 \in 0 .. hi(MaxTime)
    BY <1>2 DEF None
  <2>3. /\ timer_deadline \in [Tasks -> 0 .. MaxTime]
        /\ ts_hi \in [Tasks -> 0 .. MaxTime \div Wrap]
        /\ ts_lo \in [Tasks -> 0 .. None]
        /\ timeout \in [Tasks -> 0 .. MaxTime]
        /\ asked \in [Tasks -> 0 .. MaxTime]
    BY <2>1, <2>2 DEF Init, hi
  <2>4. pc \in [Tasks -> {"run", "read_lo", "recheck", "reread_lo", "arm",
                          "trigger", "wait"}]
    BY DEF Init
  <2>5. /\ now \in 0 .. MaxTime /\ clksrc_high \in 0 .. MaxTime \div Wrap
        /\ match \in 0 .. Wrap /\ next_deadline \in 0 .. None
        /\ isr_next \in 0 .. MaxTime /\ latency \in 0 .. MaxLatency
    BY <1>2 DEF Init, None, hi
  <2> QED
    BY <2>3, <2>4, <2>5 DEF Init, TypeOK
<1>4. Clock
  BY <1>1 DEF Init, Clock
<1>5. \A t \in Tasks : Reading(t)
  BY DEF Init, Reading, ReadHigh, ReadLow, ReadAgain, HasRead, InTime
<1>6. Handling /\ Armed
  BY DEF Init, Handling, Armed, Quiet
<1> QED
  BY <1>3, <1>4, <1>5, <1>6 DEF IInv

\* get_time() in the handler is right, or a whole period early.
LEMMA TimeInIsr ==
  ASSUME TypeOK, Clock
  PROVE  /\ IsrTime \in Nat /\ hi(IsrTime) = clksrc_high /\ lo(IsrTime) = lo(now)
         /\ IsrTime <= now
         /\ ~overflow => IsrTime = now
<1>1. IsrTime \in Nat /\ hi(IsrTime) = clksrc_high /\ lo(IsrTime) = lo(now)
  BY Types, Compose DEF IsrTime
<1>2. hi(IsrTime) = hi(now) => now - IsrTime = lo(now) - lo(IsrTime)
  BY <1>1, Types, Order
<1>3. hi(IsrTime) < hi(now) => IsrTime < now
  BY <1>1, Types, Order
<1> QED
  BY <1>1, <1>2, <1>3, Types DEF Clock

\* A step of a task leaves the clock, the handler and the other tasks alone.
LEMMA TaskStepLeaves ==
  ASSUME TypeOK, NEW t \in Tasks, TaskStep(t)
  PROVE  /\ now' = now /\ clksrc_high' = clksrc_high /\ overflow' = overflow
         /\ matched' = matched /\ match' = match /\ isr' = isr
         /\ isr_next' = isr_next /\ latency' = latency
         /\ next_deadline' = next_deadline /\ Quiet
         /\ \A u \in Tasks \ {t} :
              /\ pc'[u] = pc[u] /\ ts_hi'[u] = ts_hi[u] /\ ts_lo'[u] = ts_lo[u]
              /\ timeout'[u] = timeout[u] /\ asked'[u] = asked[u]
              /\ timer_deadline'[u] = timer_deadline[u]
              /\ u \in timer_running' <=> u \in timer_running
<1>1. CASE get_time(t)
  BY <1>1 DEF get_time, TaskAt, Goto, Quiet, hardware, handler, timers, TypeOK
<1>2. CASE get_time_lo(t)
  BY <1>2 DEF get_time_lo, TaskAt, Goto, Quiet, hardware, handler, timers, TypeOK
<1>3. CASE get_time_hi(t)
  BY <1>3 DEF get_time_hi, TaskAt, Goto, Quiet, hardware, handler, timers, TypeOK
<1>4. CASE timer_arm(t)
  BY <1>4 DEF timer_arm, TaskAt, Goto, Quiet, hardware, handler, timers, TypeOK
<1>5. CASE arm_trigger(t)
  BY <1>5 DEF arm_trigger, TaskAt, Goto, Quiet, hardware, handler, timers, TypeOK
<1>6. CASE timer_cancel(t)
  BY <1>6 DEF timer_cancel, TaskAt, Goto, Quiet, hardware, handler, timers, TypeOK
<1> QED
  BY <1>1, <1>2, <1>3, <1>4, <1>5, <1>6 DEF TaskStep

\* A wrap is handled before the next one.
LEMMA NextClock ==
  ASSUME IInv, [Next]_vars
  PROVE  Clock'
<1> USE DEF IInv
<1> USE Types
<1>1. CASE Tick
  <2>1. /\ now' = now + 1 /\ clksrc_high' = clksrc_high /\ isr' = isr
        /\ overflow' <=> (overflow \/ lo(now + 1) = 0)
        /\ latency' = IF IrqPending \/ InIsr THEN latency + 1 ELSE 0
        /\ IrqPending \/ InIsr => latency < MaxLatency
    BY <1>1 DEF Tick
  <2>2. CASE lo(now + 1) = 0 /\ hi(now + 1) = hi(now) + 1 /\ lo(now) = Wrap - 1
    <3>1. ~overflow
      BY <2>1, <2>2 DEF Clock, IrqPending
    <3>2. IF overflow' THEN clksrc_high' + 1 = hi(now') ELSE clksrc_high' = hi(now')
      BY <2>1, <2>2, <3>1 DEF Clock
    <3>3. lo(now') < latency' \/ (~InIsr' /\ lo(now') <= latency')
      BY <2>1, <2>2 DEF InIsr
    <3> QED
      BY <3>2, <3>3 DEF Clock
  <2>3. CASE lo(now + 1) = lo(now) + 1 /\ hi(now + 1) = hi(now)
    <3>1. overflow' <=> overflow
      BY <2>1, <2>3
    <3>2. IF overflow' THEN clksrc_high' + 1 = hi(now') ELSE clksrc_high' = hi(now')
      BY <2>1, <2>3, <3>1 DEF Clock
    <3>3. overflow => latency' = latency + 1
      BY <2>1 DEF IrqPending
    <3>4. overflow' => \/ lo(now') < latency'
                       \/ ~InIsr' /\ (lo(now') <= latency' \/ lo(now') < latency' + MaxLatency)
      BY <2>1, <2>3, <3>1, <3>3 DEF Clock, InIsr
    <3> QED
      BY <3>2, <3>4 DEF Clock
  <2> QED
    BY <2>2, <2>3, Succ
<1>2. CASE isr_enter
  BY <1>2 DEF isr_enter, Clock
<1>3. CASE isr_scan
  <2>1. UNCHANGED <<now, clksrc_high, overflow>> /\ InIsr
    BY <1>3 DEF isr_scan, InIsr
  <2>2. \/ isr' # "idle" /\ latency' = latency
        \/ isr' = "idle" /\ latency' = 0
    BY <1>3 DEF isr_scan
  <2> QED
    BY <2>1, <2>2 DEF Clock, InIsr
<1>4. CASE isr_set
  BY <1>4 DEF isr_set, Clock, InIsr
<1>5. CASE isr_recheck
  <2>1. UNCHANGED <<now, clksrc_high, overflow>> /\ InIsr
    BY <1>5 DEF isr_recheck, InIsr, hardware
  <2>2. \/ isr' # "idle" /\ latency' = latency
        \/ isr' = "idle" /\ latency' = 0
    BY <1>5 DEF isr_recheck
  <2> QED
    BY <2>1, <2>2 DEF Clock, InIsr
<1>6. CASE \E t \in Tasks : TaskStep(t)
  BY <1>6, TaskStepLeaves DEF Clock, InIsr
<1>7. CASE UNCHANGED vars
  BY <1>7 DEF vars, hardware, handler, Clock, InIsr
<1> QED
  BY <1>1, <1>2, <1>3, <1>4, <1>5, <1>6, <1>7 DEF Next, Isr

\* What a task has read stays true when its variables and the clock do not
\* change.
LEMMA ReadingKept ==
  ASSUME NEW u \in Tasks, Reading(u), now' = now,
         pc'[u] = pc[u], ts_hi'[u] = ts_hi[u], ts_lo'[u] = ts_lo[u],
         timeout'[u] = timeout[u], asked'[u] = asked[u]
  PROVE  Reading(u)'
BY DEF Reading, ReadHigh, ReadLow, ReadAgain, HasRead, InTime, TimeRead

\* Time that passes makes nothing that was read wrong.
LEMMA TickReading ==
  ASSUME IInv, Tick, NEW t \in Tasks
  PROVE  Reading(t)'
<1> USE DEF IInv
<1> USE Types
<1>1. UNCHANGED tasks /\ now' = now + 1 /\ hi(now) <= hi(now + 1)
  BY Order DEF Tick
<1>2. pc[t] \in {"read_lo", "recheck", "reread_lo"} => now + 1 < asked[t] + Wrap
  BY DEF Tick, TypeOK
<1>3. asked[t] \in Nat /\ timeout[t] \in Nat /\ ts_hi[t] \in Nat /\ hi(now + 1) \in Nat
  BY Divide DEF TypeOK
<1>4. ReadHigh(t)' /\ InTime(t)'
  BY <1>1, <1>2, <1>3 DEF Reading, ReadHigh, InTime, tasks
<1>5. ReadLow(t)'
  BY <1>1, <1>3 DEF Reading, ReadLow, tasks
<1>6. ReadAgain(t)'
  BY <1>1, <1>3 DEF Reading, ReadAgain, tasks
<1>7. HasRead(t)'
  <2>1. TimeRead(t)' = TimeRead(t) /\ TimeRead(t) \in Int
    BY <1>1 DEF tasks, TimeRead, TypeOK
  <2> QED
    BY <1>1, <1>3, <2>1 DEF Reading, HasRead, tasks
<1> QED
  BY <1>4, <1>5, <1>6, <1>7 DEF Reading

\* The task's own steps: the two words that are put together belong to one
\* time between the call of get_time() and its return.
LEMMA StepReading ==
  ASSUME IInv, NEW t \in Tasks, TaskStep(t)
  PROVE  Reading(t)'
<1> USE DEF IInv
<1> USE Types
<1>1. Quiet /\ ~overflow /\ clksrc_high = hi(now) /\ now' = now
  BY TaskStepLeaves DEF Quiet, IrqPending, Clock
<1>2. asked[t] \in Nat /\ timeout[t] \in Nat /\ ts_hi[t] \in Nat /\ ts_lo[t] \in Nat
  BY DEF TypeOK, None
<1>3. CASE get_time(t)
  <2>1. PICK us \in Timeouts : /\ now + us + Wrap < MaxTime
                               /\ timeout' = [timeout EXCEPT ![t] = us]
    BY <1>3 DEF get_time
  <2>2. /\ pc'[t] = "read_lo" /\ asked'[t] = now /\ ts_hi'[t] = hi(now)
        /\ timeout'[t] = us /\ us \in Nat
    BY <1>1, <1>3, <2>1 DEF get_time, Goto, TypeOK
  <2> QED
    BY <1>1, <2>1, <2>2 DEF Reading, ReadHigh, ReadLow, ReadAgain, HasRead, InTime
<1>4. CASE get_time_lo(t)
  <2>1. /\ ts_lo'[t] = lo(now) /\ ts_hi' = ts_hi /\ asked' = asked /\ timeout' = timeout
        /\ pc'[t] = IF pc[t] = "read_lo" THEN "recheck" ELSE "arm"
        /\ pc[t] \in {"read_lo", "reread_lo"}
    BY <1>4 DEF get_time_lo, Goto, TypeOK
  <2>2. CASE pc[t] = "read_lo"
    BY <1>1, <1>2, <2>1, <2>2
    DEF Reading, ReadHigh, ReadLow, ReadAgain, HasRead, InTime
  <2>3. CASE pc[t] = "reread_lo"
    <3>1. ts_hi[t] = hi(asked[t]) + 1 /\ ts_hi[t] <= hi(now)
      BY <2>3 DEF Reading, ReadAgain
    <3>2. asked[t] <= now /\ now < asked[t] + Wrap
      BY <2>3 DEF Reading, InTime
    <3>3. ~(hi(asked[t]) + 2 <= hi(now))
      BY <1>2, <3>2, Order
    <3>4. ts_hi[t] = hi(now)
      BY <1>2, <3>1, <3>3, Divide
    <3>5. TimeRead(t)' = now
      BY <1>1, <2>1, <3>4, Divide DEF TimeRead
    <3>6. pc'[t] = "arm" /\ asked'[t] = asked[t] /\ timeout'[t] = timeout[t]
      BY <2>1, <2>3
    <3> QED
      BY <1>1, <1>2, <2>3, <3>2, <3>5, <3>6
      DEF Reading, ReadHigh, ReadLow, ReadAgain, HasRead, InTime
  <2> QED
    BY <2>1, <2>2, <2>3
<1>5. CASE get_time_hi(t)
  <2>1. /\ ts_hi'[t] = hi(now) /\ ts_lo' = ts_lo /\ asked' = asked /\ timeout' = timeout
        /\ pc'[t] = IF ts_hi[t] # hi(now) THEN "reread_lo" ELSE "arm"
        /\ pc[t] = "recheck"
    BY <1>1, <1>5 DEF get_time_hi, Goto, TaskAt, TypeOK
  <2>2. PICK x \in Nat : asked[t] <= x /\ x <= now /\ ts_lo[t] = lo(x)
    BY <2>1 DEF Reading, ReadLow
  <2>3. /\ ts_hi[t] = hi(asked[t]) /\ asked[t] <= now /\ now < asked[t] + Wrap
        /\ asked[t] + timeout[t] + Wrap < MaxTime
    BY <2>1 DEF Reading, ReadLow, InTime
  <2>4. hi(asked[t]) <= hi(x) /\ hi(x) <= hi(now) /\ hi(x) \in Nat
    BY <1>2, <2>2, Order, Divide
  <2>5. CASE ts_hi[t] # hi(now)
    <3>1. ~(hi(asked[t]) + 2 <= hi(now))
      BY <1>2, <2>3, Order
    <3>2. hi(now) = hi(asked[t]) + 1
      <4>1. hi(asked[t]) \in Nat /\ hi(now) \in Nat
        BY <1>2, Divide
      <4>2. hi(asked[t]) # hi(now)
        BY <2>3, <2>5
      <4>3. \A a, b, c \in Nat :
               a <= c /\ c <= b /\ a # b /\ ~(a + 2 <= b) => b = a + 1
        OBVIOUS
      <4> QED
        BY <2>4, <3>1, <4>1, <4>2, <4>3, Zenon
    <3> QED
      BY <1>1, <1>2, <2>1, <2>3, <2>5, <3>2
      DEF Reading, ReadHigh, ReadLow, ReadAgain, HasRead, InTime
  <2>6. CASE ts_hi[t] = hi(now)
    <3>1. hi(x) = hi(now)
      BY <2>3, <2>4, <2>6
    <3>2. TimeRead(t)' = x
      BY <2>1, <2>2, <3>1, Divide DEF TimeRead
    <3> QED
      BY <1>1, <1>2, <2>1, <2>2, <2>3, <2>6, <3>2
      DEF Reading, ReadHigh, ReadLow, ReadAgain, HasRead, InTime
  <2> QED
    BY <2>5, <2>6
<1>6. CASE timer_arm(t) \/ arm_trigger(t) \/ timer_cancel(t)
  <2>1. pc'[t] \in {"trigger", "wait", "run"}
    BY <1>6 DEF timer_arm, arm_trigger, timer_cancel, Goto, TypeOK
  <2> QED
    BY <2>1 DEF Reading, ReadHigh, ReadLow, ReadAgain, HasRead, InTime
<1> QED
  BY <1>3, <1>4, <1>5, <1>6 DEF TaskStep

LEMMA NextReading ==
  ASSUME IInv, [Next]_vars, NEW u \in Tasks
  PROVE  Reading(u)'
<1> USE DEF IInv
<1>1. CASE Isr \/ UNCHANGED vars
  <2>1. now' = now /\ UNCHANGED tasks
    BY <1>1 DEF Isr, isr_enter, isr_scan, isr_set, isr_recheck, vars
  <2> QED
    BY <2>1, ReadingKept DEF tasks
<1>2. ASSUME NEW t \in Tasks, TaskStep(t)
      PROVE  Reading(u)'
  <2>1. CASE u = t
    BY <1>2, <2>1, StepReading
  <2>2. CASE u # t
    BY <1>2, <2>2, TaskStepLeaves, ReadingKept
  <2> QED
    BY <2>1, <2>2
<1> QED
  BY <1>1, <1>2, TickReading DEF Next

-----------------------------------------------------------------------------
(* The timers                                                              *)

\* Of the deadlines ahead the handler chooses one that exists.
LEMMA ChosenDeadline ==
  ASSUME TypeOK, Ahead # {}
  PROVE  /\ Least(Ahead) \in Ahead /\ \A d \in Ahead : Least(Ahead) <= d
         /\ Least(Ahead) \in 0 .. MaxTime
<1>1. Ahead \subseteq 0 .. MaxTime
  BY DEF Ahead, TypeOK
<1>2. Least(Ahead) \in Ahead /\ \A d \in Ahead : Least(Ahead) <= d
  BY <1>1, LeastIsLeast
<1> QED
  BY <1>1, <1>2

\* The scan leaves the timers that will be answered, and no other.
LEMMA ScanAnswers ==
  ASSUME IInv, isr_scan
  PROVE  /\ \A t \in timer_running' :
              \/ Later(t)
              \/ SamePeriod(t) /\ \/ lo(timer_deadline[t]) = None
                                  \/ Ahead # {} /\ Least(Ahead) <= timer_deadline[t]
         /\ Ahead # {} => hi(Least(Ahead)) = clksrc_high /\ lo(Least(Ahead)) < None
<1> USE DEF IInv
<1>1. ASSUME NEW t \in timer_running',
             ~Later(t), ~(SamePeriod(t) /\ lo(timer_deadline[t]) = None)
      PROVE  SamePeriod(t) /\ timer_deadline[t] \in Ahead
  <2>1. t \in timer_running /\ ~(timer_deadline[t] <= IsrTime) /\ t \in Tasks
    BY DEF isr_scan, TypeOK
  <2>2. timer_deadline[t] \in Nat /\ IsrTime \in Nat /\ hi(IsrTime) = clksrc_high
    BY <2>1, TimeInIsr DEF TypeOK
  <2>3. hi(timer_deadline[t]) \in Nat /\ lo(timer_deadline[t]) \in 0 .. None
    BY <2>2, Divide DEF None
  <2>4. clksrc_high <= hi(timer_deadline[t]) /\ IsrTime < timer_deadline[t]
    BY <2>1, <2>2, Order
  <2>5. hi(timer_deadline[t]) = clksrc_high
    BY <1>1, <2>2, <2>3, <2>4, Types DEF Later
  <2>6. lo(timer_deadline[t]) < None
    BY <1>1, <2>3, <2>5, Types DEF SamePeriod
  <2> QED
    BY <2>1, <2>4, <2>5, <2>6 DEF Ahead, SamePeriod
<1>2. Ahead # {} => hi(Least(Ahead)) = clksrc_high /\ lo(Least(Ahead)) < None
  BY ChosenDeadline DEF Ahead
<1> QED
  BY <1>1, <1>2, ChosenDeadline

\* The types
LEMMA NextType ==
  ASSUME IInv, [Next]_vars
  PROVE  TypeOK'
<1> USE DEF IInv
<1> USE Types
<1>1. CASE Tick
  BY <1>1 DEF Tick, TypeOK, timers, tasks
<1>2. CASE isr_enter
  <2>1. clksrc_high' \in 0 .. MaxTime \div Wrap
    <3>1. hi(now) <= hi(MaxTime) /\ hi(MaxTime) \in Nat
      <4>1. now <= MaxTime
        BY DEF TypeOK
      <4> QED
        BY <4>1, Order, Divide
    <3>2. clksrc_high' <= hi(now) /\ clksrc_high' \in Nat
      BY <1>2 DEF isr_enter, Clock
    <3> QED
      BY <3>1, <3>2 DEF hi
  <2> QED
    BY <1>2, <2>1 DEF isr_enter, TypeOK, timers, tasks
<1>3. CASE isr_scan
  <2>1. isr_next' \in 0 .. MaxTime /\ latency' \in 0 .. MaxLatency
    BY <1>3, ChosenDeadline DEF isr_scan, TypeOK
  <2>2. match' \in 0 .. Wrap /\ next_deadline' \in 0 .. None
    BY <1>3 DEF isr_scan, TypeOK, None
  <2>3. /\ timer_running' \subseteq Tasks /\ timer_event' \subseteq Tasks
        /\ isr' \in {"idle", "scan", "set", "recheck"}
    BY <1>3 DEF isr_scan, TypeOK
  <2> QED
    BY <1>3, <2>1, <2>2, <2>3 DEF isr_scan, TypeOK, tasks
<1>4. CASE isr_set
  <2>1. match' \in 0 .. Wrap /\ next_deadline' \in 0 .. None
    BY <1>4, Divide DEF isr_set, None
  <2> QED
    BY <1>4, <2>1 DEF isr_set, TypeOK, timers, tasks
<1>5. CASE isr_recheck
  <2>1. isr_next' \in 0 .. MaxTime /\ latency' \in 0 .. MaxLatency
    BY <1>5 DEF isr_recheck, TypeOK
  <2> QED
    BY <1>5, <2>1 DEF isr_recheck, TypeOK, hardware, timers, tasks
<1>6. ASSUME NEW t \in Tasks, TaskStep(t)
      PROVE  TypeOK'
  <2>1. CASE get_time(t)
    <3>1. PICK us \in Timeouts : /\ now + us + Wrap < MaxTime
                                 /\ timeout' = [timeout EXCEPT ![t] = us]
      BY <2>1 DEF get_time
    <3>2. us \in 0 .. MaxTime
      BY <3>1
    <3>3. timeout' \in [Tasks -> 0 .. MaxTime]
      BY <3>1, <3>2 DEF TypeOK
    <3> QED
      BY <2>1, <3>3 DEF get_time, Goto, TypeOK, hardware, handler, timers
  <2>2. CASE get_time_lo(t)
    <3>1. ts_lo' \in [Tasks -> 0 .. None]
      BY <2>2 DEF get_time_lo, TypeOK, None
    <3> QED
      BY <2>2, <3>1 DEF get_time_lo, Goto, TypeOK, hardware, handler, timers
  <2>3. CASE get_time_hi(t)
    BY <2>3 DEF get_time_hi, Goto, TypeOK, hardware, handler, timers
  <2>4. CASE timer_arm(t)
    <3>1. TimeRead(t) + timeout[t] \in 0 .. MaxTime
      <4>1. /\ asked[t] \in Nat /\ timeout[t] \in Nat /\ TimeRead(t) \in Int
            /\ pc[t] = "arm"
        BY <2>4 DEF timer_arm, TaskAt, TypeOK, TimeRead, None
      <4>2. /\ asked[t] <= TimeRead(t) /\ TimeRead(t) < asked[t] + Wrap
            /\ asked[t] + timeout[t] + Wrap < MaxTime
        BY <4>1 DEF Reading, HasRead, InTime
      <4> QED
        BY <4>1, <4>2
    <3>2. timer_deadline' \in [Tasks -> 0 .. MaxTime]
      BY <2>4, <3>1 DEF timer_arm, TypeOK
    <3> QED
      BY <2>4, <3>2 DEF timer_arm, Goto, TypeOK, hardware, handler
  <2>5. CASE arm_trigger(t)
    <3>1. PICK z \in Nat : z = 0
      OBVIOUS
    <3>2. z \in 0 .. MaxTime /\ z \in 0 .. None /\ z \in 0 .. MaxTime \div Wrap
      <4>1. hi(MaxTime) \in Nat
        BY Divide
      <4> QED
        BY <3>1, <4>1 DEF None, hi
    <3>3. /\ ts_hi' = [ts_hi EXCEPT ![t] = z] /\ ts_lo' = [ts_lo EXCEPT ![t] = z]
          /\ timeout' = [timeout EXCEPT ![t] = z] /\ asked' = [asked EXCEPT ![t] = z]
      BY <2>5, <3>1 DEF arm_trigger
    <3>4. /\ ts_hi' \in [Tasks -> 0 .. MaxTime \div Wrap]
          /\ ts_lo' \in [Tasks -> 0 .. None]
          /\ timeout' \in [Tasks -> 0 .. MaxTime]
          /\ asked' \in [Tasks -> 0 .. MaxTime]
      BY <3>2, <3>3 DEF TypeOK
    <3>5. triggered' \in BOOLEAN
      BY <2>5 DEF arm_trigger
    <3> QED
      BY <2>5, <3>4, <3>5 DEF arm_trigger, Goto, TypeOK, hardware, handler, timers
  <2>6. CASE timer_cancel(t)
    <3>1. PICK z \in 0 .. MaxTime : z = 0
      OBVIOUS
    <3>2. timer_deadline' = [timer_deadline EXCEPT ![t] = z]
      BY <2>6, <3>1 DEF timer_cancel
    <3>3. timer_deadline' \in [Tasks -> 0 .. MaxTime]
      BY <3>2 DEF TypeOK
    <3> QED
      BY <2>6, <3>3 DEF timer_cancel, Goto, TypeOK, hardware, handler
  <2> QED
    BY <1>6, <2>1, <2>2, <2>3, <2>4, <2>5, <2>6 DEF TaskStep
<1>7. CASE UNCHANGED vars
  BY <1>7 DEF vars, TypeOK, hardware, handler, timers, tasks
<1> QED
  BY <1>1, <1>2, <1>3, <1>4, <1>5, <1>6, <1>7 DEF Next, Isr

\* The handler answers for the timers it found running: no task can change
\* them before it ends.
LEMMA NextHandling ==
  ASSUME IInv, [Next]_vars
  PROVE  Handling'
<1> USE DEF IInv
<1> USE Types
<1>1. CASE Tick
  BY <1>1 DEF Tick, Handling, timers, tasks, WillBeAnswered, Later, SamePeriod
<1>2. CASE isr_enter
  BY <1>2 DEF isr_enter, Handling
<1>3. CASE isr_scan
  <2>1. isr' # "recheck" /\ (isr' = "set" => Ahead # {} /\ isr_next' = Least(Ahead))
    BY <1>3 DEF isr_scan
  <2>2. UNCHANGED <<clksrc_high, timer_deadline>>
    BY <1>3 DEF isr_scan
  <2>3. isr' = "set" => hi(isr_next') = clksrc_high' /\ lo(isr_next') < None
    BY <1>3, <2>1, <2>2, ScanAnswers
  <2>4. isr' = "set" => \A t \in timer_running' : WillBeAnswered(t)'
    BY <1>3, <2>1, <2>2, ScanAnswers DEF WillBeAnswered, Later, SamePeriod
  <2> QED
    BY <2>1, <2>3, <2>4 DEF Handling
<1>4. CASE isr_set
  BY <1>4 DEF isr_set, Handling, timers, tasks, WillBeAnswered, Later, SamePeriod
<1>5. CASE isr_recheck
  BY <1>5 DEF isr_recheck, Handling
<1>6. CASE \E t \in Tasks : TaskStep(t)
  BY <1>6, TaskStepLeaves DEF Handling, Quiet, InIsr
<1>7. CASE UNCHANGED vars
  BY <1>7 DEF vars, hardware, handler, timers, tasks, Handling, WillBeAnswered,
              Later, SamePeriod
<1> QED
  BY <1>1, <1>2, <1>3, <1>4, <1>5, <1>6, <1>7 DEF Next, Isr

\* When the handler ends and nothing is pending, all timers are answered for.
LEMMA IsrEnds ==
  ASSUME IInv, isr_scan \/ isr_recheck
  PROVE  Armed'
<1> USE DEF IInv
<1> USE Types
<1>1. CASE isr_scan
  <2>1. SUFFICES ASSUME isr' = "idle"
                 PROVE  Armed'
    BY DEF Armed, Quiet, InIsr
  <2>2. Ahead = {} /\ next_deadline' = None /\ UNCHANGED <<clksrc_high, timer_deadline>>
    BY <1>1, <2>1 DEF isr_scan
  <2>3. \A t \in timer_running' : Answered(t)'
    BY <1>1, <2>2, ScanAnswers DEF Answered, Later, SamePeriod
  <2> QED
    BY <2>2, <2>3 DEF Armed, None
<1>2. CASE isr_recheck
  <2>1. SUFFICES ASSUME Quiet'
                 PROVE  Armed'
    BY DEF Armed
  <2>2. /\ ~(isr_next <= IsrTime) /\ isr = "recheck" /\ ~overflow
        /\ UNCHANGED <<now, clksrc_high, match, next_deadline>>
        /\ UNCHANGED <<timer_running, timer_deadline, pc>>
    BY <1>2, <2>1
    DEF isr_recheck, Quiet, InIsr, IrqPending, hardware, timers, tasks
  <2>3. /\ match = lo(isr_next) /\ next_deadline = match
        /\ hi(isr_next) = clksrc_high /\ lo(isr_next) < None
        /\ \A t \in timer_running : pc[t] = "wait" => WillBeAnswered(t)
    BY <2>2 DEF Handling
  <2>4. IsrTime = now /\ hi(now) = clksrc_high
    BY <2>2, TimeInIsr DEF Clock
  <2>5. lo(now) < match
    <3>1. isr_next - now = lo(isr_next) - lo(now)
      BY <2>3, <2>4, Order
    <3>2. lo(isr_next) \in Nat /\ now < isr_next
      BY <2>2, <2>4, Divide
    <3> QED
      BY <2>3, <3>1, <3>2
  <2>6. ASSUME NEW t \in timer_running, pc[t] = "wait"
        PROVE  Answered(t)
    <3>1. timer_deadline[t] \in Nat
      BY DEF TypeOK
    <3>2. hi(timer_deadline[t]) = clksrc_high /\ isr_next <= timer_deadline[t]
            => next_deadline <= lo(timer_deadline[t])
      <4>1. lo(timer_deadline[t]) \in Nat /\ lo(isr_next) \in Nat
        BY <3>1, Divide
      <4>2. hi(isr_next) = hi(timer_deadline[t]) =>
              timer_deadline[t] - isr_next = lo(timer_deadline[t]) - lo(isr_next)
        BY <3>1, Order
      <4> QED
        BY <2>3, <3>1, <4>1, <4>2
    <3>3. WillBeAnswered(t) /\ next_deadline <= None
      BY <2>3, <2>6
    <3> QED
      BY <3>2, <3>3 DEF Answered, WillBeAnswered, SamePeriod
  <2> QED
    BY <2>2, <2>3, <2>5, <2>6 DEF Armed, Answered, Later, SamePeriod
<1> QED
  BY <1>1, <1>2

\* A task's step keeps the match, or triggers the interrupt.
LEMMA StepArmed ==
  ASSUME IInv, NEW t \in Tasks, TaskStep(t)
  PROVE  Armed'
<1> USE DEF IInv
<1> USE Types
<1>1. SUFFICES ASSUME Quiet'
               PROVE  Armed'
  BY DEF Armed
<1>2. /\ Quiet /\ now' = now /\ clksrc_high' = clksrc_high /\ match' = match
      /\ next_deadline' = next_deadline
  BY TaskStepLeaves
<1>3. next_deadline' # None => next_deadline' = match' /\ lo(now') < match'
  BY <1>2 DEF Armed
<1>4. ASSUME NEW u \in timer_running', pc'[u] = "wait", u # t
      PROVE  Answered(u)'
  <2>1. u \in Tasks
    BY NextType DEF TypeOK, Next
  <2>2. /\ u \in timer_running /\ pc[u] = "wait"
        /\ timer_deadline'[u] = timer_deadline[u]
    BY <1>4, <2>1, TaskStepLeaves
  <2>3. Answered(u)
    BY <1>2, <2>2 DEF Armed
  <2> QED
    BY <1>2, <2>2, <2>3 DEF Answered, Later, SamePeriod
<1>5. ASSUME t \in timer_running', pc'[t] = "wait"
      PROVE  Answered(t)'
  <2>1. arm_trigger(t)
    BY <1>5 DEF TaskStep, get_time, get_time_lo, get_time_hi, timer_arm, timer_cancel,
               Goto, TypeOK
  <2>2. ~triggered' /\ timer_deadline' = timer_deadline
    BY <1>1, <2>1 DEF Quiet, IrqPending, arm_trigger, timers
  <2>3. hi(timer_deadline[t]) \in Nat /\ lo(timer_deadline[t]) \in Nat
    BY Divide DEF TypeOK
  <2>4. /\ ~(hi(timer_deadline[t]) < clksrc_high)
        /\ ~(/\ hi(timer_deadline[t]) = clksrc_high
             /\ lo(timer_deadline[t]) <= next_deadline)
    BY <2>1, <2>2 DEF arm_trigger
  <2>5. Answered(t)
    BY <2>3, <2>4 DEF Answered, Later, SamePeriod
  <2> QED
    BY <1>2, <2>2, <2>5 DEF Answered, Later, SamePeriod
<1> QED
  BY <1>3, <1>4, <1>5 DEF Armed

\* Time that passes reaches the match, or wraps.
LEMMA TickArmed ==
  ASSUME IInv, Tick
  PROVE  Armed'
<1> USE DEF IInv
<1> USE Types
<1>1. SUFFICES ASSUME Quiet'
               PROVE  Armed'
  BY DEF Armed
<1>2. /\ Quiet /\ lo(now + 1) # 0 /\ lo(now + 1) # match
      /\ UNCHANGED <<clksrc_high, match, next_deadline, pc>>
      /\ UNCHANGED <<timer_running, timer_deadline>>
  BY <1>1 DEF Tick, Quiet, InIsr, IrqPending, timers, tasks, TypeOK
<1>3. now' = now + 1 /\ lo(now + 1) = lo(now) + 1
  BY <1>2, Succ DEF Tick
<1>4. next_deadline' # None => next_deadline' = match' /\ lo(now') < match'
  BY <1>2, <1>3 DEF Armed
<1>5. \A u \in timer_running : pc[u] = "wait" => Answered(u)
  BY <1>2 DEF Armed
<1> QED
  BY <1>2, <1>4, <1>5 DEF Armed, Answered, Later, SamePeriod

LEMMA NextArmed ==
  ASSUME IInv, [Next]_vars
  PROVE  Armed'
<1> USE DEF IInv
<1>1. CASE isr_enter \/ isr_set
  BY <1>1 DEF isr_enter, isr_set, Armed, Quiet, InIsr
<1>2. CASE UNCHANGED vars
  BY <1>2 DEF vars, hardware, handler, timers, tasks, Armed, Quiet, IrqPending,
              InIsr, Answered, Later, SamePeriod
<1> QED
  BY <1>1, <1>2, IsrEnds, StepArmed, TickArmed DEF Next, Isr

-----------------------------------------------------------------------------
(* Theorems                                                                *)

THEOREM Invariance == Spec => []IInv
<1>1. IInv /\ [Next]_vars => IInv'
  BY NextType, NextClock, NextReading, NextHandling, NextArmed DEF IInv
<1> QED
  BY InitIInv, <1>1, PTL DEF Spec

\* Whatever the width of the counter, the word in memory never carries more
\* often than the counter wraps, and every deadline fits the match register.
THEOREM TypeCorrect == Spec => []TypeOK
<1>1. IInv => TypeOK
  BY DEF IInv
<1> QED
  BY Invariance, <1>1, PTL

\* get_time() returns a time between its call and its return, for any number
\* of tasks, wherever the counter wraps and whenever the interrupt carries.
THEOREM ClockIsCurrent == Spec => []GetTimeIsCurrent
<1>1. IInv => GetTimeIsCurrent
  BY DEF IInv, Reading, HasRead, GetTimeIsCurrent
<1> QED
  BY Invariance, <1>1, PTL

\* process_timers() and timer_arm() leave no timer whose deadline passes
\* without an interrupt, for any tasks, timeouts and times of the calls.
THEOREM TimersAreMet == Spec => []NoTimerIsMissed
<1>1. ASSUME IInv
      PROVE  NoTimerIsMissed
  <2> USE <1>1 DEF IInv
  <2>1. SUFFICES ASSUME NEW t \in timer_running, pc[t] = "wait", Quiet
                 PROVE  \/ now < timer_deadline[t]
                        \/ now = timer_deadline[t] /\ lo(now) = None
    BY DEF NoTimerIsMissed, Quiet
  <2>2. clksrc_high = hi(now)
    BY <2>1 DEF Clock, Quiet, IrqPending
  <2>3. timer_deadline[t] \in Nat
    BY DEF TypeOK
  <2>4. Answered(t) /\ (next_deadline # None => lo(now) < next_deadline)
    BY <2>1 DEF Armed
  <2>5. CASE Later(t)
    BY <2>2, <2>3, <2>5, Types, Order DEF Later
  <2>6. CASE SamePeriod(t) /\ next_deadline <= lo(timer_deadline[t])
    <3>1. timer_deadline[t] - now = lo(timer_deadline[t]) - lo(now)
      BY <2>2, <2>3, <2>6, Types, Order DEF SamePeriod
    <3>2. lo(timer_deadline[t]) \in 0 .. None /\ lo(now) \in 0 .. None
      BY <2>3, Types, Divide DEF None
    <3> QED
      BY <2>3, <2>4, <2>6, <3>1, <3>2, Types
  <2> QED
    BY <2>4, <2>5, <2>6 DEF Answered
<1> QED
  BY Invariance, <1>1, PTL

\* process_timers() ends no timer before its deadline, whichever deadline the
\* match register was left with.
THEOREM TimersAreNotEarly == Spec => NoTimerIsEarly
<1>1. ASSUME IInv, [Next]_vars, NEW t \in timer_event' \ timer_event
      PROVE  timer_deadline[t] <= now
  <2>1. isr_scan
    BY <1>1 DEF Next, Isr, TaskStep, Tick, isr_enter, isr_set, isr_recheck, get_time,
                get_time_lo, get_time_hi, timer_arm, arm_trigger, timer_cancel, vars,
                timers
  <2>2. t \in Tasks /\ timer_deadline[t] <= IsrTime
    BY <1>1, <2>1 DEF isr_scan, IInv, TypeOK
  <2>3. IsrTime \in Nat /\ IsrTime <= now /\ timer_deadline[t] \in Nat
    BY <1>1, <2>2, TimeInIsr DEF IInv, TypeOK
  <2> QED
    BY <1>1, <2>2, <2>3, Types DEF IInv
<1>2. IInv /\ [Next]_vars
        => [\A t \in timer_event' \ timer_event : timer_deadline[t] <= now]_vars
  BY <1>1
<1> QED
  BY Invariance, <1>2, PTL DEF Spec, NoTimerIsEarly
=============================================================================
