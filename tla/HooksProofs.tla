---------------------------- MODULE HooksProofs ----------------------------
(***************************************************************************)
(* Theorems about the hook task of Hooks.  The inductive invariant IInv    *)
(* relates the time at which a pass of the loop looked at the clock to the *)
(* time it has taken since (lag), and says what the planning of the sleep  *)
(* has seen: a deferred call that it missed has left the flag, or an event.*)
(***************************************************************************)
EXTENDS Hooks, TLAPS

Passing  == {"check", "clear", "call", "periodic", "calc", "flag", "plan",
             "decide", "wait"}
Planning == {"flag", "plan", "decide", "wait"}
Rested   == Planning \cup {"calc"}

\* Where the hook task is in its loop
Loop ==
  /\ pc # "start" => hook_task_started
  /\ pc \in {"clear", "call"} => i <= N
  /\ t <= now /\ last_tick <= t /\ last_second <= t
  /\ pc \in Passing => now <= t + lag

\* Routine r ends no earlier than the sleep that is planned.
Covered(r) == defer_until[r] # 0 => defer_until[r] >= t + next

\* The sleep that is planned is short enough, or will not take place.
Planned ==
  /\ pc \in Planning /\ next > 0 => next <= last_tick + TickInterval - t
  /\ pc = "plan" => \/ next = 0 \/ defer_new_call
                    \/ \A r \in Routines : r < i => Covered(r)
  /\ pc = "decide" => \/ next = 0 \/ defer_new_call
                      \/ \A r \in Routines : Covered(r)
  /\ pc = "wait" => next > 0 /\ (event \/ \A r \in Routines : Covered(r))

\* So is the sleep that has begun.
SleepOfTick == /\ wake_at <= last_tick + TickInterval + MaxLag
               /\ wake_at < last_second + Second + TickInterval + MaxLag
SleepOf(r) == defer_until[r] # 0 => wake_at <= defer_until[r] + MaxLag
Sleeping ==
  pc = "asleep" => SleepOfTick /\ (event \/ \A r \in Routines : SleepOf(r))

\* Since when the periodic hooks have not been called
Periods ==
  /\ pc \in Rested => /\ now < last_tick + TickInterval + lag
                      /\ now < last_second + Second + lag
  /\ pc = "asleep" =>
       /\ now <= last_tick + TickInterval + MaxLag + lag
       /\ now < last_second + Second + TickInterval + MaxLag + lag

IInv == TypeOK /\ Loop /\ Planned /\ Sleeping /\ Periods

Invariants == TypeOK /\ SleepIsShort /\ PeriodicHooksOnTime

\* The constants, as the proofs use them
LEMMA Constants ==
  /\ N \in Nat /\ MaxTime \in Nat /\ MaxTime > 0 /\ MaxCalls \in Nat /\ MaxLag \in Nat
  /\ Delays \subseteq Nat
  /\ TickInterval \in Nat /\ TickInterval > 0 /\ Second \in Nat /\ Second > 0
BY HooksAssumption

USE Constants

LEMMA InitIInv == Init => IInv
<1> SUFFICES ASSUME Init PROVE IInv
  OBVIOUS
<1>1. TypeOK
  <2>1. defer_until \in [Routines -> 0 .. MaxTime]
    BY DEF Init
  <2>2. last_tick \in -TickInterval .. MaxTime /\ last_second \in -Second .. MaxTime
    BY DEF Init
  <2>3. /\ now \in 1 .. MaxTime /\ i \in 1 .. N + 1 /\ next \in 0 .. TickInterval
        /\ t \in 0 .. MaxTime /\ wake_at \in 0 .. MaxTime + TickInterval
        /\ lag \in 0 .. MaxLag /\ calls \in 0 .. MaxCalls
    BY DEF Init
  <2> QED
    BY <2>1, <2>2, <2>3 DEF Init, TypeOK
<1>2. Loop /\ Planned /\ Sleeping /\ Periods
  BY DEF Init, Loop, Planned, Sleeping, Periods, Passing, Planning, Rested
<1> QED
  BY <1>1, <1>2 DEF IInv

\* The types, as facts about integers
LEMMA Types ==
  ASSUME TypeOK
  PROVE  /\ now \in Int /\ t \in Int /\ i \in Int /\ next \in Int /\ wake_at \in Int
         /\ last_tick \in Int /\ last_second \in Int /\ lag \in Int
         /\ calls \in Int /\ 1 <= now /\ 0 <= next /\ 1 <= i /\ 0 <= lag /\ lag <= MaxLag
         /\ \A r \in Routines : defer_until[r] \in Int
BY DEF TypeOK

\* No step of the task or its clients breaks the types.
LEMMA NextType ==
  ASSUME IInv, [Next]_vars
  PROVE  TypeOK'
<1> USE DEF IInv
<1> TypeOK
  OBVIOUS
<1>1. CASE Tick
  BY <1>1 DEF Tick, TypeOK, deferred, clients, periods
<1>2. CASE Client
  <2>1. ASSUME NEW r \in Routines, NEW us \in Delays, hook_call_deferred(r, us)
        PROVE  TypeOK'
    <3>1. now + us \in 0 .. MaxTime /\ us \in Nat
      BY <2>1, Types DEF hook_call_deferred
    <3> QED
      BY <2>1, <3>1 DEF hook_call_deferred, TypeOK, periods
  <2>2. ASSUME NEW r \in Routines, hook_cancel_deferred(r)
        PROVE  TypeOK'
    BY <2>2 DEF hook_cancel_deferred, TypeOK, periods
  <2> QED
    BY <1>2, <2>1, <2>2 DEF Client
<1>3. CASE start
  BY <1>3 DEF start, TypeOK, deferred, clients, periods
<1>4. CASE top
  BY <1>4 DEF top, TypeOK, deferred, clients, periods
<1>5. CASE check
  BY <1>5 DEF check, TypeOK, Loop, deferred, clients, periods
<1>6. CASE clear
  <2>1. defer_until' \in [Routines -> 0 .. MaxTime]
    <3>1. PICK none \in 0 .. MaxTime : none = 0
      OBVIOUS
    <3>2. defer_until' = [defer_until EXCEPT ![i] = none]
      BY <1>6, <3>1 DEF clear
    <3> QED
      BY <3>2 DEF TypeOK
  <2> QED
    BY <1>6, <2>1 DEF clear, TypeOK, deferred, clients, periods
<1>7. CASE call
  BY <1>7 DEF call, TypeOK, Loop, deferred, clients, periods
<1>8. CASE periodic
  BY <1>8 DEF periodic, TypeOK, Loop, deferred, clients, periods
<1>9. CASE calc
  BY <1>9 DEF calc, TypeOK, Loop, deferred, clients, periods
<1>10. CASE flag
  <2>1. i' \in 1 .. N + 1
    BY <1>10, Types DEF flag
  <2> QED
    BY <1>10, <2>1 DEF flag, TypeOK, deferred, clients, periods
<1>11. CASE plan
  <2>1. i' \in 1 .. N + 1 /\ next' \in 0 .. TickInterval
    <3>1. CASE i > N \/ next = 0
      BY <1>11, <3>1 DEF plan, TypeOK
    <3>2. CASE ~(i > N \/ next = 0)
      <4>1. i \in Routines /\ i' = i + 1
        BY <1>11, <3>2, Types DEF plan, Routines
      <4>2. defer_until[i] \in Int
        BY <4>1, Types
      <4>3. \/ next' = next \/ next' = 0
            \/ /\ next' = defer_until[i] - t /\ next' < next /\ defer_until[i] >= t
        BY <1>11, <3>2, <4>2, Types DEF plan
      <4> QED
        BY <4>1, <4>2, <4>3, Types DEF TypeOK, Routines
    <3> QED
      BY <3>1, <3>2
  <2> QED
    BY <1>11, <2>1 DEF plan, TypeOK, deferred, clients, periods
<1>12. CASE decide
  BY <1>12 DEF decide, TypeOK, deferred, clients, periods
<1>13. CASE wait
  <2>1. wake_at' \in 0 .. MaxTime + TickInterval
    BY <1>13, Types DEF wait, TypeOK
  <2> QED
    BY <1>13, <2>1 DEF wait, TypeOK, deferred, clients, periods
<1>14. CASE wake
  <2>1. wake_at' \in 0 .. MaxTime + TickInterval
    BY <1>14, Types DEF wake
  <2> QED
    BY <1>14, <2>1 DEF wake, TypeOK, deferred, clients, periods
<1>15. CASE UNCHANGED vars
  BY <1>15 DEF vars, TypeOK, deferred, clients, periods
<1> QED
  BY <1>1, <1>2, <1>3, <1>4, <1>5, <1>6, <1>7, <1>8, <1>9, <1>10, <1>11, <1>12, <1>13, <1>14, <1>15 DEF Next, hook_task

\* No pass of the loop forgets how long it has taken.
LEMMA NextLoop ==
  ASSUME IInv, [Next]_vars
  PROVE  Loop'
<1> USE DEF IInv
<1> USE Types
<1>1. CASE Tick
  BY <1>1 DEF Tick, Asleep, Loop, Passing, deferred, clients, periods
<1>2. CASE Client
  BY <1>2 DEF Client, hook_call_deferred, hook_cancel_deferred, Loop, Passing, deferred, clients, periods
<1>3. CASE start
  BY <1>3 DEF start, Loop, Passing, deferred, clients, periods
<1>4. CASE top
  BY <1>4 DEF top, Loop, Passing, deferred, clients, periods
<1>5. CASE check
  BY <1>5 DEF check, Loop, Passing, deferred, clients, periods
<1>6. CASE clear
  BY <1>6 DEF clear, Loop, Passing, deferred, clients, periods
<1>7. CASE call
  BY <1>7 DEF call, Loop, Passing, deferred, clients, periods
<1>8. CASE periodic
  BY <1>8 DEF periodic, Loop, Passing, deferred, clients, periods
<1>9. CASE calc
  BY <1>9 DEF calc, Loop, Passing, deferred, clients, periods
<1>10. CASE flag
  BY <1>10 DEF flag, Loop, Passing, deferred, clients, periods
<1>11. CASE plan
  BY <1>11 DEF plan, Loop, Passing, deferred, clients, periods
<1>12. CASE decide
  BY <1>12 DEF decide, Loop, Passing, deferred, clients, periods
<1>13. CASE wait
  BY <1>13 DEF wait, Loop, Passing, deferred, clients, periods
<1>14. CASE wake
  BY <1>14 DEF wake, Asleep, Loop, Passing, deferred, clients, periods
<1>15. CASE UNCHANGED vars
  BY <1>15 DEF vars, Loop, Passing, deferred, clients, periods
<1> QED
  BY <1>1, <1>2, <1>3, <1>4, <1>5, <1>6, <1>7, <1>8, <1>9, <1>10, <1>11, <1>12, <1>13, <1>14, <1>15 DEF Next, hook_task

\* What is requested while the sleep is planned is planned for, or seen.
LEMMA NextPlanned ==
  ASSUME IInv, [Next]_vars
  PROVE  Planned'
<1> USE DEF IInv
<1> USE Types
<1>1. CASE Tick
  BY <1>1 DEF Tick, Asleep, Planned, Planning, Loop, Passing, Covered, deferred, clients, periods
<1>2. CASE Client
  <2>1. /\ pc' = pc /\ next' = next /\ last_tick' = last_tick /\ t' = t /\ i' = i
    BY <1>2 DEF Client, hook_call_deferred, hook_cancel_deferred, periods
  <2>2. CASE defer_new_call' /\ (event' \/ ~hook_task_started)
    BY <2>1, <2>2 DEF Planned, Planning, Loop
  <2>3. CASE \E r \in Routines : hook_cancel_deferred(r)
    <3>1. \A r \in Routines : defer_until'[r] # 0 => defer_until'[r] = defer_until[r]
      BY <2>3 DEF hook_cancel_deferred, TypeOK
    <3>2. \A r \in Routines : Covered(r) => Covered(r)'
      BY <2>1, <3>1 DEF Covered
    <3>3. defer_new_call' = defer_new_call /\ event' = event
      BY <2>3 DEF hook_cancel_deferred
    <3> QED
      BY <2>1, <3>2, <3>3 DEF Planned, Planning
  <2> QED
    BY <1>2, <2>2, <2>3 DEF Client, hook_call_deferred
<1>3. CASE start
  BY <1>3 DEF start, Planned, Planning, Loop, Passing, Covered, deferred, clients, periods
<1>4. CASE top
  BY <1>4 DEF top, Planned, Planning, Loop, Passing, Covered, deferred, clients, periods
<1>5. CASE check
  BY <1>5 DEF check, Planned, Planning, Loop, Passing, Covered, deferred, clients, periods
<1>6. CASE clear
  BY <1>6 DEF clear, Planned, Planning, Loop, Passing, Covered, deferred, clients, periods
<1>7. CASE call
  BY <1>7 DEF call, Planned, Planning, Loop, Passing, Covered, deferred, clients, periods
<1>8. CASE periodic
  BY <1>8 DEF periodic, Planned, Planning, Loop, Passing, Covered, deferred, clients, periods
<1>9. CASE calc
  BY <1>9 DEF calc, Planned, Planning, Loop, Passing, Covered, deferred, clients, periods
<1>10. CASE flag
  <2>1. \A r \in Routines : ~(r < i')
    BY <1>10 DEF flag, Routines
  <2> QED
    BY <1>10, <2>1 DEF flag, Planned, Planning, periods
<1>11. CASE plan
  <2>1. /\ pc = "plan" /\ t' = t /\ last_tick' = last_tick
        /\ defer_until' = defer_until /\ defer_new_call' = defer_new_call
        /\ next' \in Int
    BY <1>11, NextType DEF plan, deferred, periods, TypeOK
  <2>2. CASE i > N \/ next = 0
    <3>1. pc' = "decide" /\ next' = next
      BY <1>11, <2>2 DEF plan
    <3>2. next = 0 \/ \A r \in Routines : r < i
      BY <2>2 DEF Routines
    <3>3. \A r \in Routines : Covered(r) => Covered(r)'
      BY <2>1, <3>1 DEF Covered
    <3> QED
      BY <2>1, <3>1, <3>2, <3>3 DEF Planned, Planning
  <2>3. CASE ~(i > N \/ next = 0)
    <3>1. pc' = "plan" /\ i' = i + 1 /\ i \in Routines /\ defer_until[i] \in Int
      BY <1>11, <2>1, <2>3 DEF plan, Routines
    <3>2. /\ next' = 0 \/ next' <= next
          /\ next' = 0 \/ (defer_until[i] # 0 => defer_until[i] >= t + next')
      BY <1>11, <2>3, <3>1 DEF plan
    <3>3. \A r \in Routines : r < i' => r < i \/ r = i
      BY <3>1 DEF Routines
    <3>4. next' = 0 \/ \A r \in Routines : Covered(r) => Covered(r)'
      BY <2>1, <3>2 DEF Covered, TypeOK
    <3>5. next' = 0 \/ \A r \in Routines : r = i => Covered(r)'
      BY <2>1, <3>1, <3>2 DEF Covered
    <3>6. next' > 0 => next' <= last_tick' + TickInterval - t'
      BY <2>1, <3>2 DEF Planned, Planning, TypeOK
    <3>7. next' = 0 \/ defer_new_call' \/ \A r \in Routines : r < i' => Covered(r)'
      <4>1. next = 0 \/ defer_new_call \/ \A r \in Routines : r < i => Covered(r)
        BY <2>1 DEF Planned
      <4> QED
        BY <2>1, <2>3, <4>1, <3>3, <3>4, <3>5
    <3> QED
      BY <3>1, <3>6, <3>7 DEF Planned
  <2> QED
    BY <2>2, <2>3
<1>12. CASE decide
  BY <1>12 DEF decide, Planned, Planning, Loop, Passing, Covered, deferred, clients, periods
<1>13. CASE wait
  BY <1>13 DEF wait, Planned, Planning, Loop, Passing, Covered, deferred, clients, periods
<1>14. CASE wake
  BY <1>14 DEF wake, Asleep, Planned, Planning, Loop, Passing, Covered, deferred, clients, periods
<1>15. CASE UNCHANGED vars
  BY <1>15 DEF vars, Planned, Planning, Loop, Passing, Covered, deferred, clients, periods
<1> QED
  BY <1>1, <1>2, <1>3, <1>4, <1>5, <1>6, <1>7, <1>8, <1>9, <1>10, <1>11, <1>12, <1>13, <1>14, <1>15 DEF Next, hook_task

\* The sleep that begins is as short as it was planned.
LEMMA NextSleeping ==
  ASSUME IInv, [Next]_vars
  PROVE  Sleeping'
<1> USE DEF IInv
<1> USE Types
<1>1. CASE Tick
  BY <1>1 DEF Tick, Asleep, Sleeping, SleepOfTick, SleepOf, Planned, Planning, Periods, Rested, Loop, Passing, Covered, deferred, clients, periods
<1>2. CASE Client
  <2>1. /\ pc' = pc /\ last_tick' = last_tick /\ last_second' = last_second
        /\ wake_at' = wake_at
    BY <1>2 DEF Client, hook_call_deferred, hook_cancel_deferred, periods
  <2>4. SleepOfTick => SleepOfTick'
    BY <2>1 DEF SleepOfTick
  <2>2. CASE event' \/ ~hook_task_started
    BY <2>1, <2>4, <2>2 DEF Sleeping, Loop
  <2>3. CASE \E r \in Routines : hook_cancel_deferred(r)
    <3>1. \A r \in Routines : defer_until'[r] # 0 => defer_until'[r] = defer_until[r]
      BY <2>3 DEF hook_cancel_deferred, TypeOK
    <3>2. \A r \in Routines : SleepOf(r) => SleepOf(r)'
      BY <2>1, <3>1 DEF SleepOf
    <3>3. event' = event
      BY <2>3 DEF hook_cancel_deferred
    <3> QED
      BY <2>1, <2>4, <3>2, <3>3 DEF Sleeping
  <2> QED
    BY <1>2, <2>2, <2>3 DEF Client, hook_call_deferred
<1>3. CASE start
  BY <1>3 DEF start, Sleeping, SleepOfTick, SleepOf, Planned, Planning, Periods, Rested, Loop, Passing, Covered, deferred, clients, periods
<1>4. CASE top
  BY <1>4 DEF top, Sleeping, SleepOfTick, SleepOf, Planned, Planning, Periods, Rested, Loop, Passing, Covered, deferred, clients, periods
<1>5. CASE check
  BY <1>5 DEF check, Sleeping, SleepOfTick, SleepOf, Planned, Planning, Periods, Rested, Loop, Passing, Covered, deferred, clients, periods
<1>6. CASE clear
  BY <1>6 DEF clear, Sleeping, SleepOfTick, SleepOf, Planned, Planning, Periods, Rested, Loop, Passing, Covered, deferred, clients, periods
<1>7. CASE call
  BY <1>7 DEF call, Sleeping, SleepOfTick, SleepOf, Planned, Planning, Periods, Rested, Loop, Passing, Covered, deferred, clients, periods
<1>8. CASE periodic
  BY <1>8 DEF periodic, Sleeping, SleepOfTick, SleepOf, Planned, Planning, Periods, Rested, Loop, Passing, Covered, deferred, clients, periods
<1>9. CASE calc
  BY <1>9 DEF calc, Sleeping, SleepOfTick, SleepOf, Planned, Planning, Periods, Rested, Loop, Passing, Covered, deferred, clients, periods
<1>10. CASE flag
  BY <1>10 DEF flag, Sleeping, SleepOfTick, SleepOf, Planned, Planning, Periods, Rested, Loop, Passing, Covered, deferred, clients, periods
<1>11. CASE plan
  BY <1>11 DEF plan, Sleeping, SleepOfTick, SleepOf, Planned, Planning, Periods, Rested, Loop, Passing, Covered, deferred, clients, periods
<1>12. CASE decide
  BY <1>12 DEF decide, Sleeping, SleepOfTick, SleepOf, Planned, Planning, Periods, Rested, Loop, Passing, Covered, deferred, clients, periods
<1>13. CASE wait
  BY <1>13 DEF wait, Sleeping, SleepOfTick, SleepOf, Planned, Planning, Periods, Rested, Loop, Passing, Covered, deferred, clients, periods
<1>14. CASE wake
  BY <1>14 DEF wake, Asleep, Sleeping, SleepOfTick, SleepOf, Planned, Planning, Periods, Rested, Loop, Passing, Covered, deferred, clients, periods
<1>15. CASE UNCHANGED vars
  BY <1>15 DEF vars, Sleeping, SleepOfTick, SleepOf, Planned, Planning, Periods, Rested, Loop, Passing, Covered, deferred, clients, periods
<1> QED
  BY <1>1, <1>2, <1>3, <1>4, <1>5, <1>6, <1>7, <1>8, <1>9, <1>10, <1>11, <1>12, <1>13, <1>14, <1>15 DEF Next, hook_task

\* A periodic hook is called in the pass that finds it due.
LEMMA NextPeriods ==
  ASSUME IInv, [Next]_vars
  PROVE  Periods'
<1> USE DEF IInv
<1> USE Types
<1>1. CASE Tick
  BY <1>1 DEF Tick, Asleep, Periods, Sleeping, SleepOfTick, Rested, Loop, Passing, Planned, Planning, deferred, clients, periods
<1>2. CASE Client
  BY <1>2 DEF Client, hook_call_deferred, hook_cancel_deferred, Periods, Sleeping, SleepOfTick, Rested, Loop, Passing, Planned, Planning, deferred, clients, periods
<1>3. CASE start
  BY <1>3 DEF start, Periods, Sleeping, SleepOfTick, Rested, Loop, Passing, Planned, Planning, deferred, clients, periods
<1>4. CASE top
  BY <1>4 DEF top, Periods, Sleeping, SleepOfTick, Rested, Loop, Passing, Planned, Planning, deferred, clients, periods
<1>5. CASE check
  BY <1>5 DEF check, Periods, Sleeping, SleepOfTick, Rested, Loop, Passing, Planned, Planning, deferred, clients, periods
<1>6. CASE clear
  BY <1>6 DEF clear, Periods, Sleeping, SleepOfTick, Rested, Loop, Passing, Planned, Planning, deferred, clients, periods
<1>7. CASE call
  BY <1>7 DEF call, Periods, Sleeping, SleepOfTick, Rested, Loop, Passing, Planned, Planning, deferred, clients, periods
<1>8. CASE periodic
  BY <1>8 DEF periodic, Periods, Sleeping, SleepOfTick, Rested, Loop, Passing, Planned, Planning, deferred, clients, periods
<1>9. CASE calc
  BY <1>9 DEF calc, Periods, Sleeping, SleepOfTick, Rested, Loop, Passing, Planned, Planning, deferred, clients, periods
<1>10. CASE flag
  BY <1>10 DEF flag, Periods, Sleeping, SleepOfTick, Rested, Loop, Passing, Planned, Planning, deferred, clients, periods
<1>11. CASE plan
  BY <1>11 DEF plan, Periods, Sleeping, SleepOfTick, Rested, Loop, Passing, Planned, Planning, deferred, clients, periods
<1>12. CASE decide
  BY <1>12 DEF decide, Periods, Sleeping, SleepOfTick, Rested, Loop, Passing, Planned, Planning, deferred, clients, periods
<1>13. CASE wait
  BY <1>13 DEF wait, Periods, Sleeping, SleepOfTick, Rested, Loop, Passing, Planned, Planning, deferred, clients, periods
<1>14. CASE wake
  BY <1>14 DEF wake, Asleep, Periods, Sleeping, SleepOfTick, Rested, Loop, Passing, Planned, Planning, deferred, clients, periods
<1>15. CASE UNCHANGED vars
  BY <1>15 DEF vars, Periods, Sleeping, SleepOfTick, Rested, Loop, Passing, Planned, Planning, deferred, clients, periods
<1> QED
  BY <1>1, <1>2, <1>3, <1>4, <1>5, <1>6, <1>7, <1>8, <1>9, <1>10, <1>11, <1>12, <1>13, <1>14, <1>15 DEF Next, hook_task

\* IInv implies what the runs check.
LEMMA IInvImplies == IInv => Invariants
<1> SUFFICES ASSUME IInv PROVE Invariants
  OBVIOUS
<1> USE Types DEF IInv
<1>1. SleepIsShort
  BY DEF SleepIsShort, Asleep, Sleeping, SleepOfTick, SleepOf
<1>2. PeriodicHooksOnTime
  BY DEF PeriodicHooksOnTime, Periods, Rested, Planning, TypeOK
<1> QED
  BY <1>1, <1>2 DEF Invariants

\* The inductive invariant holds of every behaviour.
THEOREM Invariance == Spec => []IInv
<1>1. IInv /\ [Next]_vars => IInv'
  BY NextType, NextLoop, NextPlanned, NextSleeping, NextPeriods DEF IInv
<1> QED
  BY InitIInv, <1>1, PTL DEF Spec

\* For any number of routines, any delays and any times of the calls, the
\* variables keep their types: hook_task() never plans a negative sleep.
THEOREM TypeCorrect == Spec => []TypeOK
<1>1. IInv => TypeOK
  BY DEF IInv
<1> QED
  BY Invariance, <1>1, PTL

\* The sleep of hook_task() never outlasts the next tick or a deferred call,
\* however requests and cancellations fall between its steps.
THEOREM SleepsAreShort == Spec => []SleepIsShort
<1>1. IInv => SleepIsShort
  BY IInvImplies DEF Invariants
<1> QED
  BY Invariance, <1>1, PTL

\* HOOK_TICK and HOOK_SECOND are never late by more than one sleep and the
\* time of two passes: the delays of hook_task() do not add up.
THEOREM HooksAreOnTime == Spec => []PeriodicHooksOnTime
<1>1. IInv => PeriodicHooksOnTime
  BY IInvImplies DEF Invariants
<1> QED
  BY Invariance, <1>1, PTL
=============================================================================
