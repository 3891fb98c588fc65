# A verification of the Chrome EC core

The repository is the firmware of the embedded controller (EC) of a
Chromebook: a small preemptive kernel, and on top of it the tasks that run the
power sequence, USB Power Delivery, the charger, the keyboard and the host
interface.  This directory holds TLA+ models of the parts whose correctness
depends on the order in which things happen, TLC configurations that check
them, and proofs checked by TLAPS.

## The system and its parts

| part | state | operations | interacts with |
|---|---|---|---|
| kernel (`core/*/task.c`) | ready bitmap, current task, per-task event word, mutexes | wait, set event, lock, unlock, enable all tasks | every task; interrupts set events |
| timers (`common/timer.c`) | clock high word, a deadline per task, hardware deadline | arm, cancel, timer interrupt, get time, `usleep()` | kernel waits arm them, expiry sets TIMER |
| hooks (`common/hooks.c`) | deferred-call deadlines, tick times | `hook_call_deferred()`, the hooks task's loop | any task or interrupt arms a deferred call |
| queues (`common/queue.c`) | ring of `buffer_units`, head and tail counters | add, remove, peek, advance | a producer and a consumer, often an interrupt and a task |
| charge manager (`common/charge_manager.c`) | per-port, per-supplier current and voltage, dual-role capability, ceilings, override port, delayed override | update supplier, set ceiling, override, leave safe mode, refresh (deferred) | USB charger and PD tasks, charger driver |
| USB PD (`common/usb_pd_protocol.c`, `usb_pd_tcpc.c`, `usb_pd_policy.c`) | protocol state per port, message ids, timeouts | state machine, message transmit and receive, swaps, hard reset | charge manager, the partner's PD stack |
| charge state (`common/charge_state_v2.c`, `_v1.c`), charge ramp | battery and charger state machine | charger task loop, host commands | battery, charger, charge manager |
| power sequence (`power/*.c`), power button, lid | chipset state G3..S0, input signals | state machine, forced shutdown, hibernate | signals by interrupt, hooks, host |
| host commands and events (`common/host_command.c`, `host_event_commands.c`, `mkbp_event.c`, `acpi.c`) | pending command, saved result, event masks | packet receive, process, resend, event queries | LPC/SPI/I2C interrupts |
| keyboard (`common/keyboard_scan.c`, `keyboard_mkbp.c`, `keyboard_8042.c`) | debounce state, FIFOs, 8042 controller state | scan, FIFO add and remove, 8042 commands | host |
| system, flash, verified boot (`common/system.c`, `flash.c`, `vboot_hash.c`, `rwsig.c`) | image copy, jump data, write-protect flags, hash state | jump, protect, hash start and abort | reset |
| console, UART buffering, lightbar, sensors, thermal, fans | buffers, output and sensor values | formatting, control loops | |
| drivers, chips, boards, utilities, tests | hardware access | register input and output | |

The hard behaviours are those of the kernel and its clients: a task is
preempted between any two instructions, interrupts set events at any time, a
mutex word, an event word and a timer are shared by code that was written
apart, and 32-bit clocks wrap.

What makes each part correct:

| part | properties that matter |
|---|---|
| kernel | no event goes unnoticed; the highest ready task runs; a mutex excludes and its waiters are woken; a wait returns only what it was asked for |
| timers | no timer is missed or early; a read of the clock is a time that was |
| hooks | a request is served, not before its time, and never slept past; the periodic hooks keep their pace |
| queues | a bounded FIFO, without locks |
| charge manager | the best allowed port is active, the board and the partners know it, an override and a ceiling take effect |
| USB PD | a message is answered once although it may be lost or repeated; both ends agree on the role; a failed exchange ends in a reset, not in a wait |
| host interface | one response per command, to the command that was sent last; an event set is an interrupt seen |
| keyboard | keys arrive in order, none is lost while the line says there is none |
| power sequence | a state is left only by the signals it waits for; a forced shutdown is carried out |
| hash, flash | a hash that is started ends; protection is never lower after a reboot than before |

## Modules

| module | models | extends or uses |
|---|---|---|
| `Task` | `core/cortex-m/task.c` | |
| `TaskProofs` | theorems about `Task` | `Task` |
| `Timers` | `common/timer.c` with `chip/lm4/hwtimer.c` | |
| `TimersProofs` | theorems about `Timers` | `Timers` |
| `Hooks` | the hook task of `common/hooks.c` | |
| `HooksProofs` | theorems about `Hooks` | `Hooks` |
| `Fifo` | what a queue promises | |
| `Queue` | `common/queue.c` | `Fifo` |
| `QueueProofs` | theorems about `Queue`; `Queue` implements `Fifo` | `Queue`, `Fifo` |
| `ChargeManager` | `common/charge_manager.c` with its board and PD tasks | |
| `ChargeManagerProofs` | theorems about `ChargeManager` | `ChargeManager` |
| `PdProtocol` | two ports that run `common/usb_pd_protocol.c` over `usb_pd_tcpc.c` | |
| `PdProofs` | theorems about `PdProtocol` | `PdProtocol` |
| `Chipsets` | the handlers of `power/haswell.c`, `baytrail.c`, `braswell.c`, `skylake.c`, as data | |
| `Power` | `power/common.c`, the interpreter of these handlers, and the hardware they drive | `Chipsets` |
| `PowerButton` | `common/power_button.c`, `power_button_x86.c`, `lid_switch.c` | |
| `PowerProofs` | theorems about `Power` and about `PowerButton` | `Power`, `Chipsets`, `PowerButton` |
| `VbootHash` | `common/vboot_hash.c` with the flash operations and the shared memory | |
| `VbootHashProofs` | theorems about `VbootHash` | `VbootHash` |
| `MC_*` | the same modules with values for TLC | |

A definition whose comment starts with "Mutant:" is a plausible mistake in the
definition that follows it.  No specification uses it; a run with the mistake
in place of the definition must fail, which shows that the property can.

### Task

One processor: a task takes a step only while it is `current_task`; interrupts
come between any two steps.  A step is one access to shared state (an event
word, the ready bitmap, a mutex word, the timer bitmap), so every preemption
point the code has is a state of the model.  The stack of a task is flattened
into `pc` (where it is), `call` (which kernel call), and the locals that
survive a step (`got`, `want`, `resched`, `snap`).  An interrupt handler sets
events and reschedules at its exit in one action, because no task runs in
between.  The `ldrex`/`strex` loops of `atomic.h` are one step each: an
exception clears the exclusive monitor and the loop starts again.  Timers are
reduced to "an armed timer may expire".

Clients call `task_wait_event()`, `task_wait_event_mask()`, `usleep()`,
`task_set_event()` with and without waiting, `mutex_lock()` and
`mutex_unlock()`, as `Calls` allows.  Each may set any event of any task that
the firmware could; a driver interrupt may set any `UserEvents`.

### Timers

`Task` assumes that an armed timer expires; `Timers` is why.  The counter has
`Wrap` values; `clksrc_high` counts its wraps in the interrupt handler.  The
handler is four actions: enter (carry and acknowledge), scan (end what is due,
find the next deadline), set (the match register), recheck (did that deadline
pass meanwhile).  A task reads the clock in three accesses, arms its timer,
triggers the interrupt if its deadline comes first, waits and cancels.  Time
passes between any two of these.  Tasks take no step while the timer interrupt
is pending or runs, and the interrupt is handled within `MaxLatency < Wrap`
ticks: the code is lost if a whole period of the counter (71 minutes) passes
unhandled.

A deadline on the last count of a period is never put in the match register
(the scan starts at that value with a strict comparison); the wrap that follows
one tick later ends it.  `NoTimerIsMissed` makes that one tick its exception.

### Hooks

The hook task's loop, one action per access to what others change: a routine's
timer is tested (`check`), cleared (`clear`), the routine called (`call`), the
periodic hooks run, the sleep computed (`calc`, `flag`, `plan`, `decide`).
Requests and cancellations come between any two, also from the routine that is
called.  `lag` bounds how many ticks a pass of the loop takes.
`requested` is a history variable: what clients asked for and nobody has called
or cancelled yet.  The flag `defer_new_call` proved redundant once the hook
task has started: the event the caller sets ends the sleep as well.

### Queue and Fifo

The producer and the consumer are state machines that interleave at every
access.  An addition looks at the space, copies in at most two pieces, and
advances the tail by what it computes anew; a removal is the mirror image, and
the read chunk with `queue_advance_head()` is the zero-copy form that the USART
and USB drivers use.  The counters are of `W` values, the size of the buffer is
any divisor of `W` (the code requires a power of two).  `Fifo` is the abstract
specification: `Queue` implements it with `items` mapped to the units between
head and tail and `offered` to what the addition under way was called with, so
that an addition must store a prefix of what it was given.

### ChargeManager

`charge_manager_refresh()` is ten actions, in the order of the code.  It runs
in the hook task, which is the lowest of all, so each call of the other tasks
may come between two of its steps; the calls themselves are one action each
(the tasks that make them do not preempt each other in them; two chargers on
tasks of different priority could, which is not modelled).  The list of offers
is examined one offer per step: the code reads an offer several times within
that step.  The current of the selected offer is read again later, as in the
code, and its ceiling once.  All offers have one voltage, so that power is
current, and `supplier_priority` is a parameter.

The board's answer to a port is that of `samus_pd`: a port whose role is source
is rejected, and so its offers are zeroed and the selection starts over.  The PD
task is reduced to when it sends a request and whether `charge_port` was its
port at that time; power swaps that the charge manager asks for may succeed or
fail.  `unnoticed` is a history variable: the ports that stopped being
dedicated since the last refresh began.  The charge manager does not act on
that (`charge_manager_update_dualrole()` asks for a refresh only for a change to
dedicated), so `BestPortIsActive` does not expect it to.

### PdProtocol

Two records, one per end of the cable, hold what `pd[]` of both files and the
locals of `pd_task()` hold; both ends run the same code.  A pass of the loop of
`pd_task()` with a message is two steps: the message is handled
(`handle_request()`, `handle_ctrl_request()`, `handle_data_request()`), then the
handler of the state runs to the end of the loop; the other end moves in
between.  Each handler is an operator from record to record, named for its state
or message.  Sending is within the step, as the PHY waits for GoodCRC before it
returns: the message arrives; or it is lost, with all its retries, and the sender
knows; or the GoodCRCs are lost and the sender takes for failed what the other
end has; or one GoodCRC is lost and the retry arrives as a second copy, since the
receiver does not compare message ids.  That a transmission is one step is an
abstraction: its retries sleep for up to 1.8 ms each (`usb_pd_tcpc.c:368`), in which
the partner may already handle a first copy, and another task may ask for a swap.
In the model both come before or after the transmission.

Time is a count of ticks; a tick ends when both tasks have run and nothing waits
to be handled.  A message is therefore handled before a timer wakes the other
end (passes are 2 ms apart and more, timeouts from 10 ms up) except by a fault, which lets
the timer come first and overtake an answer.  `MaxFaults` bounds losses and
delays together; `MaxCalls` the swaps, soft resets, changes of the dual role and
plugs asked for by other tasks and the user.

### Chipsets and Power

`Chipsets` writes the body of each `power_handle_state()` and each
`chipset_force_shutdown()` as a sequence of statements (drive a pin, set a flag,
notify hooks, wait for signals, go to a state, test); `Power` executes them one
at a time, so that interrupts, the hardware and the other tasks come between any
two.  `code` is what the chipset task has left of its pass, `caller` what a
lower task has left of a forced shutdown.  `power_common_state()` is
translated the same way, with its read of the pins and its store of `in_signals`
apart.  Each rail has an enable and a power-good signal; a rail comes up, does
not come up, or fails, and goes down when it is disabled.  The PCH leaves and
enters its sleep states as its resets allow.  Tasks above CHIPSET force a
shutdown in one step, HOOKS and CHARGER below it statement by statement.

`Init` is `power_common_init()` after a reset or after a jump of the image before,
in the middle of whatever it was doing: any signals may be up, and any outputs in order
(`Left`).  A jump that finds the signals of S0 goes on there; any other begins with
`ForceG3`, the statements that `power_chipset_init()` drives the outputs low with,
while rails go down and the PCH reacts.  Interrupts of the signals are off and no
other task runs until its end (`Starting`).  `undriven` is a history variable: the
outputs that the jump found high and nobody has driven since, without which
`RailsInOrder` would not hold (see the observations).

### PowerButton

A pass of `power_button_task()` is one step: POWERBTN is above all that touch
its state.  The routines of HOOKS and CHIPSET (pulse, press, release, the button
and the lid hooks) are sequences of assignments and run one at a time, since
POWERBTN, and CHIPSET above HOOKS, may preempt between any two.  Three history
variables name what the properties excuse: `forced`, a press that was asked for
and not undone (a forced shutdown of Skylake holds the button on purpose);
`torn`, a routine that was preempted between raising the pin and setting the
state (`power_button_x86.c:148`), after which the pin may stay low until the
next press; and `inherited`, a pin that was low before a jump, of which
`set_initial_pwrbtn_state()` only knows whether the button is pressed.

### VbootHash

The hash is computed by a deferred call, a chunk at a time; `vboot_hash_abort()`,
`vboot_hash_start()` and the invalidation by the flash code run in the tasks of
the host commands and the console, an access at a time, HOOKS being the lowest
of the three.  Both clients start and abort hashes, write and erase; only the host
command waits for its hash.  A digest is the sequence of blocks it was computed from.

Both builds are modelled.  Mapped flash is read directly; an erase of a block is
waited for asleep, a write without sleeping.  Flash behind SPI is read through the
shared memory, which others may have in use, and whose reads may fail; the flash
is `busy` after it has been given an operation, the client sleeps before it gives it
the next one and goes on after the last, and a read of a busy chip returns anything.
`Restart` is a reset or a jump at any step: no board keeps the hash, and
`vboot_hash_init()` starts over.

`disturbed` is a history variable of the hash in progress: a block was read that a
client, asleep in a change begun before, had still to change, or that was read from
a busy chip.  `DoneIsCurrent` excuses just that (see the observations).

## What the runs show

| run | question | size (distinct states) |
|---|---|---|
| `task_events` | do waits, mask waits, sleeps, mutex waits and events, with interrupts everywhere, lose or steal an event, or leave an urgent task waiting? | 3 tasks, 1 mutex, 1 event; 632 000 |
| `task_mutex` | does a contended mutex exclude, and is the lowest waiter woken? | 4 tasks, 1 mutex; 721 000 |
| `timers` | is any timer missed or early, any clock read wrong, with wraps anywhere? | 2 tasks, counter of 4, 12 ticks; 614 000 |
| `hooks` | does the hook task oversleep, fall behind or lose a request? | 2 routines, 3 requests, 11 ticks; 508 000 |
| `queue` | is the queue a FIFO although nobody locks? | 4 units of 2 values, counters of 8; 1 106 000 |
| `charge` | is the right port active, do the board and the partners follow, does the selection settle? | 2 ports, 2 suppliers, 4 calls; 830 000 |
| `pd_swaps` | do two ports that swap, reset and lose a message ever drive VBUS against each other, or disagree when both are ready? | 1 call, 1 fault; 311 000 |
| `pd_settles` | is a sink ever left with VBUS or Rp on, and do the ports reach a contract, with try.SRC, plugging and a loss? | 1 plug, 1 fault; 82 000 |
| `vboot_hash` | can a hash be reported that is not that of the flash, and does a hash end, whatever both clients do? | 2 blocks, 3 commands, failed reads, restarts or uses of the memory; 863 000 |
| `power` | are rails in order, hooks alternating, forced shutdowns carried out and requests to leave G3 taken up, whatever fails, after a reset and after a jump? | 4 chipsets, 3 failures or calls; 609 000 |
| `power_button` | is the button of the PCH ever left pressed, or a press without end, after a reset and after a jump? | 3 calls; 955 000 |

These hold.  One further run shows a statement of the sources that the code does
not keep:

| run | statement | what happens |
|---|---|---|
| `mutex_lost_wakeup` | `mutex_lock()` waits "until the mutex is again unlocked" (`include/task.h:227`) | `mutex_unlock()` loads the waiters, a higher task preempts, registers, finds the mutex taken and waits; the unlocker frees the mutex and wakes the waiters it has loaded |

`LowestWaiterIsWoken` is what the code keeps of it.

### Observations without a run

Met while translating the code or in counterexamples to stronger properties,
which were then weakened to what holds.  Most are harmless to the callers there
are; each is a place where a change of the code deserves care.

* Kernel.  `task_set_event()` with `wait = 1` and an event already pending for
  the caller returns from `__wait_evt()` before its scheduling call; the
  receiver is not made ready until something else reschedules
  (`core/cortex-m/task.c:367`, `:394`).  A timer that expires between the last
  read of the events and `timer_cancel()` leaves TIMER behind, which ends the
  next `usleep()` early (`common/timer.c:166`).  The remaining time of a mask
  wait is an `int` of the low words (`task.c:421`).
* Timers.  An interrupt handler of the same priority as the timer's that reads
  the clock after a wrap reads a time one period early (`timer.c:178`).  The
  wrap is noticed once per entry of the handler, so that latency counts twice:
  `2 * MaxLatency <= Wrap` is needed.
* Hooks.  A request between the test and the clearing of a timer is overwritten,
  and the routine called at once (`hooks.c:198`); `defer_until` is a 64-bit
  value accessed without a lock (`:191`).
* Queues.  `queue_get_write_chunk()` computes a length from a head, a tail and a
  fullness read at three times (`queue.c:75`); peeking beyond the stored units
  underflows (`:236`).  The callers there are do neither.
* Charge manager.  A ceiling set on the port that a refresh is about to make
  active is seen neither by the refresh nor by the call (`charge_manager.c:691`);
  an override set between the selection and the check of it is cleared (`:447`);
  a charge reported between the rejection of a port and the zeroing of its
  offers is lost (`:439`); a partner that stops being dedicated is not acted
  upon (`:584`).
* USB PD.  A soft reset while a new source waits in SNK_SWAP_STANDBY leaves two
  sinks that wait for each other for ever (`usb_pd_protocol.c:536`).  A request
  for a swap in the pass between the timeout of DR_SWAP or SNK_SWAP_INIT and the
  next is stuck (`:777`, `:1801`), which is why swaps are not part of
  `pd_settles`.  A hard reset cannot succeed towards a receiver that is off.
  A source that gives up in SRC_DISCOVERY goes to SRC_DISCONNECTED with VBUS on
  (`:1660`), and toggles to a sink with VBUS on if its dual role changes or
  the partner is unplugged meanwhile and its durations are short enough.  ACCEPT is
  understood by the state alone (`:899`): a sink whose REQUEST arrives but loses its
  GoodCRC stays ready, may start a swap and take the answer to its REQUEST for the
  answer to the swap; a PS_RDY then makes it a second source.  It takes losses
  in a row and calls at the same time; the runs, with one of each, do not reach it.
* Power.  On Haswell and Bay Trail a failed S5S3 goes to S5G3 with PP1350
  enabled, on Haswell PP5000 as well, and they stay so in G3 (`haswell.c:229`,
  `:241`, `baytrail.c:218`).
  `power_wait_signals()` starts its second anew at each wake (`common.c:117`, a
  TODO there).  `power_update_signals()` after a timeout may store old values
  over those of an interrupt (`:75`): Haswell may stay in S0 with a rail bad.
  `chipset_exit_hard_off()` in S5 just before its timeout is lost (`:193`), and
  so is one for Braswell while it waits for SUSPWRDNACK.  A jump outside S0 drives
  the outputs low out of order: SUSP_VR_EN before RSMRST#, and PP1350 before
  PP3300_DX (`haswell.c:139`, `baytrail.c:131`), on Bay Trail VCORE before
  SYS_PWROK; Haswell's SYS_PWROK is not driven at all and stays high until the
  next S0S3.  Braswell's
  `forcing_shutdown` does not outlive a jump (`braswell.c:54`): one in S0 in the middle
  of a forced shutdown leaves the PCH in reset, and the state machine may go from S5 to
  S5G3 and back for ever instead of reaching G3.
* Power button.  A press during the pulse of the lid is ignored even if held.
  `power_button_pch_pulse()` sets the state before the time of the next one, so
  that a pass in between ends the pulse at once (`power_button_x86.c:166`).  After
  a jump with the chipset on, `set_initial_pwrbtn_state()` is to "simply reflect the
  actual power button state" (`:200`), but it only ever lowers the pin (`:204`).
  Levels outlive a jump (`chip/lm4/gpio.c:241`), so that one in the middle of a press
  or a pulse, with the button up at its end, leaves the pin low with the machine
  idle until the next press.
* Hash.  A chunk that cannot be read, or a size of 0, leaves `in_progress` set
  for ever on flash that is not mapped (`vboot_hash.c:89`), and later requests
  are refused as busy.  `flash_write()` and `flash_erase()` look for a hash once,
  before they begin (`flash.c:321`, `:341`): when a client sleeps in an erase
  (`chip/lm4/flash.c:159`) and the other starts a hash, the erase goes on under it and
  the hash is DONE for what was there before.  A flash behind SPI is not waited for
  before it is read (`spi_flash.c:151`), nor after the last operation, so that a hash
  started meanwhile reads from a busy chip.  `shared_mem_acquire()` tests and sets
  without a lock (`shared_mem.c:33`).
* Not modelled: the MKBP FIFO tests its limit before it takes the mutex and
  drops the interrupt line after it found the FIFO empty
  (`keyboard_mkbp.c:135`, `:203`); alerts of the port controller are cleared by
  read, mask and write (`usb_pd_tcpc.c:899`); several writers publish one tail
  of the PD log (`pd_log.c:87`); a failed `host_command_resend_response()` is
  overwritten with success (`host_command.c:408`).

### Bounds

* Task: a preemption needs a lower and a higher task, a third to set events;
  with four, two tasks wait for a mutex that a third holds.  Events are sets, so
  the model has no counter and is exhaustive for its tasks.
* Timers: delays of 1 and 5 in periods of 4 put deadlines in this period and in
  the one after the next wrap; 12 ticks are three periods.  The clock stops at
  `MaxTime`, so deadlock is not checked, and a task arms only what can expire
  before.
* Hooks: delays of 0, 2 and 4 lie before and beyond the tick interval of 3, and
  11 ticks hold three ticks and one second.
* Queue: counters of 8 for a buffer of 4 wrap at both; calls of up to 3 units
  make a copy cross the end of the buffer, and find too little space.
* ChargeManager: two offers per port suffice for each rule of preference; four
  calls suffice for an offer, an override, a swap and the answer to it.
* PdProtocol: durations of 1 to 6 ticks keep the order of those of
  `include/usb_pd.h` (each outlasts what it waits for); the two ends differ in how long they
  toggle, as clocks do, or they might toggle in step for ever.  One fault
  anywhere, with one call anywhere, reaches every exchange with its timeout, the
  reset that follows and its recovery; counts of capabilities and hard resets
  are 2, so that both the retry and its limit happen.
* Power: three changes let a rail fail, a shutdown be forced while the chipset
  task handles that, and a request to leave G3 come on the way down; a jump
  counts as one of them.  The hardware's regular answers are not counted.  Every
  start is looked at that the outputs and signals allow; a jump that finds the signals of S0 is assumed to find the
  rails of S3 enabled, and the last reading of the signals in `power_common_init()` is
  one step.
* PowerButton: three calls make a pulse, a press and a lid change overlap; the
  user's presses are not bounded.
* VbootHash: two blocks give a hash of two chunks and regions that overlap
  partly; three commands let either client start, abort, write or erase before,
  within and after what the other does.  Failed reads, restarts and uses of the
  shared memory count among the three.  Either client hashes both blocks or the last,
  and erases both; the host writes both and the console, which is not preempted
  when it writes, the first.  The proof of safety has no bound.

Deadlock is not checked where the system may stop for good: a clock or a count
of calls at its bound, a machine that stays in G3, tasks that all wait without
a driver.

### Fairness

Safety needs none, and `Task` and `Queue` have none.  No client has to call
anything, and no message has to be lost.

* `Timers`: time passes, a pending interrupt is handled, and a task that reads
  the clock or arms its timer goes on (it is in no loop, and interrupts are
  finite).  A task need not cancel.
* `Hooks`: time passes and the hook task is not starved for ever: the watchdog
  resets the system when it is.  `ChargeManager` assumes the same of the
  refresh, which is a routine of that task.
* `PdProtocol`: time passes and the task of each port runs.  It is a task per
  port with a timeout on every wait.
* `Power`: the chipset task and a lower task within a forced shutdown go on;
  rails that are disabled go down; a PCH held in reset, or whose button is held,
  goes to sleep.  Rails need not come up: the timeouts are for that.
* `PowerButton`: POWERBTN, HOOKS and CHIPSET run when they can, time passes.
  Strong for the debouncing: HOOKS runs it between other routines, whenever the
  button rests and no other routine is under way.
* `VbootHash`: while HOOKS or a client is ready the processor runs one of them (the
  priorities say which), and others give the shared memory back.  The flash need not
  become ready: a hash does not wait for it.

## What is proved

TLAPS checks the following for every value of the constants that satisfies the
named `ASSUME`s, which every run evaluates, and on nothing else.

`TaskProofs`, for any number of tasks, mutexes and events:

* `TypeCorrect`.  With `StackOK`: inside the mutex code a task knows its mutex.
* `EventsNoticed`, `UrgentFirst` (without set-and-wait, which breaks them, see
  above).  They rest on `ReadyInv`, which relates the ready bitmap to where each
  task is (all but waiting tasks are ready, and whoever is within a call has
  been switched to), and `SetterInv`, which says that a receiver still to be
  rescheduled is remembered only between its event and the scheduling call.
* `MutexesExclude`, from `MutexInv`: the lock word is set exactly while some
  task owns the mutex.
* `LowestWaiterWoken`, from `WaiterInv` and `WakeInv`: for the lowest client
  task, when it waits, some task is still going to wake it.  Inductive only for
  the lowest task, because no lower task can be between the two instructions of
  `mutex_unlock()` while it runs.
* `TimerAlwaysFree` and `ClientsConsume`: no wait finds its timer in use, and no
  wait of the kernel itself takes an event from the client.

`TimersProofs`, for any tasks, width, timeouts and bounds with
`2 * MaxLatency <= Wrap`: `TypeCorrect`, `ClockIsCurrent`, `TimersAreMet`,
`TimersAreNotEarly`.  The invariant relates the word in memory to the true time by
where the handler is and whether a wrap is pending (`Clock`), what a task has
read so far to the time it started (`Reading`), and the match register to every
deadline of this period at each step of the handler (`Handling`, `Armed`).  The arithmetic of periods is in lemmas.

`HooksProofs`, for any routines, delays and intervals and `MaxTime > 0`:
`TypeCorrect`, `SleepsAreShort`, `HooksAreOnTime`.  `Planned` says, for each
step of a pass, which routines and ticks the sleep computed so far takes into
account, or that a request made since has left a flag or an event that ends it;
`Sleeping` says the same of the sleep that has begun, and `Periods` how old the
last tick and second may be at each step.

`QueueProofs`, for every size and every width of the counters: `TypeCorrect`,
`Bounded` (never more units than the buffer holds) and `ClaimsKept` (the space
or units a call found are there at each later step).  The claims are what makes
the bound inductive; `ProgressOK` relates the position of a copy to its claim.
The arithmetic is in lemmas about the distance of two counters modulo `W` and
of an index modulo the size.

Its second part is `Implements`, that `Queue` implements `Fifo`.  `Content` adds
to those invariants what the buffer holds behind a copy under way; a copied unit
changes nothing that is mapped (`CopyStep`: it goes to a free slot), the advance
of the tail appends exactly what was copied (`TailStep`), the advance of the head
removes exactly what was handed over (`HeadStep`), and every other step is a
stutter.

`ChargeManagerProofs`, for any number of ports, suppliers, priorities and calls:

* `TypeCorrect`, with `Paired`: a port and its supplier are selected together,
  without which the current would be read from no offer; the lemma
  `OfferOfIndex` keeps the selection within its list.
* `BoardAgrees` and `PdAgrees`, from `Inv`.  The refresh writes the board first,
  its globals next and signals the PD tasks last; `BoardInv`, `UpdatedInv` and
  `PdInv` say by how much each is ahead of the other at each place, `OfferInv`
  that a change of the selected offer has made a new refresh due, and `SeedInv`
  that before every supplier has reported there is nothing to change.
* `BestIsActive` and `GoodPortIsKept`, from `SelectionInv`, `FreshInv`,
  `ReportedInv` and `RightInv`.  These speak of the prefix of the list that the
  loop has seen: unless a new refresh is due, the port selected so far is the
  override port, or one no offer seen beats, and none only if no offer seen may
  be used; a kept port was left only for a better one.

`PdProofs`, for any two ports, durations, counts, numbers of calls and faults:
`TypeCorrect`, with the bound of a timeout by the longest duration.

Its second part is about two ports that lose nothing (`Lossless`): no fault, no
port that tries to be the source, and other tasks that ask for power and data
swaps only, any number of them at any time.  Whatever the durations and the
counts are, so for timeouts that are much too short as well, and through every
timeout, retry, rejection and hard reset these cause:

* `NeverTwoSources`: `OneSource`.
* `SinksAreOff`: `SinkIsOff`.
* `ReadyRolesAgree`: `RolesAgree`.

The three follow from `Safe`: `Good` of the two ports in either order, which is
`PortOK` of each and `PairOK` of each with the other.

* `PortOK` is about one port: its state decides its role, resistor and VBUS
  (`RoleOK`, `SwapOK`); it hears unless disconnected, holds one message at most,
  and between the two steps of a pass is in a state that a message leads to
  (`MailOK`); a timeout is set on entry and leads where the state says (`TimeOK`);
  and `FromOK` tells which states cannot have been left last, without which
  "entered" (`last_state != task_state`) would be open.
* `PairOK` is what a port may know of the other: who can have sent the message
  that waits (`Told`), who can have sent the answer, and that whoever has asked
  has its question or the answer under way (`Answered`); where the partner may be
  during a contract (`Contract`), a reset (`Reset`), which a hard reset that
  waits at the PHY and one still to be sent make the hardest, and a swap
  (`Swap`); and that not both show Rp (`Apart`).

The invariant reads a port through sixteen accessors (`State`, `From`, `Sink`,
`Rp`, `On`, `News` and so on).  A lemma `...Good` per kind of step says that
`Good` survives it, where the step is given by what becomes of the accessors only;
its leaves cite the parts of the invariant they need.  A lemma `...Seen`
or `...Holds` per handler says that the handler of the model is such a step, the
invariant closed.  The end of the pass (timeout, then detection of a
disconnection), a transmission, and the beginning of a pass are shared.

TLC checks `Safe` as an invariant too (`PdProofs` extends the model): with the
durations of `MC_PdProtocol`, and with durations of one tick, `MaxFaults = 0`,
two calls, all states are reached that the proof speaks of but those of
a completed swap, which only the former reach.

The hypotheses are needed.  With a fault, and durations that differ from those of
`include/usb_pd.h`, all three properties can be violated; with soft resets
`SinkIsOff` and with changes of the dual role or plugging both it and `OneSource`
(see the observations).  A port that tries to be the source shows Rp while
it is a sink.

`PowerProofs`, for any of the four chipsets, any number of failures, calls and
forced shutdowns, after a reset or a jump in any state (the only assumption is
`PowerAssumption`, that `Chips` holds chipsets of the model):

* `RailsStayInOrder`: `RailsInOrder`.
* `HooksDoAlternate`: `HooksAlternate`.

Both depend on which statements are left of a handler, between any two of which
another task may run, so neither is inductive over the pins and the hooks alone.
The proof gives each handler a proof outline.  A point of it is what is left of
the pass with what the task knows there: outputs that are on and cannot be taken
away (`Kept`: no forced shutdown turns them off), outputs and flags that are off
(other than the `Shared` flags, which other tasks raise), and which hooks may have
been the last.  `Closed` says that at every point of a set the next statement may
be executed (`MayTurnOn`, `MayTurnOff`, `MayRaise`, the order of hooks) and leads to
points of the set again, whichever way a test goes and whether or not a wait times
out; where a pass ends, `Enters` says what must be known for the next one to begin in
that state.  A point is `Fine` when it is in some closed set.  Since `Fine` is
the existence of a set and not a recursion over the sequence, a wait, which
is a loop (sleep, look, wait again), needs no induction: `WaitRule` builds its set.

There is one rule per kind of statement and one lemma per chipset and state, ten
times four of them, e.g. `HaswellS5S3`: its handler is fine with what is known when it begins.
They are joined by `HandlerFine`.  What is known on entry is the crux (`HighIn`, `LowIn`,
`HeardIn`): in S3, PP1350 is on and the core rails are off; in G3, RSMRST# is low.
A failed S5S3 enters S5G3 with PP1350 still on (see the observations), so nothing is
known of PP1350 outside S3 and S0.  "Off" means: not high, unless undriven; a jump
outside S0 begins with all outputs undriven, and `ForceG3Fine` says that its statements
leave what G3 begins with.

The inductive invariant `PowerIInv` is that what is left of the pass is fine with
some knowledge that is true (`Knows`), that a lower task is within one of the forced
shutdowns of its chipset, `RailsInOrder` itself, and that while Bay Trail is to restart
from S5, RSMRST# is low (`RestartIsDown`): S3S5 then goes straight to G3S5, which
turns its rail off before RSMRST# when it fails.  It quantifies over sets of points, so TLC does not
evaluate it; TLC checks the two properties.

`PowerProofs` also proves `RestsUp`, that `IdleIsUp` of `PowerButton` holds after any
number of calls.  `ButtonIInv` says what an interrupted routine of HOOKS or CHIPSET
still has to do: while the state is idle and the pin low, a routine under way still pulses
the button, or its change is still to be noticed, or the press is forced or torn;
and a routine about to set the state to idle has raised the pin.  The two
parts share no state; the specification of the button has names of its own
(`ButtonInit`, `ButtonNext`, `ButtonSpec`) so that one module can extend both.

`VbootHashProofs`: `TypeCorrect` and `HashIsCurrent`, for any flash, regions and
commands of both clients and any number of failures and restarts, with no other
hypothesis.  `Fresh` says that what has been hashed is the beginning of the region
as it is in flash as long as no abort is wanted and the hash is not disturbed;
`Busy` says where tasks can be while a hash is in progress: past the test of
`vboot_hash_abort()` or `vboot_hash_start()` (`PastTest`) the console excludes one,
and a lower task has at most been overtaken by one that is at its beginning.
`Changing` says that while a client changes the flash, a hash in progress will be
aborted, is disturbed, or has not hashed what is still to be changed (`Apart`), and
one that is done is void, about to be cleared, disturbed, or of another region.

Only model-checked:

* all liveness (`TimersEnd`, `RequestsAreServed`, `RefreshSettles`,
  `EventuallySettled`, `HashEnds`, `ForcedDown`, `ExitIsTakenUp`, `PressEnds`),
  which the prover cannot reason about;
* `PdProtocol` with faults, soft resets, changes of the dual role, plugging and
  try.SRC: `OneSource`, `RolesAgree` and `SinkIsOff` hold for the durations and
  counts of the instances and not for all, as said above.

## What is not modelled

Within the parts modelled:

* kernel: interrupt priorities (a handler is not interrupted by another);
* timers: `force_time()`, `udelay()`, the clock carried over an image jump;
* hooks: the order of hook routines of one type;
* queues: peeking, the write chunk, the policies' notifications;
* charge manager: voltage, the log, the charge ramp, the power info host command,
  the spoofed capability of a system without a battery; tasks of different
  priority that preempt each other within one of its calls;
* USB PD: VDMs and alternate modes, VCONN swaps, BIST, accessories, SUSPENDED,
  pings, the suspension before an image jump, requests renewed by the charge manager,
  the forced dual-role states, the agreement on data roles, and the receive ring
  and the alert register of external port controllers;
* power: hibernation, cold and warm resets of the chipset, boards with a PMIC,
  the signal log, wireless, the ARM chipsets (`gaia.c`, `tegra.c`, `rockchip.c`,
  `mediatek.c`), which have state machines of their own;
* power button: simulated presses, host commands, other buttons and the recovery
  switches;
* hash and flash: the hash functions, the signature check, write protection.

Other parts with state worth a model, in the order in which they would come
next: the MKBP keyboard with its events and interrupt line; the receive ring and
alerts of the port controller (an instance of `Fifo`); the PD log; host commands
with their resent responses; the USART drivers as users of `Queue`; the mutexes
of the other cores, which turn interrupts off and drop events of a waiting task
(`core/cortex-m0/task.c:515`); the 8042 keyboard; the charge state machine; the
buffer of the console UART; the arbitration of I2C.

The bulk of the sources is not meant to be modelled: register definitions and
drivers of the chips, boards, the host utilities, tables of commands and
configuration, formatting, cryptography, and control loops are register access,
data or arithmetic in one task.  The models cover the code in which tasks and
interrupts share state, which is a small share of the lines.
