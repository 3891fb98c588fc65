------------------------------- MODULE Power -------------------------------
(***************************************************************************)
(* Power sequencing of the x86 chipsets: the chipset task and the power    *)
(* state machine of power/common.c, which runs the statements of Chipsets. *)
(*                                                                         *)
(* The hardware answers as it likes: rails come up, or not, when they are  *)
(* enabled, and fail; the PCH leaves and enters its sleep states while its *)
(* resets let it.  Tasks above CHIPSET (POWERBTN, HOSTCMD, CONSOLE) act    *)
(* between two of its statements; HOOKS and CHARGER, below it, also force  *)
(* shutdowns, and CHIPSET comes between two statements of theirs.  Before  *)
(* all of them HOOK_INIT runs power_common_init().                         *)
(***************************************************************************)
EXTENDS Chipsets, Naturals, FiniteSets

CONSTANTS
  Chips,     \* the chipsets to check
  MaxChanges \* bound: calls by other tasks, failures of enabled rails, sleep
             \* states the PCH enters of its own accord and a jump, together

ASSUME PowerAssumption ==
  /\ Chips \subseteq Chipset
  /\ MaxChanges \in Nat

VARIABLES
  chip,       \* the chipset of the board; it never changes
  state,
  in_signals,
  level,      \* the input GPIOs that are high
  pins,       \* the output GPIOs that are high
  undriven,   \* history: those of them that the image before this one left so,
              \* and that this one has not driven since
  flags,      \* want_g3_exit, pause_in_s5, forcing_shutdown, restart_from_s5
  event,      \* an event is pending for the chipset task
  code,       \* what the chipset task has left of this pass of its loop
  caller,     \* what a lower task has left of chipset_force_shutdown()
  told,       \* the last chipset hook that was notified
  changes     \* how many of MaxChanges there have been

vars == <<chip, state, in_signals, level, pins, undriven, flags, event, code,
          caller, told, changes>>

-----------------------------------------------------------------------------
(* The hardware                                                            *)

\* The rails that have a power-good signal, and the output that enables each
Rails ==
  CASE chip = "haswell"  -> {<<"PP5000", "PP5000_EN">>, <<"PP1350", "PP1350_EN">>,
                             <<"PP1050", "SUSP_VR_EN">>}
    [] chip = "baytrail" -> {<<"PP5000", "PP5000_EN">>, <<"PGOOD_S5", "SUSP_VR_EN">>}
    [] chip = "braswell" -> {<<"RSMRST_PWRGD", "external">>,
                             <<"ALL_SYS_PWRGD", "external">>}
    [] chip = "skylake"  -> {<<"RSMRST_PGOOD", "external">>}

\* The SLP_Sx# signals, in the order the PCH deasserts them, and the output
\* it needs to do so
Sleeps ==
  CASE chip = "haswell" -> <<<<"SLP_SUS", "DPWROK">>, <<"SLP_S5", "RSMRST_L">>,
                             <<"SLP_S3", "RSMRST_L">>>>
    [] chip \in {"baytrail", "braswell"} ->
         <<<<"SLP_S4", "RSMRST_L">>, <<"SLP_S3", "RSMRST_L">>>>
    [] chip = "skylake" -> <<<<"SLP_SUS", "PWRBTN_L">>, <<"SLP_S4", "PWRBTN_L">>,
                             <<"SLP_S3", "PWRBTN_L">>>>

Driven(pin) == pin = "external" \/ pin \in pins

\* power_common_init() enables the interrupts of the signals and then reads
\* them; other tasks start when it is over.  Nobody reads in_signals before,
\* which is why it may follow the signals all the time.
Starting == code # <<>> /\ code[Len(code)] = StartTasks

\* Mutant: the interrupt wakes the task for signals that come up only
power_signal_interrupt_rising(new) ==
  /\ level' = new
  /\ in_signals' = new
  /\ event' = (event \/ (~Starting /\ \E s \in new : s \notin level))

\* A signal changes: the interrupt handler shadows the signals and wakes the task
power_signal_interrupt(new) ==
  /\ level' = new
  /\ in_signals' = new
  /\ event' = (event \/ ~Starting)

Change == changes < MaxChanges /\ changes' = changes + 1

Untouched == UNCHANGED <<chip, state, pins, undriven, flags, code, caller, told>>

RailComesUp(r) ==
  /\ r[1] \notin level /\ Driven(r[2])
  /\ power_signal_interrupt(level \cup {r[1]})
  /\ Untouched /\ UNCHANGED changes

RailGoesDown(r) ==
  /\ r[1] \in level /\ ~Driven(r[2])
  /\ power_signal_interrupt(level \ {r[1]})
  /\ Untouched /\ UNCHANGED changes

RailFails(r) ==
  /\ r[1] \in level /\ Driven(r[2])
  /\ Change
  /\ power_signal_interrupt(level \ {r[1]})
  /\ Untouched

\* The PCH leaves its sleep states from the deepest on, and enters them in
\* the opposite order.
PchWakes(k) ==
  /\ Sleeps[k][1] \notin level /\ Driven(Sleeps[k][2])
  /\ \A j \in 1 .. (k - 1) : Sleeps[j][1] \in level
  /\ power_signal_interrupt(level \cup {Sleeps[k][1]})
  /\ Untouched /\ UNCHANGED changes

PchSleeps(k) ==
  /\ Sleeps[k][1] \in level
  /\ \A j \in (k + 1) .. Len(Sleeps) : Sleeps[j][1] \notin level
  /\ IF Driven(Sleeps[k][2]) THEN Change ELSE UNCHANGED changes
  /\ power_signal_interrupt(level \ {Sleeps[k][1]})
  /\ Untouched

\* ... which it must do when its reset is asserted or its button held
PchIsHeld == \E k \in 1 .. Len(Sleeps) : ~Driven(Sleeps[k][2]) /\ PchSleeps(k)

Hardware == \/ \E r \in Rails : RailComesUp(r) \/ RailGoesDown(r) \/ RailFails(r)
            \/ \E k \in 1 .. Len(Sleeps) : PchWakes(k) \/ PchSleeps(k)

-----------------------------------------------------------------------------
(* Other tasks                                                             *)

Call ==
  /\ ~Starting /\ Change
  /\ UNCHANGED <<chip, state, in_signals, level, pins, undriven, code, told>>

\* Mutant: sets the flag and leaves the task asleep
chipset_exit_hard_off_no_wake ==
  /\ Call /\ state \in {"G3", "S5G3"}
  /\ flags' = flags \cup {"want_g3_exit"}
  /\ UNCHANGED <<event, caller>>

chipset_exit_hard_off ==
  /\ Call /\ state \in {"G3", "S5G3"}
  /\ flags' = flags \cup {"want_g3_exit"}
  /\ event' = TRUE
  /\ UNCHANGED caller

\* The lid or the external power changes
Wake == Call /\ event' = TRUE /\ UNCHANGED <<flags, caller>>

host_command_pause_in_s5 ==
  /\ Call
  /\ flags' \in {flags \cup {"pause_in_s5"}, flags \ {"pause_in_s5"}}
  /\ UNCHANGED <<event, caller>>

\* thermal control and the charger force a shutdown, one statement at a time
StartForceShutdown ==
  /\ Call /\ caller = <<>>
  /\ caller' = chipset_force_shutdown(chip)
  /\ UNCHANGED <<flags, event>>

-----------------------------------------------------------------------------
(* Statements                                                              *)

\* What a statement does to outputs and flags
Effect(s) ==
  /\ pins' = CASE s.do = "on"  -> pins \cup {s.pin}
               [] s.do = "off" -> pins \ {s.pin}
               [] OTHER        -> pins
  /\ undriven' = IF s.do \in {"on", "off"} THEN undriven \ {s.pin} ELSE undriven
  /\ flags' = CASE s.do = "raise" -> flags \cup {s.flag}
                [] s.do = "lower" -> flags \ {s.flag}
                [] OTHER          -> flags
  /\ told' = IF s.do = "notify" THEN s.hook ELSE told

\* The statements a test is replaced by
Branches(s) ==
  CASE s.do = "has"    -> {IF s.want \subseteq in_signals THEN s.then ELSE s.else}
    [] s.do = "high"   -> {IF s.gpio \in level THEN s.then ELSE s.else}
    [] s.do = "if"     -> {IF s.flag \in flags THEN s.then ELSE s.else}
    [] s.do = "in"     -> {IF state = s.st THEN s.then ELSE s.else}
    [] s.do = "either" -> {s.then, s.else}
    [] OTHER           -> {}

Outputs == {"on", "off", "raise", "lower", "notify"}

\* The task goes on with its chipset_force_shutdown()
LowerTask ==
  /\ caller # <<>>
  /\ \/ /\ Head(caller).do \in Outputs
        /\ Effect(Head(caller))
        /\ caller' = Tail(caller)
     \/ /\ \E b \in Branches(Head(caller)) : caller' = b \o Tail(caller)
        /\ UNCHANGED <<pins, undriven, flags, told>>
  /\ UNCHANGED <<chip, state, in_signals, level, event, code, changes>>

-----------------------------------------------------------------------------
(* chipset_task()                                                          *)

\* task_wait_event(), and what is done when it times out, if it can
Sleep(late) == [do |-> "sleep", late |-> late]

\* The common handler of the steady states
power_common_state(st) ==
  CASE st = "G3" -> <<If("want_g3_exit", <<Lower("want_g3_exit"), Go("G3S5")>>,
                         <<Sleep(<<>>)>>)>>
    [] st = "S5" -> <<Sleep(<<Lower("want_g3_exit"), Go("S5G3")>>)>>
    [] st \in {"S3", "S0"} -> <<Sleep(<<>>)>>

Others == UNCHANGED <<chip, level, caller, changes>>

\* Once the chipset has left the state as it is, the common handler goes on
Run(c) == IF c = <<Stay>> THEN power_common_state(state) ELSE c

\* Top of the loop: the chipset handles the state first
HandleState ==
  /\ code = <<>>
  /\ code' = Run(power_handle_state(chip, state))
  /\ Others /\ UNCHANGED <<state, in_signals, pins, undriven, flags, event, told>>

Output ==
  /\ code # <<>> /\ Head(code).do \in Outputs
  /\ Effect(Head(code))
  /\ code' = Run(Tail(code))
  /\ Others /\ UNCHANGED <<state, in_signals, event>>

Branch ==
  /\ code # <<>>
  /\ \E b \in Branches(Head(code)) : code' = Run(b \o Tail(code))
  /\ Others /\ UNCHANGED <<state, in_signals, pins, undriven, flags, event, told>>

power_set_state ==
  /\ code # <<>> /\ Head(code).do = "go"
  /\ state' = Head(code).to
  /\ code' = <<>>
  /\ Others /\ UNCHANGED <<in_signals, pins, undriven, flags, event, told>>

\* power_wait_signals(): go on, or sleep until the next event and look again
power_wait_signals ==
  /\ code # <<>> /\ Head(code).do = "wait"
  /\ LET s == Head(code)
         look == [do |-> "look", failed |-> s.failed]
     IN code' = IF s.want \subseteq in_signals THEN Tail(code)
                ELSE <<Sleep(<<look>>)>> \o code
  /\ Others /\ UNCHANGED <<state, in_signals, pins, undriven, flags, event, told>>

\* task_wait_event() returns
AwakeByEvent ==
  /\ code # <<>> /\ Head(code).do = "sleep" /\ event
  /\ event' = FALSE
  /\ code' = Tail(code)
  /\ Others /\ UNCHANGED <<state, in_signals, pins, undriven, flags, told>>

AwakeByTimer ==
  /\ code # <<>> /\ Head(code).do = "sleep" /\ ~event
  /\ Head(code).late # <<>>
  /\ code' = Head(code).late
  /\ Others /\ UNCHANGED <<state, in_signals, pins, undriven, flags, event, told>>

\* power_update_signals() after a timeout reads the signals ...
Look ==
  /\ code # <<>> /\ Head(code).do = "look"
  /\ code' = <<[do |-> "store", seen |-> level]>> \o Head(code).failed
  /\ Others /\ UNCHANGED <<state, in_signals, pins, undriven, flags, event, told>>

\* ... and stores what it read, which an interrupt may have made old
Store ==
  /\ code # <<>> /\ Head(code).do = "store"
  /\ in_signals' = Head(code).seen
  /\ code' = Tail(code)
  /\ Others /\ UNCHANGED <<state, pins, undriven, flags, event, told>>

\* The end of power_common_init(): power_update_signals()
power_common_init ==
  /\ code # <<>> /\ Head(code).do = "start"
  /\ in_signals' = level
  /\ code' = Tail(code)
  /\ Others /\ UNCHANGED <<state, pins, undriven, flags, event, told>>

ChipsetTask ==
  \/ power_common_init \/ HandleState \/ Output \/ Branch \/ power_set_state
  \/ power_wait_signals \/ AwakeByEvent \/ AwakeByTimer \/ Look \/ Store

-----------------------------------------------------------------------------
(* Specification                                                           *)

AllInputs == {r[1] : r \in Rails} \cup {Sleeps[k][1] : k \in 1 .. Len(Sleeps)}

\* IN_ALL_S0; Braswell asks for IN_PGOOD_S0 instead.
S0Inputs == IF chip = "braswell" THEN {r[1] : r \in Rails} ELSE AllInputs

\* The outputs that are on in S0
S0Pins ==
  CASE chip = "haswell"  -> {"DPWROK", "SUSP_VR_EN", "RSMRST_L", "PP5000_EN",
                             "PP1350_EN", "PP3300_DX_EN", "VCORE_EN",
                             "PCH_PWROK", "SYS_PWROK"}
    [] chip = "baytrail" -> {"SUSP_VR_EN", "RSMRST_L", "PP1350_EN", "PP5000_EN",
                             "PP3300_DX_EN", "VCORE_EN", "SYS_PWROK", "CORE_PWROK"}
    [] chip = "braswell" -> {"RSMRST_L", "SYS_PWROK"}
    [] chip = "skylake"  -> {"RSMRST_L", "PWRBTN_L"}

\* An output on the left is high only while the one on the right is
RailOrder(c) ==
  CASE c = "haswell" ->
         {<<"RSMRST_L", "SUSP_VR_EN">>, <<"PP1350_EN", "PP5000_EN">>,
          <<"PP3300_DX_EN", "PP1350_EN">>, <<"VCORE_EN", "PP3300_DX_EN">>,
          <<"PCH_PWROK", "VCORE_EN">>, <<"SYS_PWROK", "PCH_PWROK">>}
    [] c = "baytrail" ->
         {<<"RSMRST_L", "SUSP_VR_EN">>, <<"PP3300_DX_EN", "PP1350_EN">>,
          <<"PP3300_DX_EN", "PP5000_EN">>, <<"VCORE_EN", "PP3300_DX_EN">>,
          <<"CORE_PWROK", "VCORE_EN">>, <<"SYS_PWROK", "VCORE_EN">>}
    [] OTHER -> {}

\* What an image that jumped may have left on: outputs in order, but for
\* Haswell's SYS_PWROK, which ForceG3 passes over, as a jump may follow another
Left == {on \in SUBSET S0Pins :
           \A o \in RailOrder(chip) \ {<<"SYS_PWROK", "PCH_PWROK">>} :
             o[1] \in on => o[2] \in on}

\* After a jump that finds all that S0 needs, among it the power-good of
\* VCORE, the rails of S3 are on; outputs out of order were left so, and so
\* was the reset of a forced shutdown that Braswell forgets in the jump.
JumpedInS0 ==
  /\ S0Inputs \subseteq level /\ state = "S0" /\ told = "RESUME"
  /\ pins \in Left /\ {"SUSP_VR_EN", "PP1350_EN"} \cap S0Pins \subseteq pins
  /\ undriven = {o[1] : o \in {o \in RailOrder(chip) : o[1] \in pins /\ o[2] \notin pins}}
                  \cup (IF chip = "braswell" THEN {"RSMRST_L"} \ pins ELSE {})
  /\ code = <<>> /\ changes = 1

\* Any other jump drives the outputs low one by one; VCORE's may be the only
\* power-good that is missing.
JumpedOutsideS0 ==
  /\ S0Inputs \subseteq level => "VCORE_EN" \in S0Pins
  /\ state = "G3" /\ told = "SHUTDOWN"
  /\ pins \in Left /\ undriven = pins
  /\ code = ForceG3(chip) /\ changes = 1

\* A reset drives them low, while rails may still be going down.
WasReset ==
  /\ state = "G3" /\ told = "SHUTDOWN"
  /\ pins = S0Pins \cap {"PWRBTN_L"} /\ undriven = {}
  /\ code = <<>> /\ changes = 0

\* power_common_init() and power_chipset_init()
Init ==
  /\ chip \in Chips
  /\ level \in {l \in SUBSET AllInputs :
                 \A k \in 2 .. Len(Sleeps) :
                   Sleeps[k][1] \in l => Sleeps[k - 1][1] \in l}
  /\ JumpedInS0 \/ JumpedOutsideS0 \/ WasReset
  /\ in_signals = level
  /\ flags = IF chip \in {"baytrail", "braswell"} THEN {"pause_in_s5"} ELSE {}
  /\ event = FALSE
  /\ caller = <<>>

OtherTask ==
  \/ chipset_exit_hard_off \/ Wake \/ host_command_pause_in_s5
  \/ StartForceShutdown \/ LowerTask

Next == Hardware \/ OtherTask \/ ChipsetTask

\* The tasks run, a rail that is no longer enabled goes down, and the PCH
\* obeys its resets and a button that is held.
Spec ==
  /\ Init /\ [][Next]_vars
  /\ WF_vars(ChipsetTask)
  /\ WF_vars(LowerTask)
  /\ WF_vars(\E r \in Rails : RailGoesDown(r))
  /\ WF_vars(PchIsHeld)

-----------------------------------------------------------------------------
(* Properties                                                              *)

\* The outputs that are high, but for what a jump left and nobody has driven
Lit == pins \ undriven

\* Whatever fails and whoever forces a shutdown meanwhile, rails are turned
\* on and off in order: no rail is up without the ones it is built on, and
\* power-good outputs and RSMRST# are never high over a rail that is off
\* (the sequences of power/haswell.c and power/baytrail.c).  Outputs that a
\* jump outside S0 found high are excused until they are driven:
\* power_chipset_init() drives them low in another order.
RailsInOrder == \A o \in RailOrder(chip) : o[1] \in Lit => o[2] \in pins

\* STARTUP, RESUME, SUSPEND and SHUTDOWN hooks alternate as their users rely
\* on: no RESUME after RESUME, no SHUTDOWN without a STARTUP, also when a
\* rail fails half way up (hook_notify() in the power_handle_state()s).
HookOrder == {<<"SHUTDOWN", "STARTUP">>, <<"STARTUP", "RESUME">>,
              <<"STARTUP", "SHUTDOWN">>, <<"RESUME", "SUSPEND">>,
              <<"SUSPEND", "RESUME">>, <<"SUSPEND", "SHUTDOWN">>}
HooksAlternate ==
  code # <<>> /\ Head(code).do = "notify" => <<told, Head(code).hook>> \in HookOrder

\* A shutdown that is forced while the system is up brings it down to G3, or
\* on Bay Trail to the start of a new power-up, whatever the chipset task was
\* doing ("This condition will reset once the state machine transitions to
\* G3", power/haswell.c, baytrail.c, braswell.c, skylake.c).  Braswell loses
\* one that the image before began: forcing_shutdown starts as 0 again.
Down == IF chip = "skylake" THEN "forcing_shutdown" \in flags
        ELSE "RSMRST_L" \notin pins \cup undriven
ForcedDown == (state \in {"S5S3", "S3", "S3S0", "S0", "S0S3"} /\ Down)
                ~> state \in {"G3", "G3S5"}

\* A request to leave G3 that was recorded is taken up, also when it comes
\* between the tests of power_common_state() and its sleep, and while the
\* system is still on its way down (power/common.c, chipset_exit_hard_off()).
\* Braswell may instead be back in S5, where it waits for SUSPWRDNACK.
LeavesG3 == state = "G3S5" \/ (chip = "braswell" /\ state = "S5")
ExitIsTakenUp == (state \in {"G3", "S5G3"} /\ "want_g3_exit" \in flags) ~> LeavesG3
=============================================================================
