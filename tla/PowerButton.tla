----------------------------- MODULE PowerButton -----------------------------
(***************************************************************************)
(* The power button of x86 boards: the debouncing of power_button.c and    *)
(* the state machine of power_button_x86.c, which decides what the PCH     *)
(* sees on PCH_PWRBTN_L.                                                   *)
(*                                                                         *)
(* The POWERBTN task has a higher priority than all tasks that touch its   *)
(* state, so a pass of its loop is one step.  The routines that run in     *)
(* HOOKS and in CHIPSET assign the state, the time of the next transition  *)
(* and the output one by one, without a lock; POWERBTN, and CHIPSET in the *)
(* case of HOOKS, may run between any two assignments.                     *)
(***************************************************************************)
EXTENDS Sequences, Naturals

CONSTANT MaxCalls \* bound: lid changes and calls by HOOKS and CHIPSET, together

ASSUME PowerButtonAssumption == MaxCalls \in Nat

VARIABLES
  raw,           \* the user holds the button
  debouncing,    \* power_button_change_deferred() is due
  pressed,       \* debounced_power_pressed
  lid_open,
  any_off,       \* chipset_in_state(CHIPSET_STATE_ANY_OFF)
  charge_init,   \* charge_get_state() == PWR_STATE_INIT
  pwrbtn_state,
  tnext_state,   \* "none" for 0, "past" or "future"
  high,          \* level of PCH_PWRBTN_L
  inherited,     \* history: the image before this one left it low, and it was
                 \* not raised since
  woken, awake, timer, \* POWERBTN: an event is pending; it does not wait; it
                       \* waits with a timeout
  hooks, chipset, \* what HOOKS and CHIPSET have left of their routine
  forced,        \* power_button_pch_press() was called and not undone since
  torn,          \* a routine that was about to end a press was interrupted
  calls

user == <<raw, debouncing, lid_open>>
system == <<any_off, charge_init>>
machine == <<pwrbtn_state, tnext_state, high, inherited>>
task == <<woken, awake, timer>>
button_vars ==
  <<user, pressed, system, machine, task, hooks, chipset, forced, torn, calls>>

-----------------------------------------------------------------------------
(* Statements of the routines                                              *)

\* set_pwrbtn_to_pch(): a press is ignored while the chipset is off if the
\* battery, which the model does not have, is too low.
set_pwrbtn_to_pch(up) == high' \in {up} \cup (IF any_off THEN {TRUE} ELSE {})

power_button_pch_press == <<"press_unless_pressed">>
power_button_pch_release == <<"high", "eat_or_idle">>

power_button_pch_pulse   == <<"low", "LID_OPEN", "next_in_200_ms", "wake">>

\* Mutant: the task learns of a release at its next transition
power_button_released_quiet == <<"RELEASED", "next_now">>

power_button_pressed == <<"PRESSED", "next_now", "wake">>
power_button_released == <<"RELEASED", "next_now", "wake">>

\* powerbtn_x86_changed(): changes during an initial pulse are ignored, and
\* so is the release of a press the PCH was told the end of.
changed ==
  CASE pwrbtn_state \in {"BOOT_KB_RESET", "INIT_ON", "LID_OPEN", "WAS_OFF"} -> <<>>
    [] OTHER -> IF pressed THEN power_button_pressed
                ELSE IF pwrbtn_state = "EAT_RELEASE" THEN <<"IDLE">>
                ELSE power_button_released

\* One statement, and what is left of the routine
Do(code, rest) ==
  /\ high' \in CASE Head(code) = "low"  -> {FALSE} \cup (IF any_off THEN {TRUE} ELSE {})
                 [] Head(code) = "high" -> {TRUE}
                 [] Head(code) = "press_unless_pressed" ->
                      IF pressed THEN {high}
                      ELSE {FALSE} \cup (IF any_off THEN {TRUE} ELSE {})
                 [] OTHER -> {high}
  /\ inherited' = (inherited /\ ~high')
  /\ pwrbtn_state' =
       CASE Head(code) \in {"PRESSED", "RELEASED", "LID_OPEN", "IDLE"} -> Head(code)
         [] Head(code) = "eat_or_idle" -> IF pressed THEN "EAT_RELEASE" ELSE "IDLE"
         [] OTHER -> pwrbtn_state
  /\ tnext_state' = CASE Head(code) = "next_now"       -> "past"
                      [] Head(code) = "next_in_200_ms" -> "future"
                      [] OTHER                         -> tnext_state
  /\ woken' = (woken \/ Head(code) = "wake")
  /\ forced' = CASE Head(code) = "press_unless_pressed" -> TRUE
                 [] Head(code) = "high"                 -> FALSE
                 [] OTHER                               -> forced
  /\ rest = Tail(code)

\* The routine has decided that the press is over, and not yet said so: what
\* another task does to the machine here is overwritten
Ending(code) == code # <<>> /\ Head(code) \in {"eat_or_idle", "IDLE"}

-----------------------------------------------------------------------------
(* The user, the chipset and the charger                                   *)

\* The button: an interrupt starts the debouncing again.
Button ==
  /\ raw' = ~raw /\ debouncing' = TRUE
  /\ UNCHANGED <<lid_open, pressed, system, machine, task, hooks, chipset,
                 forced, torn, calls>>

ChipsetState ==
  /\ any_off' = ~any_off
  /\ UNCHANGED <<user, pressed, charge_init, machine, task, hooks, chipset,
                 forced, torn, calls>>

\* The charger knows the battery: powerbtn_x86_charge()
ChargeReady ==
  /\ charge_init /\ charge_init' = FALSE
  /\ woken' = (woken \/ pwrbtn_state = "INIT_ON")
  /\ UNCHANGED <<user, pressed, any_off, machine, awake, timer, hooks, chipset,
                 forced, torn, calls>>

\* The time of the next transition comes
Tick ==
  /\ tnext_state = "future" /\ tnext_state' = "past"
  /\ UNCHANGED <<user, pressed, system, pwrbtn_state, high, inherited, task, hooks,
                 chipset, forced, torn, calls>>

-----------------------------------------------------------------------------
(* HOOKS and CHIPSET                                                       *)

\* The lid changes, debounced, and powerbtn_x86_lid_change() runs
Lid ==
  /\ calls < MaxCalls /\ calls' = calls + 1
  /\ hooks = <<>> /\ chipset = <<>>
  /\ lid_open' = ~lid_open
  /\ hooks' = IF lid_open' /\ any_off THEN power_button_pch_pulse ELSE <<>>
  /\ UNCHANGED <<raw, debouncing, pressed, system, machine, task, chipset,
                 forced, torn>>

\* power_button_change_deferred(): the button counts as released while the
\* lid is closed
Debounced ==
  /\ hooks = <<>> /\ chipset = <<>> /\ debouncing
  /\ debouncing' = FALSE
  /\ pressed' = (raw /\ lid_open)
  /\ hooks' = IF pressed' # pressed THEN <<"changed">> ELSE <<>>
  /\ UNCHANGED <<raw, lid_open, system, machine, task, chipset, forced, torn,
                 calls>>

\* A forced shutdown on Skylake
Thermal ==
  /\ calls < MaxCalls /\ calls' = calls + 1
  /\ hooks = <<>> /\ chipset = <<>>
  /\ hooks' = power_button_pch_press
  /\ UNCHANGED <<user, pressed, system, machine, task, chipset, forced, torn>>

HooksRoutine ==
  /\ hooks # <<>> /\ chipset = <<>>
  /\ IF Head(hooks) = "changed"
     THEN hooks' = changed /\ UNCHANGED <<machine, woken, forced>>
     ELSE Do(hooks, hooks')
  /\ UNCHANGED <<user, pressed, system, awake, timer, chipset, torn, calls>>

\* The chipset task forces a shutdown (Skylake), ends it (Skylake in G3, Bay
\* Trail before it restarts), or restarts (Bay Trail)
ChipsetCalls ==
  /\ calls < MaxCalls /\ calls' = calls + 1
  /\ chipset = <<>>
  /\ chipset' \in {power_button_pch_press, power_button_pch_release,
                   power_button_pch_pulse}
  /\ UNCHANGED <<user, pressed, system, machine, task, hooks, forced, torn>>

ChipsetRoutine ==
  /\ chipset # <<>>
  /\ Do(chipset, chipset')
  /\ torn' = (torn \/ Ending(hooks))
  /\ UNCHANGED <<user, pressed, system, awake, timer, hooks, calls>>

-----------------------------------------------------------------------------
(* POWERBTN                                                                *)

Becomes(st, next) == pwrbtn_state' = st /\ tnext_state' = next

\* Mutant: the end of the first pulse forgets that the button is up
was_off_idle ==
  /\ pwrbtn_state = "WAS_OFF"
  /\ IF pressed THEN Becomes("HELD", "none") ELSE Becomes("IDLE", "none")
  /\ UNCHANGED high

was_off ==
  /\ pwrbtn_state = "WAS_OFF"
  /\ IF pressed THEN Becomes("HELD", "none") ELSE Becomes("RELEASED", "past")
  /\ UNCHANGED high

press ==
  /\ pwrbtn_state = "PRESSED"
  /\ Becomes(IF any_off THEN "WAS_OFF" ELSE "T0", "future")
  /\ set_pwrbtn_to_pch(FALSE)

t0 == pwrbtn_state = "T0" /\ Becomes("T1", "future") /\ high' = TRUE

t1 ==
  /\ pwrbtn_state = "T1"
  /\ Becomes("HELD", "none")
  /\ high' = (any_off /\ high)

release ==
  /\ pwrbtn_state \in {"RELEASED", "LID_OPEN"}
  /\ Becomes("IDLE", "none")
  /\ high' = TRUE

\* The reset pin may have been the cause of the reset, or not
init_on ==
  /\ pwrbtn_state = "INIT_ON"
  /\ IF charge_init THEN Becomes("INIT_ON", "none") /\ UNCHANGED high
     ELSE /\ \E st \in IF pressed THEN {"BOOT_KB_RESET", "WAS_OFF"} ELSE {"RELEASED"} :
               Becomes(st, "future")
          /\ set_pwrbtn_to_pch(FALSE)

kb_reset ==
  /\ pwrbtn_state = "BOOT_KB_RESET"
  /\ Becomes(IF pressed THEN "EAT_RELEASE" ELSE "IDLE", "none")
  /\ high' = TRUE

nothing ==
  /\ pwrbtn_state \in {"IDLE", "HELD", "EAT_RELEASE"}
  /\ Becomes(pwrbtn_state, "none") /\ UNCHANGED high

state_machine ==
  IF tnext_state = "future" THEN UNCHANGED machine
  ELSE /\ press \/ t0 \/ t1 \/ release \/ init_on \/ kb_reset \/ was_off \/ nothing
       /\ inherited' = (inherited /\ ~high')

\* A pass of power_button_task(), after its wait is over
PowerButtonTask ==
  /\ awake \/ woken \/ timer
  /\ woken' = (awake /\ woken)
  /\ state_machine
  /\ awake' = (tnext_state' = "past") /\ timer' = (tnext_state' = "future")
  /\ torn' = (torn \/ Ending(chipset) \/ Ending(hooks))
  /\ UNCHANGED <<user, pressed, system, hooks, chipset, forced, calls>>

-----------------------------------------------------------------------------
(* Specification                                                           *)

\* power_button_init() and set_initial_pwrbtn_state(): jumped while the
\* chipset was on, where the pin is driven only if the button is held; reset
\* or jumped with the AP to be left off; or any other reset or jump.  A jump
\* leaves the level of the pin as it is.
ButtonInit ==
  /\ raw \in BOOLEAN /\ lid_open \in BOOLEAN
  /\ debouncing = FALSE
  /\ pressed = (raw /\ lid_open)
  /\ any_off \in BOOLEAN /\ charge_init = TRUE
  /\ \/ /\ ~any_off /\ pwrbtn_state = "IDLE"
        /\ high \in (IF pressed THEN {FALSE} ELSE BOOLEAN)
        /\ inherited = (~high /\ ~pressed)
     \/ /\ pwrbtn_state = (IF pressed THEN "EAT_RELEASE" ELSE "IDLE")
        /\ high = TRUE /\ inherited = FALSE
     \/ pwrbtn_state = "INIT_ON" /\ high \in BOOLEAN /\ inherited = ~high
  /\ tnext_state = "none"
  /\ woken = FALSE /\ awake = TRUE /\ timer = FALSE
  /\ hooks = <<>> /\ chipset = <<>>
  /\ forced = FALSE /\ torn = FALSE /\ calls = 0

ButtonNext ==
  \/ Button \/ ChipsetState \/ ChargeReady \/ Tick
  \/ Lid \/ Debounced \/ Thermal \/ HooksRoutine
  \/ ChipsetCalls \/ ChipsetRoutine
  \/ PowerButtonTask

\* Tasks that can run do, debouncing and timeouts end
ButtonSpec ==
  /\ ButtonInit /\ [][ButtonNext]_button_vars
  /\ WF_button_vars(PowerButtonTask)
  /\ WF_button_vars(HooksRoutine) /\ WF_button_vars(ChipsetRoutine)
  /\ SF_button_vars(Debounced) /\ WF_button_vars(Tick)

-----------------------------------------------------------------------------
(* Properties                                                              *)

\* No press is left behind: while the machine is idle and the button is up,
\* the PCH sees it up, whatever was pulsed, pressed, released or ignored
\* before ("Button up; state machine idle", power_button_x86.c,
\* PWRBTN_STATE_IDLE) - unless a shutdown is being forced, or the image before
\* this one jumped in the middle of a press: set_initial_pwrbtn_state() does
\* not raise the pin then.
IdleIsUp ==
  pwrbtn_state = "IDLE" /\ ~pressed /\ hooks = <<>> /\ chipset = <<>> /\ ~awake
    => high \/ forced \/ torn \/ inherited

\* What is sent to the PCH ends: after the user lets go, the PCH sees the
\* button released, or the user presses again (power_button_x86.c) - a press
\* that the image before this one left behind excepted.
PressEnds ==
  (~raw /\ ~high) ~> (raw \/ high \/ forced \/ torn \/ inherited)
=============================================================================
