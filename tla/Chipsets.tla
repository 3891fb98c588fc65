------------------------------ MODULE Chipsets ------------------------------
(***************************************************************************)
(* power_handle_state(), chipset_force_shutdown() and power_chipset_init() *)
(* of the x86 chipsets: power/haswell.c, baytrail.c, braswell.c (cyan,     *)
(* without CONFIG_PMIC) and skylake.c (without GLADOS_BOARD_V2).  What a   *)
(* handler does in a state is a sequence of statements, which Power        *)
(* executes one at a time, so that other tasks, interrupts and the         *)
(* hardware come between any two of them.                                  *)
(* Delays are left out for that reason.  Also left out are the outputs no  *)
(* other output depends on: wireless, touch devices, USB, backlight,       *)
(* PROCHOT, EDP, and the sleep mask.                                       *)
(***************************************************************************)
EXTENDS Sequences

\* Statements: outputs, flags of the file, hooks
On(pin)     == [do |-> "on", pin |-> pin]
Off(pin)    == [do |-> "off", pin |-> pin]
Raise(flag) == [do |-> "raise", flag |-> flag]
Lower(flag) == [do |-> "lower", flag |-> flag]
Notify(hook) == [do |-> "notify", hook |-> hook]

\* Return a state; return the state itself, for power_common_state()
Go(to) == [do |-> "go", to |-> to]
Stay   == [do |-> "stay"]

\* The end of power_common_init(): it reads the signals, and the tasks start
StartTasks == [do |-> "start"]

\* power_wait_signals(), and what is done when it times out
Wait(want, failed) == [do |-> "wait", want |-> want, failed |-> failed]

\* Tests of in_signals, of a GPIO, of a flag, of the state, and of hardware
\* that may answer either way
Has(want, then, else)  == [do |-> "has", want |-> want, then |-> then, else |-> else]
High(gpio, then, else) == [do |-> "high", gpio |-> gpio, then |-> then, else |-> else]
If(flag, then, else)   == [do |-> "if", flag |-> flag, then |-> then, else |-> else]
InState(st, then, else) == [do |-> "in", st |-> st, then |-> then, else |-> else]
Either(then, else)     == [do |-> "either", then |-> then, else |-> else]

-----------------------------------------------------------------------------
(* Haswell                                                                 *)

HaswellShutdown == <<Off("DPWROK"), Off("RSMRST_L")>>

\* Mutant: the core rail is turned off before the power-good outputs
HaswellSuspend_core_first ==
  <<Notify("SUSPEND"),
    Off("VCORE_EN"),
    Off("SYS_PWROK"), Off("PCH_PWROK"),
    Off("PP3300_DX_EN"),
    Go("S3")>>

\* POWER_S0S3
HaswellSuspend ==
  <<Notify("SUSPEND"),
    Off("SYS_PWROK"), Off("PCH_PWROK"),
    Off("VCORE_EN"),
    Off("PP3300_DX_EN"),
    Go("S3")>>

Haswell(state) ==
  CASE state = "G3" -> <<Stay>>
    [] state = "S5" -> <<High("SLP_S5", <<Go("S5S3")>>, <<Stay>>)>>
    [] state = "S3" ->
         <<Has({"PP5000", "PP1350"},
               <<High("SLP_S3", <<Go("S3S0")>>,
                  <<High("SLP_S5", <<Stay>>, <<Go("S3S5")>>)>>)>>,
               HaswellShutdown \o <<Go("S3S5")>>)>>
    [] state = "S0" ->
         <<Has({"PP5000", "PP1350", "PP1050"},
               <<High("SLP_S3", <<Stay>>, <<Go("S0S3")>>)>>,
               HaswellShutdown \o <<Go("S0S3")>>)>>
    [] state = "G3S5" ->
         <<On("DPWROK"),
           Wait({"SLP_SUS"}, HaswellShutdown \o <<Go("G3")>>),
           On("SUSP_VR_EN"),
           Wait({"PP1050"}, <<Off("SUSP_VR_EN")>> \o HaswellShutdown \o <<Go("G3")>>),
           On("RSMRST_L"),
           Go("S5")>>
    [] state = "S5S3" ->
         <<On("PP5000_EN"),
           Wait({"PP5000"}, HaswellShutdown \o <<Go("S5G3")>>),
           On("PP1350_EN"),
           Wait({"PP5000", "PP1350"}, HaswellShutdown \o <<Go("S5G3")>>),
           Notify("STARTUP"),
           Go("S3")>>
    [] state = "S3S0" ->
         <<On("PP3300_DX_EN"),
           Wait({"PP5000", "PP1350", "PP1050"},
                HaswellShutdown \o <<Off("PP3300_DX_EN"), Go("S3")>>),
           On("VCORE_EN"),
           Notify("RESUME"),
           On("PCH_PWROK"), On("SYS_PWROK"),
           Go("S0")>>
    [] state = "S0S3" -> HaswellSuspend
    [] state = "S3S5" ->
         <<Notify("SHUTDOWN"),
           Off("PP1350_EN"), Off("PP5000_EN"),
           If("pause_in_s5", <<Go("S5")>>, <<Go("S5G3")>>)>>
    [] state = "S5G3" ->
         <<Off("DPWROK"), Off("RSMRST_L"), Off("SUSP_VR_EN"), Go("G3")>>

-----------------------------------------------------------------------------
(* Bay Trail                                                               *)

BaytrailShutdown == <<Off("SYS_PWROK"), Off("RSMRST_L")>>

\* Mutant: a power-up that failed is not told from one that was good
BaytrailResume_goes_on ==
  <<On("PP5000_EN"), On("PP3300_DX_EN"),
    Wait({"PGOOD_S5", "PP5000"},
         BaytrailShutdown \o
           <<Off("PP3300_DX_EN"), Off("PP5000_EN"), Go("S0S3")>>),
    On("VCORE_EN"),
    Notify("RESUME"),
    On("SYS_PWROK"), On("CORE_PWROK"),
    Go("S0")>>

\* POWER_S3S0.  A platform reset that lasts more than 50 ms, or the console
\* command that fakes one, forces the chipset down and then up again; what
\* is then done with the power button is left to PowerButton.
BaytrailResume ==
  <<On("PP5000_EN"), On("PP3300_DX_EN"),
    Wait({"PGOOD_S5", "PP5000"},
         BaytrailShutdown \o
           <<Off("PP3300_DX_EN"), Off("PP5000_EN"), Go("S3")>>),
    On("VCORE_EN"),
    Notify("RESUME"),
    On("SYS_PWROK"), On("CORE_PWROK"),
    Either(<<>>, BaytrailShutdown \o <<Raise("restart_from_s5")>>),
    Go("S0")>>

Baytrail(state) ==
  CASE state = "G3" -> <<Stay>>
    [] state = "S5" -> <<High("SLP_S4", <<Go("S5S3")>>, <<Stay>>)>>
    [] state = "S3" ->
         <<Has({"PGOOD_S5"},
               <<High("SLP_S3", <<Go("S3S0")>>,
                  <<High("SLP_S4", <<Stay>>, <<Go("S3S5")>>)>>)>>,
               BaytrailShutdown \o <<Go("S3S5")>>)>>
    [] state = "S0" ->
         <<Has({"PGOOD_S5", "PP5000"},
               <<High("SLP_S3", <<Stay>>, <<Go("S0S3")>>)>>,
               BaytrailShutdown \o <<Go("S0S3")>>)>>
    [] state = "G3S5" ->
         <<On("SUSP_VR_EN"),
           Wait({"PGOOD_S5"},
                <<Off("SUSP_VR_EN")>> \o BaytrailShutdown \o <<Go("G3")>>),
           On("RSMRST_L"),
           Go("S5")>>
    [] state = "S5S3" ->
         <<Wait({"PGOOD_S5"}, BaytrailShutdown \o <<Go("S5G3")>>),
           On("PP1350_EN"),
           Wait({"PGOOD_S5"}, BaytrailShutdown \o <<Go("S5G3")>>),
           Notify("STARTUP"),
           Go("S3")>>
    [] state = "S3S0" -> BaytrailResume
    [] state = "S0S3" ->
         <<Notify("SUSPEND"),
           Off("SYS_PWROK"), Off("CORE_PWROK"),
           Off("VCORE_EN"),
           Off("PP3300_DX_EN"), Off("PP5000_EN"),
           Go("S3")>>
    [] state = "S3S5" ->
         <<Notify("SHUTDOWN"),
           Off("PP5000_EN"), Off("PP1350_EN"),
           If("restart_from_s5", <<Lower("restart_from_s5"), Go("G3S5")>>, <<>>),
           If("pause_in_s5", <<Go("S5")>>, <<Go("S5G3")>>)>>
    [] state = "S5G3" -> <<Off("RSMRST_L"), Off("SUSP_VR_EN"), Go("G3")>>

-----------------------------------------------------------------------------
(* Braswell                                                                *)

BraswellShutdown == <<Off("SYS_PWROK"), Off("RSMRST_L"), Raise("forcing_shutdown")>>

\* SUSPWRDNACK of the SoC, which S5G3 reads, may be asserted or not.
Braswell(state) ==
  CASE state = "G3" -> <<Stay>>
    [] state = "S5" -> <<High("SLP_S4", <<Go("S5S3")>>, <<Stay>>)>>
    [] state = "S3" ->
         <<Has({"RSMRST_PWRGD"},
               <<High("SLP_S3", <<Go("S3S0")>>,
                  <<High("SLP_S4", <<Stay>>, <<Go("S3S5")>>)>>)>>,
               BraswellShutdown \o <<Go("S3S5")>>)>>
    [] state = "S0" ->
         <<Has({"RSMRST_PWRGD"},
               <<Has({"RSMRST_PWRGD", "ALL_SYS_PWRGD", "SLP_S3", "SLP_S4"},
                     <<Stay>>, <<Go("S0S3")>>)>>,
               BraswellShutdown \o <<Go("S0S3")>>)>>
    [] state = "G3S5" ->
         <<Off("SUSPWRDNACK_SOC_EC"),
           Wait({"RSMRST_PWRGD"}, BraswellShutdown \o <<Go("G3")>>),
           On("RSMRST_L"),
           Go("S5")>>
    [] state = "S5S3" -> <<Notify("STARTUP"), Go("S3")>>
    [] state = "S3S0" ->
         <<Has({"RSMRST_PWRGD"}, <<>>, BraswellShutdown \o <<Go("S3S5")>>),
           Notify("RESUME"),
           On("SYS_PWROK"),
           Go("S0")>>
    [] state = "S0S3" -> <<Notify("SUSPEND"), Off("SYS_PWROK"), Go("S3")>>
    [] state = "S3S5" ->
         <<Notify("SHUTDOWN"), If("pause_in_s5", <<Go("S5")>>, <<Go("S5G3")>>)>>
    [] state = "S5G3" ->
         <<If("forcing_shutdown",
              <<On("SUSPWRDNACK_SOC_EC"), Lower("forcing_shutdown"), Go("G3")>>,
              <<Either(<<Off("RSMRST_L"), On("SUSPWRDNACK_SOC_EC"), Go("G3")>>,
                       <<Go("S5")>>)>>)>>

-----------------------------------------------------------------------------
(* Skylake                                                                 *)

\* chipset_in_state(CHIPSET_STATE_HARD_OFF) holds in G3 only.  The user's
\* button is up, so power_button_pch_press() presses the one of the PCH.
SkylakeShutdown ==
  <<InState("G3", <<>>, <<Raise("forcing_shutdown"), Off("PWRBTN_L")>>)>>

\* No rail is required (IN_PGOOD_ALL_CORE is 0).
Skylake(state) ==
  <<High("RSMRST_PGOOD", <<On("RSMRST_L")>>, <<Off("RSMRST_L")>>)>> \o
  CASE state = "G3" ->
         <<If("forcing_shutdown", <<On("PWRBTN_L"), Lower("forcing_shutdown")>>, <<>>),
           Stay>>
    [] state = "S5" -> <<High("SLP_S4", <<Go("S5S3")>>, <<Stay>>)>>
    [] state = "S3" ->
         <<High("SLP_S3", <<Go("S3S0")>>,
            <<High("SLP_S4", <<Stay>>, <<Go("S3S5")>>)>>)>>
    [] state = "S0" -> <<High("SLP_S3", <<Stay>>, <<Go("S0S3")>>)>>
    [] state = "G3S5" -> <<Wait({"SLP_SUS"}, SkylakeShutdown \o <<Go("G3")>>), Go("S5")>>
    [] state = "S5S3" -> <<Notify("STARTUP"), Go("S3")>>
    [] state = "S3S0" -> <<Notify("RESUME"), Go("S0")>>
    [] state = "S0S3" -> <<Notify("SUSPEND"), Go("S3")>>
    [] state = "S3S5" -> <<Notify("SHUTDOWN"), Go("S5G3")>>
    [] state = "S5G3" -> <<Go("G3")>>

-----------------------------------------------------------------------------

Chipset == {"haswell", "baytrail", "braswell", "skylake"}

chipset_force_shutdown(chip) ==
  CASE chip = "haswell"  -> HaswellShutdown
    [] chip = "baytrail" -> BaytrailShutdown
    [] chip = "braswell" -> BraswellShutdown
    [] chip = "skylake"  -> SkylakeShutdown

\* What is left to do of a jump that did not find the system in S0:
\* power_chipset_init() drives the outputs low
ForceG3(chip) ==
  CASE chip = "haswell"  -> <<Off("PCH_PWROK"), Off("VCORE_EN"), Off("SUSP_VR_EN"),
                              Off("PP1350_EN"), Off("PP3300_DX_EN"), Off("PP5000_EN"),
                              Off("RSMRST_L"), Off("DPWROK"), StartTasks>>
    [] chip = "baytrail" -> <<Off("CORE_PWROK"), Off("VCORE_EN"), Off("SUSP_VR_EN"),
                              Off("PP1350_EN"), Off("PP3300_DX_EN"), Off("PP5000_EN"),
                              Off("RSMRST_L"), Off("SYS_PWROK"), StartTasks>>
    [] chip = "braswell" -> <<Off("SYS_PWROK"), Off("RSMRST_L"), StartTasks>>
    [] chip = "skylake"  -> <<StartTasks>>

power_handle_state(chip, state) ==
  CASE chip = "haswell"  -> Haswell(state)
    [] chip = "baytrail" -> Baytrail(state)
    [] chip = "braswell" -> Braswell(state)
    [] chip = "skylake"  -> Skylake(state)
=============================================================================
