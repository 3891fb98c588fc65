---------------------------- MODULE ChargeManager ----------------------------
(***************************************************************************)
(* The charge manager of common/charge_manager.c: which port the system    *)
(* charges from, and with how much current.                                *)
(*                                                                         *)
(* Charger, USB PD and host command tasks report what each supplier of     *)
(* each port offers, the capability of the partner, a ceiling, an override *)
(* port.  charge_manager_refresh() selects the best; it is a deferred call *)
(* of the hook task, the lowest of all tasks, and takes no lock: any call  *)
(* of the others may come between two of its steps.  The tasks that call   *)
(* do not preempt each other within a call.                                *)
(*                                                                         *)
(* All offers have the same voltage here, so that power is current.        *)
(***************************************************************************)
EXTENDS Integers, FiniteSets

CONSTANTS
  NPorts,            \* CONFIG_USB_PD_PORT_COUNT
  NSuppliers,        \* CHARGE_SUPPLIER_COUNT
  supplier_priority, \* per supplier: the lower the better
  Currents,          \* the currents that suppliers report
  Ceilings,          \* the ceilings that are set, besides CEIL_NONE
  Calls,             \* the calls the other tasks make
  MaxCalls           \* bound: how many of them

ASSUME ChargeManagerAssumption ==
  /\ NPorts \in Nat \ {0} /\ NSuppliers \in Nat \ {0} /\ MaxCalls \in Nat
  /\ supplier_priority \in [0 .. NSuppliers - 1 -> Nat]
  /\ Currents \subseteq Nat /\ Ceilings \subseteq Nat
  /\ Calls \subseteq {"charge", "dualrole", "ceil", "override", "role"}

Ports == 0 .. NPorts - 1
Suppliers == 0 .. NSuppliers - 1
NONE == -1             \* CHARGE_PORT_NONE, CHARGE_SUPPLIER_NONE
UNINITIALIZED == -1    \* CHARGE_CURRENT_UNINITIALIZED
CEIL_NONE == -1
OFF == -1              \* OVERRIDE_OFF
DONT_CHARGE == -2      \* OVERRIDE_DONT_CHARGE

VARIABLES
  available_charge,       \* per supplier and port: the current it offers
  dualrole_capability,    \* per port
  charge_ceil,            \* per port
  is_seeded,
  charge_port, charge_supplier, charge_current, charge_current_uncapped,
  override_port, delayed_override_port,
  in_time,                \* the deadline of the delayed override is ahead
  refresh_pending,        \* hook_call_deferred(charge_manager_refresh, 0)
  refresh,                \* charge_manager_refresh(): where it is, its locals
  board_port, board_limit,\* what the board was told last
  new_power_request,      \* ports whose PD task is to send a new request
  pd_charging,            \* ports that last requested power to charge
  role,                   \* per port: pd_get_role()
  swap_request,           \* ports asked for a power swap
  calls,                  \* calls made so far
  unnoticed               \* ports no longer dedicated, since the last refresh

reports  == <<available_charge, dualrole_capability, charge_ceil, is_seeded>>
active   == <<charge_port, charge_supplier, charge_current,
              charge_current_uncapped>>
override == <<override_port, delayed_override_port, in_time>>
board    == <<board_port, board_limit>>
pd       == <<new_power_request, pd_charging, role>>
vars == <<reports, active, override, refresh_pending, refresh, board, pd,
          swap_request, calls, unnoticed>>

idle == [at |-> "idle", k |-> 0, port |-> NONE, supplier |-> NONE,
         best |-> -1, uncapped |-> 0, current |-> 0, updated |-> {}]

\* At boot nothing is reported, or the tasks have reported that nothing is
\* plugged and the first refresh is due.
Init ==
  /\ \E c \in {UNINITIALIZED, 0} :
       /\ available_charge = [s \in Suppliers |-> [p \in Ports |-> c]]
       /\ is_seeded = (c = 0) /\ refresh_pending = (c = 0)
  /\ dualrole_capability = [p \in Ports |-> "unknown"]
  /\ charge_ceil = [p \in Ports |-> CEIL_NONE]
  /\ charge_port = NONE /\ charge_supplier = NONE
  /\ charge_current = UNINITIALIZED
  /\ charge_current_uncapped = UNINITIALIZED
  /\ override_port = OFF /\ delayed_override_port = OFF /\ in_time = FALSE
  /\ refresh = idle
  /\ board_port = NONE /\ board_limit = UNINITIALIZED
  /\ new_power_request = {} /\ pd_charging = {}
  /\ role = [p \in Ports |-> "sink"]
  /\ swap_request = {} /\ calls = 0 /\ unnoticed = {}

-----------------------------------------------------------------------------
(* charge_manager_refresh()                                                *)

At(label) == refresh.at = label

start ==
  /\ At("idle") /\ refresh_pending
  /\ refresh_pending' = FALSE
  /\ refresh' = [idle EXCEPT !.at = "select"]
  /\ unnoticed' = {}
  /\ UNCHANGED <<reports, active, override, board, pd, swap_request, calls>>

\* charge_manager_get_best_charge_port(): no port is selected when the
\* override says so at this moment
select ==
  /\ At("select")
  /\ refresh' = [refresh EXCEPT !.at = IF override_port = DONT_CHARGE
                                      THEN "set_port" ELSE "best"]
  /\ UNCHANGED <<reports, active, override, refresh_pending, board, pd,
                 swap_request, calls, unnoticed>>

\* It may consider this offer ..
eligible(s, p) ==
  /\ available_charge[s][p] # 0
  /\ override_port = OFF \/ override_port # refresh.port \/ override_port = p
  /\ dualrole_capability[p] = "dedicated" \/ override_port = p

\* Mutant: the first of the best offers wins
better_first(s, p) ==
  \/ refresh.supplier = NONE
  \/ supplier_priority[s] < supplier_priority[refresh.supplier]
  \/ p = override_port /\ refresh.port # override_port
  \/ /\ supplier_priority[s] = supplier_priority[refresh.supplier]
     /\ available_charge[s][p] > refresh.best

\* .. and prefers it to the best one so far
better(s, p) ==
  \/ refresh.supplier = NONE
  \/ supplier_priority[s] < supplier_priority[refresh.supplier]
  \/ p = override_port /\ refresh.port # override_port
  \/ /\ supplier_priority[s] = supplier_priority[refresh.supplier]
     /\ \/ available_charge[s][p] > refresh.best
        \/ available_charge[s][p] = refresh.best /\ charge_port = p

\* The offers are looked at one by one, while they may change
get_best ==
  LET s == refresh.k \div NPorts
      p == refresh.k % NPorts
  IN /\ At("best")
     /\ refresh' =
          IF refresh.k = NSuppliers * NPorts
          THEN [refresh EXCEPT !.at = "set_port"]
          ELSE IF eligible(s, p) /\ better(s, p)
          THEN [refresh EXCEPT !.k = @ + 1, !.port = p, !.supplier = s,
                               !.best = available_charge[s][p]]
          ELSE [refresh EXCEPT !.k = @ + 1]
     /\ UNCHANGED <<reports, active, override, refresh_pending, board, pd,
                    swap_request, calls, unnoticed>>

\* board_set_active_charge_port(), when the port or the supplier changes.
\* The board rejects a port that is a source and always accepts no port.
set_port ==
  LET unchanged == /\ refresh.port = charge_port
                   /\ refresh.supplier = charge_supplier
      accepted == refresh.port = NONE \/ role[refresh.port] = "sink"
  IN /\ At("set_port")
     /\ refresh' = [refresh EXCEPT !.at = IF unchanged \/ accepted
                                         THEN "check_override" ELSE "zero"]
     /\ board_port' = IF ~unchanged /\ accepted THEN refresh.port
                                                ELSE board_port
     /\ UNCHANGED <<reports, active, override, refresh_pending, board_limit,
                    pd, swap_request, calls, unnoticed>>

\* Mutant: looks again without taking the rejected port off the list
zero_rejected_forgotten ==
  /\ At("zero")
  /\ refresh' = [idle EXCEPT !.at = "select"]
  /\ UNCHANGED <<reports, active, override, refresh_pending, board, pd,
                 swap_request, calls, unnoticed>>

\* Zero the available charge on the rejected port and look again
zero_rejected ==
  /\ At("zero")
  /\ available_charge' = [s \in Suppliers |->
                            [available_charge[s] EXCEPT ![refresh.port] = 0]]
  /\ refresh' = [idle EXCEPT !.at = "select"]
  /\ UNCHANGED <<dualrole_capability, charge_ceil, is_seeded, active, override,
                 refresh_pending, board, pd, swap_request, calls, unnoticed>>

\* Mutant: asks the port for a swap without a look at it
cleanup_unchecked(p) == {p}

\* charge_manager_cleanup_override_port()
cleanup(p) == IF /\ p \in Ports /\ dualrole_capability[p] = "dualrole"
                 /\ role[p] = "sink"
              THEN {p} ELSE {}

\* Clear the override if it was not selected
check_override ==
  /\ At("check_override")
  /\ IF override_port >= 0 /\ override_port # refresh.port
     THEN /\ swap_request' = swap_request \cup cleanup(override_port)
          /\ override_port' = OFF
     ELSE UNCHANGED <<swap_request, override_port>>
  /\ refresh' = [refresh EXCEPT !.at = "limits"]
  /\ UNCHANGED <<reports, active, delayed_override_port, in_time,
                 refresh_pending, board, pd, calls, unnoticed>>

smaller(a, b) == IF a <= b THEN a ELSE b

\* Read the current of the offer again and enforce the ceiling
limits ==
  LET offered == IF refresh.supplier = NONE THEN 0
                 ELSE available_charge[refresh.supplier][refresh.port]
      capped == IF refresh.supplier = NONE THEN 0
                ELSE IF charge_ceil[refresh.port] = CEIL_NONE THEN offered
                ELSE smaller(charge_ceil[refresh.port], offered)
  IN /\ At("limits")
     /\ refresh' = [refresh EXCEPT !.at = "set_limit", !.uncapped = offered,
                                   !.current = capped]
     /\ UNCHANGED <<reports, active, override, refresh_pending, board, pd,
                    swap_request, calls, unnoticed>>

\* Ports to signal: the new one if it or its current changed, the old one
\* if it is left
updated_ports ==
  {p \in {refresh.port} : /\ p # NONE
                          /\ \/ p # charge_port
                             \/ refresh.uncapped # charge_current_uncapped}
    \cup {p \in {charge_port} : p # NONE /\ p # refresh.port}

\* Mutant: compares the ports only
set_limit_port_only ==
  /\ At("set_limit")
  /\ board_limit' = IF refresh.port # charge_port
                    THEN refresh.current ELSE board_limit
  /\ refresh' = [refresh EXCEPT !.at = "globals", !.updated = updated_ports]
  /\ UNCHANGED <<reports, active, override, refresh_pending, board_port, pd,
                 swap_request, calls, unnoticed>>

\* Change the charge limit if modified
set_limit ==
  /\ At("set_limit")
  /\ board_limit' = IF \/ refresh.port # charge_port
                       \/ refresh.current # charge_current
                       \/ refresh.supplier # charge_supplier
                    THEN refresh.current ELSE board_limit
  /\ refresh' = [refresh EXCEPT !.at = "globals", !.updated = updated_ports]
  /\ UNCHANGED <<reports, active, override, refresh_pending, board_port, pd,
                 swap_request, calls, unnoticed>>

\* Update globals to reflect current state
set_globals ==
  /\ At("globals")
  /\ charge_port' = refresh.port
  /\ charge_supplier' = refresh.supplier
  /\ charge_current' = refresh.current
  /\ charge_current_uncapped' = refresh.uncapped
  /\ refresh' = [refresh EXCEPT !.at = "notify"]
  /\ UNCHANGED <<reports, override, refresh_pending, board, pd, swap_request,
                 calls, unnoticed>>

\* Mutant: forgets the port that is left
notify_new_port ==
  /\ At("notify")
  /\ new_power_request' = new_power_request
                            \cup (refresh.updated \cap {refresh.port})
  /\ refresh' = idle
  /\ UNCHANGED <<reports, active, override, refresh_pending, board,
                 pd_charging, role, swap_request, calls, unnoticed>>

\* pd_set_new_power_request() for the ports that changed
notify ==
  /\ At("notify")
  /\ new_power_request' = new_power_request \cup refresh.updated
  /\ refresh' = idle
  /\ UNCHANGED <<reports, active, override, refresh_pending, board,
                 pd_charging, role, swap_request, calls, unnoticed>>

charge_manager_refresh ==
  \/ start \/ select \/ get_best \/ set_port \/ zero_rejected
  \/ check_override \/ limits \/ set_limit \/ set_globals \/ notify

-----------------------------------------------------------------------------
(* The calls of other tasks                                                *)

Call(name) == name \in Calls /\ calls < MaxCalls /\ calls' = calls + 1

\* charge_manager_set_override(), on given values of the override variables:
\* what it changes, and whether it asks for a refresh
superseded(p) == IF delayed_override_port \notin {OFF, p}
                 THEN cleanup(delayed_override_port) ELSE {}

set_override(p) ==
  IF p < 0 \/ role[p] = "sink"
  THEN /\ override_port' = p
       /\ delayed_override_port' = OFF /\ in_time' = FALSE
       /\ swap_request' = swap_request \cup superseded(p)
            \cup (IF override_port # p THEN cleanup(override_port) ELSE {})
       /\ refresh_pending' = \/ refresh_pending
                             \/ override_port # p /\ is_seeded
  ELSE /\ UNCHANGED <<override_port, refresh_pending>>
       /\ IF dualrole_capability[p] = "dualrole"
          THEN /\ delayed_override_port' = p /\ in_time' = TRUE
               /\ swap_request' = swap_request \cup superseded(p) \cup {p}
          ELSE /\ delayed_override_port' = OFF /\ in_time' = FALSE
               /\ swap_request' = swap_request \cup superseded(p)

charge_manager_set_override(p) ==
  /\ Call("override")
  /\ set_override(p)
  /\ UNCHANGED <<reports, active, refresh, board, pd, unnoticed>>

Seeded(available) ==
  is_seeded \/ \A s \in Suppliers, p \in Ports :
                 available[s][p] # UNINITIALIZED

\* A dedicated charger on port p removes the overrides of other ports
clear_overrides(p) ==
  /\ override_port' = OFF /\ delayed_override_port' = OFF /\ in_time' = FALSE
  /\ swap_request' = swap_request \cup
       ((cleanup(override_port) \cup cleanup(delayed_override_port)) \ {p})

\* A new dedicated charger removes the overrides of other ports; a charge on
\* the delayed override port makes it the override port, in time.
charged_override(s, p, current) ==
  LET removes == /\ current > 0 /\ available_charge[s][p] = 0
                 /\ override_port # p
                 /\ dualrole_capability[p] = "dedicated"
      takes_over == /\ ~removes
                    /\ p = delayed_override_port /\ current > 0
                    /\ role[p] = "sink" /\ in_time
  IN IF removes THEN clear_overrides(p)
     ELSE IF takes_over
     THEN /\ override_port' = p
          /\ delayed_override_port' = OFF /\ in_time' = FALSE
          /\ swap_request' = IF override_port # p
                             THEN swap_request \cup cleanup(override_port)
                             ELSE swap_request
     ELSE UNCHANGED <<override, swap_request>>

\* Mutant: does not ask for a refresh when the charge goes away
update_charge_no_refresh(s, p, current) ==
  LET available == [available_charge EXCEPT ![s][p] = current]
  IN /\ Call("charge")
     /\ available_charge[s][p] # current
     /\ available_charge' = available
     /\ is_seeded' = Seeded(available)
     /\ refresh_pending' = (refresh_pending \/ (is_seeded' /\ current > 0))
     /\ charged_override(s, p, current)
     /\ UNCHANGED <<dualrole_capability, charge_ceil, active, refresh, board,
                    pd, unnoticed>>

\* charge_manager_update_charge(): an identical charge is ignored.
charge_manager_update_charge(s, p, current) ==
  LET available == [available_charge EXCEPT ![s][p] = current]
  IN /\ Call("charge")
     /\ available_charge[s][p] # current
     /\ available_charge' = available
     /\ is_seeded' = Seeded(available)
     /\ refresh_pending' = (refresh_pending \/ is_seeded')
     /\ charged_override(s, p, current)
     /\ UNCHANGED <<dualrole_capability, charge_ceil, active, refresh, board,
                    pd, unnoticed>>

\* charge_manager_update_dualrole(): only a change to dedicated, with a
\* charge present, is a change to the charge manager
charge_manager_update_dualrole(p, cap) ==
  LET matters == cap = "dedicated" /\ \E s \in Suppliers :
                                        available_charge[s][p] > 0
  IN /\ Call("dualrole")
     /\ cap # dualrole_capability[p]
     /\ dualrole_capability' = [dualrole_capability EXCEPT ![p] = cap]
     /\ IF matters /\ override_port # p
        THEN clear_overrides(p)
        ELSE UNCHANGED <<override, swap_request>>
     /\ refresh_pending' = (refresh_pending \/ (matters /\ is_seeded))
     /\ unnoticed' = IF cap = "dedicated" THEN unnoticed \ {p}
                                          ELSE unnoticed \cup {p}
     /\ UNCHANGED <<available_charge, charge_ceil, is_seeded, active, refresh,
                    board, pd>>

\* charge_manager_set_ceil() looks at the active port
charge_manager_set_ceil(p, ceil) ==
  /\ Call("ceil")
  /\ charge_ceil[p] # ceil
  /\ charge_ceil' = [charge_ceil EXCEPT ![p] = ceil]
  /\ refresh_pending' = (refresh_pending \/ (p = charge_port /\ is_seeded))
  /\ UNCHANGED <<available_charge, dualrole_capability, is_seeded, active,
                 override, refresh, board, pd, swap_request, unnoticed>>

-----------------------------------------------------------------------------
(* The USB PD tasks and time                                               *)

\* pd_send_request_msg(): on a new power request, or when the partner has
\* sent its capabilities
pd_send_request_msg(p) ==
  /\ new_power_request' = new_power_request \ {p}
  /\ pd_charging' = IF charge_port = p THEN pd_charging \cup {p}
                                       ELSE pd_charging \ {p}
  /\ UNCHANGED <<reports, active, override, refresh_pending, refresh, board,
                 role, swap_request, calls, unnoticed>>

swapped(p) == [role EXCEPT ![p] = IF @ = "sink" THEN "source" ELSE "sink"]

\* A power swap the charge manager has asked for, which may fail
pd_power_swap(p) ==
  /\ p \in swap_request
  /\ swap_request' = swap_request \ {p}
  /\ role' \in {role, swapped(p)}
  /\ UNCHANGED <<reports, active, override, refresh_pending, refresh, board,
                 new_power_request, pd_charging, calls, unnoticed>>

\* A power swap, or another partner, on the port
role_changes(p) ==
  /\ Call("role")
  /\ role' = swapped(p)
  /\ UNCHANGED <<reports, active, override, refresh_pending, refresh, board,
                 new_power_request, pd_charging, swap_request, unnoticed>>

\* delayed_override_deadline passes; charge_override_timeout() tells the host
deadline_passes ==
  /\ in_time
  /\ in_time' = FALSE
  /\ UNCHANGED <<reports, active, override_port, delayed_override_port,
                 refresh_pending, refresh, board, pd, swap_request, calls,
                 unnoticed>>

Others ==
  \/ \E p \in Ports, s \in Suppliers, c \in Currents :
       charge_manager_update_charge(s, p, c)
  \/ \E p \in Ports, cap \in {"unknown", "dualrole", "dedicated"} :
       charge_manager_update_dualrole(p, cap)
  \/ \E p \in Ports, c \in Ceilings \cup {CEIL_NONE} :
       charge_manager_set_ceil(p, c)
  \/ \E p \in Ports \cup {OFF, DONT_CHARGE} : charge_manager_set_override(p)
  \/ \E p \in Ports : role_changes(p) \/ pd_power_swap(p)
  \/ deadline_passes

Pd == \E p \in Ports : pd_send_request_msg(p)

Next == charge_manager_refresh \/ Others \/ Pd

\* The hook task runs a pending refresh to its end.
Spec == Init /\ [][Next]_vars /\ WF_vars(charge_manager_refresh)

-----------------------------------------------------------------------------
Locals ==
  [at : {"idle", "select", "best", "set_port", "zero", "check_override",
         "limits", "set_limit", "globals", "notify"},
   k : 0 .. NSuppliers * NPorts, port : Ports \cup {NONE},
   supplier : Suppliers \cup {NONE}, best : Int, uncapped : Int,
   current : Int, updated : SUBSET Ports]

\* Every variable has its type, and the bound on the calls holds.
TypeOK ==
  /\ available_charge \in [Suppliers -> [Ports -> Currents \cup {-1, 0}]]
  /\ dualrole_capability \in [Ports -> {"unknown", "dualrole", "dedicated"}]
  /\ charge_ceil \in [Ports -> Ceilings \cup {CEIL_NONE}]
  /\ is_seeded \in BOOLEAN /\ refresh_pending \in BOOLEAN
  /\ in_time \in BOOLEAN
  /\ charge_port \in Ports \cup {NONE}
  /\ charge_supplier \in Suppliers \cup {NONE}
  /\ charge_current \in Int /\ charge_current_uncapped \in Int
  /\ override_port \in Ports \cup {OFF, DONT_CHARGE}
  /\ delayed_override_port \in Ports \cup {OFF}
  /\ refresh \in Locals
  /\ board_port \in Ports \cup {NONE} /\ board_limit \in Int
  /\ new_power_request \subseteq Ports /\ pd_charging \subseteq Ports
  /\ role \in [Ports -> {"sink", "source"}] /\ swap_request \subseteq Ports
  /\ calls \in 0 .. MaxCalls /\ unnoticed \subseteq Ports

Settled == refresh.at = "idle" /\ ~refresh_pending

Offers(p) == {s \in Suppliers : available_charge[s][p] > 0}
MayCharge(p) == dualrole_capability[p] = "dedicated" \/ override_port = p

\* Offer (s, p) is better than offer (t, q): a better supplier, or the same
\* priority and more current.
Beats(s, p, t, q) ==
  \/ supplier_priority[s] < supplier_priority[t]
  \/ /\ supplier_priority[s] = supplier_priority[t]
     /\ available_charge[s][p] > available_charge[t][q]

\* Once no refresh is due, the active port is the right one, whatever calls
\* came while it was selected: the override port if there is one; otherwise
\* one whose offer no other offer beats; and none only if there is no offer,
\* or charging is off.
BestPortIsActive ==
  Settled /\ is_seeded =>
    /\ override_port = DONT_CHARGE => charge_port = NONE
    /\ override_port >= 0 => charge_port = override_port
    /\ charge_port = NONE =>
         \/ override_port = DONT_CHARGE
         \/ \A p \in Ports : MayCharge(p) => Offers(p) = {}
    /\ charge_port # NONE =>
         /\ charge_supplier \in Offers(charge_port)
         /\ MayCharge(charge_port) \/ charge_port \in unnoticed
         /\ \A p \in IF override_port >= 0 THEN {override_port} ELSE Ports :
              \A s \in Offers(p) :
                MayCharge(p) => ~Beats(s, p, charge_supplier, charge_port)

\* The system does not switch between ports that are equally good: a refresh
\* that no report has overtaken leaves the active port only when it may not
\* charge any more, or for an offer that beats all of its own.
ActivePortKept ==
  [][set_globals /\ ~refresh_pending /\ override_port = OFF
       /\ charge_port \in Ports /\ charge_port' # charge_port =>
     \/ ~MayCharge(charge_port)
     \/ \A s \in Offers(charge_port) :
          Beats(charge_supplier', charge_port', s, charge_port)]_vars

\* The board and the charge manager agree on the port and the limit whenever
\* no refresh is at work, and the uncapped current is the one on offer.
BoardFollows ==
  Settled /\ is_seeded =>
    /\ board_port = charge_port
    /\ board_limit = charge_current
    /\ charge_port # NONE =>
         /\ charge_current_uncapped =
              available_charge[charge_supplier][charge_port]
         /\ charge_current <= charge_current_uncapped

\* A PD port that is not about to send a new request has requested its power
\* knowing whether the system charges from it.
PdFollows ==
  Settled => \A p \in Ports \ new_power_request :
               p \in pd_charging <=> charge_port = p

\* The hunt for an acceptable port ends: a refresh that is asked for settles.
RefreshSettles == refresh_pending ~> Settled
=============================================================================
