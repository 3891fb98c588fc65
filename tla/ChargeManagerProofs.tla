------------------------- MODULE ChargeManagerProofs -------------------------
(***************************************************************************)
(* ChargeManager, for every number of ports and suppliers, every priority  *)
(* of the suppliers and every number of calls: once no refresh is due, the *)
(* board has been told what the charge manager believes, the limit is one  *)
(* that the active port offers, and every USB PD task knows whether the    *)
(* system charges from its port.                                           *)
(*                                                                         *)
(* The refresh writes the board first, its own globals later and signals   *)
(* the PD tasks last.  The invariant says, for each place in between, by   *)
(* how much each of them may be ahead of the others.                       *)
(*                                                                         *)
(* The second part is about the selection: the active port is the best one *)
(* and is left only for a better one.  Its invariant speaks of the offers  *)
(* seen so far, and holds as long as no call has made a new refresh due.   *)
(***************************************************************************)
EXTENDS ChargeManager, TLAPS

\* An offer of the list belongs to a supplier and a port.
LEMMA OfferOfIndex ==
  ASSUME NEW k \in 0 .. NSuppliers * NPorts, k # NSuppliers * NPorts
  PROVE  (k \div NPorts) \in Suppliers /\ (k % NPorts) \in Ports
<1>0. NPorts \in Nat \ {0} /\ NSuppliers \in Nat \ {0}
  BY ChargeManagerAssumption
<1>1. NSuppliers * NPorts \in Nat
  BY <1>0
<1>2. k \in Nat /\ k < NSuppliers * NPorts
  BY <1>1
<1>3. k % NPorts \in 0 .. NPorts - 1
  BY <1>0, <1>2
<1>4. k \div NPorts \in Int /\ k = NPorts * (k \div NPorts) + (k % NPorts)
  BY <1>0, <1>2
<1>5. ASSUME NEW q \in Int, NEW r \in 0 .. NPorts - 1,
             NPorts * q + r >= 0, NPorts * q + r < NSuppliers * NPorts
      PROVE  q \in 0 .. NSuppliers - 1
  BY <1>5, <1>0
<1> QED BY <1>2, <1>3, <1>4, <1>5 DEF Suppliers, Ports

-----------------------------------------------------------------------------
(* Type correctness                                                        *)

\* A port and its supplier are selected together; the type of what a refresh
\* reads depends on it.
Paired ==
  /\ refresh.port = NONE <=> refresh.supplier = NONE
  /\ charge_port = NONE <=> charge_supplier = NONE

\* The record of a refresh that is not at work.
LEMMA IdleLocals ==
  /\ idle \in Locals /\ [idle EXCEPT !.at = "select"] \in Locals
  /\ idle.port = NONE /\ idle.supplier = NONE
<1>1. 0 \in 0 .. NSuppliers * NPorts
  BY ChargeManagerAssumption
<1> QED BY <1>1 DEF idle, Locals, NONE

LEMMA InitTypeOK == Init => TypeOK /\ Paired
<1> SUFFICES ASSUME Init PROVE TypeOK /\ Paired
  OBVIOUS
<1>1. PICK c \in {UNINITIALIZED, 0} :
        /\ available_charge = [s \in Suppliers |-> [p \in Ports |-> c]]
        /\ is_seeded = (c = 0) /\ refresh_pending = (c = 0)
  BY DEF Init
<1>2. available_charge \in [Suppliers -> [Ports -> Currents \cup {-1, 0}]]
  <2>1. c \in Currents \cup {-1, 0}
    BY <1>1 DEF UNINITIALIZED
  <2> QED BY <1>1, <2>1
<1>3. is_seeded \in BOOLEAN /\ refresh_pending \in BOOLEAN
  BY <1>1
<1>4. refresh \in Locals /\ refresh.port = NONE /\ refresh.supplier = NONE
  BY IdleLocals DEF Init
<1>5. calls \in 0 .. MaxCalls
  BY ChargeManagerAssumption DEF Init
<1>6. /\ dualrole_capability \in [Ports -> {"unknown", "dualrole", "dedicated"}]
      /\ charge_ceil \in [Ports -> Ceilings \cup {CEIL_NONE}]
      /\ role \in [Ports -> {"sink", "source"}]
  BY DEF Init
<1>7. /\ charge_current \in Int /\ charge_current_uncapped \in Int
      /\ board_limit \in Int
  <2>1. UNINITIALIZED \in Int
    BY DEF UNINITIALIZED
  <2> QED BY <2>1 DEF Init
<1>8. /\ override_port \in Ports \cup {OFF, DONT_CHARGE}
      /\ delayed_override_port \in Ports \cup {OFF}
      /\ board_port \in Ports \cup {NONE}
      /\ new_power_request \subseteq Ports /\ pd_charging \subseteq Ports
      /\ swap_request \subseteq Ports /\ unnoticed \subseteq Ports
      /\ charge_port = NONE /\ charge_supplier = NONE /\ in_time \in BOOLEAN
  BY DEF Init
<1> QED BY <1>2, <1>3, <1>4, <1>5, <1>6, <1>7, <1>8 DEF TypeOK, Paired

\* What a port offers is a number.
LEMMA OfferIsNumber ==
  ASSUME TypeOK, NEW s \in Suppliers, NEW p \in Ports
  PROVE  available_charge[s][p] \in Int
<1>1. available_charge[s] \in [Ports -> Currents \cup {-1, 0}]
  BY DEF TypeOK
<1>2. available_charge[s][p] \in Currents \cup {-1, 0}
  BY <1>1
<1>3. Currents \cup {-1, 0} \subseteq Int
  BY ChargeManagerAssumption
<1> QED BY <1>2, <1>3

\* cleanup() asks nothing of a port that is none.
LEMMA CleanupIsPort == ASSUME NEW p PROVE cleanup(p) \subseteq Ports
BY DEF cleanup

\* A step of the selection takes an offer as it is, or leaves it.
LEMMA SelectionStep ==
  ASSUME TypeOK, Paired, get_best
  PROVE  /\ refresh' \in Locals
         /\ refresh'.at \in {"best", "set_port"}
         /\ refresh'.port = NONE <=> refresh'.supplier = NONE
<1>0. refresh \in Locals /\ refresh.at = "best"
      /\ (refresh.port = NONE <=> refresh.supplier = NONE)
  BY DEF TypeOK, Paired, get_best, At
<1>1. CASE refresh.k = NSuppliers * NPorts
  <2>1. refresh' = [refresh EXCEPT !.at = "set_port"]
    BY <1>1 DEF get_best
  <2> QED BY <2>1, <1>0 DEF Locals
<1>2. CASE refresh.k # NSuppliers * NPorts
  <2> DEFINE s == refresh.k \div NPorts
             p == refresh.k % NPorts
  <2>1. s \in Suppliers /\ p \in Ports
    BY <1>0, <1>2, OfferOfIndex DEF Locals
  <2>2. available_charge[s][p] \in Int
    BY <2>1, OfferIsNumber
  <2>3. refresh.k + 1 \in 0 .. NSuppliers * NPorts
    <3>1. NSuppliers * NPorts \in Nat
      BY ChargeManagerAssumption
    <3> QED BY <1>0, <1>2, <3>1 DEF Locals
  <2>4. \/ refresh' = [refresh EXCEPT !.k = refresh.k + 1, !.port = p,
                         !.supplier = s, !.best = available_charge[s][p]]
        \/ refresh' = [refresh EXCEPT !.k = refresh.k + 1]
    BY <1>2 DEF get_best
  <2>5. p # NONE /\ s # NONE
    BY <2>1, ChargeManagerAssumption DEF Ports, Suppliers, NONE
  <2> HIDE DEF s, p
  <2>6. CASE refresh' = [refresh EXCEPT !.k = refresh.k + 1]
    BY <2>6, <2>3, <1>0 DEF Locals
  <2>7. CASE refresh' = [refresh EXCEPT !.k = refresh.k + 1, !.port = p,
                           !.supplier = s, !.best = available_charge[s][p]]
    BY <2>7, <2>1, <2>2, <2>3, <2>5, <1>0 DEF Locals
  <2> QED BY <2>4, <2>6, <2>7
<1> QED BY <1>1, <1>2

\* What limits() reads: the offer as it is now, and no more than it.
LEMMA LimitsStep ==
  ASSUME TypeOK, Paired, limits
  PROVE  /\ refresh' \in Locals
         /\ refresh'.at = "set_limit"
         /\ refresh'.port = refresh.port /\ refresh'.supplier = refresh.supplier
         /\ refresh.port # NONE =>
              /\ refresh'.current <= refresh'.uncapped
              /\ refresh'.uncapped =
                   available_charge[refresh.supplier][refresh.port]
<1>0. refresh \in Locals
      /\ (refresh.port = NONE <=> refresh.supplier = NONE)
  BY DEF TypeOK, Paired
<1>1. CASE refresh.supplier = NONE
  <2>0. PICK z \in Int : z = 0
    OBVIOUS
  <2>1. refresh' = [refresh EXCEPT !.at = "set_limit", !.uncapped = z,
                                   !.current = z]
    BY <1>1, <2>0 DEF limits
  <2>2. refresh' \in Locals /\ refresh'.at = "set_limit"
        /\ refresh'.port = refresh.port /\ refresh'.supplier = refresh.supplier
    BY <2>1, <1>0 DEF Locals
  <2> QED BY <2>2, <1>0, <1>1
<1>2. CASE refresh.supplier # NONE
  <2> DEFINE o == available_charge[refresh.supplier][refresh.port]
             c == IF charge_ceil[refresh.port] = CEIL_NONE THEN o
                  ELSE smaller(charge_ceil[refresh.port], o)
  <2>1. refresh.supplier \in Suppliers /\ refresh.port \in Ports
    BY <1>0, <1>2 DEF Locals
  <2>2. o \in Int /\ charge_ceil[refresh.port] \in Int
    <3>1. Ceilings \cup {-1} \subseteq Int
      BY ChargeManagerAssumption
    <3> QED BY <2>1, <3>1, OfferIsNumber DEF TypeOK, CEIL_NONE
  <2>3. c \in Int /\ c <= o
    <3> HIDE DEF o
    <3> QED BY <2>2 DEF smaller
  <2>4. refresh' = [refresh EXCEPT !.at = "set_limit", !.uncapped = o,
                                   !.current = c]
    BY <1>2 DEF limits
  <2> HIDE DEF c
  <2>5. refresh'.uncapped = o /\ refresh'.current = c
    BY <2>4, <1>0 DEF Locals
  <2> HIDE DEF o
  <2>6. /\ refresh' \in Locals
        /\ refresh'.at = "set_limit"
        /\ refresh'.port = refresh.port /\ refresh'.supplier = refresh.supplier
    BY <2>2, <2>3, <2>4, <1>0 DEF Locals
  <2> QED BY <2>3, <2>5, <2>6 DEF o
<1> QED BY <1>1, <1>2

LEMMA UpdatedArePorts ==
  ASSUME TypeOK PROVE updated_ports \subseteq Ports
BY DEF TypeOK, Locals, updated_ports

LEMMA RefreshTypeOK ==
  ASSUME TypeOK, Paired, charge_manager_refresh
  PROVE  TypeOK' /\ Paired'
<1>1. CASE start
  BY <1>1, IdleLocals
  DEF start, TypeOK, Paired, reports, active, override, board, pd, idle
<1>2. CASE select
  BY <1>2 DEF select, TypeOK, Paired, Locals, reports, active, override, board,
              pd
<1>3. CASE get_best
  BY <1>3, SelectionStep
  DEF get_best, TypeOK, Paired, reports, active, override, board, pd
<1>4. CASE set_port
  BY <1>4 DEF set_port, TypeOK, Paired, Locals, reports, active, override,
              board, pd
<1>5. CASE zero_rejected
  <2>1. available_charge' \in [Suppliers -> [Ports -> Currents \cup {-1, 0}]]
    BY <1>5 DEF zero_rejected, TypeOK
  <2> QED BY <1>5, <2>1, IdleLocals
          DEF zero_rejected, TypeOK, Paired, active, override, board, pd, idle
<1>6. CASE check_override
  BY <1>6, CleanupIsPort
  DEF check_override, TypeOK, Paired, Locals, reports, active, board, pd, OFF
<1>7. CASE limits
  BY <1>7, LimitsStep
  DEF limits, TypeOK, Paired, reports, active, override, board, pd
<1>8. CASE set_limit
  BY <1>8, UpdatedArePorts
  DEF set_limit, TypeOK, Paired, Locals, reports, active, override, pd
<1>9. CASE set_globals
  BY <1>9 DEF set_globals, TypeOK, Paired, Locals, reports, override, board, pd
<1>10. CASE notify
  BY <1>10, IdleLocals
  DEF notify, TypeOK, Paired, Locals, reports, active, override, board, idle
<1> QED BY <1>1, <1>2, <1>3, <1>4, <1>5, <1>6, <1>7, <1>8, <1>9, <1>10
        DEF charge_manager_refresh

LEMMA SwapsArePorts ==
  ASSUME TypeOK
  PROVE  /\ \A p \in Ports \cup {OFF, DONT_CHARGE} :
              superseded(p) \subseteq Ports
         /\ cleanup(override_port) \subseteq Ports
         /\ cleanup(delayed_override_port) \subseteq Ports
BY CleanupIsPort DEF superseded

\* A swap of roles is one of the two roles again.
LEMMA SwappedIsRole ==
  ASSUME TypeOK, NEW p \in Ports
  PROVE  swapped(p) \in [Ports -> {"sink", "source"}]
BY DEF TypeOK, swapped

LEMMA CallTypeOK ==
  ASSUME TypeOK, NEW name, Call(name)
  PROVE  calls' \in 0 .. MaxCalls
BY ChargeManagerAssumption DEF TypeOK, Call

LEMMA OthersTypeOK ==
  ASSUME TypeOK, Paired, Others
  PROVE  TypeOK' /\ Paired'
<1>0. /\ OFF \in Ports \cup {OFF, DONT_CHARGE} /\ OFF \in Ports \cup {OFF}
      /\ Ports \subseteq Nat
  BY ChargeManagerAssumption DEF Ports
<1>1. ASSUME NEW p \in Ports, NEW s \in Suppliers, NEW c \in Currents,
             charge_manager_update_charge(s, p, c)
      PROVE  TypeOK' /\ Paired'
  <2>1. available_charge' \in [Suppliers -> [Ports -> Currents \cup {-1, 0}]]
    BY <1>1 DEF charge_manager_update_charge, TypeOK
  <2>2. is_seeded' \in BOOLEAN /\ refresh_pending' \in BOOLEAN
    BY <1>1 DEF charge_manager_update_charge, TypeOK, Seeded
  <2>3. /\ override_port' \in Ports \cup {OFF, DONT_CHARGE}
        /\ delayed_override_port' \in Ports \cup {OFF}
        /\ in_time' \in BOOLEAN
    BY <1>1, <1>0
    DEF charge_manager_update_charge, charged_override, TypeOK, clear_overrides, override
  <2>4. swap_request' \subseteq Ports
    BY <1>1, SwapsArePorts
    DEF charge_manager_update_charge, charged_override, TypeOK, clear_overrides
  <2>5. calls' \in 0 .. MaxCalls
    BY <1>1, CallTypeOK DEF charge_manager_update_charge
  <2> QED BY <1>1, <2>1, <2>2, <2>3, <2>4, <2>5
          DEF charge_manager_update_charge, TypeOK, Paired, active, board, pd
<1>2. ASSUME NEW p \in Ports, NEW cap \in {"unknown", "dualrole", "dedicated"},
             charge_manager_update_dualrole(p, cap)
      PROVE  TypeOK' /\ Paired'
  <2>1. dualrole_capability' \in [Ports -> {"unknown", "dualrole", "dedicated"}]
    BY <1>2 DEF charge_manager_update_dualrole, TypeOK
  <2>2. refresh_pending' \in BOOLEAN
    BY <1>2 DEF charge_manager_update_dualrole, TypeOK
  <2>3. /\ override_port' \in Ports \cup {OFF, DONT_CHARGE}
        /\ delayed_override_port' \in Ports \cup {OFF}
        /\ in_time' \in BOOLEAN
    BY <1>2, <1>0
    DEF charge_manager_update_dualrole, TypeOK, clear_overrides, override
  <2>4. swap_request' \subseteq Ports /\ unnoticed' \subseteq Ports
    BY <1>2, SwapsArePorts
    DEF charge_manager_update_dualrole, TypeOK, clear_overrides
  <2>5. calls' \in 0 .. MaxCalls
    BY <1>2, CallTypeOK DEF charge_manager_update_dualrole
  <2> QED BY <1>2, <2>1, <2>2, <2>3, <2>4, <2>5
          DEF charge_manager_update_dualrole, TypeOK, Paired, active, board, pd
<1>3. ASSUME NEW p \in Ports, NEW c \in Ceilings \cup {CEIL_NONE},
             charge_manager_set_ceil(p, c)
      PROVE  TypeOK' /\ Paired'
  <2>1. calls' \in 0 .. MaxCalls
    BY <1>3, CallTypeOK DEF charge_manager_set_ceil
  <2>2. charge_ceil' \in [Ports -> Ceilings \cup {CEIL_NONE}]
    BY <1>3 DEF charge_manager_set_ceil, TypeOK
  <2>3. refresh_pending' \in BOOLEAN
    BY <1>3 DEF charge_manager_set_ceil, TypeOK
  <2> QED BY <1>3, <2>1, <2>2, <2>3
          DEF charge_manager_set_ceil, TypeOK, Paired, active, override, board,
              pd
<1>4. ASSUME NEW p \in Ports \cup {OFF, DONT_CHARGE},
             charge_manager_set_override(p)
      PROVE  TypeOK' /\ Paired'
  <2>1. calls' \in 0 .. MaxCalls
    BY <1>4, CallTypeOK DEF charge_manager_set_override
  <2>2. CASE p < 0 \/ role[p] = "sink"
    <3>1. swap_request' \subseteq Ports
      BY <1>4, <2>2, SwapsArePorts
      DEF charge_manager_set_override, set_override, TypeOK
    <3>2. refresh_pending' \in BOOLEAN
      BY <1>4, <2>2 DEF charge_manager_set_override, set_override, TypeOK
    <3> QED BY <1>4, <2>1, <2>2, <3>1, <3>2
            DEF charge_manager_set_override, set_override, TypeOK, Paired,
                reports, active, board, pd
  <2>3. CASE ~(p < 0 \/ role[p] = "sink")
    <3>1. p \in Ports
      BY <2>3 DEF OFF, DONT_CHARGE
    <3>2. swap_request' \subseteq Ports
      BY <1>4, <2>3, <3>1, SwapsArePorts
      DEF charge_manager_set_override, set_override, TypeOK
    <3> QED BY <1>4, <2>1, <2>3, <3>1, <3>2
            DEF charge_manager_set_override, set_override, TypeOK, Paired,
                reports, active, board, pd
  <2> QED BY <2>2, <2>3
<1>5. ASSUME NEW p \in Ports, role_changes(p) PROVE TypeOK' /\ Paired'
  <2>1. calls' \in 0 .. MaxCalls
    BY <1>5, CallTypeOK DEF role_changes
  <2> QED BY <1>5, <2>1, SwappedIsRole
          DEF role_changes, TypeOK, Paired, reports, active, override, board
<1>6. ASSUME NEW p \in Ports, pd_power_swap(p) PROVE TypeOK' /\ Paired'
  BY <1>6, SwappedIsRole
  DEF pd_power_swap, TypeOK, Paired, reports, active, override, board
<1>7. CASE deadline_passes
  BY <1>7 DEF deadline_passes, TypeOK, Paired, reports, active, board, pd
<1> QED BY <1>1, <1>2, <1>3, <1>4, <1>5, <1>6, <1>7 DEF Others

LEMMA PdTypeOK ==
  ASSUME TypeOK, Paired, Pd
  PROVE  TypeOK' /\ Paired'
BY DEF Pd, pd_send_request_msg, TypeOK, Paired, reports, active, override,
       board

LEMMA StepTypeOK == TypeOK /\ Paired /\ [Next]_vars => TypeOK' /\ Paired'
<1> SUFFICES ASSUME TypeOK, Paired, [Next]_vars PROVE TypeOK' /\ Paired'
  OBVIOUS
<1>1. CASE UNCHANGED vars
  BY <1>1 DEF vars, TypeOK, Paired, reports, active, override, board, pd
<1> QED BY <1>1, RefreshTypeOK, OthersTypeOK, PdTypeOK DEF Next

\* Every variable keeps its type, for any number of ports and suppliers; in
\* particular no offer outside the list is looked at.
THEOREM TypeCorrect == Spec => []TypeOK
<1>1. Init => TypeOK /\ Paired
  BY InitTypeOK
<1>2. TypeOK /\ Paired /\ [Next]_vars => TypeOK' /\ Paired'
  BY StepTypeOK
<1> QED BY <1>1, <1>2, PTL DEF Spec
-----------------------------------------------------------------------------
(* The invariant                                                           *)

\* Before the first report of every supplier nothing is selected.
SeedInv == ~is_seeded => /\ At("idle") /\ ~refresh_pending
                         /\ charge_port = NONE

\* The board is told the port and the limit before the globals have them.
BoardInv ==
  /\ board_port = IF refresh.at \in {"check_override", "limits", "set_limit",
                                     "globals"}
                  THEN refresh.port ELSE charge_port
  /\ board_limit = IF At("globals") THEN refresh.current ELSE charge_current

\* The list of the ports to signal has the two ports of a change ..
UpdatedInv == At("globals") /\ refresh.port # charge_port =>
                {refresh.port, charge_port} \ {NONE} \subseteq refresh.updated

\* .. and only those of the list may be wrong about it until the signal.
PdInv == \A p \in Ports \ new_power_request :
           \/ At("notify") /\ p \in refresh.updated
           \/ p \in pd_charging <=> charge_port = p

\* A port's current is one it offers, or its change has made a refresh due.
Backed(p, s, current, uncapped) ==
  p # NONE => /\ current <= uncapped
              /\ refresh_pending \/ uncapped = available_charge[s][p]

OfferInv ==
  /\ At("set_limit") \/ At("globals") =>
       Backed(refresh.port, refresh.supplier, refresh.current,
              refresh.uncapped)
  /\ At("notify") \/ At("idle") =>
       Backed(charge_port, charge_supplier, charge_current,
              charge_current_uncapped)

Inv == /\ TypeOK /\ Paired
       /\ SeedInv /\ BoardInv /\ UpdatedInv /\ PdInv /\ OfferInv

LEMMA InitInv == Init => Inv
<1> SUFFICES ASSUME Init PROVE Inv
  OBVIOUS
<1>1. refresh.at = "idle"
  BY DEF Init, idle
<1>2. SeedInv
  BY <1>1 DEF SeedInv, Init, At
<1>3. BoardInv
  BY <1>1 DEF BoardInv, Init, At
<1>4. UpdatedInv
  BY <1>1 DEF UpdatedInv, At
<1>5. PdInv
  <2>1. \A p \in Ports : p # NONE
    BY ChargeManagerAssumption DEF Ports, NONE
  <2> QED BY <2>1 DEF PdInv, Init
<1>6. OfferInv
  BY <1>1 DEF OfferInv, Backed, Init, At
<1> QED BY InitTypeOK, <1>2, <1>3, <1>4, <1>5, <1>6 DEF Inv

\* The other calls leave what the refresh writes alone, and a charge that
\* changes when there is an active port makes a refresh due.
LEMMA OthersLeave ==
  ASSUME Inv, Others
  PROVE  /\ UNCHANGED <<active, refresh, board, new_power_request, pd_charging>>
         /\ refresh_pending => refresh_pending'
         /\ is_seeded => is_seeded'
         /\ refresh_pending' => refresh_pending \/ is_seeded'
         /\ ~is_seeded' \/ refresh_pending' \/ UNCHANGED available_charge
<1>0. refresh_pending \in BOOLEAN /\ is_seeded \in BOOLEAN
  BY DEF Inv, TypeOK
<1>1. CASE \E p \in Ports, s \in Suppliers, c \in Currents :
             charge_manager_update_charge(s, p, c)
  BY <1>1 DEF charge_manager_update_charge, Seeded, pd, active, board
<1>2. CASE \E p \in Ports, cap \in {"unknown", "dualrole", "dedicated"} :
             charge_manager_update_dualrole(p, cap)
  <2>1. UNCHANGED <<available_charge, is_seeded, active, refresh, board, pd>>
    BY <1>2 DEF charge_manager_update_dualrole
  <2>2. PICK due \in BOOLEAN : refresh_pending' = (refresh_pending \/ due)
                               /\ (due => is_seeded)
    BY <1>2 DEF charge_manager_update_dualrole
  <2> QED BY <1>0, <2>1, <2>2 DEF pd
<1>3. CASE \E p \in Ports, c \in Ceilings \cup {CEIL_NONE} :
             charge_manager_set_ceil(p, c)
  <2>1. UNCHANGED <<available_charge, is_seeded, active, refresh, board, pd>>
    BY <1>3 DEF charge_manager_set_ceil
  <2>2. PICK due \in BOOLEAN : refresh_pending' = (refresh_pending \/ due)
                               /\ (due => is_seeded)
    BY <1>3 DEF charge_manager_set_ceil
  <2> QED BY <1>0, <2>1, <2>2 DEF pd
<1>4. CASE \E p \in Ports \cup {OFF, DONT_CHARGE} :
             charge_manager_set_override(p)
  <2>1. UNCHANGED <<available_charge, is_seeded, active, refresh, board, pd>>
    BY <1>4 DEF charge_manager_set_override, reports
  <2>2. PICK due \in BOOLEAN : refresh_pending' = (refresh_pending \/ due)
                               /\ (due => is_seeded)
    BY <1>4, <1>0 DEF charge_manager_set_override, set_override
  <2> QED BY <1>0, <2>1, <2>2 DEF pd
<1>5. CASE \E p \in Ports : role_changes(p) \/ pd_power_swap(p)
  BY <1>5 DEF role_changes, pd_power_swap, pd, active, board, reports
<1>6. CASE deadline_passes
  BY <1>6 DEF deadline_passes, pd, active, board, reports
<1> QED BY <1>1, <1>2, <1>3, <1>4, <1>5, <1>6 DEF Others

LEMMA OthersInv ==
  ASSUME Inv, Others
  PROVE  Inv'
<1>1. /\ UNCHANGED <<charge_port, charge_supplier, charge_current,
                     charge_current_uncapped>>
      /\ UNCHANGED <<refresh, board_port, board_limit>>
      /\ UNCHANGED <<new_power_request, pd_charging>>
  BY OthersLeave DEF active, board
<1>2. SeedInv'
  BY <1>1, OthersLeave DEF Inv, SeedInv, At
<1>3. BoardInv'
  BY <1>1 DEF Inv, BoardInv, At
<1>4. UpdatedInv'
  BY <1>1 DEF Inv, UpdatedInv, At
<1>5. PdInv'
  BY <1>1 DEF Inv, PdInv, At
<1>6. OfferInv'
  <2>1. CASE ~is_seeded'
    <3>1. At("idle") /\ charge_port = NONE
      BY <2>1, OthersLeave DEF Inv, SeedInv
    <3> QED BY <1>1, <3>1 DEF OfferInv, Backed, At
  <2>2. CASE refresh_pending' \/ UNCHANGED available_charge
    BY <1>1, <2>2, OthersLeave DEF Inv, OfferInv, Backed, At
  <2> QED BY <2>1, <2>2, OthersLeave
<1> QED BY OthersTypeOK, <1>2, <1>3, <1>4, <1>5, <1>6 DEF Inv

LEMMA PdStepInv ==
  ASSUME Inv, Pd
  PROVE  Inv'
<1>1. PICK p \in Ports : pd_send_request_msg(p)
  BY DEF Pd
<1>2. PdInv'
  BY <1>1 DEF Inv, PdInv, pd_send_request_msg, At, active
<1>3. UNCHANGED <<reports, active, refresh_pending, refresh, board>>
  BY <1>1 DEF pd_send_request_msg
<1>4. SeedInv' /\ BoardInv' /\ UpdatedInv' /\ OfferInv'
  BY <1>3 DEF Inv, SeedInv, BoardInv, UpdatedInv, OfferInv, Backed, At,
              reports, active, board
<1> QED BY <1>2, <1>4, PdTypeOK DEF Inv

\* Each step of the refresh keeps the invariant.
LEMMA RefreshInv ==
  ASSUME Inv, charge_manager_refresh
  PROVE  Inv'
<1>0. TypeOK /\ Paired /\ SeedInv /\ BoardInv /\ UpdatedInv /\ PdInv
      /\ OfferInv /\ refresh \in Locals
  BY DEF Inv, TypeOK
<1>t. TypeOK' /\ Paired'
  BY <1>0, RefreshTypeOK
<1>1. CASE start
  <2>1. /\ refresh.at = "idle" /\ refresh'.at = "select" /\ is_seeded
        /\ UNCHANGED <<charge_port, board_port, board_limit, charge_current,
                       new_power_request, pd_charging, is_seeded>>
    BY <1>1, <1>0, IdleLocals
    DEF start, SeedInv, At, idle, reports, active, board, pd
  <2> QED BY <2>1, <1>0, <1>t
          DEF Inv, SeedInv, BoardInv, UpdatedInv, PdInv, OfferInv, At
<1>2. CASE select \/ get_best
  <2>1. /\ refresh.at \in {"select", "best"}
        /\ refresh'.at \in {"best", "set_port"}
        /\ is_seeded
        /\ UNCHANGED <<charge_port, board_port, board_limit, charge_current,
                       new_power_request, pd_charging, is_seeded>>
    BY <1>2, <1>0, SelectionStep
    DEF select, get_best, SeedInv, At, reports, active, board, pd, Locals
  <2> QED BY <2>1, <1>0, <1>t
          DEF Inv, SeedInv, BoardInv, UpdatedInv, PdInv, OfferInv, At
<1>3. CASE set_port
  <2>1. /\ refresh.at = "set_port"
        /\ refresh'.at \in {"check_override", "zero"}
        /\ refresh'.port = refresh.port /\ is_seeded
        /\ UNCHANGED <<charge_port, board_limit, charge_current,
                       new_power_request, pd_charging, is_seeded>>
    BY <1>3, <1>0 DEF set_port, SeedInv, At, reports, active, pd, Locals
  <2>2. /\ board_port = charge_port
        /\ board_port' = IF refresh'.at = "check_override" THEN refresh.port
                                                         ELSE charge_port
    BY <1>3, <1>0, <2>1 DEF set_port, BoardInv, Locals
  <2> QED BY <2>1, <2>2, <1>0, <1>t
          DEF Inv, SeedInv, BoardInv, UpdatedInv, PdInv, OfferInv, At
<1>4. CASE zero_rejected
  <2>1. /\ refresh.at = "zero" /\ refresh'.at = "select" /\ is_seeded
        /\ UNCHANGED <<charge_port, board_port, board_limit, charge_current,
                       new_power_request, pd_charging, is_seeded>>
    BY <1>4, <1>0, IdleLocals
    DEF zero_rejected, SeedInv, At, idle, active, board, pd
  <2> QED BY <2>1, <1>0, <1>t
          DEF Inv, SeedInv, BoardInv, UpdatedInv, PdInv, OfferInv, At
<1>5. CASE check_override
  <2>1. /\ refresh.at = "check_override" /\ refresh'.at = "limits"
        /\ refresh'.port = refresh.port /\ is_seeded
        /\ UNCHANGED <<charge_port, board_port, board_limit, charge_current,
                       new_power_request, pd_charging, is_seeded>>
    BY <1>5, <1>0
    DEF check_override, SeedInv, At, reports, active, board, pd, Locals
  <2> QED BY <2>1, <1>0, <1>t
          DEF Inv, SeedInv, BoardInv, UpdatedInv, PdInv, OfferInv, At
<1>6. CASE limits
  <2>1. /\ refresh.at = "limits" /\ is_seeded
        /\ UNCHANGED <<charge_port, board_port, board_limit, charge_current,
                       new_power_request, pd_charging, is_seeded,
                       available_charge>>
    BY <1>6, <1>0 DEF limits, SeedInv, At, reports, active, board, pd
  <2>2. /\ refresh'.at = "set_limit" /\ refresh'.port = refresh.port
        /\ refresh'.supplier = refresh.supplier
    BY <1>6, <1>0, LimitsStep
  <2>3. OfferInv'
    <3>1. Backed(refresh.port, refresh.supplier, refresh.current,
                 refresh.uncapped)'
      BY <1>6, <1>0, <2>1, <2>2, LimitsStep DEF Backed
    <3> QED BY <3>1, <2>2 DEF OfferInv, At
  <2> QED BY <2>1, <2>2, <2>3, <1>0, <1>t
          DEF Inv, SeedInv, BoardInv, UpdatedInv, PdInv, At
<1>7. CASE set_limit
  <2>1. /\ refresh.at = "set_limit" /\ is_seeded
        /\ refresh' = [refresh EXCEPT !.at = "globals",
                                      !.updated = updated_ports]
        /\ UNCHANGED <<charge_port, board_port, charge_current,
                       new_power_request, pd_charging, is_seeded,
                       available_charge, refresh_pending>>
    BY <1>7, <1>0 DEF set_limit, SeedInv, At, reports, active, pd
  <2>2. /\ refresh'.at = "globals" /\ refresh'.port = refresh.port
        /\ refresh'.supplier = refresh.supplier
        /\ refresh'.current = refresh.current
        /\ refresh'.uncapped = refresh.uncapped
        /\ refresh'.updated = updated_ports
    BY <2>1, <1>0 DEF Locals
  <2>3. BoardInv'
    BY <1>7, <1>0, <2>1, <2>2 DEF set_limit, BoardInv, At
  <2>4. UpdatedInv'
    BY <2>1, <2>2 DEF UpdatedInv, updated_ports, At
  <2>5. OfferInv'
    BY <2>1, <2>2, <1>0 DEF OfferInv, Backed, At
  <2> QED BY <2>1, <2>2, <2>3, <2>4, <2>5, <1>0, <1>t
          DEF Inv, SeedInv, PdInv, At
<1>8. CASE set_globals
  <2>1. /\ refresh.at = "globals" /\ is_seeded
        /\ charge_port' = refresh.port /\ charge_supplier' = refresh.supplier
        /\ charge_current' = refresh.current
        /\ charge_current_uncapped' = refresh.uncapped
        /\ UNCHANGED <<board_port, board_limit, new_power_request,
                       pd_charging, is_seeded, available_charge,
                       refresh_pending>>
    BY <1>8, <1>0 DEF set_globals, SeedInv, At, reports, board, pd
  <2>2. refresh'.at = "notify" /\ refresh'.updated = refresh.updated
    BY <1>8, <1>0 DEF set_globals, Locals
  <2>3. PdInv'
    <3>1. ASSUME NEW p \in Ports, p \notin new_power_request,
                 p \notin refresh.updated
          PROVE  p \in pd_charging <=> refresh.port = p
      <4>1. p # NONE
        BY ChargeManagerAssumption DEF Ports, NONE
      <4>2. p \in pd_charging <=> charge_port = p
        BY <3>1, <1>0 DEF PdInv
      <4> QED BY <3>1, <4>1, <4>2, <1>0, <2>1 DEF UpdatedInv, At
    <3> QED BY <3>1, <2>1, <2>2 DEF PdInv, At
  <2>4. BoardInv'
    BY <2>1, <2>2, <1>0 DEF BoardInv, At
  <2>5. OfferInv'
    BY <2>1, <2>2, <1>0 DEF OfferInv, Backed, At
  <2> QED BY <2>1, <2>2, <2>3, <2>4, <2>5, <1>0, <1>t
          DEF Inv, SeedInv, UpdatedInv, At
<1>9. CASE notify
  <2>1. /\ refresh.at = "notify" /\ is_seeded
        /\ refresh'.at = "idle"
        /\ new_power_request' = new_power_request \cup refresh.updated
        /\ UNCHANGED <<charge_port, charge_supplier, charge_current,
                       charge_current_uncapped, board_port, board_limit,
                       pd_charging, is_seeded, available_charge,
                       refresh_pending>>
    BY <1>9, <1>0 DEF notify, SeedInv, At, reports, active, board, idle
  <2>2. PdInv'
    BY <2>1, <1>0 DEF PdInv, At
  <2>3. OfferInv'
    BY <2>1, <1>0 DEF OfferInv, Backed, At
  <2> QED BY <2>1, <2>2, <2>3, <1>0, <1>t
          DEF Inv, SeedInv, BoardInv, UpdatedInv, At
<1> QED BY <1>1, <1>2, <1>3, <1>4, <1>5, <1>6, <1>7, <1>8, <1>9
        DEF charge_manager_refresh

LEMMA StepInv == Inv /\ [Next]_vars => Inv'
<1> SUFFICES ASSUME Inv, [Next]_vars PROVE Inv'
  OBVIOUS
<1>1. CASE UNCHANGED vars
  <2>1. TypeOK' /\ Paired'
    BY StepTypeOK DEF Inv
  <2> QED BY <1>1, <2>1
          DEF Inv, vars, SeedInv, BoardInv, UpdatedInv, PdInv, OfferInv,
              Backed, At, reports, active, board, pd
<1> QED BY <1>1, RefreshInv, OthersInv, PdStepInv DEF Next

LEMMA Invariance == Spec => []Inv
<1>1. Init => Inv
  BY InitInv
<1>2. Inv /\ [Next]_vars => Inv'
  BY StepInv
<1> QED BY <1>1, <1>2, PTL DEF Spec

-----------------------------------------------------------------------------
\* Once no refresh is due, the board has the port and the limit that the
\* charge manager believes, and the limit is one that the active port offers
\* at this moment.
THEOREM BoardAgrees == Spec => []BoardFollows
<1>1. Inv => BoardFollows
  BY DEF Inv, BoardInv, OfferInv, Backed, BoardFollows, Settled, At
<1> QED BY <1>1, Invariance, PTL

\* Once no refresh is due, a USB PD task that will not send a new request
\* has requested its power knowing whether the system charges from its port.
THEOREM PdAgrees == Spec => []PdFollows
<1>1. Inv => PdFollows
  BY DEF Inv, PdInv, PdFollows, Settled, At
<1> QED BY <1>1, Invariance, PTL

-----------------------------------------------------------------------------
(* The selection                                                           *)

\* The offers that the refresh has looked at
Seen(s, p) == s * NPorts + p < refresh.k

Selecting == refresh.at \in {"best", "set_port", "check_override", "limits",
                             "set_limit", "globals"}

\* Nothing that may charge was found among them ..
NothingFound ==
  \/ override_port = DONT_CHARGE
  \/ \A s \in Suppliers, p \in Ports :
       Seen(s, p) /\ MayCharge(p) => available_charge[s][p] = 0

\* .. or the best of them, for which a former one was left only for cause.
Unbeaten ==
  \A s \in Suppliers, p \in Ports :
    /\ Seen(s, p) /\ available_charge[s][p] > 0 /\ MayCharge(p)
    /\ override_port = refresh.port => p = refresh.port
    => ~Beats(s, p, refresh.supplier, refresh.port)

OverrideTaken ==
  override_port \in Ports /\ override_port # refresh.port =>
    \A s \in Suppliers :
      Seen(s, override_port) => available_charge[s][override_port] = 0

Kept ==
  /\ charge_port \in Ports /\ charge_port # refresh.port
  /\ override_port # refresh.port /\ MayCharge(charge_port)
  => \A s \in Suppliers :
       Seen(s, charge_port) /\ available_charge[s][charge_port] > 0 =>
         Beats(refresh.supplier, refresh.port, s, charge_port)

BestFound ==
  /\ override_port # DONT_CHARGE
  /\ available_charge[refresh.supplier][refresh.port] = refresh.best
  /\ refresh.best > 0
  /\ MayCharge(refresh.port) \/ refresh.port \in unnoticed
  /\ Unbeaten /\ OverrideTaken /\ Kept

SelectionInv ==
  ~refresh_pending /\ Selecting =>
    /\ refresh.port = NONE => NothingFound
    /\ refresh.port # NONE => BestFound
    /\ At("best") => override_port # DONT_CHARGE
    /\ ~At("best") => \/ refresh.k = NSuppliers * NPorts
                      \/ override_port = DONT_CHARGE
    /\ refresh.at \in {"limits", "set_limit", "globals"} /\ override_port \in Ports
         => override_port = refresh.port


\* A selection starts with nothing, every supplier has reported before one
\* does, and what is active is right once no refresh is due.
FreshInv == At("select") => refresh.k = 0 /\ refresh.port = NONE

ReportedInv ==
  is_seeded => \A s \in Suppliers, p \in Ports : available_charge[s][p] >= 0

Right ==
  /\ override_port = DONT_CHARGE => charge_port = NONE
  /\ override_port >= 0 => charge_port = override_port
  /\ charge_port = NONE =>
       \/ override_port = DONT_CHARGE
       \/ \A p \in Ports : MayCharge(p) => Offers(p) = {}
  /\ charge_port # NONE =>
       /\ charge_supplier \in Offers(charge_port)
       /\ MayCharge(charge_port) \/ charge_port \in unnoticed
       /\ \A p \in IF override_port >= 0 THEN {override_port} ELSE Ports :
            \A s \in Offers(p) :
              MayCharge(p) => ~Beats(s, p, charge_supplier, charge_port)

RightInv ==
  refresh.at \in {"notify", "idle"} /\ ~refresh_pending /\ is_seeded => Right

Chosen == FreshInv /\ ReportedInv /\ SelectionInv /\ RightInv

\* The next offer of the list is the only one that becomes seen.
LEMMA SeenNext ==
  ASSUME NEW k \in 0 .. NSuppliers * NPorts, k # NSuppliers * NPorts,
         NEW s \in Suppliers, NEW p \in Ports,
         s * NPorts + p < k + 1
  PROVE  s * NPorts + p < k \/ (s = k \div NPorts /\ p = k % NPorts)
<1>0. NPorts \in Nat \ {0} /\ NSuppliers \in Nat \ {0}
  BY ChargeManagerAssumption
<1>1. NSuppliers * NPorts \in Nat
  BY <1>0
<1>2. k \in Nat
  BY <1>1
<1>3. /\ k % NPorts \in 0 .. NPorts - 1 /\ k \div NPorts \in Int
      /\ k = NPorts * (k \div NPorts) + (k % NPorts)
  BY <1>0, <1>2
<1>4. s \in Nat /\ p \in 0 .. NPorts - 1 /\ s * NPorts \in Nat
  BY <1>0 DEF Suppliers, Ports
<1>5. ASSUME NEW d \in Int, NEW r \in 0 .. NPorts - 1,
             s * NPorts + p = NPorts * d + r
      PROVE  s = d /\ p = r
  <2>1. CASE s > d
    <3>1. (s - d) * NPorts >= NPorts
      BY <2>1, <1>0, <1>4
    <3>2. (s - d) * NPorts = s * NPorts - NPorts * d
      BY <1>0, <1>4
    <3> QED BY <3>1, <3>2, <1>5, <1>0, <1>4
  <2>2. CASE s < d
    <3>1. (d - s) * NPorts >= NPorts
      BY <2>2, <1>0, <1>4
    <3>2. (d - s) * NPorts = NPorts * d - s * NPorts
      BY <1>0, <1>4
    <3> QED BY <3>1, <3>2, <1>5, <1>0, <1>4
  <2>3. CASE s = d
    <3>1. s * NPorts = NPorts * d
      BY <2>3, <1>0, <1>4
    <3> QED BY <2>3, <3>1, <1>5, <1>4
  <2> QED BY <2>1, <2>2, <2>3, <1>4
<1>6. CASE s * NPorts + p = k
  BY <1>6, <1>3, <1>5
<1>7. CASE s * NPorts + p # k
  BY <1>7, <1>2, <1>4
<1> QED BY <1>6, <1>7

\* At the end of the list all offers have been seen, at its start none.
LEMMA SeenAll ==
  ASSUME NEW s \in Suppliers, NEW p \in Ports
  PROVE  s * NPorts + p \in Nat /\ s * NPorts + p < NSuppliers * NPorts
<1>0. /\ NPorts \in Nat \ {0} /\ NSuppliers \in Nat \ {0}
      /\ s \in 0 .. NSuppliers - 1 /\ p \in 0 .. NPorts - 1
  BY ChargeManagerAssumption DEF Suppliers, Ports
<1>1. (NSuppliers - 1 - s) * NPorts >= 0
  BY <1>0
<1>2. (NSuppliers - 1 - s) * NPorts
        = NSuppliers * NPorts - NPorts - s * NPorts
  BY <1>0
<1>3. s * NPorts \in Nat /\ NSuppliers * NPorts \in Nat
  BY <1>0
<1> QED BY <1>0, <1>1, <1>2, <1>3

-----------------------------------------------------------------------------
\* What the other tasks do without making a refresh due: a port that may
\* charge and has an offer could charge before, and one that may not charge
\* any more is unnoticed.
LEMMA OthersQuiet ==
  ASSUME Inv, Others, is_seeded', ~refresh_pending'
  PROVE  /\ UNCHANGED <<available_charge, override_port, charge_port,
                        charge_supplier, refresh>>
         /\ is_seeded /\ ~refresh_pending
         /\ \A p \in Ports : MayCharge(p)' =>
              MayCharge(p) \/ \A s \in Suppliers : ~(available_charge[s][p] > 0)
         /\ \A p \in Ports : MayCharge(p) \/ p \in unnoticed =>
                               MayCharge(p)' \/ p \in unnoticed'
<1>0. refresh_pending \in BOOLEAN /\ is_seeded \in BOOLEAN
      /\ available_charge \in [Suppliers -> [Ports -> Currents \cup {-1, 0}]]
      /\ dualrole_capability \in [Ports -> {"unknown", "dualrole", "dedicated"}]
  BY DEF Inv, TypeOK
<1>l. /\ UNCHANGED <<active, refresh, board, new_power_request, pd_charging>>
      /\ refresh_pending => refresh_pending'
      /\ ~is_seeded' \/ refresh_pending' \/ UNCHANGED available_charge
  BY OthersLeave
<1>a. UNCHANGED <<charge_port, charge_supplier, refresh, available_charge>>
      /\ ~refresh_pending
  BY <1>l DEF active
<1>s. SUFFICES /\ is_seeded /\ override_port' = override_port
               /\ \A p \in Ports : MayCharge(p)' =>
                    \/ MayCharge(p)
                    \/ \A s \in Suppliers : ~(available_charge[s][p] > 0)
               /\ \A p \in Ports : MayCharge(p) \/ p \in unnoticed =>
                                     MayCharge(p)' \/ p \in unnoticed'
  BY <1>a
<1>1. CASE \E p \in Ports, s \in Suppliers, c \in Currents :
             charge_manager_update_charge(s, p, c)
  BY <1>1, <1>0 DEF charge_manager_update_charge
<1>2. ASSUME NEW p \in Ports, NEW cap \in {"unknown", "dualrole", "dedicated"},
             charge_manager_update_dualrole(p, cap)
      PROVE  /\ is_seeded /\ override_port' = override_port
             /\ \A q \in Ports : MayCharge(q)' =>
                  \/ MayCharge(q)
                  \/ \A s \in Suppliers : ~(available_charge[s][q] > 0)
             /\ \A q \in Ports : MayCharge(q) \/ q \in unnoticed =>
                                   MayCharge(q)' \/ q \in unnoticed'
  <2> DEFINE matters == cap = "dedicated" /\ \E s \in Suppliers :
                                               available_charge[s][p] > 0
  <2>1. /\ is_seeded' = is_seeded
        /\ refresh_pending' = (refresh_pending \/ (matters /\ is_seeded))
        /\ dualrole_capability' = [dualrole_capability EXCEPT ![p] = cap]
        /\ unnoticed' = IF cap = "dedicated" THEN unnoticed \ {p}
                                             ELSE unnoticed \cup {p}
        /\ ~matters => override_port' = override_port
    BY <1>2 DEF charge_manager_update_dualrole, reports, override
  <2>2. is_seeded /\ ~matters
    BY <2>1
  <2>3. override_port' = override_port
    BY <2>1, <2>2
  <2>4. ASSUME NEW q \in Ports, q # p
        PROVE  dualrole_capability'[q] = dualrole_capability[q]
    BY <2>1, <2>4, <1>0
  <2>5. dualrole_capability'[p] = cap
    BY <2>1, <1>0
  <2>6. \A q \in Ports : MayCharge(q)' =>
                  \/ MayCharge(q)
                  \/ \A s \in Suppliers : ~(available_charge[s][q] > 0)
    BY <2>2, <2>3, <2>4, <2>5 DEF MayCharge
  <2>7. \A q \in Ports : MayCharge(q) \/ q \in unnoticed =>
                                   MayCharge(q)' \/ q \in unnoticed'
    <3> HIDE DEF matters
    <3> TAKE q \in Ports
    <3>1. CASE q = p
      BY <3>1, <2>1, <2>3, <2>5 DEF MayCharge
    <3>2. CASE q # p
      BY <3>2, <2>1, <2>3, <2>4 DEF MayCharge
    <3> QED BY <3>1, <3>2
  <2> QED BY <2>2, <2>3, <2>6, <2>7
<1>3. CASE \E p \in Ports, c \in Ceilings \cup {CEIL_NONE} :
             charge_manager_set_ceil(p, c)
  BY <1>3 DEF charge_manager_set_ceil, override, MayCharge
<1>4. CASE \E p \in Ports \cup {OFF, DONT_CHARGE} :
             charge_manager_set_override(p)
  BY <1>4, <1>0 DEF charge_manager_set_override, set_override, reports, MayCharge
<1>5. CASE \E p \in Ports : role_changes(p) \/ pd_power_swap(p)
  BY <1>5 DEF role_changes, pd_power_swap, override, reports, MayCharge
<1>6. CASE deadline_passes
  BY <1>6 DEF deadline_passes, reports, MayCharge
<1> QED BY <1>1, <1>2, <1>3, <1>4, <1>5, <1>6 DEF Others

\* A call of another task keeps what has been seen and selected right, or
\* makes a refresh due.
LEMMA OthersChosen ==
  ASSUME Inv, Inv', Chosen, Others
  PROVE  Chosen'
<1>0. /\ refresh' = refresh
      /\ FreshInv /\ ReportedInv /\ SelectionInv /\ RightInv
  BY OthersLeave DEF Chosen
<1>1. FreshInv'
  BY <1>0 DEF FreshInv, At
<1>2. ReportedInv'
  <2>0. /\ Currents \subseteq Nat
        /\ available_charge \in [Suppliers -> [Ports -> Currents \cup {-1, 0}]]
        /\ available_charge' \in [Suppliers -> [Ports -> Currents \cup {-1, 0}]]
        /\ is_seeded \in BOOLEAN
    BY ChargeManagerAssumption DEF Inv, TypeOK
  <2>1. CASE UNCHANGED <<available_charge, is_seeded>>
    BY <2>1, <1>0 DEF ReportedInv
  <2>2. ASSUME NEW p \in Ports, NEW s \in Suppliers, NEW c \in Currents,
               charge_manager_update_charge(s, p, c), is_seeded',
               NEW t \in Suppliers, NEW q \in Ports
        PROVE  available_charge'[t][q] >= 0
    <3>1. /\ available_charge' = [available_charge EXCEPT ![s][p] = c]
          /\ is_seeded' = Seeded(available_charge')
      BY <2>2 DEF charge_manager_update_charge
    <3>2. /\ available_charge[t] \in [Ports -> Currents \cup {-1, 0}]
          /\ available_charge'[t] \in [Ports -> Currents \cup {-1, 0}]
      BY <2>0
    <3>3. /\ available_charge[t][q] \in Currents \cup {-1, 0}
          /\ available_charge'[t][q] \in Currents \cup {-1, 0}
      BY <3>2
    <3>4. CASE is_seeded
      <4>1. available_charge[t][q] >= 0
        BY <3>4, <1>0 DEF ReportedInv
      <4>2. available_charge'[t][q] \in {c, available_charge[t][q]}
        BY <3>1, <2>0
      <4> QED BY <4>1, <4>2, <2>0
    <3>5. CASE ~is_seeded
      <4>1. available_charge'[t][q] # UNINITIALIZED
        BY <3>5, <3>1, <2>2 DEF Seeded
      <4>2. available_charge'[t][q] \in Currents \cup {0}
        BY <4>1, <3>3 DEF UNINITIALIZED
      <4>3. \A x \in Currents \cup {0} : x \in Nat
        BY <2>0
      <4>4. available_charge'[t][q] \in Nat
        BY <4>2, <4>3, Zenon
      <4> QED BY <4>4
    <3> QED BY <3>4, <3>5
  <2>3. \/ \E p \in Ports, s \in Suppliers, c \in Currents :
             charge_manager_update_charge(s, p, c)
        \/ UNCHANGED <<available_charge, is_seeded>>
    BY DEF Others, charge_manager_update_dualrole, charge_manager_set_ceil,
           charge_manager_set_override, role_changes, pd_power_swap,
           deadline_passes, reports
  <2> QED BY <2>1, <2>2, <2>3 DEF ReportedInv
<1>q. ASSUME is_seeded', ~refresh_pending'
      PROVE  /\ UNCHANGED <<available_charge, override_port, charge_port,
                            charge_supplier, refresh>>
             /\ is_seeded /\ ~refresh_pending
             /\ \A p \in Ports : MayCharge(p)' =>
                  MayCharge(p) \/ \A s \in Suppliers : ~(available_charge[s][p] > 0)
             /\ \A p \in Ports : MayCharge(p) \/ p \in unnoticed =>
                                   MayCharge(p)' \/ p \in unnoticed'
  BY <1>q, OthersQuiet
<1>3. SelectionInv'
  <2> SUFFICES ASSUME ~refresh_pending', Selecting'
               PROVE  SelectionInv'
    BY DEF SelectionInv
  <2>0. is_seeded'
    <3>1. Selecting /\ refresh.at # "idle"
      BY <1>0 DEF Selecting
    <3> QED BY <3>1, OthersLeave DEF Inv, SeedInv, At
  <2>1. /\ UNCHANGED <<available_charge, override_port, charge_port,
                       charge_supplier, refresh>>
        /\ is_seeded /\ ~refresh_pending
    BY <2>0, <1>q
  <2>2. \A p \in Ports : MayCharge(p)' =>
          MayCharge(p) \/ \A s \in Suppliers : ~(available_charge[s][p] > 0)
    BY <2>0, <1>q
  <2>3. \A p \in Ports : MayCharge(p) \/ p \in unnoticed =>
                           MayCharge(p)' \/ p \in unnoticed'
    BY <2>0, <1>q
  <2>4. Selecting
    BY <2>1 DEF Selecting
  <2>s. \A s, p : Seen(s, p)' <=> Seen(s, p)
    BY <2>1 DEF Seen
  <2>5. CASE refresh.port = NONE
    <3>1. NothingFound
      BY <2>1, <2>4, <2>5, <1>0 DEF SelectionInv
    <3>2. NothingFound'
      <4>1. ASSUME NEW s \in Suppliers, NEW p \in Ports,
                   Seen(s, p), MayCharge(p)', override_port # DONT_CHARGE
            PROVE  available_charge[s][p] = 0
        <5>1. available_charge[s][p] >= 0 /\ available_charge[s][p] \in Int
          BY <2>1, <1>0, OfferIsNumber DEF ReportedInv, Inv
        <5>2. CASE MayCharge(p)
          BY <5>2, <4>1, <3>1 DEF NothingFound
        <5>3. CASE ~(available_charge[s][p] > 0)
          BY <5>1, <5>3
        <5> QED BY <4>1, <5>2, <5>3, <2>2
      <4> QED BY <4>1, <2>1, <2>s DEF NothingFound
    <3> QED BY <2>1, <2>4, <2>5, <3>2, <1>0 DEF SelectionInv, At
  <2>6. CASE refresh.port # NONE
    <3>1. BestFound
      BY <2>1, <2>4, <2>6, <1>0 DEF SelectionInv
    <3>2. Unbeaten'
      <4>1. ASSUME NEW s \in Suppliers, NEW p \in Ports,
                   Seen(s, p), available_charge[s][p] > 0, MayCharge(p)',
                   override_port = refresh.port => p = refresh.port
            PROVE  ~Beats(s, p, refresh.supplier, refresh.port)
        <5>1. MayCharge(p)
          BY <4>1, <2>2
        <5> QED BY <5>1, <4>1, <3>1 DEF BestFound, Unbeaten
      <4> QED BY <4>1, <2>1, <2>s DEF Unbeaten, Beats
    <3>3. OverrideTaken'
      BY <3>1, <2>1, <2>s DEF BestFound, OverrideTaken
    <3>4. Kept'
      <4>1. ASSUME charge_port \in Ports, charge_port # refresh.port,
                   override_port # refresh.port, MayCharge(charge_port)',
                   NEW s \in Suppliers, Seen(s, charge_port),
                   available_charge[s][charge_port] > 0
            PROVE  Beats(refresh.supplier, refresh.port, s, charge_port)
        <5>1. \A r \in Ports : r = charge_port => MayCharge(r)'
          BY <4>1, <2>1 DEF MayCharge
        <5>2. MayCharge(charge_port)
          BY <5>1, <4>1, <2>2
        <5> QED BY <5>2, <4>1, <3>1 DEF BestFound, Kept
      <4> QED BY <4>1, <2>1, <2>s DEF Kept, Beats
    <3>5. MayCharge(refresh.port)' \/ refresh.port \in unnoticed'
      <4>1. refresh.port \in Ports
        BY <2>6 DEF Inv, TypeOK, Locals
      <4>2. MayCharge(refresh.port) \/ refresh.port \in unnoticed
        BY <3>1 DEF BestFound
      <4>3. \A r \in Ports : r = refresh.port =>
              MayCharge(r)' \/ r \in unnoticed'
        BY <4>2, <2>3
      <4> QED BY <4>1, <4>3, <2>1 DEF MayCharge
    <3>6. BestFound'
      BY <3>1, <3>2, <3>3, <3>4, <3>5, <2>1 DEF BestFound, MayCharge
    <3> QED BY <2>1, <2>4, <2>6, <3>6, <1>0 DEF SelectionInv, At
  <2> QED BY <2>5, <2>6
<1>4. RightInv'
  <2> SUFFICES ASSUME refresh'.at \in {"notify", "idle"}, ~refresh_pending',
                      is_seeded'
               PROVE  Right'
    BY DEF RightInv
  <2>1. /\ UNCHANGED <<available_charge, override_port, charge_port,
                       charge_supplier, refresh>>
        /\ is_seeded /\ ~refresh_pending
    BY <1>q
  <2>2. \A p \in Ports : MayCharge(p)' =>
          MayCharge(p) \/ \A s \in Suppliers : ~(available_charge[s][p] > 0)
    BY <1>q
  <2>3. \A p \in Ports : MayCharge(p) \/ p \in unnoticed =>
                           MayCharge(p)' \/ p \in unnoticed'
    BY <1>q
  <2>4. Right
    BY <2>1, <1>0 DEF RightInv
  <2>o. \A p : Offers(p)' = Offers(p)
    BY <2>1 DEF Offers
  <2>5. \A p \in Ports : MayCharge(p)' => MayCharge(p) \/ Offers(p) = {}
    BY <2>2 DEF Offers
  <2>6. charge_port' = NONE =>
          \/ override_port' = DONT_CHARGE
          \/ \A p \in Ports : MayCharge(p)' => Offers(p)' = {}
    BY <2>1, <2>4, <2>5, <2>o DEF Right
  <2>7. ASSUME charge_port' # NONE
        PROVE  /\ charge_supplier' \in Offers(charge_port)'
               /\ MayCharge(charge_port)' \/ charge_port' \in unnoticed'
               /\ \A p \in IF override_port' >= 0 THEN {override_port'} ELSE Ports :
                    \A s \in Offers(p)' :
                      MayCharge(p)' =>
                        ~Beats(s, p, charge_supplier, charge_port)'
    <3>1. charge_supplier' \in Offers(charge_port)'
      BY <2>1, <2>4, <2>7 DEF Right, Offers
    <3>2. MayCharge(charge_port)' \/ charge_port' \in unnoticed'
      <4>1. charge_port \in Ports
        BY <2>7, <2>1 DEF Inv, TypeOK
      <4>2. MayCharge(charge_port) \/ charge_port \in unnoticed
        BY <2>1, <2>4, <2>7 DEF Right
      <4>3. \A r \in Ports : r = charge_port => MayCharge(r)' \/ r \in unnoticed'
        BY <4>2, <2>3
      <4> QED BY <4>1, <4>3, <2>1 DEF MayCharge
    <3>3. ASSUME NEW p \in IF override_port >= 0 THEN {override_port} ELSE Ports,
                 NEW s \in Offers(p), MayCharge(p)'
          PROVE  ~Beats(s, p, charge_supplier, charge_port)
      <4>1. p \in Ports
        BY <3>3 DEF Inv, TypeOK, OFF, DONT_CHARGE
      <4>2. MayCharge(p)
        BY <3>3, <4>1, <2>5
      <4> QED BY <3>3, <4>2, <2>1, <2>4, <2>7 DEF Right
    <3>4. \A s, p : Beats(s, p, charge_supplier, charge_port)'
                      <=> Beats(s, p, charge_supplier, charge_port)
      BY <2>1 DEF Beats
    <3> QED BY <3>1, <3>2, <3>3, <3>4, <2>1, <2>o
  <2> QED BY <2>1, <2>4, <2>6, <2>7 DEF Right
<1> QED BY <1>1, <1>2, <1>3, <1>4 DEF Chosen

-----------------------------------------------------------------------------
\* The next offer is taken, or is no better than what was selected before.
LEMMA GetBestChosen ==
  ASSUME Inv, Inv', Chosen, get_best
  PROVE  SelectionInv'
<1>0. /\ TypeOK /\ Paired /\ refresh \in Locals /\ At("best")
      /\ SelectionInv /\ ReportedInv /\ is_seeded
  BY DEF Inv, TypeOK, Chosen, get_best, SeedInv, At
<1>u. UNCHANGED <<available_charge, dualrole_capability, override_port,
                  charge_port, unnoticed, refresh_pending>>
  BY DEF get_best, reports, override, active
<1> SUFFICES ASSUME ~refresh_pending PROVE SelectionInv'
  BY <1>u DEF SelectionInv
<1>b. /\ refresh.port = NONE => NothingFound
      /\ refresh.port # NONE => BestFound
      /\ override_port # DONT_CHARGE
  BY <1>0 DEF SelectionInv, Selecting, At
<1>m. \A r : MayCharge(r)' <=> MayCharge(r)
  BY <1>u DEF MayCharge
<1>n. refresh.k \in 0 .. NSuppliers * NPorts /\ NSuppliers * NPorts \in Nat
  BY <1>0, ChargeManagerAssumption DEF Locals
<1>1. CASE refresh.k = NSuppliers * NPorts
  <2>1. refresh' = [refresh EXCEPT !.at = "set_port"]
    BY <1>1 DEF get_best
  <2>2. /\ refresh'.at = "set_port" /\ refresh'.k = refresh.k
        /\ refresh'.port = refresh.port /\ refresh'.supplier = refresh.supplier
        /\ refresh'.best = refresh.best
    BY <2>1, <1>0 DEF Locals
  <2>3. NothingFound => NothingFound'
    BY <2>2, <1>u, <1>m DEF NothingFound, Seen
  <2>4. BestFound => BestFound'
    BY <2>2, <1>u, <1>m
    DEF BestFound, Unbeaten, OverrideTaken, Kept, Seen, Beats
  <2> QED BY <1>1, <1>b, <2>2, <2>3, <2>4 DEF SelectionInv, At
<1>2. CASE refresh.k # NSuppliers * NPorts
  <2> DEFINE s == refresh.k \div NPorts
             p == refresh.k % NPorts
  <2>1. s \in Suppliers /\ p \in Ports
    BY <1>n, <1>2, OfferOfIndex
  <2>2. \A t \in Suppliers, q \in Ports :
          t * NPorts + q < refresh.k + 1 => Seen(t, q) \/ (t = s /\ q = p)
    BY <1>n, <1>2, SeenNext DEF Seen
  <2>3. IF eligible(s, p) /\ better(s, p)
        THEN refresh' = [refresh EXCEPT !.k = refresh.k + 1, !.port = p,
                           !.supplier = s, !.best = available_charge[s][p]]
        ELSE refresh' = [refresh EXCEPT !.k = refresh.k + 1]
    BY <1>2 DEF get_best
  <2> HIDE DEF s, p
  <2>n. /\ p # NONE /\ s # NONE
        /\ \A t \in Suppliers, q \in Ports :
             available_charge[t][q] \in Int /\ available_charge[t][q] >= 0
        /\ \A t \in Suppliers : supplier_priority[t] \in Nat
    BY <1>0, <2>1, OfferIsNumber, ChargeManagerAssumption
    DEF Ports, Suppliers, NONE, ReportedInv
  <2>4. \A t \in Suppliers, q \in Ports :
          Seen(t, q)' => Seen(t, q) \/ (t = s /\ q = p)
    <3>1. refresh'.k = refresh.k + 1
      BY <2>3, <1>0 DEF Locals
    <3> QED BY <2>2, <3>1 DEF Seen
  <2>5. CASE ~(eligible(s, p) /\ better(s, p))
    <3>1. /\ refresh'.at = "best" /\ refresh'.port = refresh.port
          /\ refresh'.supplier = refresh.supplier
          /\ refresh'.best = refresh.best
      BY <2>3, <2>5, <1>0 DEF Locals, At
    <3>2. CASE refresh.port = NONE
      <4>1. refresh.supplier = NONE /\ better(s, p)
        BY <3>2, <1>0 DEF Paired, better
      <4>2. MayCharge(p) => available_charge[s][p] = 0
        BY <4>1, <2>5, <3>2 DEF eligible, MayCharge, OFF, NONE
      <4>3. NothingFound'
        BY <4>2, <3>2, <1>b, <1>u, <1>m, <2>4 DEF NothingFound
      <4> QED BY <3>1, <3>2, <4>3, <1>b, <1>u DEF SelectionInv, At
    <3>3. CASE refresh.port # NONE
      <4>0. BestFound /\ refresh.supplier \in Suppliers /\ refresh.port \in Ports
        BY <3>3, <1>b, <1>0 DEF Paired, Locals
      <4>1. /\ available_charge[s][p] > 0 /\ MayCharge(p)
            /\ override_port = refresh.port => p = refresh.port
            => /\ ~better(s, p)
        BY <2>5 DEF eligible, MayCharge
      <4>2. /\ available_charge[s][p] > 0 /\ MayCharge(p)
            /\ override_port = refresh.port => p = refresh.port
            => ~Beats(s, p, refresh.supplier, refresh.port)
        BY <4>0, <4>1 DEF better, Beats, BestFound
      <4>3. Unbeaten'
        <5>1. ASSUME NEW t \in Suppliers, NEW q \in Ports, Seen(t, q)',
                     available_charge[t][q] > 0, MayCharge(q),
                     override_port = refresh.port => q = refresh.port
              PROVE  ~Beats(t, q, refresh.supplier, refresh.port)
          <6>1. CASE Seen(t, q)
            BY <6>1, <5>1, <4>0 DEF BestFound, Unbeaten
          <6>2. CASE t = s /\ q = p
            BY <6>2, <5>1, <4>2
          <6> QED BY <5>1, <6>1, <6>2, <2>4
        <5> QED BY <5>1, <3>1, <1>u, <1>m DEF Unbeaten, Beats
      <4>4. OverrideTaken'
        <5>1. ASSUME override_port \in Ports, override_port # refresh.port,
                     NEW t \in Suppliers, Seen(t, override_port)'
              PROVE  available_charge[t][override_port] = 0
          <6>0. \A q \in Ports : q = override_port => Seen(t, q)'
            BY <5>1, <1>u DEF Seen
          <6>1. CASE Seen(t, override_port)
            BY <6>1, <5>1, <4>0 DEF BestFound, OverrideTaken
          <6>2. CASE t = s /\ override_port = p
            BY <6>2, <5>1, <2>5 DEF eligible, better
          <6> QED BY <5>1, <6>0, <6>1, <6>2, <2>4
        <5> QED BY <5>1, <3>1, <1>u DEF OverrideTaken, Seen
      <4>5. Kept'
        <5>1. ASSUME charge_port \in Ports, charge_port # refresh.port,
                     override_port # refresh.port, MayCharge(charge_port),
                     NEW t \in Suppliers, Seen(t, charge_port)',
                     available_charge[t][charge_port] > 0
              PROVE  Beats(refresh.supplier, refresh.port, t, charge_port)
          <6>0. \A q \in Ports : q = charge_port => Seen(t, q)'
            BY <5>1, <1>u DEF Seen
          <6>1. CASE Seen(t, charge_port)
            BY <6>1, <5>1, <4>0 DEF BestFound, Kept
          <6>2. CASE t = s /\ charge_port = p
            <7>1. ~better(s, p)
              BY <6>2, <5>1, <4>1
            <7>2. /\ refresh.best \in Int
                  /\ refresh.best = available_charge[refresh.supplier][refresh.port]
              BY <4>0, <1>0 DEF BestFound, Locals
            <7> QED BY <6>2, <7>1, <7>2, <4>0, <2>n, <2>1 DEF better, Beats
          <6> QED BY <5>1, <6>0, <6>1, <6>2, <2>4
        <5> QED BY <5>1, <3>1, <1>u, <1>m DEF Kept, Seen, Beats
      <4>6. BestFound'
        BY <4>0, <4>3, <4>4, <4>5, <3>1, <1>u, <1>m DEF BestFound
      <4> QED BY <3>1, <3>3, <4>6, <1>b, <1>u DEF SelectionInv, At
    <3> QED BY <3>2, <3>3
  <2>6. CASE eligible(s, p) /\ better(s, p)
    <3>1. /\ refresh'.at = "best" /\ refresh'.port = p
          /\ refresh'.supplier = s /\ refresh'.best = available_charge[s][p]
      BY <2>3, <2>6, <1>0 DEF Locals, At
    <3>e. available_charge[s][p] > 0 /\ MayCharge(p)
      BY <2>6, <2>n, <2>1 DEF eligible, MayCharge
    <3>o. override_port = refresh.port /\ refresh.port # NONE => p = refresh.port
      BY <2>6 DEF eligible, OFF, NONE
    <3>2. ASSUME refresh.port = NONE, NEW t \in Suppliers, NEW q \in Ports,
                 Seen(t, q), MayCharge(q)
          PROVE  available_charge[t][q] = 0
      BY <3>2, <1>b DEF NothingFound
    <3>b. ASSUME refresh.port # NONE
          PROVE  /\ BestFound /\ refresh.supplier \in Suppliers
                 /\ refresh.port \in Ports /\ refresh.supplier # NONE
                 /\ refresh.best \in Int
                 /\ refresh.best = available_charge[refresh.supplier][refresh.port]
      BY <3>b, <1>b, <1>0 DEF Paired, Locals, BestFound
    <3>3. Unbeaten'
      <4>1. ASSUME NEW t \in Suppliers, NEW q \in Ports, Seen(t, q)',
                   available_charge[t][q] > 0, MayCharge(q),
                   override_port = p => q = p
            PROVE  ~Beats(t, q, s, p)
        <5>1. CASE t = s /\ q = p
          BY <5>1, <2>n, <2>1 DEF Beats
        <5>2. CASE Seen(t, q)
          <6>1. refresh.port # NONE
            BY <5>2, <4>1, <3>2
          <6>2. CASE p = override_port /\ refresh.port # override_port
            <7>1. q = override_port /\ Seen(t, override_port)
              BY <6>2, <5>2, <4>1
            <7>2. available_charge[t][override_port] = 0
              BY <7>1, <6>1, <6>2, <3>b, <2>1 DEF BestFound, OverrideTaken
            <7> QED BY <7>1, <7>2, <4>1
          <6>3. CASE ~(p = override_port /\ refresh.port # override_port)
            <7>1. override_port = refresh.port => q = refresh.port
              BY <6>1, <3>o, <4>1
            <7>2. ~Beats(t, q, refresh.supplier, refresh.port)
              BY <7>1, <6>1, <5>2, <4>1, <3>b DEF BestFound, Unbeaten
            <7>3. \/ supplier_priority[s] < supplier_priority[refresh.supplier]
                  \/ /\ supplier_priority[s] = supplier_priority[refresh.supplier]
                     /\ available_charge[s][p] >= refresh.best
              BY <2>6, <6>1, <6>3, <3>b, <2>n, <2>1 DEF better
            <7> QED BY <7>2, <7>3, <6>1, <3>b, <2>n, <2>1, <4>1 DEF Beats
          <6> QED BY <6>2, <6>3
        <5> QED BY <4>1, <5>1, <5>2, <2>4
      <4> QED BY <4>1, <3>1, <1>u, <1>m DEF Unbeaten, Beats
    <3>4. OverrideTaken'
      <4>1. ASSUME override_port \in Ports, override_port # p,
                   NEW t \in Suppliers, Seen(t, override_port)'
            PROVE  available_charge[t][override_port] = 0
        <5>0. \A q \in Ports : q = override_port => Seen(t, q)'
          BY <4>1, <1>u DEF Seen
        <5>1. Seen(t, override_port)
          BY <5>0, <4>1, <2>1, <2>4
        <5>2. CASE refresh.port = NONE
          BY <5>1, <5>2, <4>1, <3>2 DEF MayCharge
        <5>3. CASE refresh.port # NONE
          <6>1. override_port # refresh.port
            BY <5>3, <4>1, <3>o
          <6> QED BY <5>1, <5>3, <6>1, <4>1, <3>b DEF BestFound, OverrideTaken
        <5> QED BY <5>2, <5>3
      <4> QED BY <4>1, <3>1, <1>u DEF OverrideTaken, Seen
    <3>5. Kept'
      <4>1. ASSUME charge_port \in Ports, charge_port # p,
                   override_port # p, MayCharge(charge_port),
                   NEW t \in Suppliers, Seen(t, charge_port)',
                   available_charge[t][charge_port] > 0
            PROVE  Beats(s, p, t, charge_port)
        <5>0. \A q \in Ports : q = charge_port => Seen(t, q)'
          BY <4>1, <1>u DEF Seen
        <5>1. Seen(t, charge_port)
          BY <5>0, <4>1, <2>1, <2>4
        <5>2. refresh.port # NONE
          BY <5>1, <4>1, <3>2
        <5>3. override_port # refresh.port
          BY <5>2, <4>1, <3>o
        <5>4. \/ supplier_priority[s] < supplier_priority[refresh.supplier]
              \/ /\ supplier_priority[s] = supplier_priority[refresh.supplier]
                 /\ available_charge[s][p] > refresh.best
          BY <2>6, <5>2, <4>1, <3>b DEF better
        <5>5. CASE charge_port = refresh.port
          <6>1. ~Beats(t, charge_port, refresh.supplier, refresh.port)
            BY <5>1, <5>2, <5>3, <5>5, <4>1, <3>b DEF BestFound, Unbeaten
          <6> QED BY <6>1, <5>2, <5>4, <3>b, <2>n, <2>1, <4>1 DEF Beats
        <5>6. CASE charge_port # refresh.port
          <6>1. Beats(refresh.supplier, refresh.port, t, charge_port)
            BY <5>1, <5>2, <5>3, <5>6, <4>1, <3>b DEF BestFound, Kept
          <6> QED BY <6>1, <5>2, <5>4, <3>b, <2>n, <2>1, <4>1 DEF Beats
        <5> QED BY <5>5, <5>6
      <4> QED BY <4>1, <3>1, <1>u, <1>m DEF Kept, Seen, Beats
    <3>6. BestFound'
      BY <3>1, <3>e, <3>3, <3>4, <3>5, <1>b, <1>u, <1>m DEF BestFound
    <3> QED BY <3>1, <3>6, <2>n, <1>b, <1>u DEF SelectionInv, At
  <2> QED BY <2>5, <2>6
<1> QED BY <1>1, <1>2

\* Steps after the selection that leave it and what it looked at alone.
LEMMA SelectionKept ==
  ASSUME SelectionInv, ~refresh_pending, Selecting, ~At("best"),
         UNCHANGED <<available_charge, dualrole_capability, override_port,
                     charge_port, unnoticed>>,
         refresh'.k = refresh.k, refresh'.port = refresh.port,
         refresh'.supplier = refresh.supplier, refresh'.best = refresh.best,
         refresh'.at # "best",
         refresh'.at \in {"limits", "set_limit", "globals"} =>
           refresh.at \in {"limits", "set_limit", "globals"}
  PROVE  SelectionInv'
<1>m. \A r : MayCharge(r)' <=> MayCharge(r)
  BY DEF MayCharge
<1>1. NothingFound => NothingFound'
  BY <1>m DEF NothingFound, Seen
<1>2. BestFound => BestFound'
  BY <1>m DEF BestFound, Unbeaten, OverrideTaken, Kept, Seen, Beats
<1> QED BY <1>1, <1>2 DEF SelectionInv, At

\* The override that was not selected is cleared: the port is the best one
\* without it, too.
LEMMA CheckOverrideChosen ==
  ASSUME Inv, Chosen, check_override
  PROVE  SelectionInv'
<1>0. /\ refresh \in Locals /\ refresh.at = "check_override" /\ SelectionInv
      /\ override_port \in Ports \cup {OFF, DONT_CHARGE}
  BY DEF Inv, TypeOK, Chosen, check_override, At
<1>u. UNCHANGED <<available_charge, dualrole_capability, charge_port,
                  unnoticed, refresh_pending>>
  BY DEF check_override, reports, active
<1>r. /\ refresh'.at = "limits" /\ refresh'.k = refresh.k
      /\ refresh'.port = refresh.port /\ refresh'.supplier = refresh.supplier
      /\ refresh'.best = refresh.best
  BY <1>0 DEF check_override, Locals
<1>p. /\ \A r \in Ports : r >= 0 /\ r # OFF /\ r # DONT_CHARGE
      /\ ~(OFF >= 0) /\ ~(DONT_CHARGE >= 0) /\ OFF = NONE /\ OFF # DONT_CHARGE
      /\ OFF \notin Ports
  BY ChargeManagerAssumption DEF Ports, OFF, DONT_CHARGE, NONE
<1>o. override_port' = IF override_port \in Ports /\ override_port # refresh.port
                       THEN OFF ELSE override_port
  BY <1>0, <1>p DEF check_override
<1> SUFFICES ASSUME ~refresh_pending PROVE SelectionInv'
  BY <1>u DEF SelectionInv
<1>b. /\ refresh.port = NONE => NothingFound
      /\ refresh.port # NONE => BestFound
      /\ refresh.k = NSuppliers * NPorts \/ override_port = DONT_CHARGE
  BY <1>0 DEF SelectionInv, Selecting, At
<1>m. \A r \in Ports : MayCharge(r)' => MayCharge(r)
  BY <1>o, <1>u, <1>p DEF MayCharge
<1>1. refresh.port = NONE => NothingFound'
  BY <1>b, <1>m, <1>o, <1>p, <1>u, <1>r DEF NothingFound, Seen
<1>2. ASSUME refresh.port # NONE PROVE BestFound'
  <2>0. /\ BestFound /\ refresh.port \in Ports
        /\ override_port = refresh.port => override_port' = override_port
        /\ override_port' = refresh.port => override_port' = override_port
    BY <1>2, <1>b, <1>0, <1>o, <1>p DEF Locals
  <2>1. MayCharge(refresh.port)' \/ refresh.port \in unnoticed'
    <3>1. MayCharge(refresh.port) \/ refresh.port \in unnoticed
      BY <2>0 DEF BestFound
    <3> QED BY <3>1, <2>0, <1>u, <1>r DEF MayCharge
  <2>2. Unbeaten'
    <3>1. ASSUME NEW t \in Suppliers, NEW q \in Ports, Seen(t, q),
                 available_charge[t][q] > 0, MayCharge(q)',
                 override_port' = refresh.port => q = refresh.port
          PROVE  ~Beats(t, q, refresh.supplier, refresh.port)
      <4>1. MayCharge(q) /\ (override_port = refresh.port => q = refresh.port)
        BY <3>1, <2>0, <1>m
      <4> QED BY <3>1, <4>1, <2>0 DEF BestFound, Unbeaten
    <3> QED BY <3>1, <1>u, <1>r DEF Unbeaten, Beats, Seen
  <2>3. OverrideTaken'
    BY <1>o, <1>p, <1>r DEF OverrideTaken
  <2>4. Kept'
    <3>1. ASSUME charge_port \in Ports, charge_port # refresh.port,
                 override_port' # refresh.port, MayCharge(charge_port)',
                 NEW t \in Suppliers, Seen(t, charge_port),
                 available_charge[t][charge_port] > 0
          PROVE  Beats(refresh.supplier, refresh.port, t, charge_port)
      <4>1. \A r \in Ports : r = charge_port => MayCharge(r)'
        BY <3>1, <1>u DEF MayCharge
      <4>2. MayCharge(charge_port) /\ override_port # refresh.port
        BY <4>1, <3>1, <2>0, <1>m
      <4> QED BY <3>1, <4>2, <2>0 DEF BestFound, Kept
    <3> QED BY <3>1, <1>u, <1>r DEF Kept, Beats, Seen
  <2>5. override_port' # DONT_CHARGE
    BY <2>0, <1>o, <1>p DEF BestFound
  <2> QED BY <2>0, <2>1, <2>2, <2>3, <2>4, <2>5, <1>u, <1>r DEF BestFound
<1>3. override_port' \in Ports => override_port' = refresh.port
  BY <1>o, <1>p
<1>4. refresh.k = NSuppliers * NPorts \/ override_port' = DONT_CHARGE
  BY <1>b, <1>o, <1>p
<1> QED BY <1>1, <1>2, <1>3, <1>4, <1>r DEF SelectionInv, At

\* What is made active is right, and leaves a port that is as good for no
\* other.
LEMMA SelectedIsRight ==
  ASSUME Inv, Chosen, At("globals"), ~refresh_pending
  PROVE  /\ override_port = DONT_CHARGE => refresh.port = NONE
         /\ override_port >= 0 => refresh.port = override_port
         /\ refresh.port = NONE =>
              \/ override_port = DONT_CHARGE
              \/ \A p \in Ports : MayCharge(p) => Offers(p) = {}
         /\ refresh.port # NONE =>
              /\ BestFound /\ refresh.supplier \in Offers(refresh.port)
              /\ \A p \in IF override_port >= 0 THEN {override_port} ELSE Ports :
                   \A s \in Offers(p) :
                     MayCharge(p) => ~Beats(s, p, refresh.supplier, refresh.port)
         /\ override_port # DONT_CHARGE =>
              \A s \in Suppliers, p \in Ports : Seen(s, p)
<1>0. /\ refresh \in Locals /\ SelectionInv /\ Paired
      /\ override_port \in Ports \cup {OFF, DONT_CHARGE}
  BY DEF Inv, TypeOK, Chosen
<1>p. /\ \A r \in Ports : r >= 0 /\ r # OFF /\ r # DONT_CHARGE /\ r # NONE
      /\ ~(OFF >= 0) /\ ~(DONT_CHARGE >= 0) /\ OFF = NONE /\ OFF # DONT_CHARGE
  BY ChargeManagerAssumption DEF Ports, OFF, DONT_CHARGE, NONE
<1>b. /\ refresh.port = NONE => NothingFound
      /\ refresh.port # NONE => BestFound
      /\ refresh.k = NSuppliers * NPorts \/ override_port = DONT_CHARGE
      /\ override_port \in Ports => override_port = refresh.port
  BY <1>0 DEF SelectionInv, Selecting, At
<1>s. override_port # DONT_CHARGE => \A s \in Suppliers, p \in Ports : Seen(s, p)
  BY <1>b, SeenAll DEF Seen
<1>1. override_port = DONT_CHARGE => refresh.port = NONE
  BY <1>b DEF BestFound
<1>2. override_port >= 0 => override_port \in Ports /\ refresh.port = override_port
  BY <1>0, <1>p, <1>b
<1>3. refresh.port = NONE =>
        \/ override_port = DONT_CHARGE
        \/ \A p \in Ports : MayCharge(p) => Offers(p) = {}
  BY <1>b, <1>s DEF NothingFound, Offers
<1>4. ASSUME refresh.port # NONE
      PROVE  /\ BestFound /\ refresh.supplier \in Offers(refresh.port)
             /\ \A p \in IF override_port >= 0 THEN {override_port} ELSE Ports :
                  \A s \in Offers(p) :
                    MayCharge(p) => ~Beats(s, p, refresh.supplier, refresh.port)
  <2>1. BestFound /\ refresh.supplier \in Suppliers /\ refresh.port \in Ports
    BY <1>4, <1>b, <1>0 DEF Paired, Locals
  <2>2. refresh.supplier \in Offers(refresh.port)
    BY <2>1 DEF BestFound, Offers
  <2>3. ASSUME NEW p \in IF override_port >= 0 THEN {override_port} ELSE Ports,
               NEW s \in Offers(p), MayCharge(p)
        PROVE  ~Beats(s, p, refresh.supplier, refresh.port)
    <3>1. /\ p \in Ports /\ s \in Suppliers /\ available_charge[s][p] > 0
          /\ override_port = refresh.port => p = refresh.port
      BY <2>3, <2>1, <1>2, <1>p DEF Offers
    <3>2. Seen(s, p)
      BY <3>1, <2>1, <1>s DEF BestFound
    <3> QED BY <3>1, <3>2, <2>1, <2>3 DEF BestFound, Unbeaten
  <2> QED BY <2>1, <2>2, <2>3
<1> QED BY <1>1, <1>2, <1>3, <1>4, <1>s

\* Each step of the refresh keeps what has been selected right.
LEMMA RefreshChosen ==
  ASSUME Inv, Inv', Chosen, charge_manager_refresh
  PROVE  Chosen'
<1>0. /\ refresh \in Locals /\ TypeOK /\ Paired /\ SeedInv
      /\ FreshInv /\ ReportedInv /\ SelectionInv /\ RightInv
      /\ available_charge \in [Suppliers -> [Ports -> Currents \cup {-1, 0}]]
  BY DEF Inv, TypeOK, Chosen
<1>i. /\ idle.k = 0 /\ idle.port = NONE /\ idle.at = "idle"
      /\ [idle EXCEPT !.at = "select"].at = "select"
      /\ [idle EXCEPT !.at = "select"].k = 0
      /\ [idle EXCEPT !.at = "select"].port = NONE
  BY DEF idle
<1>r. ReportedInv'
  <2>1. CASE zero_rejected
    <3>1. /\ available_charge' = [s \in Suppliers |->
                [available_charge[s] EXCEPT ![refresh.port] = 0]]
          /\ is_seeded' = is_seeded
      BY <2>1 DEF zero_rejected
    <3>2. ASSUME is_seeded, NEW s \in Suppliers, NEW p \in Ports
          PROVE  available_charge'[s][p] >= 0
      <4>1. available_charge[s][p] >= 0 /\ available_charge[s] \in [Ports -> Currents \cup {-1, 0}]
        BY <3>2, <1>0 DEF ReportedInv
      <4>2. available_charge'[s] = [available_charge[s] EXCEPT ![refresh.port] = 0]
        BY <3>1
      <4> QED BY <4>1, <4>2
    <3> QED BY <3>1, <3>2 DEF ReportedInv
  <2>2. CASE ~zero_rejected
    <3>1. UNCHANGED <<available_charge, is_seeded>>
      BY <2>2 DEF charge_manager_refresh, start, select, get_best, set_port,
         check_override, limits, set_limit, set_globals, notify, reports
    <3> QED BY <3>1, <1>0 DEF ReportedInv
  <2> QED BY <2>1, <2>2
<1>1. CASE start \/ zero_rejected
  <2>1. refresh' = [idle EXCEPT !.at = "select"]
    BY <1>1 DEF start, zero_rejected
  <2> QED BY <2>1, <1>i, <1>r
          DEF Chosen, FreshInv, SelectionInv, Selecting, RightInv, At
<1>2. CASE select
  <2>1. /\ refresh.at = "select" /\ refresh.k = 0 /\ refresh.port = NONE
        /\ UNCHANGED override_port
    BY <1>2, <1>0 DEF select, FreshInv, At, override
  <2>2. /\ refresh'.at = IF override_port = DONT_CHARGE THEN "set_port" ELSE "best"
        /\ refresh'.k = 0 /\ refresh'.port = NONE
    BY <1>2, <2>1, <1>0 DEF select, Locals
  <2>3. \A s \in Suppliers, p \in Ports : ~Seen(s, p)'
    BY <2>2, SeenAll DEF Seen
  <2>4. NothingFound'
    BY <2>3 DEF NothingFound
  <2>5. SelectionInv'
    BY <2>1, <2>2, <2>4 DEF SelectionInv, At
  <2> QED BY <2>2, <2>5, <1>r DEF Chosen, FreshInv, RightInv, At
<1>3. CASE get_best
  <2>1. SelectionInv'
    BY <1>3, GetBestChosen
  <2>2. refresh'.at \in {"best", "set_port"}
    BY <1>3, <1>0, SelectionStep
  <2> QED BY <2>1, <2>2, <1>r DEF Chosen, FreshInv, RightInv, At
<1>4. CASE set_port
  <2>1. /\ refresh.at = "set_port" /\ refresh'.at \in {"check_override", "zero"}
        /\ refresh'.k = refresh.k /\ refresh'.port = refresh.port
        /\ refresh'.supplier = refresh.supplier /\ refresh'.best = refresh.best
        /\ UNCHANGED <<available_charge, dualrole_capability, override_port,
                       charge_port, unnoticed, refresh_pending>>
    BY <1>4, <1>0 DEF set_port, Locals, At, reports, override, active
  <2>2. SelectionInv'
    <3>1. CASE refresh_pending
      BY <3>1, <2>1 DEF SelectionInv
    <3>2. CASE ~refresh_pending
      BY <3>2, <2>1, <1>0, SelectionKept DEF Selecting, At
    <3> QED BY <3>1, <3>2
  <2> QED BY <2>1, <2>2, <1>r DEF Chosen, FreshInv, RightInv, At
<1>5. CASE check_override
  <2>1. refresh'.at = "limits"
    BY <1>5, <1>0 DEF check_override, Locals
  <2> QED BY <1>5, <2>1, <1>r, CheckOverrideChosen DEF Chosen, FreshInv, RightInv, At
<1>6. CASE limits \/ set_limit
  <2>1. /\ refresh.at \in {"limits", "set_limit"}
        /\ refresh'.at \in {"set_limit", "globals"}
        /\ refresh'.k = refresh.k /\ refresh'.port = refresh.port
        /\ refresh'.supplier = refresh.supplier /\ refresh'.best = refresh.best
        /\ UNCHANGED <<available_charge, dualrole_capability, override_port,
                       charge_port, unnoticed, refresh_pending>>
    BY <1>6, <1>0
    DEF limits, set_limit, Locals, At, reports, override, active
  <2>2. SelectionInv'
    <3>1. CASE refresh_pending
      BY <3>1, <2>1 DEF SelectionInv
    <3>2. CASE ~refresh_pending
      BY <3>2, <2>1, <1>0, SelectionKept DEF Selecting, At
    <3> QED BY <3>1, <3>2
  <2> QED BY <2>1, <2>2, <1>r DEF Chosen, FreshInv, RightInv, At
<1>7. CASE set_globals
  <2>1. /\ refresh.at = "globals" /\ refresh'.at = "notify"
        /\ charge_port' = refresh.port /\ charge_supplier' = refresh.supplier
        /\ UNCHANGED <<available_charge, dualrole_capability, override_port,
                       unnoticed, refresh_pending>>
    BY <1>7, <1>0 DEF set_globals, Locals, At, reports, override
  <2>2. RightInv'
    <3>1. CASE refresh_pending
      BY <3>1, <2>1 DEF RightInv
    <3>2. CASE ~refresh_pending
      <4>m. /\ \A p : MayCharge(p)' <=> MayCharge(p)
            /\ \A p : Offers(p)' = Offers(p)
            /\ \A s, p, t, q : Beats(s, p, t, q)' <=> Beats(s, p, t, q)
        BY <2>1 DEF MayCharge, Offers, Beats
      <4>1. /\ override_port = DONT_CHARGE => refresh.port = NONE
            /\ override_port >= 0 => refresh.port = override_port
            /\ refresh.port = NONE =>
                 \/ override_port = DONT_CHARGE
                 \/ \A p \in Ports : MayCharge(p) => Offers(p) = {}
            /\ refresh.port # NONE =>
                 /\ BestFound /\ refresh.supplier \in Offers(refresh.port)
                 /\ \A p \in IF override_port >= 0 THEN {override_port} ELSE Ports :
                      \A s \in Offers(p) : MayCharge(p) =>
                        ~Beats(s, p, refresh.supplier, refresh.port)
        BY <2>1, <3>2, SelectedIsRight DEF At
      <4>2. refresh.port # NONE => MayCharge(refresh.port) \/ refresh.port \in unnoticed
        BY <4>1 DEF BestFound
      <4>3. Right'
        BY <4>1, <4>2, <4>m, <2>1 DEF Right, MayCharge, Offers, Beats
      <4> QED BY <4>3 DEF RightInv
    <3> QED BY <3>1, <3>2
  <2> QED BY <2>1, <2>2, <1>r DEF Chosen, FreshInv, SelectionInv, Selecting, At
<1>8. CASE notify
  <2>1. /\ refresh.at = "notify" /\ refresh'.at = "idle"
        /\ UNCHANGED <<available_charge, dualrole_capability, override_port,
                       charge_port, charge_supplier, is_seeded, unnoticed,
                       refresh_pending>>
    BY <1>8, <1>i DEF notify, At, reports, override, active
  <2>2. RightInv'
    BY <2>1, <1>0 DEF RightInv, Right, MayCharge, Offers, Beats
  <2> QED BY <2>1, <2>2, <1>r DEF Chosen, FreshInv, SelectionInv, Selecting, At
<1> QED BY <1>1, <1>2, <1>3, <1>4, <1>5, <1>6, <1>7, <1>8
        DEF charge_manager_refresh

LEMMA PdChosen ==
  ASSUME Chosen, Pd \/ UNCHANGED vars
  PROVE  Chosen'
<1>1. UNCHANGED <<available_charge, dualrole_capability, is_seeded,
                  override_port, charge_port, charge_supplier, refresh,
                  refresh_pending, unnoticed>>
  BY DEF Pd, pd_send_request_msg, vars, reports, active, override
<1>2. FreshInv' /\ ReportedInv'
  BY <1>1 DEF Chosen, FreshInv, ReportedInv, At
<1>3. RightInv'
  BY <1>1 DEF Chosen, RightInv, Right, MayCharge, Offers, Beats
<1>4. /\ NothingFound => NothingFound'
      /\ BestFound => BestFound'
  BY <1>1 DEF NothingFound, BestFound, Unbeaten, OverrideTaken, Kept, Seen,
              Beats, MayCharge
<1>5. SelectionInv'
  BY <1>1, <1>4 DEF Chosen, SelectionInv, Selecting, At
<1> QED BY <1>2, <1>3, <1>5 DEF Chosen

LEMMA InitChosen == Init => Chosen
<1> SUFFICES ASSUME Init PROVE Chosen
  OBVIOUS
<1>1. PICK c \in {UNINITIALIZED, 0} :
        /\ available_charge = [s \in Suppliers |-> [p \in Ports |-> c]]
        /\ is_seeded = (c = 0) /\ refresh_pending = (c = 0)
  BY DEF Init
<1>2. refresh.at = "idle"
  BY DEF Init, idle
<1>3. ReportedInv
  <2>1. is_seeded => c = 0
    BY <1>1
  <2>2. \A s \in Suppliers, p \in Ports : available_charge[s][p] = c
    BY <1>1
  <2> QED BY <2>1, <2>2 DEF ReportedInv
<1>4. RightInv
  BY <1>1 DEF RightInv
<1> QED BY <1>2, <1>3, <1>4 DEF Chosen, FreshInv, SelectionInv, Selecting, At

LEMMA AlwaysChosen == Spec => [](Inv /\ Chosen)
<1>1. Inv /\ Chosen /\ [Next]_vars => Inv' /\ Chosen'
  BY StepInv, RefreshChosen, OthersChosen, PdChosen DEF Next
<1> QED BY <1>1, InitInv, InitChosen, PTL DEF Spec

\* Once no refresh is due, the active port is the override port if there is
\* one, otherwise one whose offer no other offer of a port that may charge
\* beats, and none only for lack of an offer: whatever was reported, and
\* whichever override was set or cleared, while the offers were looked at.
THEOREM BestIsActive == Spec => []BestPortIsActive
<1>1. Inv /\ Chosen => BestPortIsActive
  BY DEF Chosen, RightInv, Right, BestPortIsActive, Settled
<1> QED BY <1>1, AlwaysChosen, PTL

\* A refresh that no report overtakes leaves a port that may charge only for
\* an offer that beats all of the port's own.
THEOREM GoodPortIsKept == Spec => ActivePortKept
<1>1. ASSUME Inv, Chosen, set_globals, ~refresh_pending, override_port = OFF,
             charge_port \in Ports, charge_port' # charge_port
      PROVE  \/ ~MayCharge(charge_port)
             \/ \A s \in Offers(charge_port) :
                  Beats(charge_supplier', charge_port', s, charge_port)
  <2>1. /\ At("globals") /\ charge_port' = refresh.port
        /\ charge_supplier' = refresh.supplier
    BY <1>1 DEF set_globals
  <2>2. OFF # DONT_CHARGE /\ OFF = NONE
    BY DEF OFF, DONT_CHARGE, NONE
  <2>3. \A s \in Suppliers, p \in Ports : Seen(s, p)
    BY <1>1, <2>1, <2>2, SelectedIsRight
  <2>4. CASE refresh.port = NONE
    <3>1. MayCharge(charge_port) => Offers(charge_port) = {}
      BY <1>1, <2>1, <2>2, <2>4, SelectedIsRight
    <3> QED BY <3>1
  <2>5. CASE refresh.port # NONE
    <3>1. BestFound
      BY <1>1, <2>1, <2>5, SelectedIsRight
    <3>2. override_port # refresh.port
      BY <1>1, <2>2, <2>5
    <3>3. ASSUME MayCharge(charge_port), NEW s \in Offers(charge_port)
          PROVE  Beats(refresh.supplier, refresh.port, s, charge_port)
      <4>1. s \in Suppliers /\ available_charge[s][charge_port] > 0
        BY <3>3 DEF Offers
      <4>2. Seen(s, charge_port)
        BY <4>1, <2>3, <1>1
      <4> QED BY <4>1, <4>2, <3>1, <3>2, <3>3, <2>1, <1>1 DEF BestFound, Kept
    <3> QED BY <3>3, <2>1
  <2> QED BY <2>4, <2>5
<1>2. Inv /\ Chosen =>
        [set_globals /\ ~refresh_pending /\ override_port = OFF
           /\ charge_port \in Ports /\ charge_port' # charge_port =>
         \/ ~MayCharge(charge_port)
         \/ \A s \in Offers(charge_port) :
              Beats(charge_supplier', charge_port', s, charge_port)]_vars
  BY <1>1
<1> QED BY <1>2, AlwaysChosen, PTL DEF ActivePortKept
=============================================================================
