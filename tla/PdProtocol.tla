------------------------------ MODULE PdProtocol ------------------------------
(***************************************************************************)
(* The USB Power Delivery protocol of common/usb_pd_protocol.c, as two     *)
(* ports that run it at the two ends of a cable, each with the port        *)
(* controller of common/usb_pd_tcpc.c on the same processor and the policy *)
(* of board/samus_pd.                                                      *)
(*                                                                         *)
(* A pass of the loop of pd_task() that has a message is two steps: the    *)
(* port controller runs and the message is handled, then the handler of    *)
(* the state the port is in runs to the end of the loop.  The other port   *)
(* moves in between.  A transmission ends within the step: the PHY waits for the    *)
(* GoodCRC of the partner before it returns.                               *)
(*                                                                         *)
(* Time is counted in ticks.  A tick ends when both tasks have run since   *)
(* the last one and nothing waits to be handled; the durations are         *)
(* parameters.  A message is handled before a timer wakes the other end,   *)
(* whose passes are 2 ms apart and more.  A fault lets a message or its    *)
(* GoodCRC be lost, or a timer come first, so that it overtakes an answer. *)
(***************************************************************************)
EXTENDS Integers, Sequences

CONSTANTS
  Ports,               \* the two ends of the cable
  TrySrc,              \* pd_try_src_enable: the ports that prefer to source
  T,                   \* the durations of include/usb_pd.h, in ticks
  PD_CAPS_COUNT, PD_HARD_RESET_COUNT, PD_SNK_CAP_RETRIES,
  Calls,               \* what other tasks and the user do
  MaxCalls,            \* bound: how often
  MaxFaults            \* bound: how many messages are lost or late

Durations == {"SENDER_RESPONSE", "SINK_WAIT_CAP", "SINK_TRANSITION",
  "PS_TRANSITION", "PS_SOURCE_ON", "PS_SOURCE_OFF", "PS_HARD_RESET",
  "CC_DEBOUNCE", "SRC_RECOVER", "SRC_RECOVER_MAX", "SAFE_0V", "NO_RESPONSE",
  "TRY_SRC", "TRY_WAIT", "TURN_ON", "TURN_OFF", "DRP_SNK", "DRP_SRC"}

ASSUME PdAssumption ==
  /\ \E a, b \in Ports : a # b /\ Ports = {a, b}
  /\ TrySrc \subseteq Ports
  /\ T \in [Ports -> [Durations -> Nat \ {0}]]
  /\ PD_CAPS_COUNT \in Nat /\ PD_HARD_RESET_COUNT \in Nat
  /\ PD_SNK_CAP_RETRIES \in Nat
  /\ Calls \subseteq {"power_swap", "data_swap", "soft_reset", "dual_role",
                      "plug"}
  /\ MaxCalls \in Nat /\ MaxFaults \in Nat

VARIABLES
  pd,       \* pd[] of both files and the locals of pd_task(), per port
  plugged,  \* the cable connects the ports
  calls,    \* calls left
  faults    \* faults left
vars == <<pd, plugged, calls, faults>>

Other(p) == CHOOSE q \in Ports : q # p

Disconnected == {"SNK_DISCONNECTED", "SRC_DISCONNECTED"}
Debouncing == {"SNK_DISCONNECTED_DEBOUNCE", "SRC_DISCONNECTED_DEBOUNCE"}
NewSource == {"SNK_SWAP_STANDBY", "SNK_SWAP_COMPLETE"}
Swapping == NewSource \cup
  {"SNK_SWAP_SNK_DISABLE", "SNK_SWAP_SRC_DISABLE", "SRC_SWAP_SNK_DISABLE",
   "SRC_SWAP_SRC_DISABLE", "SRC_SWAP_STANDBY"}
Ready == {"SNK_READY", "SRC_READY"}
States == Disconnected \cup Debouncing \cup Swapping \cup Ready \cup
  {"SNK_HARD_RESET_RECOVER", "SNK_DISCOVERY", "SNK_REQUESTED",
   "SNK_TRANSITION", "SNK_SWAP_INIT", "SRC_HARD_RESET_RECOVER",
   "SRC_STARTUP", "SRC_DISCOVERY", "SRC_NEGOCIATE", "SRC_ACCEPTED",
   "SRC_POWERED", "SRC_TRANSITION", "SRC_GET_SINK_CAP", "DR_SWAP",
   "SRC_SWAP_INIT", "SOFT_RESET", "HARD_RESET_SEND", "HARD_RESET_EXECUTE"}
Messages == {"SOURCE_CAP", "REQUEST", "SINK_CAP", "GET_SINK_CAP", "ACCEPT",
             "REJECT", "PS_RDY", "PR_SWAP", "DR_SWAP", "SOFT_RESET"}
Flags == {"PARTNER_DR", "SNK_CAP_RECVD", "PREVIOUS_PD_CONN", "CHECK_PR_ROLE",
          "CHECK_DR_ROLE", "TRY_SRC"}
CheckRoles == {"CHECK_PR_ROLE", "CHECK_DR_ROLE"}

\* At boot a port is a sink that looks for a source.  A timeout is 0 for
\* none, 1 when it is due, and one more for each tick it is ahead.
InitPort(drp) ==
  [task_state |-> "SNK_DISCONNECTED", last_state |-> "SNK_DISCONNECTED",
   timeout |-> 0, timeout_state |-> "DISABLED",
   power_role |-> "SINK", data_role |-> "UFP", flags |-> {}, drp |-> drp,
   cc |-> "RD", vbus |-> FALSE, cc_attached |-> FALSE,
   rx_enabled |-> FALSE, rx |-> <<>>, hard_rst |-> FALSE,
   src_recover |-> 0, cc_debounce |-> 0, try_src_marker |-> 0,
   next_role_swap |-> 0,
   hard_reset_count |-> 0, hard_reset_sent |-> FALSE, vbus_off |-> FALSE,
   caps_count |-> 0, snk_cap_count |-> 0,
   incoming_packet |-> FALSE, step |-> "wait", ran |-> FALSE]

Init ==
  /\ \E drp \in [Ports -> {"TOGGLE_ON", "TOGGLE_OFF"}] :
       /\ \E p \in Ports : drp[p] = "TOGGLE_ON"
       /\ pd = [p \in Ports |-> InitPort(drp[p])]
  /\ plugged = TRUE /\ calls = MaxCalls /\ faults = MaxFaults

-----------------------------------------------------------------------------
\* The state of one port, changed by the helpers of the protocol.

\* Mutant: a deadline is one tick too late.
SetTimeoutLate(r, t, next) ==
  [r EXCEPT !.timeout = t + 2, !.timeout_state = next]

SetTimeout(r, t, next) == [r EXCEPT !.timeout = t + 1, !.timeout_state = next]

ResetOnDisconnect == Flags

\* A port that disconnects turns its receiver off: what the PHY was about
\* to hear is lost.
SetState(r, next) ==
  LET s == [r EXCEPT !.timeout = 0, !.timeout_state = "DISABLED",
                     !.task_state = next] IN
  IF next \in Disconnected /\ r.task_state \notin Disconnected
  THEN [s EXCEPT !.flags = @ \ ResetOnDisconnect, !.rx_enabled = FALSE,
                 !.rx = <<>>, !.hard_rst = FALSE]
  ELSE s

IsConnected(r) ==
  r.task_state \notin (IF r.power_role = "SINK"
                       THEN {"SNK_DISCONNECTED", "SNK_DISCONNECTED_DEBOUNCE"}
                       ELSE {"SRC_DISCONNECTED", "SRC_DISCONNECTED_DEBOUNCE"})

ReadyReturnState(r) ==
  IF r.power_role = "SINK" THEN "SNK_READY" ELSE "SRC_READY"

\* Mutant: a swap that fails at its end restores the resistor only.
RestoreRdOnly(r) == [r EXCEPT !.cc = "RD"]

RestoreRd(r) == [r EXCEPT !.cc = "RD", !.vbus = FALSE]

ExecuteHardReset(p, r) ==
  LET a == [r EXCEPT !.last_state = "HARD_RESET_EXECUTE"]
      b == IF r.task_state \in NewSource
           THEN RestoreRd(a) ELSE a
  IN IF r.power_role = "SINK"
     THEN SetState(b, "SNK_HARD_RESET_RECOVER")
     ELSE SetState([b EXCEPT !.vbus = FALSE,
                             !.src_recover = T[p]["SRC_RECOVER"]],
                   "SRC_HARD_RESET_RECOVER")

ExecuteSoftReset(r) ==
  SetState(r, IF r.power_role = "SINK" THEN "SNK_DISCOVERY"
              ELSE "SRC_DISCOVERY")

\* The port controller runs: a hard reset that the PHY heard is carried out
\* there, whatever the task was about to do.
TcpcRun(p, r) ==
  IF r.hard_rst
  THEN [ExecuteHardReset(p, [r EXCEPT !.hard_rst = FALSE]) EXCEPT !.ran = FALSE]
  ELSE r

\* What the two ends are after r transmits m: the sender, the partner,
\* whether the sender saw a GoodCRC, and the faults it took.  The sender's
\* port controller runs first.  One message fits the receive buffer; a copy
\* sent again because its GoodCRC was lost follows it.
Outcome(me, you, sent, cost) ==
  [me |-> me, you |-> you, sent |-> sent, cost |-> cost]

Heard(me, you) ==
  me.rx_enabled /\ you.rx_enabled /\ plugged

Transmit(p, r, m) ==
  LET me == TcpcRun(p, r)
      you == pd[Other(p)]
      got(copies) == [you EXCEPT !.rx = copies]
  IN IF Heard(me, you) /\ you.rx = <<>>
     THEN {Outcome(me, got(<<m>>), TRUE, 0),
           Outcome(me, you, FALSE, 1),
           Outcome(me, got(<<m>>), FALSE, 1),
           Outcome(me, got(<<m, m>>), TRUE, 1)}
     ELSE {Outcome(me, you, FALSE, 0)}

\* A hard reset is not acknowledged.
TransmitHardReset(p, r) ==
  LET me == TcpcRun(p, r)
      you == pd[Other(p)]
      sent == me.rx_enabled
  IN {Outcome(me, IF Heard(me, you)
                  THEN [you EXCEPT !.hard_rst = TRUE] ELSE you, sent, 0),
      Outcome(me, you, sent, 1)}

Quiet(p, r) == Outcome(r, pd[Other(p)], TRUE, 0)

\* What a port sees of the other: its resistor, and VBUS.
Attached(p, r) == plugged /\ pd[Other(p)].cc # r.cc
VbusProvided(p, r) == r.vbus \/ (plugged /\ pd[Other(p)].vbus)

-----------------------------------------------------------------------------
(* The first half of a pass: the port controller and the message it holds. *)

Awake(p) == pd[p].step = "wait"
Pending(p) == pd[p].rx # <<>> \/ pd[p].hard_rst \/ pd[p].step = "run"
Due(p) == Pending(p) \/ ~pd[p].ran

Woken(p) == [TcpcRun(p, pd[p]) EXCEPT !.step = "run", !.incoming_packet = FALSE]

\* A port that has no message goes to the handler of its state at once.
Turn(p) ==
  pd[p].step = "run" \/ (Awake(p) /\ Due(p) /\ pd[p].rx = <<>>)
Overtakes(p) == ~Pending(p) /\ Pending(Other(p))
Self(p) == IF pd[p].step = "run" THEN pd[p] ELSE Woken(p)

\* An edge of VBUS wakes the task of the other end.
Interrupted(p, r, you) ==
  [you EXCEPT !.ran = @ /\ (plugged => r.vbus = pd[p].vbus)]

\* handle_request(): the port that handles m, which a port that is not
\* connected answers with a hard reset besides.
Handles(p, m) == Awake(p) /\ pd[p].rx # <<>> /\ Head(pd[p].rx) = m

Request(p) ==
  LET r == [Woken(p) EXCEPT !.rx = Tail(@), !.incoming_packet = TRUE]
  IN IF IsConnected(r) THEN r ELSE SetState(r, "HARD_RESET_SEND")

Handled(p, r, o) ==
  /\ pd' = [pd EXCEPT ![p] = r, ![Other(p)] = Interrupted(p, r, o.you)]
  /\ o.cost <= faults /\ faults' = faults - o.cost
  /\ UNCHANGED <<plugged, calls>>

RxSourceCap(p) ==
  /\ Handles(p, "SOURCE_CAP")
  /\ LET r == Request(p)
         known == [r EXCEPT !.flags = @ \cup {"PREVIOUS_PD_CONN", "PARTNER_DR"}]
     IN IF r.task_state \in {"SNK_DISCOVERY", "SNK_TRANSITION", "SNK_READY"}
        THEN \E o \in Transmit(p, known, "REQUEST") :
               Handled(p, IF o.sent THEN SetState(o.me, "SNK_REQUESTED")
                          ELSE o.me, o)
        ELSE Handled(p, r, Quiet(p, r))

RxRequest(p) ==
  /\ Handles(p, "REQUEST")
  /\ LET r == Request(p) IN
     IF r.power_role = "SOURCE"
     THEN \E o \in Transmit(p, r, "ACCEPT") :
            Handled(p, IF o.sent THEN SetState(o.me, "SRC_ACCEPTED")
                       ELSE o.me, o)
     ELSE \E o \in Transmit(p, r, "REJECT") :
            Handled(p, SetState(o.me, "SRC_READY"), o)

RxSinkCap(p) ==
  /\ Handles(p, "SINK_CAP")
  /\ LET r == Request(p)
         known == [r EXCEPT !.flags = @ \cup {"SNK_CAP_RECVD", "PARTNER_DR"}]
     IN Handled(p, IF r.task_state = "SRC_GET_SINK_CAP"
                   THEN SetState(known, "SRC_READY") ELSE known, Quiet(p, r))

RxGetSinkCap(p) ==
  /\ Handles(p, "GET_SINK_CAP")
  /\ \E o \in Transmit(p, Request(p), "SINK_CAP") : Handled(p, o.me, o)

RxPsRdy(p) ==
  /\ Handles(p, "PS_RDY")
  /\ LET r == Request(p)
         next == CASE r.task_state = "SNK_SWAP_SRC_DISABLE" ->
                        SetState(r, "SNK_SWAP_STANDBY")
                   [] r.task_state = "SRC_SWAP_STANDBY" ->
                        SetState([r EXCEPT !.power_role = "SINK"],
                                 "SNK_DISCOVERY")
                   [] r.task_state = "SNK_DISCOVERY" ->
                        SetState(r, "HARD_RESET_SEND")
                   [] r.task_state = "SNK_SWAP_STANDBY" -> r
                   [] OTHER -> IF r.power_role = "SINK"
                               THEN SetState(r, "SNK_READY") ELSE r
     IN Handled(p, next, Quiet(p, r))

RxReject(p) ==
  /\ Handles(p, "REJECT")
  /\ LET r == Request(p)
         next == CASE r.task_state = "DR_SWAP" ->
                        SetState(r, ReadyReturnState(r))
                   [] r.task_state = "SRC_SWAP_INIT" -> SetState(r, "SRC_READY")
                   [] r.task_state \in {"SNK_SWAP_INIT", "SNK_REQUESTED"} ->
                        SetState(r, "SNK_READY")
                   [] OTHER -> r
     IN Handled(p, next, Quiet(p, r))

DrSwap(r) == [r EXCEPT !.data_role = IF @ = "DFP" THEN "UFP" ELSE "DFP"]

RxAccept(p) ==
  /\ Handles(p, "ACCEPT")
  /\ LET r == Request(p)
         next == CASE r.task_state = "SOFT_RESET" -> ExecuteSoftReset(r)
                   [] r.task_state = "DR_SWAP" ->
                        SetState(DrSwap(r), ReadyReturnState(r))
                   [] r.task_state = "SRC_SWAP_INIT" ->
                        SetState(r, "SRC_SWAP_SNK_DISABLE")
                   [] r.task_state = "SNK_SWAP_INIT" ->
                        SetState(r, "SNK_SWAP_SNK_DISABLE")
                   [] r.task_state = "SNK_REQUESTED" ->
                        SetState(r, "SNK_TRANSITION")
                   [] OTHER -> r
     IN Handled(p, next, Quiet(p, r))

RxSoftReset(p) ==
  /\ Handles(p, "SOFT_RESET")
  /\ \E o \in Transmit(p, ExecuteSoftReset(Request(p)), "ACCEPT") :
       Handled(p, o.me, o)

\* The swap is under way once it is accepted, whether the answer was heard
\* or not.
RxPrSwap(p) ==
  /\ Handles(p, "PR_SWAP")
  /\ LET r == Request(p) IN
     IF r.drp = "TOGGLE_ON"
     THEN \E o \in Transmit(p, r, "ACCEPT") :
            Handled(p, SetState([o.me EXCEPT !.flags = @ \ {"CHECK_PR_ROLE"}],
                                IF o.me.power_role = "SINK"
                                THEN "SNK_SWAP_SNK_DISABLE"
                                ELSE "SRC_SWAP_SNK_DISABLE"), o)
     ELSE \E o \in Transmit(p, r, "REJECT") : Handled(p, o.me, o)

RxDrSwap(p) ==
  /\ Handles(p, "DR_SWAP")
  /\ LET r == Request(p) IN
     IF r.data_role = "UFP"
     THEN \E o \in Transmit(p, [r EXCEPT !.flags = @ \ {"CHECK_DR_ROLE"}],
                            "ACCEPT") :
            Handled(p, IF o.sent THEN DrSwap(o.me) ELSE o.me, o)
     ELSE \E o \in Transmit(p, r, "REJECT") : Handled(p, o.me, o)

Receive(p) ==
  \/ RxSourceCap(p) \/ RxRequest(p) \/ RxSinkCap(p) \/ RxGetSinkCap(p)
  \/ RxPsRdy(p) \/ RxReject(p) \/ RxAccept(p) \/ RxSoftReset(p)
  \/ RxPrSwap(p) \/ RxDrSwap(p)

-----------------------------------------------------------------------------
(* The second half: the handler of the state, and the end of the loop.     *)

\* The end of the loop: the timeout of the state, then disconnection, which
\* a source sees on CC and a sink on VBUS.
Expire(r) == IF r.timeout = 1 THEN SetState(r, r.timeout_state) ELSE r

TryEnabled(p, r) == p \in TrySrc /\ r.drp = "TOGGLE_ON"

LoseSink(p, r) ==
  LET off == SetState([r EXCEPT !.vbus = FALSE], "SRC_DISCONNECTED")
  IN IF TryEnabled(p, r)
     THEN [SetState([off EXCEPT !.power_role = "SINK", !.cc = "RD",
                                !.try_src_marker = T[p]["TRY_WAIT"]],
                    "SNK_DISCONNECTED") EXCEPT !.flags = @ \cup {"TRY_SRC"}]
     ELSE off

DetectDisconnect(p, r) ==
  IF ~IsConnected(r) \/ r.task_state \in Swapping THEN r
  ELSE IF r.power_role = "SOURCE"
       THEN IF Attached(p, r) THEN r ELSE LoseSink(p, r)
       ELSE IF ~VbusProvided(p, r) /\ r.task_state \notin
                 {"SNK_HARD_RESET_RECOVER", "HARD_RESET_EXECUTE"}
            THEN SetState(r, "SNK_DISCONNECTED") ELSE r

Pass(p, r, o) ==
  LET this_state == Self(p).task_state
      last == DetectDisconnect(p, Expire([r EXCEPT !.last_state = this_state]))
  IN /\ pd' = [pd EXCEPT
              ![p] = [last EXCEPT !.step = "wait",
                                  !.ran = (last.task_state = this_state)],
              ![Other(p)] = Interrupted(p, last, o.you)]
     /\ LET cost == o.cost + (IF Overtakes(p) THEN 1 ELSE 0)
        IN cost <= faults /\ faults' = faults - cost
     /\ UNCHANGED <<plugged, calls>>

QuietPass(p, r) == Pass(p, r, Quiet(p, r))

At(p, state) == Turn(p) /\ Self(p).task_state = state
Entered(r) == r.last_state # r.task_state

\* Mutant: a state that waits for a message sets no timeout.
WaitForever(p, state, t, next) == At(p, state) /\ QuietPass(p, Self(p))

\* The states that only wait, for a message or for a time.
Wait(p, state, t, next) ==
  /\ At(p, state)
  /\ QuietPass(p, IF Entered(Self(p)) THEN SetTimeout(Self(p), T[p][t], next)
                  ELSE Self(p))

SrcDisconnected(p) ==
  /\ At(p, "SRC_DISCONNECTED")
  /\ LET r == Self(p)
         timedout == IF "TRY_SRC" \in r.flags THEN r.try_src_marker = 0
                     ELSE r.next_role_swap = 0
         sink == [SetState([r EXCEPT !.power_role = "SINK"], "SNK_DISCONNECTED")
                    EXCEPT !.cc = "RD", !.next_role_swap = T[p]["DRP_SNK"],
                           !.try_src_marker = T[p]["TRY_WAIT"]]
     IN QuietPass(p, CASE Attached(p, r) ->
                            SetState([r EXCEPT !.cc_attached = FALSE],
                                     "SRC_DISCONNECTED_DEBOUNCE")
                       [] ~Attached(p, r) /\ timedout -> sink
                       [] OTHER -> r)

SrcDisconnectedDebounce(p) ==
  /\ At(p, "SRC_DISCONNECTED_DEBOUNCE")
  /\ LET r == Self(p)
         try == "TRY_SRC" \in r.flags
         startup ==
           SetState([r EXCEPT !.data_role = "DFP", !.vbus = TRUE,
                              !.rx_enabled = TRUE,
                              !.flags = @ \cup CheckRoles,
                              !.hard_reset_count = 0], "SRC_STARTUP")
     IN QuietPass(p, CASE ~Attached(p, r) -> SetState(r, "SRC_DISCONNECTED")
                       [] Attached(p, r) /\ ~try /\ ~r.cc_attached ->
                            [r EXCEPT !.cc_debounce = T[p]["CC_DEBOUNCE"],
                                      !.cc_attached = TRUE]
                       [] Attached(p, r) /\ ~try /\ r.cc_attached
                            /\ r.cc_debounce > 0 -> r
                       [] OTHER -> startup)

SrcHardResetRecover(p) ==
  /\ At(p, "SRC_HARD_RESET_RECOVER")
  /\ QuietPass(p, IF Self(p).src_recover > 0 THEN Self(p)
                  ELSE SetState([Self(p) EXCEPT !.vbus = TRUE], "SRC_STARTUP"))

SrcStartup(p) ==
  /\ At(p, "SRC_STARTUP")
  /\ QuietPass(p, IF Entered(Self(p))
                  THEN SetTimeout([Self(p) EXCEPT !.caps_count = 0,
                                                !.snk_cap_count = 0],
                                  T[p]["TURN_ON"], "SRC_DISCOVERY")
                  ELSE Self(p))

SrcDiscovery(p) ==
  /\ At(p, "SRC_DISCOVERY")
  /\ LET r == IF Entered(Self(p)) /\ "PREVIOUS_PD_CONN" \in Self(p).flags
              THEN SetTimeout(Self(p), T[p]["NO_RESPONSE"],
                     IF Self(p).hard_reset_count < PD_HARD_RESET_COUNT
                     THEN "HARD_RESET_SEND" ELSE "SRC_DISCONNECTED")
              ELSE Self(p)
         negociate(me) ==
           [SetState(me, "SRC_NEGOCIATE") EXCEPT
              !.hard_reset_count = 0, !.caps_count = 0,
              !.flags = @ \cup {"PREVIOUS_PD_CONN"}]
     IN IF r.caps_count < PD_CAPS_COUNT
        THEN \E o \in Transmit(p, r, "SOURCE_CAP") :
               Pass(p, IF o.sent THEN negociate(o.me)
                       ELSE [o.me EXCEPT !.caps_count = @ + 1], o)
        ELSE QuietPass(p, r)

SrcNegociate(p) ==
  Wait(p, "SRC_NEGOCIATE", "SENDER_RESPONSE", "HARD_RESET_SEND")
SrcAccepted(p) == Wait(p, "SRC_ACCEPTED", "SINK_TRANSITION", "SRC_POWERED")
SrcPowered(p) == Wait(p, "SRC_POWERED", "TURN_ON", "SRC_TRANSITION")

SrcTransition(p) ==
  /\ At(p, "SRC_TRANSITION")
  /\ \E o \in Transmit(p, Self(p), "PS_RDY") :
       Pass(p, IF o.sent THEN SetState(o.me, "SRC_READY")
               ELSE SetState([o.me EXCEPT !.vbus = FALSE], "SRC_DISCONNECTED"),
            o)

\* The roles are checked once after each attachment: a sink asks a partner
\* that is not externally powered to let it be the source, a UFP asks to be
\* the DFP.
CheckPrRole(r) ==
  LET done == [r EXCEPT !.flags = @ \ {"CHECK_PR_ROLE"}] IN
  IF r.power_role = "SINK" /\ "PARTNER_DR" \in r.flags /\ r.drp = "TOGGLE_ON"
  THEN SetState(done, "SNK_SWAP_INIT") ELSE done

CheckDrRole(r) ==
  LET done == [r EXCEPT !.flags = @ \ {"CHECK_DR_ROLE"}] IN
  IF "PARTNER_DR" \in r.flags /\ r.data_role = "UFP"
     /\ r.task_state = ReadyReturnState(r)
  THEN SetState(done, "DR_SWAP") ELSE done

CheckRole(r) == CASE "CHECK_PR_ROLE" \in r.flags -> CheckPrRole(r)
                  [] "CHECK_PR_ROLE" \notin r.flags
                       /\ "CHECK_DR_ROLE" \in r.flags -> CheckDrRole(r)
                  [] OTHER -> r

SrcReady(p) ==
  /\ At(p, "SRC_READY")
  /\ LET r == Self(p)
         ask == Entered(r) /\ "SNK_CAP_RECVD" \notin r.flags
         asked == IF ask /\ r.snk_cap_count <= PD_SNK_CAP_RETRIES
                  THEN [r EXCEPT !.snk_cap_count = @ + 1] ELSE r
     IN IF r.incoming_packet THEN QuietPass(p, r)
        ELSE IF ask /\ asked.snk_cap_count <= PD_SNK_CAP_RETRIES
             THEN \E o \in Transmit(p, asked, "GET_SINK_CAP") :
                    Pass(p, SetState(o.me, "SRC_GET_SINK_CAP"), o)
             ELSE QuietPass(p, CheckRole(asked))

SrcGetSinkCap(p) ==
  Wait(p, "SRC_GET_SINK_CAP", "SENDER_RESPONSE", "SRC_READY")

\* The states that ask the partner for something when they are entered, and
\* go on, or reset, when it does not hear.
Ask(p, state, m, next, failed) ==
  /\ At(p, state)
  /\ IF Entered(Self(p))
     THEN \E o \in Transmit(p, Self(p), m) :
            Pass(p, IF o.sent
                    THEN SetTimeout(o.me, T[p]["SENDER_RESPONSE"], next)
                    ELSE SetState(o.me, failed), o)
     ELSE QuietPass(p, Self(p))

DrSwapState(p) ==
  Ask(p, "DR_SWAP", "DR_SWAP", ReadyReturnState(Self(p)), "SOFT_RESET")
SrcSwapInit(p) == Ask(p, "SRC_SWAP_INIT", "PR_SWAP", "SRC_READY", "SOFT_RESET")
SnkSwapInit(p) == Ask(p, "SNK_SWAP_INIT", "PR_SWAP", "SNK_READY", "SOFT_RESET")
SoftReset(p) ==
  Ask(p, "SOFT_RESET", "SOFT_RESET", "HARD_RESET_SEND", "HARD_RESET_SEND")

SrcSwapSnkDisable(p) ==
  Wait(p, "SRC_SWAP_SNK_DISABLE", "SINK_TRANSITION", "SRC_SWAP_SRC_DISABLE")

\* Mutant: the old source announces that it is off before it turns off.
SrcSwapSrcDisableLate(p) ==
  Wait(p, "SRC_SWAP_SRC_DISABLE", "TURN_OFF", "SRC_SWAP_STANDBY")

SrcSwapSrcDisable(p) ==
  /\ At(p, "SRC_SWAP_SRC_DISABLE")
  /\ QuietPass(p, IF Entered(Self(p))
                  THEN SetTimeout([Self(p) EXCEPT !.vbus = FALSE],
                                  T[p]["TURN_OFF"], "SRC_SWAP_STANDBY")
                  ELSE Self(p))

SrcSwapStandby(p) ==
  /\ At(p, "SRC_SWAP_STANDBY")
  /\ IF Entered(Self(p))
     THEN \E o \in Transmit(p, Self(p), "PS_RDY") :
            Pass(p, IF o.sent
                    THEN SetTimeout([o.me EXCEPT !.cc = "RD",
                                                 !.power_role = "SINK"],
                                    T[p]["PS_SOURCE_ON"], "SNK_DISCONNECTED")
                    ELSE SetState(o.me, "SRC_DISCONNECTED"), o)
     ELSE QuietPass(p, Self(p))

SnkDisconnected(p) ==
  /\ At(p, "SNK_DISCONNECTED")
  /\ LET r == Self(p)
         try == "TRY_SRC" \in r.flags
         debounce == [SetState(r, "SNK_DISCONNECTED_DEBOUNCE") EXCEPT
                        !.hard_reset_count = 0,
                        !.cc_debounce = T[p]["CC_DEBOUNCE"]]
         toggle == r.drp = "TOGGLE_ON" /\ r.next_role_swap = 0
         source == [SetState([r EXCEPT !.power_role = "SOURCE"],
                             "SRC_DISCONNECTED") EXCEPT
                      !.cc = "RP", !.next_role_swap = T[p]["DRP_SRC"]]
     IN QuietPass(p, CASE Attached(p, r) -> debounce
                       [] ~Attached(p, r) /\ try ->
                            IF r.try_src_marker = 0
                            THEN [r EXCEPT !.flags = @ \ {"TRY_SRC"}] ELSE r
                       [] ~Attached(p, r) /\ ~try /\ toggle -> source
                       [] OTHER -> r)

SnkDisconnectedDebounce(p) ==
  /\ At(p, "SNK_DISCONNECTED_DEBOUNCE")
  /\ LET r == Self(p)
         stable == r.cc_debounce = 0 /\ VbusProvided(p, r)
         try == TryEnabled(p, r) /\ "TRY_SRC" \notin r.flags
         source == [SetState([r EXCEPT !.power_role = "SOURCE", !.cc = "RP"],
                             "SRC_DISCONNECTED") EXCEPT
                      !.try_src_marker = T[p]["TRY_SRC"],
                      !.flags = @ \cup {"TRY_SRC"}]
         sink == SetState([r EXCEPT !.data_role = "UFP",
                                    !.rx_enabled = TRUE,
                                    !.flags = @ \cup CheckRoles],
                          "SNK_DISCOVERY")
     IN QuietPass(p, CASE ~Attached(p, r) -> SetState(r, "SNK_DISCONNECTED")
                       [] Attached(p, r) /\ ~stable -> r
                       [] Attached(p, r) /\ stable /\ try -> source
                       [] OTHER -> sink)

\* After a hard reset a sink waits for VBUS to go low and then high.
SnkHardResetRecover(p) ==
  /\ At(p, "SNK_HARD_RESET_RECOVER")
  /\ LET on == VbusProvided(p, Self(p))
         r == IF Entered(Self(p))
              THEN SetTimeout([Self(p) EXCEPT !.vbus_off = FALSE],
                              T[p]["SAFE_0V"],
                              IF Self(p).hard_reset_count < PD_HARD_RESET_COUNT
                              THEN "HARD_RESET_SEND" ELSE "SNK_DISCOVERY")
              ELSE Self(p)
     IN QuietPass(p, CASE ~on /\ ~r.vbus_off ->
                            SetTimeout([r EXCEPT !.vbus_off = TRUE],
                                       T[p]["SRC_RECOVER_MAX"],
                                       "SNK_DISCONNECTED")
                       [] on /\ r.vbus_off -> SetState(r, "SNK_DISCOVERY")
                       [] OTHER -> r)

SnkDiscovery(p) ==
  /\ At(p, "SNK_DISCOVERY")
  /\ LET r == Self(p)
         first == Entered(r)
         again == r.hard_reset_count < PD_HARD_RESET_COUNT
     IN QuietPass(p, CASE first /\ again ->
                            SetTimeout(r, T[p]["SINK_WAIT_CAP"],
                                       "HARD_RESET_SEND")
                       [] first /\ ~again /\ "PREVIOUS_PD_CONN" \in r.flags ->
                            SetTimeout(r, T[p]["NO_RESPONSE"],
                                       "SNK_DISCONNECTED")
                       [] OTHER -> r)

SnkRequested(p) ==
  /\ At(p, "SNK_REQUESTED")
  /\ QuietPass(p, IF Entered(Self(p))
                  THEN SetTimeout([Self(p) EXCEPT !.hard_reset_count = 0],
                                  T[p]["SENDER_RESPONSE"], "HARD_RESET_SEND")
                  ELSE Self(p))

SnkTransition(p) ==
  Wait(p, "SNK_TRANSITION", "PS_TRANSITION", "HARD_RESET_SEND")

SnkReady(p) ==
  /\ At(p, "SNK_READY")
  /\ QuietPass(p, IF Self(p).incoming_packet THEN Self(p) ELSE CheckRole(Self(p)))

SnkSwapSnkDisable(p) ==
  /\ At(p, "SNK_SWAP_SNK_DISABLE")
  /\ QuietPass(p, SetState(Self(p), "SNK_SWAP_SRC_DISABLE"))

SnkSwapSrcDisable(p) ==
  Wait(p, "SNK_SWAP_SRC_DISABLE", "PS_SOURCE_OFF", "HARD_RESET_SEND")

SnkSwapStandby(p) ==
  /\ At(p, "SNK_SWAP_STANDBY")
  /\ QuietPass(p, IF Entered(Self(p))
                  THEN SetTimeout([Self(p) EXCEPT !.cc = "RP", !.vbus = TRUE],
                                  T[p]["TURN_ON"], "SNK_SWAP_COMPLETE")
                  ELSE Self(p))

\* Mutant: the new source goes on in the role of a sink.
BecomeSourceAsSink(r) ==
  [r EXCEPT !.snk_cap_count = PD_SNK_CAP_RETRIES + 1, !.caps_count = 0]

BecomeSource(r) ==
  [r EXCEPT !.snk_cap_count = PD_SNK_CAP_RETRIES + 1, !.caps_count = 0,
            !.power_role = "SOURCE"]

SnkSwapComplete(p) ==
  /\ At(p, "SNK_SWAP_COMPLETE")
  /\ \E o \in Transmit(p, Self(p), "PS_RDY") :
       Pass(p, IF o.sent THEN SetState(BecomeSource(o.me), "SRC_DISCOVERY")
               ELSE SetState(RestoreRd(o.me), "SNK_DISCONNECTED"), o)

\* The count is only compared with its limit: it stops there.
HardResetSend(p) ==
  /\ At(p, "HARD_RESET_SEND")
  /\ LET count == Self(p).hard_reset_count
         r == [Self(p) EXCEPT
                 !.hard_reset_count =
                    IF count < PD_HARD_RESET_COUNT THEN count + 1 ELSE count,
                 !.hard_reset_sent = @ /\ ~Entered(Self(p))]
         next(me) ==
           IF me.power_role = "SOURCE"
           THEN SetTimeout(me, T[p]["PS_HARD_RESET"], "HARD_RESET_EXECUTE")
           ELSE SetState(me, "HARD_RESET_EXECUTE")
     IN IF r.hard_reset_sent THEN QuietPass(p, r)
        ELSE \E o \in TransmitHardReset(p, r) :
               Pass(p, IF o.sent
                       THEN next([o.me EXCEPT !.hard_reset_sent = TRUE])
                       ELSE o.me, o)

HardResetExecute(p) ==
  /\ At(p, "HARD_RESET_EXECUTE")
  /\ QuietPass(p, ExecuteHardReset(p,
                    IF Self(p).last_state = "SNK_SWAP_STANDBY"
                    THEN [Self(p) EXCEPT !.cc = "RD"] ELSE Self(p)))

RunState(p) ==
  \/ SrcDisconnected(p) \/ SrcDisconnectedDebounce(p)
  \/ SrcHardResetRecover(p) \/ SrcStartup(p) \/ SrcDiscovery(p)
  \/ SrcNegociate(p) \/ SrcAccepted(p) \/ SrcPowered(p) \/ SrcTransition(p)
  \/ SrcReady(p) \/ SrcGetSinkCap(p) \/ DrSwapState(p)
  \/ SrcSwapInit(p) \/ SrcSwapSnkDisable(p) \/ SrcSwapSrcDisable(p)
  \/ SrcSwapStandby(p)
  \/ SnkDisconnected(p) \/ SnkDisconnectedDebounce(p)
  \/ SnkHardResetRecover(p) \/ SnkDiscovery(p) \/ SnkRequested(p)
  \/ SnkTransition(p) \/ SnkReady(p) \/ SnkSwapInit(p)
  \/ SnkSwapSnkDisable(p) \/ SnkSwapSrcDisable(p) \/ SnkSwapStandby(p)
  \/ SnkSwapComplete(p)
  \/ SoftReset(p) \/ HardResetSend(p) \/ HardResetExecute(p)

-----------------------------------------------------------------------------
(* The other tasks, whose priority is lower: their calls come while the    *)
(* task of the port waits.  A call wakes it.                               *)

Called(p, r) ==
  /\ Awake(p) /\ calls > 0 /\ calls' = calls - 1
  /\ pd' = [pd EXCEPT ![p] = [r EXCEPT !.ran = FALSE]]
  /\ UNCHANGED <<plugged, faults>>

PowerSwap(r) ==
  CASE r.task_state = "SRC_READY" -> SetState(r, "SRC_SWAP_INIT")
    [] r.task_state = "SNK_READY" -> SetState(r, "SNK_SWAP_INIT")
    [] OTHER -> r

RequestPowerSwap(p) ==
  /\ "power_swap" \in Calls /\ pd[p].task_state \in Ready
  /\ Called(p, PowerSwap(pd[p]))

RequestDataSwap(p) ==
  /\ "data_swap" \in Calls /\ pd[p].task_state = ReadyReturnState(pd[p])
  /\ Called(p, SetState(pd[p], "DR_SWAP"))

PdSoftReset(p) ==
  /\ "soft_reset" \in Calls /\ IsConnected(pd[p])
  /\ Called(p, SetState(pd[p], "SOFT_RESET"))

\* The chipset goes to S0, where the port toggles and checks its roles again
\* unless it is the one that charges, or to S3, where it stays what it is.
SetDualRole(p) ==
  /\ "dual_role" \in Calls
  /\ LET r == [pd[p] EXCEPT !.flags = @ \ {"TRY_SRC"}] IN
     \/ \E check \in {{}, CheckRoles} :
          Called(p, [r EXCEPT !.drp = "TOGGLE_ON", !.flags = @ \cup check])
     \/ Called(p, IF r.task_state = "SRC_DISCONNECTED"
                     /\ r.power_role = "SOURCE"
                  THEN [SetState([r EXCEPT !.power_role = "SINK"],
                                 "SNK_DISCONNECTED")
                          EXCEPT !.drp = "TOGGLE_OFF", !.cc = "RD"]
                  ELSE [r EXCEPT !.drp = "TOGGLE_OFF"])

\* CC and VBUS changes wake both tasks.
Plug ==
  /\ "plug" \in Calls /\ calls > 0 /\ calls' = calls - 1
  /\ plugged' = ~plugged
  /\ pd' = [p \in Ports |-> [pd[p] EXCEPT !.ran = FALSE]]
  /\ UNCHANGED faults

Later(n) == IF n = 0 THEN 0 ELSE n - 1

Aged(r) == [r EXCEPT !.timeout = IF @ <= 1 THEN @ ELSE @ - 1,
                     !.src_recover = Later(@), !.cc_debounce = Later(@),
                     !.try_src_marker = Later(@), !.next_role_swap = Later(@),
                     !.ran = FALSE]

Tick ==
  /\ \A p \in Ports : ~Due(p)
  /\ pd' = [p \in Ports |-> Aged(pd[p])]
  /\ UNCHANGED <<plugged, calls, faults>>

Step(p) == Receive(p) \/ RunState(p)

Next ==
  \/ Tick \/ Plug
  \/ \E p \in Ports :
       \/ Step(p)
       \/ RequestPowerSwap(p) \/ RequestDataSwap(p)
       \/ PdSoftReset(p) \/ SetDualRole(p)

\* The tasks are scheduled and time goes on; nobody has to call.
Spec == Init /\ [][Next]_vars /\ WF_vars(Tick) /\ \A p \in Ports : WF_vars(Step(p))

-----------------------------------------------------------------------------
Longest(p) == CHOOSE t \in {T[p][d] : d \in Durations} :
                \A d \in Durations : T[p][d] <= t

Mail == UNION {[1..n -> Messages] : n \in 0..2}

PortType == [
  task_state : States, last_state : States,
  timeout : Nat, timeout_state : States \cup {"DISABLED"},
  power_role : {"SINK", "SOURCE"}, data_role : {"UFP", "DFP"},
  flags : SUBSET Flags, drp : {"TOGGLE_ON", "TOGGLE_OFF"},
  cc : {"RD", "RP"}, vbus : BOOLEAN, cc_attached : BOOLEAN,
  rx_enabled : BOOLEAN, rx : Mail, hard_rst : BOOLEAN,
  src_recover : Nat, cc_debounce : Nat,
  try_src_marker : Nat, next_role_swap : Nat,
  hard_reset_count : 0..PD_HARD_RESET_COUNT, hard_reset_sent : BOOLEAN,
  vbus_off : BOOLEAN, caps_count : 0..PD_CAPS_COUNT,
  snk_cap_count : 0..PD_SNK_CAP_RETRIES + 1,
  incoming_packet : BOOLEAN, step : {"wait", "run"}, ran : BOOLEAN]

\* The state of each port stays what the code declares; a timeout is never
\* further ahead than the longest of the durations.
TypeOK ==
  /\ pd \in [Ports -> PortType]
  /\ plugged \in BOOLEAN /\ calls \in 0..MaxCalls /\ faults \in 0..MaxFaults
  /\ \A p \in Ports : pd[p].timeout <= Longest(p) + 1

\* The two ends never drive VBUS against each other, in a power swap, after
\* a hard reset or when messages are lost: the new source turns on only when
\* the old one is off.
OneSource == plugged => \E p \in Ports : ~pd[p].vbus

\* VBUS and the resistor match the role: a port that is a sink drives VBUS,
\* or shows Rp, only in the last states of a swap that makes it the source.
SinkIsOff ==
  \A p \in Ports : pd[p].power_role = "SINK" /\ (pd[p].vbus \/ pd[p].cc = "RP")
                   => pd[p].task_state \in NewSource

\* Two ports that are both ready and have nothing to handle agree on who is
\* the source, and the source drives VBUS.
RolesAgree ==
  (plugged /\ \A p \in Ports : /\ pd[p].task_state \in Ready
                               /\ pd[p].rx = <<>> /\ ~pd[p].hard_rst
                               /\ pd[p].step = "wait") =>
    \E p \in Ports :
      /\ pd[p].power_role = "SOURCE" /\ pd[p].vbus
      /\ pd[Other(p)].power_role = "SINK" /\ ~pd[Other(p)].vbus

\* A contract is reached: whatever was lost, and whatever was asked of the
\* ports, they end up ready with opposite roles when the cable stays.
Settled == /\ \A p \in Ports : pd[p].task_state \in Ready
           /\ \E p \in Ports : /\ pd[p].power_role = "SOURCE" /\ pd[p].vbus
                              /\ pd[Other(p)].power_role = "SINK"
Willing == plugged /\ \E p \in Ports : pd[p].drp = "TOGGLE_ON"
EventuallySettled == <>[]Willing => <>[]Settled

=============================================================================
