---------------------------- MODULE MC_PdProtocol ----------------------------
EXTENDS PdProtocol

\* Each timeout outlasts what it waits for, as those of include/usb_pd.h do.
\* The two ends differ in how long they toggle, so that they do not toggle
\* together for ever.
Ticks ==
  [d \in Durations |->
     CASE d \in {"SENDER_RESPONSE", "SINK_TRANSITION", "PS_HARD_RESET",
                 "TURN_ON", "TURN_OFF", "CC_DEBOUNCE", "TRY_SRC",
                 "DRP_SNK", "DRP_SRC"} -> 1
       [] d \in {"TRY_WAIT", "PS_SOURCE_ON"} -> 2
       [] d \in {"SINK_WAIT_CAP", "PS_TRANSITION", "SAFE_0V", "SRC_RECOVER",
                 "PS_SOURCE_OFF"} -> 3
       [] d = "SRC_RECOVER_MAX" -> 4
       [] d = "NO_RESPONSE" -> 6]
TwoTicks ==
  [p \in Ports |-> IF p = "A" THEN Ticks
                   ELSE [Ticks EXCEPT !["DRP_SNK"] = 2]]
=============================================================================
