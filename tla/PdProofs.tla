-------------------------------- MODULE PdProofs --------------------------------
(***************************************************************************)
(* Proofs about the two ports of PdProtocol, for every pair of ports,      *)
(* every choice of the durations, of the counts and of the calls.          *)
(*                                                                         *)
(* The first half proves that the state of a port stays what the code      *)
(* declares.  The second proves what the two ports agree on when nothing   *)
(* is lost: the invariant, what each of its lemmas may know of a step, one *)
(* lemma a handler that the invariant survives such a step (the names that *)
(* end in Good), one a handler that the handler is such a step (the names  *)
(* that end in Seen and in Holds), and the theorems.                       *)
(***************************************************************************)
EXTENDS PdProtocol, SequenceTheorems, TLAPS

-----------------------------------------------------------------------------
(* The ports, the durations and the messages.                              *)

LEMMA OtherPort ==
  ASSUME NEW p \in Ports
  PROVE  /\ Other(p) \in Ports /\ Other(p) # p
         /\ \A q \in Ports : q = p \/ q = Other(p)
         /\ Other(Other(p)) = p
<1>1. PICK a, b \in Ports : a # b /\ Ports = {a, b}
  BY PdAssumption
<1>2. \E q \in Ports : q # p
  BY <1>1
<1>3. \A q \in Ports : Other(q) \in Ports /\ Other(q) # q
  <2>1. ASSUME NEW q \in Ports PROVE \E s \in Ports : s # q
    BY <1>1
  <2>2. QED BY <2>1 DEF Other
<1>4. QED BY <1>1, <1>3

\* Among finitely many durations one is the longest.
HasLongest(f, S) == \E d \in S : \A c \in S : f[c] <= f[d]

LEMMA LongestOfTwo ==
  ASSUME NEW f, \A d \in Durations : f[d] \in Nat,
         NEW S \in SUBSET Durations, NEW e \in Durations, HasLongest(f, S)
  PROVE  HasLongest(f, S \cup {e})
<1>1. PICK d \in S : \A c \in S : f[c] <= f[d]
  BY DEF HasLongest
<1>2. CASE f[e] <= f[d]
  BY <1>1, <1>2 DEF HasLongest
<1>3. CASE ~(f[e] <= f[d])
  <2>1. f[d] \in Nat /\ f[e] \in Nat
    BY <1>1
  <2>2. \A c \in S : f[c] <= f[e]
    BY <1>1, <1>3, <2>1
  <2>3. QED BY <2>1, <2>2 DEF HasLongest
<1>4. QED BY <1>2, <1>3

LEMMA LongestDuration ==
  ASSUME NEW p \in Ports
  PROVE  /\ Longest(p) \in Nat
         /\ \A d \in Durations : T[p][d] \in Nat \ {0} /\ T[p][d] <= Longest(p)
<1> DEFINE f == T[p]
<1>1. \A d \in Durations : f[d] \in Nat /\ f[d] # 0
  BY PdAssumption
<1> DEFINE S1 == {"SENDER_RESPONSE"}
<1> DEFINE S2 == S1 \cup {"SINK_WAIT_CAP"}
<1> DEFINE S3 == S2 \cup {"SINK_TRANSITION"}
<1> DEFINE S4 == S3 \cup {"PS_TRANSITION"}
<1> DEFINE S5 == S4 \cup {"PS_SOURCE_ON"}
<1> DEFINE S6 == S5 \cup {"PS_SOURCE_OFF"}
<1> DEFINE S7 == S6 \cup {"PS_HARD_RESET"}
<1> DEFINE S8 == S7 \cup {"CC_DEBOUNCE"}
<1> DEFINE S9 == S8 \cup {"SRC_RECOVER"}
<1> DEFINE S10 == S9 \cup {"SRC_RECOVER_MAX"}
<1> DEFINE S11 == S10 \cup {"SAFE_0V"}
<1> DEFINE S12 == S11 \cup {"NO_RESPONSE"}
<1> DEFINE S13 == S12 \cup {"TRY_SRC"}
<1> DEFINE S14 == S13 \cup {"TRY_WAIT"}
<1> DEFINE S15 == S14 \cup {"TURN_ON"}
<1> DEFINE S16 == S15 \cup {"TURN_OFF"}
<1> DEFINE S17 == S16 \cup {"DRP_SNK"}
<1> DEFINE S18 == S17 \cup {"DRP_SRC"}
<1>2. S18 = Durations
  BY DEF Durations
<1>3. HasLongest(f, S1)
  BY <1>1 DEF HasLongest, Durations
<1>4. HasLongest(f, S2)
  BY <1>1, <1>3, LongestOfTwo DEF Durations
<1>5. HasLongest(f, S3)
  BY <1>1, <1>4, LongestOfTwo DEF Durations
<1>6. HasLongest(f, S4)
  BY <1>1, <1>5, LongestOfTwo DEF Durations
<1>7. HasLongest(f, S5)
  BY <1>1, <1>6, LongestOfTwo DEF Durations
<1>8. HasLongest(f, S6)
  BY <1>1, <1>7, LongestOfTwo DEF Durations
<1>9. HasLongest(f, S7)
  BY <1>1, <1>8, LongestOfTwo DEF Durations
<1>10. HasLongest(f, S8)
  BY <1>1, <1>9, LongestOfTwo DEF Durations
<1>11. HasLongest(f, S9)
  BY <1>1, <1>10, LongestOfTwo DEF Durations
<1>12. HasLongest(f, S10)
  BY <1>1, <1>11, LongestOfTwo DEF Durations
<1>13. HasLongest(f, S11)
  BY <1>1, <1>12, LongestOfTwo DEF Durations
<1>14. HasLongest(f, S12)
  BY <1>1, <1>13, LongestOfTwo DEF Durations
<1>15. HasLongest(f, S13)
  BY <1>1, <1>14, LongestOfTwo DEF Durations
<1>16. HasLongest(f, S14)
  BY <1>1, <1>15, LongestOfTwo DEF Durations
<1>17. HasLongest(f, S15)
  BY <1>1, <1>16, LongestOfTwo DEF Durations
<1>18. HasLongest(f, S16)
  BY <1>1, <1>17, LongestOfTwo DEF Durations
<1>19. HasLongest(f, S17)
  BY <1>1, <1>18, LongestOfTwo DEF Durations
<1>20. HasLongest(f, S18)
  BY <1>1, <1>19, LongestOfTwo DEF Durations
<1>21. PICK d \in Durations : \A c \in Durations : f[c] <= f[d]
  BY <1>2, <1>20 DEF HasLongest
<1>22. \E t \in {T[p][x] : x \in Durations} : \A c \in Durations : T[p][c] <= t
  BY <1>21
<1>23. /\ Longest(p) \in {T[p][x] : x \in Durations}
       /\ \A c \in Durations : T[p][c] <= Longest(p)
  BY <1>22 DEF Longest
<1>24. QED BY <1>1, <1>23

LEMMA MailFacts ==
  /\ <<>> \in Mail
  /\ \A m \in Messages : <<m>> \in Mail /\ <<m, m>> \in Mail
  /\ \A x \in Mail : x # <<>> => Head(x) \in Messages /\ Tail(x) \in Mail
<1>1. /\ [1..0 -> Messages] \subseteq Mail
      /\ [1..1 -> Messages] \subseteq Mail
      /\ [1..2 -> Messages] \subseteq Mail
  <2>1. 0 \in 0..2 /\ 1 \in 0..2 /\ 2 \in 0..2
    OBVIOUS
  <2>2. QED BY <2>1 DEF Mail
<1>2. <<>> \in Mail
  <2>1. <<>> \in [1..0 -> Messages]
    OBVIOUS
  <2>2. QED BY <2>1, <1>1
<1>3. ASSUME NEW m \in Messages
      PROVE  <<m>> \in Mail /\ <<m, m>> \in Mail
  <2>1. <<m>> \in [1..1 -> Messages] /\ <<m, m>> \in [1..2 -> Messages]
    OBVIOUS
  <2>2. QED BY <2>1, <1>1
<1>4. ASSUME NEW x \in Mail, x # <<>> PROVE  Head(x) \in Messages /\ Tail(x) \in Mail
  <2>1. PICK n \in 0..2 : x \in [1..n -> Messages]
    BY <1>4 DEF Mail
  <2>2. x \in Seq(Messages) /\ Len(x) = n
    BY <2>1
  <2>3. n \in 1..2
    BY <2>2, <1>4
  <2>4. Head(x) \in Messages
    BY <2>2, <1>4
  <2>5. CASE n = 1
    <3>1. Tail(x) = <<>>
      <4>1. Tail(x) \in Seq(Messages) /\ Len(Tail(x)) = 0
        BY <2>2, <2>5, <1>4, HeadTailProperties
      <4>2. QED BY <4>1, EmptySeq
    <3>2. QED BY <3>1, <2>4, <1>1, <1>2
  <2>6. CASE n = 2
    <3>1. Tail(x) \in Seq(Messages) /\ Len(Tail(x)) = 1
      BY <2>2, <2>6, <1>4
    <3>2. Tail(x) \in [1..1 -> Messages]
      BY <3>1, LenProperties
    <3>3. QED BY <3>2, <2>4, <1>1
  <2>7. QED BY <2>5, <2>6, <2>3
<1>5. QED BY <1>1, <1>2, <1>3, <1>4

-----------------------------------------------------------------------------
(* What the helpers make of the state of a port.                           *)

\* The states of a port whose timeout is no further ahead than it can be,
\* and leads to a state of the protocol.
Sound(p) == {r \in PortType : /\ r.timeout <= Longest(p) + 1
                              /\ r.timeout # 0 => r.timeout_state \in States}

LEMMA SetStateSound ==
  ASSUME NEW p \in Ports, NEW r \in Sound(p), NEW s \in States
  PROVE  SetState(r, s) \in Sound(p)
<1>0. Longest(p) \in Nat
  BY LongestDuration
<1> DEFINE a == [r EXCEPT !.timeout = 0, !.timeout_state = "DISABLED",
                          !.task_state = s]
<1>1. a \in PortType /\ a.timeout = 0
  BY DEF PortType, Sound
<1>2. a.flags \in SUBSET Flags
  BY <1>1 DEF PortType
<1>3. a.flags \ Flags \in SUBSET Flags
  BY <1>2
<1> DEFINE b == [a EXCEPT !.flags = @ \ Flags, !.rx_enabled = FALSE,
                          !.rx = <<>>, !.hard_rst = FALSE]
<1>4. b \in PortType /\ b.timeout = 0
  BY <1>1, <1>3, MailFacts DEF PortType
<1>5. SetState(r, s) = a \/ SetState(r, s) = b
  BY DEF SetState, ResetOnDisconnect
<1> HIDE DEF a, b
<1>6. QED BY <1>0, <1>1, <1>4, <1>5 DEF Sound

LEMMA SetTimeoutSound ==
  ASSUME NEW p \in Ports, NEW r \in Sound(p), NEW d \in Durations, NEW s \in States
  PROVE  SetTimeout(r, T[p][d], s) \in Sound(p)
<1>1. T[p][d] + 1 \in Nat /\ T[p][d] + 1 <= Longest(p) + 1
  BY LongestDuration
<1>2. SetTimeout(r, T[p][d], s) \in PortType
  BY <1>1 DEF SetTimeout, PortType, Sound
<1>3. /\ SetTimeout(r, T[p][d], s).timeout = T[p][d] + 1
      /\ SetTimeout(r, T[p][d], s).timeout_state = s
  BY <1>1 DEF SetTimeout, PortType, Sound
<1>4. QED BY <1>1, <1>2, <1>3 DEF Sound

LEMMA ExecuteHardResetSound ==
  ASSUME NEW p \in Ports, NEW r \in Sound(p)
  PROVE  ExecuteHardReset(p, r) \in Sound(p)
<1> DEFINE a == [r EXCEPT !.last_state = "HARD_RESET_EXECUTE"]
           b == IF r.task_state \in NewSource THEN RestoreRd(a) ELSE a
           c == [b EXCEPT !.vbus = FALSE, !.src_recover = T[p]["SRC_RECOVER"]]
<1>0. {"HARD_RESET_EXECUTE", "SNK_HARD_RESET_RECOVER", "SRC_HARD_RESET_RECOVER"}
        \subseteq States
  BY DEF States
<1>1. a \in Sound(p)
  BY <1>0 DEF PortType, Sound
<1>2. RestoreRd(a) \in Sound(p)
  BY <1>1 DEF RestoreRd, PortType, Sound
<1>3. b \in Sound(p)
  BY <1>1, <1>2
<1> HIDE DEF b
<1>4. T[p]["SRC_RECOVER"] \in Nat
  BY LongestDuration DEF Durations
<1>5. c \in Sound(p)
  BY <1>3, <1>4 DEF PortType, Sound
<1>6. QED BY <1>0, <1>3, <1>5, SetStateSound DEF ExecuteHardReset, b

LEMMA TcpcRunSound ==
  ASSUME NEW p \in Ports, NEW r \in Sound(p)
  PROVE  TcpcRun(p, r) \in Sound(p)
<1>1. [r EXCEPT !.hard_rst = FALSE] \in Sound(p)
  BY DEF PortType, Sound
<1>2. ExecuteHardReset(p, [r EXCEPT !.hard_rst = FALSE]) \in Sound(p)
  BY <1>1, ExecuteHardResetSound
<1>3. [ExecuteHardReset(p, [r EXCEPT !.hard_rst = FALSE]) EXCEPT !.ran = FALSE] \in Sound(p)
  BY <1>2 DEF PortType, Sound
<1>4. QED BY <1>3 DEF TcpcRun

LEMMA ExpireSound ==
  ASSUME NEW p \in Ports, NEW r \in Sound(p)
  PROVE  Expire(r) \in Sound(p)
<1>1. r.timeout = 1 => r.timeout_state \in States
  BY DEF Sound
<1>2. QED BY <1>1, SetStateSound DEF Expire

LEMMA DetectDisconnectSound ==
  ASSUME NEW p \in Ports, NEW r \in Sound(p)
  PROVE  DetectDisconnect(p, r) \in Sound(p)
<1>0. {"SNK_DISCONNECTED", "SRC_DISCONNECTED"} \subseteq States
  BY DEF States, Disconnected
<1> DEFINE v == [r EXCEPT !.vbus = FALSE]
           off == SetState(v, "SRC_DISCONNECTED")
           try == [off EXCEPT !.power_role = "SINK", !.cc = "RD",
                              !.try_src_marker = T[p]["TRY_WAIT"]]
           snk == SetState(try, "SNK_DISCONNECTED")
<1>1. v \in Sound(p)
  BY DEF PortType, Sound
<1>2. off \in Sound(p)
  BY <1>0, <1>1, SetStateSound
<1>3. T[p]["TRY_WAIT"] \in Nat
  BY LongestDuration DEF Durations
<1>4. try \in Sound(p)
  BY <1>2, <1>3 DEF PortType, Sound
<1>5. snk \in Sound(p)
  BY <1>0, <1>4, SetStateSound
<1>6. snk.flags \cup {"TRY_SRC"} \in SUBSET Flags
  <2>1. snk.flags \in SUBSET Flags
    BY <1>5 DEF PortType, Sound
  <2>2. QED BY <2>1 DEF Flags
<1>7. [snk EXCEPT !.flags = @ \cup {"TRY_SRC"}] \in Sound(p)
  BY <1>5, <1>6 DEF PortType, Sound
<1>8. LoseSink(p, r) \in Sound(p)
  BY <1>2, <1>7 DEF LoseSink
<1>9. SetState(r, "SNK_DISCONNECTED") \in Sound(p)
  BY <1>0, SetStateSound
<1>10. QED BY <1>8, <1>9 DEF DetectDisconnect

\* The invariant that gives TypeOK.
TypeInv ==
  /\ pd \in [Ports -> PortType]
  /\ \A p \in Ports : pd[p] \in Sound(p)
  /\ plugged \in BOOLEAN /\ calls \in 0..MaxCalls /\ faults \in 0..MaxFaults

\* What a transmission of p may come to.
SoundOutcome(p, o) ==
  /\ o.me \in Sound(p) /\ o.you \in Sound(Other(p))
  /\ o.sent \in BOOLEAN /\ o.cost \in 0..1

LEMMA QuietSound ==
  ASSUME TypeInv, NEW p \in Ports, NEW r \in Sound(p)
  PROVE  SoundOutcome(p, Quiet(p, r))
BY OtherPort DEF TypeInv, Quiet, Outcome, SoundOutcome

LEMMA TransmitSound ==
  ASSUME TypeInv, NEW p \in Ports, NEW r \in Sound(p), NEW m \in Messages,
         NEW o \in Transmit(p, r, m)
  PROVE  SoundOutcome(p, o)
<1> DEFINE you == pd[Other(p)]
           once == [you EXCEPT !.rx = <<m>>]
           twice == [you EXCEPT !.rx = <<m, m>>]
<1>1. TcpcRun(p, r) \in Sound(p) /\ you \in Sound(Other(p))
  BY TcpcRunSound, OtherPort DEF TypeInv
<1>2. once \in Sound(Other(p)) /\ twice \in Sound(Other(p))
  BY <1>1, MailFacts DEF PortType, Sound
<1>3. /\ o.me = TcpcRun(p, r) /\ o.you \in {you, once, twice}
      /\ o.sent \in BOOLEAN /\ o.cost \in 0..1
  <2> DEFINE me == TcpcRun(p, r)
  <2> HIDE DEF me, you, once, twice
  <2>1. \/ o \in {Outcome(me, once, TRUE, 0), Outcome(me, you, FALSE, 1),
                  Outcome(me, once, FALSE, 1), Outcome(me, twice, TRUE, 1)}
        \/ o \in {Outcome(me, you, FALSE, 0)}
    BY DEF Transmit, me, you, once, twice
  <2>2. \E y \in {you, once, twice}, s \in BOOLEAN, c \in {0, 1} :
          o = [me |-> me, you |-> y, sent |-> s, cost |-> c]
    BY <2>1 DEF Outcome
  <2>3. QED BY <2>2 DEF me
<1>4. QED BY <1>1, <1>2, <1>3 DEF SoundOutcome

LEMMA TransmitHardResetSound ==
  ASSUME TypeInv, NEW p \in Ports, NEW r \in Sound(p),
         NEW o \in TransmitHardReset(p, r)
  PROVE  SoundOutcome(p, o)
<1> DEFINE you == pd[Other(p)]
           heard == [you EXCEPT !.hard_rst = TRUE]
<1>1. TcpcRun(p, r) \in Sound(p) /\ you \in Sound(Other(p))
  BY TcpcRunSound, OtherPort DEF TypeInv
<1>2. heard \in Sound(Other(p))
  BY <1>1 DEF PortType, Sound
<1>3. TcpcRun(p, r).rx_enabled \in BOOLEAN
  BY <1>1 DEF PortType, Sound
<1>4. /\ o.me = TcpcRun(p, r) /\ o.you \in {you, heard}
      /\ o.sent \in BOOLEAN /\ o.cost \in 0..1
  BY <1>3 DEF TransmitHardReset, Outcome
<1>5. QED BY <1>1, <1>2, <1>4 DEF SoundOutcome

LEMMA InterruptedSound ==
  ASSUME TypeInv, NEW p \in Ports, NEW r \in Sound(p), NEW you \in Sound(Other(p))
  PROVE  Interrupted(p, r, you) \in Sound(Other(p))
<1> DEFINE ran == you.ran /\ (plugged => r.vbus = pd[p].vbus)
<1>1. ran \in BOOLEAN
  BY DEF TypeInv, PortType, Sound
<1>2. Interrupted(p, r, you) = [you EXCEPT !.ran = ran]
  BY DEF Interrupted
<1> HIDE DEF ran
<1>3. [you EXCEPT !.ran = ran] \in Sound(Other(p))
  BY <1>1 DEF PortType, Sound
<1>4. QED BY <1>2, <1>3

\* The two ends of a step that changes p and, through it, its partner.
LEMMA PairSound ==
  ASSUME TypeInv, NEW p \in Ports, NEW r \in Sound(p), NEW you \in Sound(Other(p)),
         pd' = [pd EXCEPT ![p] = r, ![Other(p)] = you],
         NEW cost \in 0..2, cost <= faults, faults' = faults - cost,
         UNCHANGED <<plugged, calls>>
  PROVE  TypeInv'
<1>1. pd' \in [Ports -> PortType]
  BY OtherPort DEF TypeInv, Sound
<1>2. \A q \in Ports : pd'[q] \in Sound(q)
  BY OtherPort DEF TypeInv
<1>3. faults' \in 0..MaxFaults
  BY PdAssumption DEF TypeInv
<1>4. \A q \in Ports : (pd[q] \in Sound(q))'
  BY <1>2 DEF Sound, Longest, PortType, Mail
<1>5. QED BY <1>1, <1>2, <1>3 DEF TypeInv, Sound, PortType, Mail, Longest

LEMMA HandledSound ==
  ASSUME TypeInv, NEW p \in Ports, NEW r \in Sound(p), NEW o, SoundOutcome(p, o),
         Handled(p, r, o)
  PROVE  TypeInv'
<1>1. Interrupted(p, r, o.you) \in Sound(Other(p))
  BY InterruptedSound DEF SoundOutcome
<1>2. o.cost \in 0..2
  BY DEF SoundOutcome
<1>3. QED BY <1>1, <1>2, PairSound DEF Handled

LEMMA PassSound ==
  ASSUME TypeInv, NEW p \in Ports, NEW r \in Sound(p), NEW o, SoundOutcome(p, o),
         Self(p) \in Sound(p), Pass(p, r, o)
  PROVE  TypeInv'
<1> DEFINE this == Self(p).task_state
           noted == [r EXCEPT !.last_state = this]
           last == DetectDisconnect(p, Expire(noted))
           ran == (last.task_state = this)
           done == [last EXCEPT !.step = "wait", !.ran = ran]
           cost == o.cost + (IF Overtakes(p) THEN 1 ELSE 0)
<1>1. noted \in Sound(p)
  BY DEF PortType, Sound
<1>2. last \in Sound(p)
  BY <1>1, ExpireSound, DetectDisconnectSound
<1>. ran \in BOOLEAN
  OBVIOUS
<1> HIDE DEF last, ran
<1>3. done \in Sound(p)
  BY <1>2 DEF PortType, Sound
<1>4. Interrupted(p, last, o.you) \in Sound(Other(p))
  BY <1>2, InterruptedSound DEF SoundOutcome
<1>5. cost \in 0..2
  BY DEF SoundOutcome
<1>6. /\ pd' = [pd EXCEPT ![p] = done, ![Other(p)] = Interrupted(p, last, o.you)]
      /\ cost <= faults /\ faults' = faults - cost
      /\ UNCHANGED <<plugged, calls>>
  BY DEF Pass, last, ran
<1> HIDE DEF done, cost
<1>7. QED BY <1>3, <1>4, <1>5, <1>6, PairSound

LEMMA CalledSound ==
  ASSUME TypeInv, NEW p \in Ports, NEW r \in Sound(p), Called(p, r)
  PROVE  TypeInv'
<1>1. [r EXCEPT !.ran = FALSE] \in Sound(p)
  BY DEF PortType, Sound
<1>2. calls' \in 0..MaxCalls
  BY PdAssumption DEF TypeInv, Called
<1>3. /\ pd' \in [Ports -> PortType]
      /\ \A q \in Ports : pd'[q] \in Sound(q)
  BY <1>1 DEF TypeInv, Called, Sound
<1>4. QED BY <1>2, <1>3 DEF TypeInv, Called

\* A message is read, and a pass begun, in a sound state.
LEMMA SelfSound ==
  ASSUME TypeInv, NEW p \in Ports
  PROVE  pd[p] \in Sound(p) /\ Woken(p) \in Sound(p) /\ Self(p) \in Sound(p)
<1>1. pd[p] \in Sound(p) /\ TcpcRun(p, pd[p]) \in Sound(p)
  BY TcpcRunSound DEF TypeInv
<1> DEFINE x == TcpcRun(p, pd[p])
<1>3. x \in Sound(p)
  BY <1>1
<1> HIDE DEF x
<1>2. [x EXCEPT !.step = "run", !.incoming_packet = FALSE] \in Sound(p)
  BY <1>3 DEF PortType, Sound
<1>4. QED BY <1>1, <1>2 DEF Self, Woken, x

LEMMA ExecuteHardResetFields ==
  ASSUME NEW p \in Ports, NEW r \in PortType
  PROVE  LET x == ExecuteHardReset(p, r) IN
         /\ x.task_state = IF r.power_role = "SINK" THEN "SNK_HARD_RESET_RECOVER"
                           ELSE "SRC_HARD_RESET_RECOVER"
         /\ x.power_role = r.power_role
         /\ x.cc = IF r.task_state \in NewSource THEN "RD" ELSE r.cc
         /\ x.vbus = IF r.task_state \in NewSource \/ r.power_role # "SINK"
                     THEN FALSE ELSE r.vbus
         /\ x.rx = r.rx /\ x.rx_enabled = r.rx_enabled /\ x.timeout = 0
         /\ x.last_state = "HARD_RESET_EXECUTE" /\ x.drp = r.drp
         /\ x.hard_rst = r.hard_rst /\ x.step = r.step /\ x.flags = r.flags
BY DEF ExecuteHardReset, SetState, RestoreRd, PortType, Disconnected

LEMMA TcpcRunFields ==
  ASSUME NEW p \in Ports, NEW r \in Sound(p)
  PROVE  LET x == TcpcRun(p, r) IN
         /\ ~r.hard_rst => x = r
         /\ r.hard_rst =>
              /\ x.task_state = IF r.power_role = "SINK" THEN "SNK_HARD_RESET_RECOVER"
                                ELSE "SRC_HARD_RESET_RECOVER"
              /\ x.cc = IF r.task_state \in NewSource THEN "RD" ELSE r.cc
              /\ x.vbus = IF r.task_state \in NewSource \/ r.power_role # "SINK"
                          THEN FALSE ELSE r.vbus
              /\ x.timeout = 0 /\ x.last_state = "HARD_RESET_EXECUTE" /\ ~x.hard_rst
         /\ x.power_role = r.power_role /\ x.rx = r.rx /\ x.step = r.step
         /\ x.rx_enabled = r.rx_enabled /\ x.drp = r.drp /\ x.flags = r.flags
<1> DEFINE a == [r EXCEPT !.hard_rst = FALSE]
           b == ExecuteHardReset(p, a)
<1>1. /\ a \in Sound(p)
      /\ a.task_state = r.task_state /\ a.power_role = r.power_role
      /\ a.cc = r.cc /\ a.vbus = r.vbus /\ a.rx = r.rx /\ a.hard_rst = FALSE
      /\ a.step = r.step /\ a.rx_enabled = r.rx_enabled /\ a.drp = r.drp
      /\ a.flags = r.flags
  BY DEF Sound, PortType
<1> HIDE DEF a
<1>2. b \in Sound(p) /\ a \in PortType
  BY <1>1, ExecuteHardResetSound DEF Sound
<1>3. /\ b.task_state = IF a.power_role = "SINK" THEN "SNK_HARD_RESET_RECOVER"
                        ELSE "SRC_HARD_RESET_RECOVER"
      /\ b.power_role = a.power_role
      /\ b.cc = IF a.task_state \in NewSource THEN "RD" ELSE a.cc
      /\ b.vbus = IF a.task_state \in NewSource \/ a.power_role # "SINK"
                  THEN FALSE ELSE a.vbus
      /\ b.rx = a.rx /\ b.rx_enabled = a.rx_enabled /\ b.timeout = 0
      /\ b.last_state = "HARD_RESET_EXECUTE" /\ b.drp = a.drp
      /\ b.hard_rst = a.hard_rst /\ b.step = a.step /\ b.flags = a.flags
  BY <1>2, ExecuteHardResetFields
<1> HIDE DEF b
<1> DEFINE c == [b EXCEPT !.ran = FALSE]
<1>4. /\ c.task_state = b.task_state /\ c.power_role = b.power_role
      /\ c.cc = b.cc /\ c.vbus = b.vbus /\ c.rx = b.rx /\ c.hard_rst = b.hard_rst
      /\ c.step = b.step /\ c.rx_enabled = b.rx_enabled /\ c.drp = b.drp
      /\ c.flags = b.flags /\ c.timeout = b.timeout /\ c.last_state = b.last_state
  BY <1>2 DEF Sound, PortType
<1>5. TcpcRun(p, r) = IF r.hard_rst THEN c ELSE r
  BY DEF TcpcRun, a, b
<1> HIDE DEF c
<1>6. QED BY <1>1, <1>3, <1>4, <1>5

LEMMA TcpcRunCounts ==
  ASSUME NEW p \in Ports, NEW r \in Sound(p)
  PROVE  /\ TcpcRun(p, r).caps_count = r.caps_count
         /\ TcpcRun(p, r).snk_cap_count = r.snk_cap_count
BY DEF TcpcRun, ExecuteHardReset, SetState, RestoreRd, Sound, PortType, Disconnected

LEMMA RequestSound ==
  ASSUME TypeInv, NEW p \in Ports, NEW m \in Messages, Handles(p, m)
  PROVE  Request(p) \in Sound(p)
<1>1. pd[p].rx \in Mail /\ pd[p].rx # <<>>
  BY DEF TypeInv, Handles, PortType
<1>2. Woken(p) \in Sound(p)
  BY SelfSound
<1>3. Woken(p).rx = pd[p].rx
  <2> DEFINE x == TcpcRun(p, pd[p])
  <2>1. x \in Sound(p) /\ x.rx = pd[p].rx
    BY TcpcRunSound, TcpcRunFields DEF TypeInv
  <2> HIDE DEF x
  <2>2. [x EXCEPT !.step = "run", !.incoming_packet = FALSE].rx = x.rx
    BY <2>1 DEF Sound, PortType
  <2>3. QED BY <2>1, <2>2 DEF Woken, x
<1>4. Tail(Woken(p).rx) \in Mail
  BY <1>1, <1>3, MailFacts
<1>5. [Woken(p) EXCEPT !.rx = Tail(@), !.incoming_packet = TRUE] \in Sound(p)
  BY <1>2, <1>4 DEF PortType, Sound
<1>6. "HARD_RESET_SEND" \in States
  BY DEF States
<1>7. QED BY <1>5, <1>6, SetStateSound DEF Request

-----------------------------------------------------------------------------
(* Every handler leaves both ends in a sound state.                        *)

LEMMA StateNames ==
  States = {"SNK_DISCONNECTED", "SRC_DISCONNECTED", "SNK_DISCONNECTED_DEBOUNCE",
    "SRC_DISCONNECTED_DEBOUNCE", "SNK_SWAP_STANDBY", "SNK_SWAP_COMPLETE",
    "SNK_SWAP_SNK_DISABLE", "SNK_SWAP_SRC_DISABLE", "SRC_SWAP_SNK_DISABLE",
    "SRC_SWAP_SRC_DISABLE", "SRC_SWAP_STANDBY", "SNK_READY", "SRC_READY",
    "SNK_HARD_RESET_RECOVER", "SNK_DISCOVERY", "SNK_REQUESTED",
    "SNK_TRANSITION", "SNK_SWAP_INIT", "SRC_HARD_RESET_RECOVER",
    "SRC_STARTUP", "SRC_DISCOVERY", "SRC_NEGOCIATE", "SRC_ACCEPTED",
    "SRC_POWERED", "SRC_TRANSITION", "SRC_GET_SINK_CAP", "DR_SWAP",
    "SRC_SWAP_INIT", "SOFT_RESET", "HARD_RESET_SEND", "HARD_RESET_EXECUTE"}
BY DEF States, Disconnected, Debouncing, Swapping, NewSource, Ready

LEMMA ReceiveSound ==
  ASSUME TypeInv, NEW p \in Ports, Receive(p)
  PROVE  TypeInv'
<1> USE StateNames
<1> DEFINE r == Request(p)
<1>m. {"SOURCE_CAP", "REQUEST", "SINK_CAP", "GET_SINK_CAP", "ACCEPT", "REJECT",
       "PS_RDY", "PR_SWAP", "DR_SWAP", "SOFT_RESET"} = Messages
  BY DEF Messages
<1>r. \A m \in Messages : Handles(p, m) => r \in Sound(p)
  BY RequestSound
<1>q. \A x \in Sound(p) : SoundOutcome(p, Quiet(p, x))
  BY QuietSound
<1>s. \A x \in Sound(p), s \in States : SetState(x, s) \in Sound(p)
  BY SetStateSound
<1>t. \A x \in Sound(p), m \in Messages : \A o \in Transmit(p, x, m) :
        /\ SoundOutcome(p, o) /\ o.me \in Sound(p)
        /\ \A s \in States : SetState(o.me, s) \in Sound(p)
  BY TransmitSound, <1>s DEF SoundOutcome
<1>h. \A x \in Sound(p) : \A o : SoundOutcome(p, o) /\ Handled(p, x, o) => TypeInv'
  BY HandledSound
<1>f. \A x \in Sound(p), f \in SUBSET Flags :
        /\ [x EXCEPT !.flags = @ \cup f] \in Sound(p)
        /\ [x EXCEPT !.flags = @ \ f] \in Sound(p)
  <2> TAKE x \in Sound(p), f \in SUBSET Flags
  <2>1. x.flags \in SUBSET Flags
    BY DEF Sound, PortType
  <2>2. x.flags \cup f \in SUBSET Flags /\ x.flags \ f \in SUBSET Flags
    BY <2>1
  <2>3. QED BY <2>2 DEF Sound, PortType
<1> HIDE DEF r
<1>d. \A x \in Sound(p) : DrSwap(x) \in Sound(p)
  <2> TAKE x \in Sound(p)
  <2> DEFINE d == IF x.data_role = "DFP" THEN "UFP" ELSE "DFP"
  <2>1. d \in {"UFP", "DFP"}
    OBVIOUS
  <2> HIDE DEF d
  <2>2. [x EXCEPT !.data_role = d] \in Sound(p)
    BY <2>1 DEF Sound, PortType
  <2>3. DrSwap(x) = [x EXCEPT !.data_role = d]
    BY DEF DrSwap, d
  <2>4. QED BY <2>2, <2>3
<1>1. CASE RxSourceCap(p)
  <2> DEFINE known == [r EXCEPT !.flags = @ \cup {"PREVIOUS_PD_CONN", "PARTNER_DR"}]
  <2>1. r \in Sound(p)
    BY <1>1, <1>r, <1>m DEF RxSourceCap
  <2>2. known \in Sound(p)
    BY <2>1, <1>f DEF Flags
  <2> HIDE DEF known
  <2>3. QED BY <1>1, <2>1, <2>2, <1>t, <1>m, <1>q, <1>h DEF RxSourceCap, r, known
<1>2. CASE RxRequest(p)
  <2>1. r \in Sound(p)
    BY <1>2, <1>r, <1>m DEF RxRequest
  <2>2. QED BY <1>2, <2>1, <1>t, <1>m, <1>h DEF RxRequest, r
<1>3. CASE RxSinkCap(p)
  <2> DEFINE known == [r EXCEPT !.flags = @ \cup {"SNK_CAP_RECVD", "PARTNER_DR"}]
  <2>1. r \in Sound(p)
    BY <1>3, <1>r, <1>m DEF RxSinkCap
  <2>2. known \in Sound(p)
    BY <2>1, <1>f DEF Flags
  <2> HIDE DEF known
  <2>3. QED BY <1>3, <2>1, <2>2, <1>s, <1>q, <1>h DEF RxSinkCap, r, known
<1>4. CASE RxGetSinkCap(p)
  <2>1. r \in Sound(p)
    BY <1>4, <1>r, <1>m DEF RxGetSinkCap
  <2>2. QED BY <1>4, <2>1, <1>t, <1>m, <1>h DEF RxGetSinkCap, r
<1>5. CASE RxPsRdy(p)
  <2> DEFINE sink == [r EXCEPT !.power_role = "SINK"]
  <2>1. r \in Sound(p)
    BY <1>5, <1>r, <1>m DEF RxPsRdy
  <2>2. sink \in Sound(p)
    BY <2>1 DEF Sound, PortType
  <2> HIDE DEF sink
  <2>3. QED BY <1>5, <2>1, <2>2, <1>s, <1>q, <1>h DEF RxPsRdy, r, sink
<1>6. CASE RxReject(p)
  <2>1. r \in Sound(p) /\ ReadyReturnState(r) \in States
    BY <1>6, <1>r, <1>m DEF RxReject, ReadyReturnState
  <2>2. QED BY <1>6, <2>1, <1>s, <1>q, <1>h DEF RxReject, r
<1>7. CASE RxAccept(p)
  <2>1. r \in Sound(p) /\ ReadyReturnState(r) \in States
    BY <1>7, <1>r, <1>m DEF RxAccept, ReadyReturnState
  <2>2. ExecuteSoftReset(r) \in Sound(p)
    BY <2>1, <1>s DEF ExecuteSoftReset
  <2>3. QED BY <1>7, <2>1, <2>2, <1>s, <1>d, <1>q, <1>h DEF RxAccept, r
<1>8. CASE RxSoftReset(p)
  <2>1. r \in Sound(p)
    BY <1>8, <1>r, <1>m DEF RxSoftReset
  <2>2. ExecuteSoftReset(r) \in Sound(p)
    BY <2>1, <1>s DEF ExecuteSoftReset
  <2>3. QED BY <1>8, <2>2, <1>t, <1>m, <1>h DEF RxSoftReset, r
<1>9. CASE RxPrSwap(p)
  <2>1. r \in Sound(p)
    BY <1>9, <1>r, <1>m DEF RxPrSwap
  <2>2. \A x \in Sound(p) : [x EXCEPT !.flags = @ \ {"CHECK_PR_ROLE"}] \in Sound(p)
    BY <1>f DEF Flags
  <2>3. QED BY <1>9, <2>1, <2>2, <1>t, <1>s, <1>m, <1>h DEF RxPrSwap, r
<1>10. CASE RxDrSwap(p)
  <2> DEFINE checked == [r EXCEPT !.flags = @ \ {"CHECK_DR_ROLE"}]
  <2>1. r \in Sound(p)
    BY <1>10, <1>r, <1>m DEF RxDrSwap
  <2>2. checked \in Sound(p)
    BY <2>1, <1>f DEF Flags
  <2> HIDE DEF checked
  <2>3. QED BY <1>10, <2>1, <2>2, <1>t, <1>d, <1>m, <1>h DEF RxDrSwap, r, checked
<1>11. QED BY <1>1, <1>2, <1>3, <1>4, <1>5, <1>6, <1>7, <1>8, <1>9, <1>10 DEF Receive

LEMMA RunStateSound ==
  ASSUME TypeInv, NEW p \in Ports, RunState(p)
  PROVE  TypeInv'
<1> DEFINE r == Self(p)
<1>r. r \in Sound(p)
  BY SelfSound
<1>p. \A x \in Sound(p) : \A o : SoundOutcome(p, o) /\ Pass(p, x, o) => TypeInv'
  BY PassSound, SelfSound
<1>q. \A x \in Sound(p) : QuietPass(p, x) => TypeInv'
  BY <1>p, QuietSound DEF QuietPass
<1>s. \A x \in Sound(p), s \in States : SetState(x, s) \in Sound(p)
  BY SetStateSound
<1>u. \A x \in Sound(p), d \in Durations, s \in States : SetTimeout(x, T[p][d], s) \in Sound(p)
  BY SetTimeoutSound
<1>t. \A x \in Sound(p), m \in Messages : \A o \in Transmit(p, x, m) :
        SoundOutcome(p, o) /\ o.me \in Sound(p)
  BY TransmitSound DEF SoundOutcome
<1>n. \A d \in Durations : T[p][d] \in Nat
  BY LongestDuration
<1>f. \A x \in Sound(p), f \in SUBSET Flags :
        /\ x.flags \cup f \in SUBSET Flags /\ x.flags \ f \in SUBSET Flags
        /\ [x EXCEPT !.flags = @ \cup f] \in Sound(p)
        /\ [x EXCEPT !.flags = @ \ f] \in Sound(p)
  <2> TAKE x \in Sound(p), f \in SUBSET Flags
  <2>1. x.flags \in SUBSET Flags
    BY DEF Sound, PortType
  <2>2. x.flags \cup f \in SUBSET Flags /\ x.flags \ f \in SUBSET Flags
    BY <2>1
  <2>3. QED BY <2>2 DEF Sound, PortType
<1>c. CheckRoles \in SUBSET Flags
  BY DEF CheckRoles, Flags
<1> HIDE DEF r
<1>w. ASSUME NEW state \in States, NEW d \in Durations, NEW next \in States,
             Wait(p, state, d, next)
      PROVE  TypeInv'
  BY <1>w, <1>r, <1>u, <1>q DEF Wait, r
<1>a. ASSUME NEW state \in States, NEW m \in Messages, NEW next \in States,
             NEW failed \in States, Ask(p, state, m, next, failed)
      PROVE  TypeInv'
  BY <1>a, <1>r, <1>s, <1>u, <1>t, <1>p, <1>q DEF Ask, r, Durations
<1>1. CASE SrcDisconnected(p)
  <2> DEFINE sink == [r EXCEPT !.power_role = "SINK"]
             off == SetState(sink, "SNK_DISCONNECTED")
             turned == [off EXCEPT !.cc = "RD", !.next_role_swap = T[p]["DRP_SNK"],
                                   !.try_src_marker = T[p]["TRY_WAIT"]]
             seen == [r EXCEPT !.cc_attached = FALSE]
  <2>1. sink \in Sound(p) /\ seen \in Sound(p)
    BY <1>r DEF Sound, PortType
  <2>2. off \in Sound(p) /\ SetState(seen, "SRC_DISCONNECTED_DEBOUNCE") \in Sound(p)
    BY StateNames, <2>1, <1>s
  <2> HIDE DEF off
  <2>3. turned \in Sound(p)
    <3>1. T[p]["DRP_SNK"] \in Nat /\ T[p]["TRY_WAIT"] \in Nat
      BY <1>n DEF Durations
    <3>2. QED BY <2>2, <3>1 DEF Sound, PortType
  <2> HIDE DEF turned, sink, seen
  <2>4. QED BY <1>1, <1>r, <1>q, <2>2, <2>3 DEF SrcDisconnected, r, off, turned, sink, seen
<1>2. CASE SrcDisconnectedDebounce(p)
  <2> DEFINE on == [r EXCEPT !.data_role = "DFP", !.vbus = TRUE, !.rx_enabled = TRUE,
                             !.flags = @ \cup CheckRoles, !.hard_reset_count = 0]
             seen == [r EXCEPT !.cc_debounce = T[p]["CC_DEBOUNCE"], !.cc_attached = TRUE]
  <2>1. on \in Sound(p)
    <3>1. r.flags \cup CheckRoles \in SUBSET Flags
      BY <1>f, <1>r, <1>c
    <3>2. 0 \in 0..PD_HARD_RESET_COUNT
      BY PdAssumption
    <3>3. QED BY <3>1, <3>2, <1>r DEF Sound, PortType
  <2>2. seen \in Sound(p)
    <3>1. T[p]["CC_DEBOUNCE"] \in Nat
      BY <1>n DEF Durations
    <3>2. QED BY <3>1, <1>r DEF Sound, PortType
  <2> HIDE DEF on, seen
  <2>3. /\ SetState(on, "SRC_STARTUP") \in Sound(p)
        /\ SetState(r, "SRC_DISCONNECTED") \in Sound(p)
    BY StateNames, <2>1, <1>r, <1>s
  <2>4. QED BY <1>2, <1>r, <1>q, <2>2, <2>3 DEF SrcDisconnectedDebounce, r, on, seen
<1>3. CASE SrcHardResetRecover(p)
  <2> DEFINE on == [r EXCEPT !.vbus = TRUE]
  <2>1. on \in Sound(p)
    BY <1>r DEF Sound, PortType
  <2> HIDE DEF on
  <2>2. QED BY StateNames, <1>3, <1>r, <1>s, <1>q, <2>1 DEF SrcHardResetRecover, r, on
<1>4. CASE SrcStartup(p)
  <2> DEFINE first == [r EXCEPT !.caps_count = 0, !.snk_cap_count = 0]
  <2>1. first \in Sound(p)
    <3>1. 0 \in 0..PD_CAPS_COUNT /\ 0 \in 0..PD_SNK_CAP_RETRIES + 1
      BY PdAssumption
    <3>2. QED BY <3>1, <1>r DEF Sound, PortType
  <2> HIDE DEF first
  <2>2. QED BY StateNames, <1>4, <1>r, <1>u, <1>q, <2>1 DEF SrcStartup, r, first, Durations
<1>5. CASE SrcDiscovery(p)
  <2> DEFINE x == IF Entered(r) /\ "PREVIOUS_PD_CONN" \in r.flags
                  THEN SetTimeout(r, T[p]["NO_RESPONSE"],
                     IF r.hard_reset_count < PD_HARD_RESET_COUNT
                     THEN "HARD_RESET_SEND" ELSE "SRC_DISCONNECTED")
                  ELSE r
  <2>1. x \in Sound(p) /\ x.caps_count = r.caps_count
    <3>1. x \in Sound(p)
      BY StateNames, <1>r, <1>u DEF Durations
    <3>2. \A t, s : SetTimeout(r, t, s).caps_count = r.caps_count
      BY <1>r DEF SetTimeout, Sound, PortType
    <3>3. QED BY <3>1, <3>2
  <2> HIDE DEF x
  <2>2. ASSUME NEW o \in Transmit(p, x, "SOURCE_CAP"), x.caps_count < PD_CAPS_COUNT
        PROVE  /\ [SetState(o.me, "SRC_NEGOCIATE") EXCEPT
                      !.hard_reset_count = 0, !.caps_count = 0,
                      !.flags = @ \cup {"PREVIOUS_PD_CONN"}] \in Sound(p)
               /\ [o.me EXCEPT !.caps_count = @ + 1] \in Sound(p)
    <3> DEFINE y == SetState(o.me, "SRC_NEGOCIATE")
    <3>1. o.me \in Sound(p) /\ y \in Sound(p)
      BY StateNames, <2>1, <1>t, <1>s DEF Messages
    <3>2. o.me.caps_count = x.caps_count
      BY <2>1, TcpcRunCounts DEF Transmit, Outcome
    <3>3. y.flags \cup {"PREVIOUS_PD_CONN"} \in SUBSET Flags
      <4>1. {"PREVIOUS_PD_CONN"} \in SUBSET Flags
        BY DEF Flags
      <4>2. QED BY <4>1, <3>1, <1>f
    <3>4. /\ 0 \in 0..PD_HARD_RESET_COUNT /\ 0 \in 0..PD_CAPS_COUNT
          /\ o.me.caps_count + 1 \in 0..PD_CAPS_COUNT
      BY PdAssumption, <2>2, <3>1, <3>2 DEF Sound, PortType
    <3> HIDE DEF y
    <3>5. [y EXCEPT !.hard_reset_count = 0, !.caps_count = 0,
                    !.flags = @ \cup {"PREVIOUS_PD_CONN"}] \in Sound(p)
      BY <3>1, <3>3, <3>4 DEF Sound, PortType
    <3>6. [o.me EXCEPT !.caps_count = @ + 1] \in Sound(p)
      BY <3>1, <3>4 DEF Sound, PortType
    <3>7. QED BY <3>5, <3>6 DEF y
  <2>3. CASE x.caps_count < PD_CAPS_COUNT
    <3>1. PICK o \in Transmit(p, x, "SOURCE_CAP") :
            Pass(p, IF o.sent
                    THEN [SetState(o.me, "SRC_NEGOCIATE") EXCEPT
                            !.hard_reset_count = 0, !.caps_count = 0,
                            !.flags = @ \cup {"PREVIOUS_PD_CONN"}]
                    ELSE [o.me EXCEPT !.caps_count = @ + 1], o)
      BY <1>5, <2>3 DEF SrcDiscovery, r, x
    <3>2. SoundOutcome(p, o)
      BY <2>1, <1>t DEF Messages
    <3>3. QED BY <3>1, <3>2, <2>2, <2>3, <1>p
  <2>4. CASE ~(x.caps_count < PD_CAPS_COUNT)
    BY <1>5, <2>1, <2>4, <1>q DEF SrcDiscovery, r, x
  <2>5. QED BY <2>3, <2>4
<1>6. CASE SrcTransition(p)
  <2>1. \A o \in Transmit(p, r, "PS_RDY") :
          [o.me EXCEPT !.vbus = FALSE] \in Sound(p)
    <3> TAKE o \in Transmit(p, r, "PS_RDY")
    <3>1. o.me \in Sound(p)
      BY <1>r, <1>t DEF Messages
    <3>2. QED BY <3>1 DEF Sound, PortType
  <2>2. PICK o \in Transmit(p, r, "PS_RDY") :
          Pass(p, IF o.sent THEN SetState(o.me, "SRC_READY")
                  ELSE SetState([o.me EXCEPT !.vbus = FALSE], "SRC_DISCONNECTED"), o)
    BY <1>6 DEF SrcTransition, r
  <2>3. SoundOutcome(p, o) /\ o.me \in Sound(p)
    BY <1>r, <1>t DEF Messages
  <2>4. /\ SetState(o.me, "SRC_READY") \in Sound(p)
        /\ SetState([o.me EXCEPT !.vbus = FALSE], "SRC_DISCONNECTED") \in Sound(p)
    BY <2>1, <2>3, <1>s, StateNames
  <2>5. QED BY <2>2, <2>3, <2>4, <1>p
<1>g. \A x \in Sound(p) : CheckRole(x) \in Sound(p)
  <2> TAKE x \in Sound(p)
  <2>1. \A f \in {"CHECK_PR_ROLE", "CHECK_DR_ROLE"} :
          [x EXCEPT !.flags = @ \ {f}] \in Sound(p)
    BY <1>f DEF Flags
  <2>2. CheckPrRole(x) \in Sound(p)
    BY <2>1, <1>s, StateNames DEF CheckPrRole
  <2>3. CheckDrRole(x) \in Sound(p)
    BY <2>1, <1>s, StateNames DEF CheckDrRole
  <2>4. QED BY <2>2, <2>3 DEF CheckRole
<1>7. CASE SrcReady(p)
  <2> DEFINE ask == Entered(r) /\ "SNK_CAP_RECVD" \notin r.flags
             asked == IF ask /\ r.snk_cap_count <= PD_SNK_CAP_RETRIES
                      THEN [r EXCEPT !.snk_cap_count = @ + 1] ELSE r
  <2>1. asked \in Sound(p)
    <3>1. CASE r.snk_cap_count <= PD_SNK_CAP_RETRIES
      <4>1. r.snk_cap_count + 1 \in 0..PD_SNK_CAP_RETRIES + 1
        BY PdAssumption, <1>r, <3>1 DEF Sound, PortType
      <4>2. [r EXCEPT !.snk_cap_count = @ + 1] \in Sound(p)
        BY <1>r, <4>1 DEF Sound, PortType
      <4>3. QED BY <4>2, <1>r
    <3>2. QED BY <3>1, <1>r
  <2> HIDE DEF asked
  <2>2. ASSUME NEW o \in Transmit(p, asked, "GET_SINK_CAP")
        PROVE  SoundOutcome(p, o) /\ SetState(o.me, "SRC_GET_SINK_CAP") \in Sound(p)
    <3>1. SoundOutcome(p, o) /\ o.me \in Sound(p)
      BY <1>t, <2>1 DEF Messages
    <3>2. QED BY <3>1, <1>s, StateNames
  <2>3. QED BY <1>7, <2>1, <2>2, <1>r, <1>g, <1>p, <1>q DEF SrcReady, r, ask, asked
<1>8. CASE SrcNegociate(p) \/ SrcAccepted(p) \/ SrcPowered(p) \/ SrcGetSinkCap(p)
             \/ SrcSwapSnkDisable(p) \/ SnkTransition(p) \/ SnkSwapSrcDisable(p)
  BY <1>8, <1>w, StateNames
     DEF SrcNegociate, SrcAccepted, SrcPowered, SrcGetSinkCap, SrcSwapSnkDisable,
         SnkTransition, SnkSwapSrcDisable, Durations
<1>9. CASE DrSwapState(p) \/ SrcSwapInit(p) \/ SnkSwapInit(p) \/ SoftReset(p)
  <2>1. ReadyReturnState(Self(p)) \in States
    BY StateNames DEF ReadyReturnState
  <2>2. {"DR_SWAP", "SOFT_RESET", "SRC_SWAP_INIT", "SNK_SWAP_INIT", "SRC_READY",
         "SNK_READY", "HARD_RESET_SEND"} \subseteq States
    BY StateNames
  <2>3. {"DR_SWAP", "PR_SWAP", "SOFT_RESET"} \subseteq Messages
    BY DEF Messages
  <2>4. CASE DrSwapState(p)
    BY <2>4, <2>1, <2>2, <2>3, <1>a DEF DrSwapState
  <2>5. CASE SrcSwapInit(p)
    BY <2>5, <2>2, <2>3, <1>a DEF SrcSwapInit
  <2>6. CASE SnkSwapInit(p)
    BY <2>6, <2>2, <2>3, <1>a DEF SnkSwapInit
  <2>7. CASE SoftReset(p)
    BY <2>7, <2>2, <2>3, <1>a DEF SoftReset
  <2>8. QED BY <1>9, <2>4, <2>5, <2>6, <2>7
<1>10. CASE SrcSwapSrcDisable(p)
  <2> DEFINE cut == [r EXCEPT !.vbus = FALSE]
  <2>1. cut \in Sound(p)
    BY <1>r DEF Sound, PortType
  <2> HIDE DEF cut
  <2>2. QED BY StateNames, <1>10, <2>1, <1>r, <1>u, <1>q DEF SrcSwapSrcDisable, r, cut, Durations
<1>11. CASE SrcSwapStandby(p)
  <2>1. ASSUME NEW o \in Transmit(p, r, "PS_RDY")
        PROVE  /\ SoundOutcome(p, o) /\ SetState(o.me, "SRC_DISCONNECTED") \in Sound(p)
               /\ SetTimeout([o.me EXCEPT !.cc = "RD", !.power_role = "SINK"],
                             T[p]["PS_SOURCE_ON"], "SNK_DISCONNECTED") \in Sound(p)
    <3> DEFINE x == [o.me EXCEPT !.cc = "RD", !.power_role = "SINK"]
    <3>1. SoundOutcome(p, o) /\ o.me \in Sound(p)
      BY <1>t, <1>r DEF Messages
    <3>2. x \in Sound(p)
      BY <3>1 DEF Sound, PortType
    <3> HIDE DEF x
    <3>3. /\ SetState(o.me, "SRC_DISCONNECTED") \in Sound(p)
          /\ SetTimeout(x, T[p]["PS_SOURCE_ON"], "SNK_DISCONNECTED") \in Sound(p)
      BY <3>1, <3>2, <1>s, <1>u, StateNames DEF Durations
    <3>4. QED BY <3>1, <3>3 DEF x
  <2>2. QED BY <1>11, <2>1, <1>r, <1>p, <1>q DEF SrcSwapStandby, r
<1>12. CASE SnkDisconnected(p)
  <2> DEFINE wait == SetState(r, "SNK_DISCONNECTED_DEBOUNCE")
             debounce == [wait EXCEPT !.hard_reset_count = 0,
                                      !.cc_debounce = T[p]["CC_DEBOUNCE"]]
             role == [r EXCEPT !.power_role = "SOURCE"]
             off == SetState(role, "SRC_DISCONNECTED")
             source == [off EXCEPT !.cc = "RP", !.next_role_swap = T[p]["DRP_SRC"]]
             tried == [r EXCEPT !.flags = @ \ {"TRY_SRC"}]
  <2>1. role \in Sound(p)
    BY <1>r DEF Sound, PortType
  <2> HIDE DEF role
  <2>2. wait \in Sound(p) /\ off \in Sound(p)
    BY <2>1, <1>r, <1>s, StateNames
  <2> HIDE DEF wait, off
  <2>3. /\ T[p]["CC_DEBOUNCE"] \in Nat /\ T[p]["DRP_SRC"] \in Nat
        /\ 0 \in 0..PD_HARD_RESET_COUNT
    BY <1>n, PdAssumption DEF Durations
  <2>4. debounce \in Sound(p) /\ source \in Sound(p)
    BY <2>2, <2>3 DEF Sound, PortType
  <2>5. tried \in Sound(p)
    BY <1>r, <1>f DEF Flags
  <2> HIDE DEF debounce, source, tried
  <2>6. QED BY <1>12, <1>r, <1>q, <2>4, <2>5
         DEF SnkDisconnected, r, wait, debounce, role, off, source, tried
<1>13. CASE SnkDisconnectedDebounce(p)
  <2> DEFINE role == [r EXCEPT !.power_role = "SOURCE", !.cc = "RP"]
             off == SetState(role, "SRC_DISCONNECTED")
             source == [off EXCEPT !.try_src_marker = T[p]["TRY_SRC"],
                                   !.flags = @ \cup {"TRY_SRC"}]
             on == [r EXCEPT !.data_role = "UFP", !.rx_enabled = TRUE,
                             !.flags = @ \cup CheckRoles]
  <2>1. role \in Sound(p)
    BY <1>r DEF Sound, PortType
  <2>2. on \in Sound(p)
    <3>1. r.flags \cup CheckRoles \in SUBSET Flags
      BY <1>f, <1>r, <1>c
    <3>2. QED BY <3>1, <1>r DEF Sound, PortType
  <2> HIDE DEF role, on
  <2>3. /\ off \in Sound(p) /\ SetState(on, "SNK_DISCOVERY") \in Sound(p)
        /\ SetState(r, "SNK_DISCONNECTED") \in Sound(p)
    BY <2>1, <2>2, <1>r, <1>s, StateNames
  <2> HIDE DEF off
  <2>4. source \in Sound(p)
    <3>1. {"TRY_SRC"} \in SUBSET Flags /\ T[p]["TRY_SRC"] \in Nat
      BY <1>n DEF Flags, Durations
    <3>2. off.flags \cup {"TRY_SRC"} \in SUBSET Flags
      BY <3>1, <2>3, <1>f
    <3>3. QED BY <2>3, <3>1, <3>2 DEF Sound, PortType
  <2> HIDE DEF source
  <2>5. QED BY <1>13, <1>r, <1>q, <2>3, <2>4
         DEF SnkDisconnectedDebounce, r, role, off, source, on
<1>14. CASE SnkHardResetRecover(p)
  <2> DEFINE on == VbusProvided(p, r)
             fresh == [r EXCEPT !.vbus_off = FALSE]
             x == IF Entered(r)
                  THEN SetTimeout(fresh, T[p]["SAFE_0V"],
                         IF r.hard_reset_count < PD_HARD_RESET_COUNT
                         THEN "HARD_RESET_SEND" ELSE "SNK_DISCOVERY")
                  ELSE r
             low == [x EXCEPT !.vbus_off = TRUE]
  <2>1. fresh \in Sound(p)
    BY <1>r DEF Sound, PortType
  <2> HIDE DEF fresh
  <2>2. x \in Sound(p)
    BY <2>1, <1>r, <1>u, StateNames DEF Durations
  <2> HIDE DEF x
  <2>3. low \in Sound(p)
    BY <2>2 DEF Sound, PortType
  <2> HIDE DEF low
  <2>4. /\ SetTimeout(low, T[p]["SRC_RECOVER_MAX"], "SNK_DISCONNECTED") \in Sound(p)
        /\ SetState(x, "SNK_DISCOVERY") \in Sound(p)
    BY <2>2, <2>3, <1>s, <1>u, StateNames DEF Durations
  <2>5. QED BY <1>14, <2>2, <2>4, <1>q DEF SnkHardResetRecover, r, fresh, x, low
<1>15. CASE SnkDiscovery(p)
  <2>1. /\ SetTimeout(r, T[p]["SINK_WAIT_CAP"], "HARD_RESET_SEND") \in Sound(p)
        /\ SetTimeout(r, T[p]["NO_RESPONSE"], "SNK_DISCONNECTED") \in Sound(p)
    BY <1>r, <1>u, StateNames DEF Durations
  <2>2. QED BY <1>15, <2>1, <1>r, <1>q DEF SnkDiscovery, r
<1>16. CASE SnkRequested(p)
  <2> DEFINE x == [r EXCEPT !.hard_reset_count = 0]
  <2>1. x \in Sound(p)
    <3>1. 0 \in 0..PD_HARD_RESET_COUNT
      BY PdAssumption
    <3>2. QED BY <3>1, <1>r DEF Sound, PortType
  <2> HIDE DEF x
  <2>2. SetTimeout(x, T[p]["SENDER_RESPONSE"], "HARD_RESET_SEND") \in Sound(p)
    BY <2>1, <1>u, StateNames DEF Durations
  <2>3. QED BY <1>16, <2>2, <1>r, <1>q DEF SnkRequested, r, x
<1>17. CASE SnkReady(p)
  BY <1>17, <1>r, <1>g, <1>q DEF SnkReady, r
<1>18. CASE SnkSwapSnkDisable(p)
  <2>1. SetState(r, "SNK_SWAP_SRC_DISABLE") \in Sound(p)
    BY <1>r, <1>s, StateNames
  <2>2. QED BY <1>18, <2>1, <1>q DEF SnkSwapSnkDisable, r
<1>19. CASE SnkSwapStandby(p)
  <2> DEFINE on == [r EXCEPT !.cc = "RP", !.vbus = TRUE]
  <2>1. on \in Sound(p)
    BY <1>r DEF Sound, PortType
  <2> HIDE DEF on
  <2>2. SetTimeout(on, T[p]["TURN_ON"], "SNK_SWAP_COMPLETE") \in Sound(p)
    BY <2>1, <1>u, StateNames DEF Durations
  <2>3. QED BY <1>19, <2>2, <1>r, <1>q DEF SnkSwapStandby, r, on
<1>20. CASE SnkSwapComplete(p)
  <2>1. ASSUME NEW o \in Transmit(p, r, "PS_RDY")
        PROVE  /\ SoundOutcome(p, o)
               /\ SetState(BecomeSource(o.me), "SRC_DISCOVERY") \in Sound(p)
               /\ SetState(RestoreRd(o.me), "SNK_DISCONNECTED") \in Sound(p)
    <3>1. SoundOutcome(p, o) /\ o.me \in Sound(p)
      BY <1>t, <1>r DEF Messages
    <3>2. 0 \in 0..PD_CAPS_COUNT /\ PD_SNK_CAP_RETRIES + 1 \in 0..PD_SNK_CAP_RETRIES + 1
      BY PdAssumption
    <3>3. BecomeSource(o.me) \in Sound(p) /\ RestoreRd(o.me) \in Sound(p)
      BY <3>1, <3>2 DEF BecomeSource, RestoreRd, Sound, PortType
    <3>4. QED BY <3>1, <3>3, <1>s, StateNames
  <2>2. QED BY <1>20, <2>1, <1>p DEF SnkSwapComplete, r
<1>21. CASE HardResetSend(p)
  <2> DEFINE count == r.hard_reset_count
             more == IF count < PD_HARD_RESET_COUNT THEN count + 1 ELSE count
             sent == r.hard_reset_sent /\ ~Entered(r)
             x == [r EXCEPT !.hard_reset_count = more, !.hard_reset_sent = sent]
  <2>1. x \in Sound(p)
    <3>1. more \in 0..PD_HARD_RESET_COUNT
      BY PdAssumption, <1>r DEF Sound, PortType
    <3>2. sent \in BOOLEAN
      BY <1>r DEF Sound, PortType
    <3> HIDE DEF more, sent
    <3>3. QED BY <3>1, <3>2, <1>r DEF Sound, PortType
  <2> DEFINE next(me) ==
               IF me.power_role = "SOURCE"
               THEN SetTimeout(me, T[p]["PS_HARD_RESET"], "HARD_RESET_EXECUTE")
               ELSE SetState(me, "HARD_RESET_EXECUTE")
  <2> HIDE DEF x
  <2>2. ASSUME NEW o \in TransmitHardReset(p, x)
        PROVE  /\ SoundOutcome(p, o) /\ o.me \in Sound(p)
               /\ next([o.me EXCEPT !.hard_reset_sent = TRUE]) \in Sound(p)
    <3> DEFINE y == [o.me EXCEPT !.hard_reset_sent = TRUE]
    <3>1. SoundOutcome(p, o) /\ o.me \in Sound(p)
      BY <2>1, TransmitHardResetSound DEF SoundOutcome
    <3>2. y \in Sound(p)
      BY <3>1 DEF Sound, PortType
    <3> HIDE DEF y
    <3>3. next(y) \in Sound(p)
      BY <3>2, <1>s, <1>u, StateNames DEF Durations
    <3>4. QED BY <3>1, <3>3 DEF y
  <2>3. CASE x.hard_reset_sent
    <3>1. QuietPass(p, x)
      BY <1>21, <2>3 DEF HardResetSend, r, x
    <3>2. QED BY <3>1, <2>1, <1>q
  <2>4. CASE ~x.hard_reset_sent
    <3>1. PICK o \in TransmitHardReset(p, x) :
            Pass(p, IF o.sent THEN next([o.me EXCEPT !.hard_reset_sent = TRUE])
                    ELSE o.me, o)
      BY <1>21, <2>4 DEF HardResetSend, r, x
    <3>2. QED BY <3>1, <2>2, <1>p
  <2>5. QED BY <2>3, <2>4
<1>22. CASE HardResetExecute(p)
  <2> DEFINE x == IF r.last_state = "SNK_SWAP_STANDBY" THEN [r EXCEPT !.cc = "RD"] ELSE r
  <2>1. x \in Sound(p)
    BY <1>r DEF Sound, PortType
  <2> HIDE DEF x
  <2>2. ExecuteHardReset(p, x) \in Sound(p)
    BY <2>1, ExecuteHardResetSound
  <2>3. QED BY <1>22, <2>2, <1>q DEF HardResetExecute, r, x
<1>23. QED BY <1>1, <1>2, <1>3, <1>4, <1>5, <1>6, <1>7, <1>8, <1>9, <1>10, <1>11, <1>12,
              <1>13, <1>14, <1>15, <1>16, <1>17, <1>18, <1>19, <1>20, <1>21, <1>22
         DEF RunState

-----------------------------------------------------------------------------
(* The other tasks and time.                                               *)

LEMMA AgedSound ==
  ASSUME NEW p \in Ports, NEW r \in Sound(p)
  PROVE  Aged(r) \in Sound(p)
<1>1. \A n \in Nat : Later(n) \in Nat
  BY DEF Later
<1> DEFINE t == IF r.timeout <= 1 THEN r.timeout ELSE r.timeout - 1
           a == Later(r.src_recover)
           b == Later(r.cc_debounce)
           c == Later(r.try_src_marker)
           d == Later(r.next_role_swap)
<1>2. t \in Nat /\ t <= Longest(p) + 1 /\ (t # 0 => r.timeout # 0)
  BY LongestDuration DEF Sound, PortType
<1>3. a \in Nat /\ b \in Nat /\ c \in Nat /\ d \in Nat
  BY <1>1 DEF Sound, PortType
<1> HIDE DEF t, a, b, c, d
<1>4. [r EXCEPT !.timeout = t, !.src_recover = a, !.cc_debounce = b,
                !.try_src_marker = c, !.next_role_swap = d, !.ran = FALSE] \in Sound(p)
  BY <1>2, <1>3 DEF Sound, PortType
<1>5. QED BY <1>4 DEF Aged, t, a, b, c, d

LEMMA CallSound ==
  ASSUME TypeInv, NEW p \in Ports,
         RequestPowerSwap(p) \/ RequestDataSwap(p) \/ PdSoftReset(p) \/ SetDualRole(p)
  PROVE  TypeInv'
<1> DEFINE r == pd[p]
<1>r. r \in Sound(p)
  BY SelfSound
<1> HIDE DEF r
<1>s. \A s \in States : SetState(r, s) \in Sound(p)
  BY <1>r, SetStateSound
<1>c. \A x \in Sound(p) : Called(p, x) => TypeInv'
  BY CalledSound
<1>1. CASE RequestPowerSwap(p)
  <2>1. PowerSwap(r) \in Sound(p)
    BY <1>r, <1>s, StateNames DEF PowerSwap
  <2>2. QED BY <1>1, <2>1, <1>c DEF RequestPowerSwap, r
<1>2. CASE RequestDataSwap(p)
  <2>1. SetState(r, "DR_SWAP") \in Sound(p)
    BY <1>s, StateNames
  <2>2. QED BY <1>2, <2>1, <1>c DEF RequestDataSwap, r
<1>3. CASE PdSoftReset(p)
  <2>1. SetState(r, "SOFT_RESET") \in Sound(p)
    BY <1>s, StateNames
  <2>2. QED BY <1>3, <2>1, <1>c DEF PdSoftReset, r
<1>4. CASE SetDualRole(p)
  <2> DEFINE x == [r EXCEPT !.flags = @ \ {"TRY_SRC"}]
             sink == [x EXCEPT !.power_role = "SINK"]
             off == SetState(sink, "SNK_DISCONNECTED")
  <2>1. x \in Sound(p)
    <3>1. r.flags \in SUBSET Flags
      BY <1>r DEF Sound, PortType
    <3>2. r.flags \ {"TRY_SRC"} \in SUBSET Flags
      BY <3>1
    <3>3. QED BY <3>2, <1>r DEF Sound, PortType
  <2> HIDE DEF x
  <2>2. \A check \in {{}, CheckRoles} :
          [x EXCEPT !.drp = "TOGGLE_ON", !.flags = @ \cup check] \in Sound(p)
    <3> TAKE check \in {{}, CheckRoles}
    <3>1. x.flags \in SUBSET Flags
      BY <2>1 DEF Sound, PortType
    <3>2. x.flags \cup check \in SUBSET Flags
      BY <3>1 DEF CheckRoles, Flags
    <3>3. QED BY <3>2, <2>1 DEF Sound, PortType
  <2>3. [x EXCEPT !.drp = "TOGGLE_OFF"] \in Sound(p)
    BY <2>1 DEF Sound, PortType
  <2>4. sink \in Sound(p)
    BY <2>1 DEF Sound, PortType
  <2> HIDE DEF sink
  <2>5. off \in Sound(p)
    BY <2>4, SetStateSound, StateNames
  <2> HIDE DEF off
  <2>6. [off EXCEPT !.drp = "TOGGLE_OFF", !.cc = "RD"] \in Sound(p)
    BY <2>5 DEF Sound, PortType
  <2>7. QED BY <1>4, <2>2, <2>3, <2>6, <1>c DEF SetDualRole, r, x, sink, off
<1>5. QED BY <1>1, <1>2, <1>3, <1>4

LEMMA EveryPortSound ==
  ASSUME TypeInv, NEW f, pd' = [p \in Ports |-> f[p]],
         \A p \in Ports : f[p] \in Sound(p),
         plugged' \in BOOLEAN, calls' \in 0..MaxCalls, UNCHANGED faults
  PROVE  TypeInv'
<1>1. pd' \in [Ports -> PortType] /\ \A p \in Ports : pd'[p] \in Sound(p)
  BY DEF Sound
<1>2. QED BY <1>1 DEF TypeInv

LEMMA InitSound == Init => TypeInv
<1> SUFFICES ASSUME Init PROVE TypeInv
  OBVIOUS
<1>1. PICK drp \in [Ports -> {"TOGGLE_ON", "TOGGLE_OFF"}] :
        pd = [p \in Ports |-> InitPort(drp[p])]
  BY DEF Init
<1>2. ASSUME NEW p \in Ports PROVE InitPort(drp[p]) \in Sound(p)
  <2>1. drp[p] \in {"TOGGLE_ON", "TOGGLE_OFF"}
    BY <1>1
  <2>2. /\ 0 \in 0..PD_HARD_RESET_COUNT /\ 0 \in 0..PD_CAPS_COUNT
        /\ 0 \in 0..PD_SNK_CAP_RETRIES + 1 /\ {} \in SUBSET Flags
        /\ <<>> \in Mail
    BY PdAssumption, MailFacts
  <2>3. "SNK_DISCONNECTED" \in States
    BY StateNames
  <2>4. InitPort(drp[p]) \in PortType
    BY <2>1, <2>2, <2>3 DEF InitPort, PortType
  <2>5. InitPort(drp[p]).timeout = 0
    BY DEF InitPort
  <2>6. QED BY <2>4, <2>5, LongestDuration DEF Sound
<1>3. pd \in [Ports -> PortType] /\ \A p \in Ports : pd[p] \in Sound(p)
  BY <1>1, <1>2 DEF Sound
<1>4. plugged \in BOOLEAN /\ calls \in 0..MaxCalls /\ faults \in 0..MaxFaults
  BY PdAssumption DEF Init
<1>5. QED BY <1>3, <1>4 DEF TypeInv

LEMMA NextSound == TypeInv /\ [Next]_vars => TypeInv'
<1> SUFFICES ASSUME TypeInv, [Next]_vars PROVE TypeInv'
  OBVIOUS
<1>s. \A p \in Ports : pd[p] \in Sound(p)
  BY DEF TypeInv
<1>1. CASE Tick
  <2> DEFINE f == [p \in Ports |-> Aged(pd[p])]
  <2>1. \A p \in Ports : f[p] \in Sound(p)
    BY <1>s, AgedSound
  <2>2. QED BY <1>1, <2>1, EveryPortSound DEF Tick, TypeInv
<1>2. CASE Plug
  <2> DEFINE f == [p \in Ports |-> [pd[p] EXCEPT !.ran = FALSE]]
  <2>1. ASSUME NEW p \in Ports PROVE f[p] \in Sound(p)
    <3>1. pd[p] \in Sound(p)
      BY <1>s
    <3>2. [pd[p] EXCEPT !.ran = FALSE] \in Sound(p)
      BY <3>1 DEF Sound, PortType
    <3>3. QED BY <3>2
  <2>2. calls' \in 0..MaxCalls /\ plugged' \in BOOLEAN
    BY <1>2, PdAssumption DEF Plug, TypeInv
  <2>3. QED BY <1>2, <2>1, <2>2, EveryPortSound DEF Plug
<1>3. ASSUME NEW p \in Ports, Step(p) PROVE TypeInv'
  BY <1>3, ReceiveSound, RunStateSound DEF Step
<1>4. CASE UNCHANGED vars
  BY <1>4 DEF vars, TypeInv, Sound, PortType, Mail, Longest
<1>5. QED BY <1>1, <1>2, <1>3, <1>4, CallSound DEF Next

\* The state of each port stays what the code declares, and a timeout is
\* never further ahead than the longest of the durations, whatever is lost,
\* called for or plugged, and however long things take.
THEOREM TypeCorrect == Spec => []TypeOK
<1>1. TypeInv => TypeOK
  BY DEF TypeInv, TypeOK, Sound
<1>2. QED BY InitSound, NextSound, <1>1, PTL DEF Spec

-----------------------------------------------------------------------------
(* The invariant of two ports that lose nothing: PortOK of each, and       *)
(* PairOK of each with the other.                                          *)

\* What the invariant reads of a port.  The proofs keep these definitions
\* hidden: all they say of a port is which of them a step changes.
State(r) == r.task_state
From(r) == r.last_state
Goal(r) == r.timeout_state
Fresh(r) == r.timeout = 0
Last(r) == r.timeout = 1
Sink(r) == r.power_role = "SINK"
Rp(r) == r.cc = "RP"
On(r) == r.vbus
Off(r) == r.vbus_off
Hears(r) == r.rx_enabled
News(r) == IF r.rx = <<>> THEN "none" ELSE Head(r.rx)
Single(r) == r.rx = <<>> \/ r.rx = <<Head(r.rx)>>
Hit(r) == r.hard_rst
Waits(r) == r.step = "wait"
Ran(r) == r.ran
Packet(r) == r.incoming_packet

Got(r, m) == News(r) = m
In(r, S) == State(r) \in S
Enters(r) == From(r) # State(r)

Away == Disconnected \cup Debouncing
SinkStates ==
  {"SNK_DISCONNECTED", "SNK_DISCONNECTED_DEBOUNCE", "SNK_HARD_RESET_RECOVER",
   "SNK_DISCOVERY", "SNK_REQUESTED", "SNK_TRANSITION", "SNK_READY",
   "SNK_SWAP_INIT", "SNK_SWAP_SNK_DISABLE", "SNK_SWAP_SRC_DISABLE",
   "SNK_SWAP_STANDBY", "SNK_SWAP_COMPLETE"}
SourceStates ==
  {"SRC_DISCONNECTED", "SRC_DISCONNECTED_DEBOUNCE", "SRC_HARD_RESET_RECOVER",
   "SRC_STARTUP", "SRC_DISCOVERY", "SRC_NEGOCIATE", "SRC_ACCEPTED",
   "SRC_POWERED", "SRC_TRANSITION", "SRC_READY", "SRC_GET_SINK_CAP",
   "SRC_SWAP_INIT", "SRC_SWAP_SNK_DISABLE", "SRC_SWAP_SRC_DISABLE"}

\* The role, the resistor and VBUS.
RoleOK(r) ==
  /\ In(r, SinkStates) => Sink(r)
  /\ In(r, SourceStates) => ~Sink(r)
  /\ ~Sink(r) => Rp(r)
  /\ Sink(r) => In(r, NewSource) \/ (~Rp(r) /\ ~On(r))
  /\ ~Sink(r) => \/ On(r)
                 \/ In(r, {"SRC_DISCONNECTED", "SRC_DISCONNECTED_DEBOUNCE",
                           "SRC_HARD_RESET_RECOVER", "SRC_SWAP_SRC_DISABLE",
                           "SRC_SWAP_STANDBY"})

\* The states in which a port asks something and waits for the answer.
Asking == {"SNK_REQUESTED", "SRC_GET_SINK_CAP", "DR_SWAP", "SNK_SWAP_INIT",
           "SRC_SWAP_INIT", "SOFT_RESET"}
Question(r) ==
  CASE In(r, {"SNK_REQUESTED"}) -> "REQUEST"
    [] In(r, {"SRC_GET_SINK_CAP"}) -> "GET_SINK_CAP"
    [] In(r, {"DR_SWAP"}) -> "DR_SWAP"
    [] In(r, {"SOFT_RESET"}) -> "SOFT_RESET"
    [] OTHER -> "PR_SWAP"

\* Where the timeout of a state leads.
Leads(r, next) ==
  \/ /\ In(r, {"DR_SWAP", "SRC_SWAP_INIT", "SNK_SWAP_INIT"})
     /\ next = IF Sink(r) THEN "SNK_READY" ELSE "SRC_READY"
  \/ State(r) = "SRC_STARTUP" /\ next = "SRC_DISCOVERY"
  \/ State(r) = "SRC_DISCOVERY" /\ next \in {"HARD_RESET_SEND", "SRC_DISCONNECTED"}
  \/ State(r) = "SRC_ACCEPTED" /\ next = "SRC_POWERED"
  \/ State(r) = "SRC_POWERED" /\ next = "SRC_TRANSITION"
  \/ State(r) = "SRC_SWAP_SNK_DISABLE" /\ next = "SRC_SWAP_SRC_DISABLE"
  \/ State(r) = "SRC_SWAP_SRC_DISABLE" /\ next = "SRC_SWAP_STANDBY"
  \/ State(r) = "SRC_SWAP_STANDBY" /\ next = "SNK_DISCONNECTED"
  \/ State(r) = "SNK_HARD_RESET_RECOVER" /\ Off(r) /\ next = "SNK_DISCONNECTED"
  \/ State(r) = "SNK_HARD_RESET_RECOVER" /\ ~Off(r)
       /\ next \in {"HARD_RESET_SEND", "SNK_DISCOVERY"}
  \/ State(r) = "SNK_DISCOVERY" /\ next \in {"HARD_RESET_SEND", "SNK_DISCONNECTED"}
  \/ State(r) = "SNK_SWAP_STANDBY" /\ next = "SNK_SWAP_COMPLETE"
  \/ State(r) = "HARD_RESET_SEND" /\ next = "HARD_RESET_EXECUTE"
  \/ /\ In(r, {"SRC_NEGOCIATE", "SOFT_RESET", "SNK_REQUESTED", "SNK_TRANSITION",
               "SNK_SWAP_SRC_DISABLE"})
     /\ next = "HARD_RESET_SEND"

\* The states whose handler may still have to run when a message has been
\* handled: those the message leads to, and those it leaves as they are.
RunNew ==
  {"DR_SWAP", "HARD_RESET_SEND", "SNK_DISCOVERY", "SNK_REQUESTED", "SNK_SWAP_INIT",
   "SNK_SWAP_SNK_DISABLE", "SNK_SWAP_STANDBY", "SNK_TRANSITION", "SOFT_RESET",
   "SRC_ACCEPTED", "SRC_HARD_RESET_RECOVER", "SRC_SWAP_INIT", "SRC_SWAP_SNK_DISABLE"}
RunOn == Ready \cup
  {"SNK_HARD_RESET_RECOVER", "SRC_DISCOVERY", "SRC_NEGOCIATE", "SRC_STARTUP"}

\* What may arrive between the handling of a message and the handler of the state.
Heeding(r) ==
  \/ State(r) = "SNK_DISCOVERY" /\ Got(r, "SOURCE_CAP")
  \/ State(r) = "SNK_REQUESTED" /\ Got(r, "ACCEPT")
  \/ State(r) = "SNK_READY" /\ News(r) \in {"DR_SWAP", "PR_SWAP", "SOFT_RESET", "SOURCE_CAP"}
  \/ State(r) = "SRC_READY" /\ News(r) \in {"DR_SWAP", "PR_SWAP", "SOFT_RESET"}

\* A port hears unless it is disconnected, at most one message waits for it,
\* and a message is handled in the pass that reads it.
MailOK(r) ==
  /\ Single(r)
  /\ Hears(r) <=> ~In(r, Away)
  /\ Hit(r) => Hears(r)
  /\ ~Waits(r) => /\ In(r, RunOn \cup RunNew) /\ Packet(r)
                  /\ ~Got(r, "none") => Heeding(r)
                  /\ Hit(r) => In(r, Ready)

\* When a state has its timeout, and that it leads where the state expects.
TimeOK(r) ==
  /\ ~Fresh(r) => ~Enters(r) /\ Leads(r, Goal(r))
  /\ ~Waits(r) /\ In(r, RunNew) => Enters(r) /\ Fresh(r)
  /\ In(r, Asking \cup {"SNK_TRANSITION", "HARD_RESET_SEND"}) /\ Fresh(r) => Enters(r)
  /\ In(r, {"SNK_REQUESTED", "SNK_TRANSITION"}) /\ Waits(r) => ~Fresh(r)
  /\ In(r, {"SNK_SWAP_SNK_DISABLE"}) => ~Waits(r)
  /\ In(r, {"SRC_GET_SINK_CAP"}) => Fresh(r) /\ Waits(r)
  /\ In(r, {"SOFT_RESET"}) /\ Enters(r) => ~Ran(r)
  /\ In(r, {"HARD_RESET_SEND"}) /\ Sink(r) => Fresh(r) /\ (Waits(r) => ~Ran(r))
  /\ In(r, {"HARD_RESET_EXECUTE"}) =>
       ~Ran(r) /\ Waits(r) /\ From(r) = "HARD_RESET_SEND"
  /\ In(r, {"SNK_HARD_RESET_RECOVER"}) =>
       IF Enters(r) THEN ~Ran(r) ELSE ~Fresh(r)

\* VBUS and the resistor in the last states of a swap.
SwapOK(r) ==
  /\ In(r, {"SRC_SWAP_SRC_DISABLE"}) =>
       Waits(r) /\ IF Enters(r) THEN On(r) ELSE ~On(r) /\ ~Fresh(r)
  /\ In(r, {"SRC_SWAP_STANDBY"}) =>
       /\ ~On(r) /\ Waits(r)
       /\ IF Sink(r) THEN ~Fresh(r) ELSE Fresh(r) /\ Enters(r) /\ Got(r, "none")
  /\ In(r, {"SNK_SWAP_STANDBY"}) =>
       IF Fresh(r) THEN ~Rp(r) /\ ~On(r) /\ ~Waits(r) /\ Enters(r)
       ELSE Rp(r) /\ On(r) /\ Waits(r)
  /\ In(r, {"SNK_SWAP_COMPLETE"}) => Rp(r) /\ On(r) /\ Waits(r)

\* The states in which a source, and a sink, may be asked for a swap.
SourceAsked == {"DR_SWAP", "HARD_RESET_SEND", "SOFT_RESET", "SRC_DISCOVERY",
                "SRC_NEGOCIATE", "SRC_READY", "SRC_STARTUP", "SRC_SWAP_INIT"}

\* A state is not entered from one that a message leads to.
FromOK(r) ==
  Waits(r) =>
    /\ In(r, {"SNK_DISCOVERY", "SNK_READY", "SNK_TRANSITION"}) =>
         From(r) # "SNK_REQUESTED"
    /\ In(r, {"DR_SWAP", "SNK_READY", "SNK_SWAP_INIT", "SOFT_RESET", "SRC_SWAP_STANDBY"}) =>
         From(r) # "SNK_DISCOVERY"
    /\ In(r, {"DR_SWAP", "SNK_READY", "SNK_SWAP_INIT", "SOFT_RESET", "HARD_RESET_SEND"}) =>
         From(r) # "SNK_SWAP_SNK_DISABLE"
    /\ In(r, SourceAsked) => From(r) # "SRC_SWAP_SNK_DISABLE"
    /\ In(r, {"SNK_SWAP_SRC_DISABLE"}) => From(r) # "SNK_SWAP_STANDBY"
    /\ In(r, {"SNK_REQUESTED"}) => From(r) # "SNK_TRANSITION"
    /\ In(r, {"SRC_NEGOCIATE"}) => From(r) # "SRC_ACCEPTED"
    /\ In(r, {"SNK_DISCOVERY"}) => From(r) # "HARD_RESET_SEND"
    /\ In(r, Ready) =>
         From(r) \notin {"DR_SWAP", "SNK_DISCOVERY", "SNK_SWAP_INIT", "SRC_SWAP_INIT",
                      "SNK_SWAP_SNK_DISABLE", "SRC_SWAP_SNK_DISABLE"}

PortOK(r) == RoleOK(r) /\ MailOK(r) /\ TimeOK(r) /\ SwapOK(r) /\ FromOK(r)

SinkAsked == {"DR_SWAP", "HARD_RESET_SEND", "SNK_READY", "SNK_SWAP_INIT", "SOFT_RESET"}

Asked(r) == In(r, IF Sink(r) THEN SinkAsked ELSE SourceAsked)
\* A port that is about to ask something, and has not asked yet, is idle.
Busy == {"DR_SWAP", "SOFT_RESET", "HARD_RESET_SEND", "SNK_SWAP_INIT", "SRC_SWAP_INIT"}
Idle(r) == In(r, Busy) => Fresh(r)
Opposed(r, o) == IF Sink(r) THEN ~Sink(o) ELSE Sink(o)
Resetting(o) == In(o, {"HARD_RESET_SEND", "HARD_RESET_EXECUTE"})
\* o has not reset r yet, unless the reset waits at r.
Leaving(r, o) == In(o, {"HARD_RESET_SEND"}) \/ (In(o, {"HARD_RESET_EXECUTE"}) /\ Hit(r))
ResetSinks == {"SNK_HARD_RESET_RECOVER", "SNK_DISCONNECTED", "SNK_DISCONNECTED_DEBOUNCE",
               "SNK_DISCOVERY"}

\* What r is told by o, and what the two are while the message waits.
Told(r, o) ==
  /\ Got(r, "SOURCE_CAP") =>
       /\ In(o, {"SRC_NEGOCIATE"}) /\ Waits(o) /\ Fresh(o) /\ Enters(o)
       /\ Sink(r) /\ Idle(r)
       /\ In(r, {"DR_SWAP", "HARD_RESET_SEND", "SNK_DISCOVERY", "SNK_HARD_RESET_RECOVER",
                 "SNK_READY", "SNK_SWAP_INIT"})
       /\ In(r, {"SNK_HARD_RESET_RECOVER"}) => ~Fresh(r)
  /\ Got(r, "REQUEST") =>
       In(r, {"SRC_NEGOCIATE"}) /\ Waits(r) /\ In(o, {"SNK_REQUESTED"})
  /\ Got(r, "GET_SINK_CAP") =>
       /\ In(o, {"SRC_GET_SINK_CAP"})
       /\ Sink(r) /\ Waits(r) /\ Fresh(r) /\ In(r, {"SNK_READY", "DR_SWAP", "SNK_SWAP_INIT"})
  /\ Got(r, "SINK_CAP") =>
       /\ In(r, {"SRC_GET_SINK_CAP"})
       /\ Sink(o) /\ Fresh(o) /\ In(o, {"DR_SWAP", "SNK_READY", "SNK_SWAP_INIT",
                                        "SOFT_RESET"})
       /\ In(o, {"SOFT_RESET"}) => Waits(o)
  /\ News(r) \in {"PR_SWAP", "DR_SWAP", "SOFT_RESET"} =>
       Asked(r) /\ Idle(r) /\ ~Hit(r) /\ Waits(o) /\ Opposed(r, o) /\ ~Fresh(o)
  /\ Got(r, "PR_SWAP") => In(o, {"SNK_SWAP_INIT", "SRC_SWAP_INIT"})
  /\ Got(r, "DR_SWAP") => In(o, {"DR_SWAP"})
  /\ Got(r, "SOFT_RESET") =>
       In(o, {"SOFT_RESET"}) /\ ~In(r, {"SOFT_RESET", "SRC_DISCOVERY", "SRC_NEGOCIATE",
                                        "HARD_RESET_SEND"})

\* After an answer r knows the state of o, up to a reset of o.
Settling(r, o) ==
  /\ Opposed(r, o)
  /\ Idle(o) \/ (In(o, {"HARD_RESET_SEND"}) /\ Hit(r))
  /\ \/ Asked(o)
     \/ In(o, {"SRC_DISCONNECTED"})
     \/ In(o, {"HARD_RESET_EXECUTE"}) /\ Hit(r) /\ Sink(o)

\* What o answered r, and what the two are while the answer waits.
Answered(r, o) ==
  /\ Got(r, "ACCEPT") =>
       \/ In(r, {"SNK_REQUESTED"}) /\ In(o, {"SRC_ACCEPTED"})
       \/ In(r, {"SOFT_RESET"}) /\ Waits(r) /\ In(o, {"SNK_DISCOVERY", "SRC_DISCOVERY"})
            /\ Opposed(r, o) /\ ~Last(o)
       \/ In(r, {"DR_SWAP"}) /\ Waits(r) /\ ~Fresh(r) /\ Settling(r, o)
       \/ In(r, {"SNK_SWAP_INIT"}) /\ Waits(r) /\ ~Hit(r)
            /\ In(o, {"SRC_SWAP_SNK_DISABLE"}) /\ (Fresh(o) <=> ~Waits(o))
       \/ In(r, {"SRC_SWAP_INIT"}) /\ Waits(r) /\ ~Hit(r)
            /\ In(o, {"SNK_SWAP_SNK_DISABLE", "SNK_SWAP_SRC_DISABLE"})
  /\ Got(r, "REJECT") =>
       /\ In(r, {"DR_SWAP", "SNK_SWAP_INIT", "SRC_SWAP_INIT"}) /\ Waits(r) /\ ~Fresh(r)
       /\ Settling(r, o)
  /\ Got(r, "PS_RDY") =>
       /\ Waits(r) /\ Waits(o)
       /\ \/ /\ In(r, {"SNK_SWAP_SRC_DISABLE"}) /\ ~Hit(r)
             /\ In(o, {"SRC_SWAP_STANDBY"}) /\ Sink(o)
          \/ /\ Sink(r) /\ ~Sink(o) /\ Fresh(o) /\ Enters(o)
             /\ \/ /\ In(r, {"SNK_DISCOVERY", "SRC_SWAP_STANDBY", "HARD_RESET_SEND"})
                   /\ In(o, {"SRC_DISCOVERY"})
                \/ /\ In(r, {"SNK_TRANSITION", "HARD_RESET_SEND"})
                   /\ In(o, {"SRC_READY", "SRC_SWAP_INIT", "DR_SWAP"})
  \* a question is under way, or its answer is
  /\ In(r, Asking) /\ (~Fresh(r) \/ In(r, {"SRC_GET_SINK_CAP"})) =>
       ~Got(r, "none") \/ Got(o, Question(r))

\* What each state of r says of the state of o: the contract.
Contract(r, o) ==
  /\ In(r, {"SRC_ACCEPTED", "SRC_POWERED", "SRC_TRANSITION"}) =>
       /\ Got(r, "none") /\ Sink(o)
       /\ Waits(o) \/ In(r, {"SRC_ACCEPTED"})
       /\ \/ Leaving(r, o) \/ In(o, {"SNK_TRANSITION"})
          \/ In(o, {"SNK_REQUESTED"}) /\ In(r, {"SRC_ACCEPTED"}) /\ Got(o, "ACCEPT")
  /\ ~Sink(r) /\ In(r, {"SRC_READY", "SRC_SWAP_INIT", "DR_SWAP", "SRC_GET_SINK_CAP"}) =>
       /\ Sink(o)
       /\ \/ Leaving(r, o)
          \/ In(o, {"SNK_TRANSITION"}) /\ Got(o, "PS_RDY")
          \/ In(o, {"DR_SWAP", "SNK_READY", "SNK_SWAP_INIT", "SOFT_RESET"})
          \/ In(r, {"SRC_SWAP_INIT"}) /\ Got(r, "ACCEPT")
  /\ In(r, {"SRC_READY"}) /\ Waits(r) /\ Enters(r) =>
       ~In(o, {"SOFT_RESET"}) /\ (In(o, {"HARD_RESET_SEND"}) => Got(o, "PS_RDY"))
  /\ In(r, {"SNK_REQUESTED"}) =>
       \/ Got(r, "ACCEPT") /\ In(o, {"SRC_ACCEPTED"})
       \/ Got(r, "none") /\ Got(o, "REQUEST")
  /\ In(r, {"SNK_TRANSITION"}) =>
       \/ Got(r, "none") /\ In(o, {"SRC_ACCEPTED", "SRC_POWERED", "SRC_TRANSITION"})
       \/ Got(r, "PS_RDY")

\* The resets.
Reset(r, o) ==
  /\ ~Sink(r) /\ In(r, {"SOFT_RESET"}) =>
       /\ Sink(o)
       /\ \/ In(o, {"SNK_READY", "SNK_SWAP_INIT", "DR_SWAP"})
          \/ In(o, {"SNK_DISCOVERY"}) /\ Got(r, "ACCEPT")
  /\ Sink(r) /\ In(r, {"SOFT_RESET"}) =>
       /\ ~In(o, {"SRC_NEGOCIATE", "HARD_RESET_SEND"})
       /\ In(o, {"SRC_DISCOVERY"}) => Got(r, "ACCEPT")
       /\ In(o, {"SRC_STARTUP"}) => ~Last(o)
  /\ Hit(r) =>
       /\ ~Hit(o) /\ Got(o, "none") /\ Waits(o)
       /\ IF Sink(o) THEN In(o, {"HARD_RESET_EXECUTE"})
          ELSE In(o, {"HARD_RESET_SEND"}) /\ ~Fresh(o) /\ ~Last(o)
  /\ ~Sink(r) /\ In(r, {"HARD_RESET_SEND"}) /\ ~Fresh(r) /\ ~Hit(o) =>
       /\ Got(o, "none") /\ Got(r, "none")
       /\ Leaving(r, o) \/ In(o, ResetSinks)
  /\ In(r, {"HARD_RESET_EXECUTE"}) =>
       /\ Got(r, "none")
       /\ IF Sink(r)
          THEN \/ Hit(o)
               \/ ~Last(o) /\ In(o, {"SNK_HARD_RESET_RECOVER", "SRC_HARD_RESET_RECOVER",
                                     "SRC_DISCONNECTED", "SRC_DISCONNECTED_DEBOUNCE",
                                     "SRC_STARTUP"})
          ELSE Sink(o) /\ (Leaving(r, o) \/ In(o, ResetSinks))
  /\ In(r, {"SRC_HARD_RESET_RECOVER"}) =>
       /\ Got(r, "none") /\ Sink(o)
       /\ Resetting(o) \/ In(o, ResetSinks)
  /\ In(r, {"SNK_HARD_RESET_RECOVER"}) /\ Enters(r) =>
       ~Last(o) /\ ~In(o, {"SRC_DISCOVERY", "SRC_NEGOCIATE"})

\* The power swap.
Swap(r, o) ==
  /\ In(r, {"SNK_SWAP_SNK_DISABLE", "SNK_SWAP_SRC_DISABLE"}) =>
       /\ ~Hit(r) /\ ~Hit(o)
       /\ \/ Got(r, "none") /\ In(o, {"SRC_SWAP_INIT"}) /\ Got(o, "ACCEPT")
          \/ Got(r, "none") /\ In(o, {"SRC_SWAP_SNK_DISABLE"}) /\ Got(o, "none")
          \/ /\ In(r, {"SNK_SWAP_SRC_DISABLE"}) /\ Got(o, "none")
             /\ \/ Got(r, "none") /\ In(o, {"SRC_SWAP_SRC_DISABLE"})
                \/ /\ In(o, {"SRC_SWAP_STANDBY"})
                   /\ IF Sink(o) THEN Got(r, "PS_RDY") ELSE Got(r, "none")
  /\ In(r, NewSource) =>
       /\ Got(r, "none") /\ Got(o, "none") /\ Waits(o) /\ Sink(o)
       /\ Resetting(o) \/ In(o, {"SRC_SWAP_STANDBY", "SNK_DISCONNECTED",
                                 "SNK_DISCONNECTED_DEBOUNCE", "SNK_DISCOVERY"})
       /\ In(o, {"HARD_RESET_EXECUTE"}) => Hit(r)
       /\ ~Rp(r) => In(o, {"SRC_SWAP_STANDBY"})
  /\ In(r, {"SRC_SWAP_SNK_DISABLE", "SRC_SWAP_SRC_DISABLE"}) =>
       /\ Got(r, "none") /\ ~Hit(o)
       /\ Resetting(o) => /\ Sink(o) /\ Got(o, "none") /\ Waits(o)
                          /\ In(o, {"HARD_RESET_EXECUTE"}) => Hit(r)
  /\ In(r, {"SRC_SWAP_SNK_DISABLE"}) =>
       \/ In(o, {"SNK_SWAP_INIT"}) /\ Got(o, "ACCEPT")
       \/ In(o, {"SNK_SWAP_SNK_DISABLE", "SNK_SWAP_SRC_DISABLE"}) /\ Got(o, "none")
       \/ Resetting(o)
  /\ In(r, {"SRC_SWAP_SRC_DISABLE"}) =>
       \/ In(o, {"SNK_SWAP_SRC_DISABLE"}) /\ Got(o, "none") /\ Waits(o)
       \/ In(o, {"SNK_DISCONNECTED", "SNK_DISCONNECTED_DEBOUNCE"}) /\ ~On(r)
       \/ Resetting(o) /\ ~Last(r)
  /\ In(r, {"SRC_SWAP_STANDBY"}) =>
       IF Sink(r)
       THEN IF Got(r, "none") THEN ~Hit(r) /\ In(o, NewSource \cup {"SNK_SWAP_SRC_DISABLE"})
            ELSE In(o, {"SRC_DISCOVERY"})
       ELSE ~Hit(r) /\ In(o, {"SNK_SWAP_SRC_DISABLE", "SNK_DISCONNECTED",
                              "SNK_DISCONNECTED_DEBOUNCE"})

\* What the two never are together.
Apart(r, o) ==
  /\ ~(Rp(r) /\ Rp(o))
  /\ ~Got(r, "none") => Got(o, "none") /\ ~Hit(o)
  /\ ~Waits(r) /\ ~Waits(o) =>
       \/ In(r, Ready) \/ In(o, Ready)
       \/ In(r, {"SNK_DISCOVERY"}) /\ In(o, {"SRC_DISCOVERY"})
       \/ In(r, {"SNK_REQUESTED", "SNK_TRANSITION"}) /\ In(o, {"SRC_ACCEPTED"})
       \/ In(r, {"SNK_SWAP_SNK_DISABLE"}) /\ In(o, {"SRC_SWAP_SNK_DISABLE"})
       \/ In(o, {"SNK_DISCOVERY"}) /\ In(r, {"SRC_DISCOVERY"})
       \/ In(o, {"SNK_REQUESTED", "SNK_TRANSITION"}) /\ In(r, {"SRC_ACCEPTED"})
       \/ In(o, {"SNK_SWAP_SNK_DISABLE"}) /\ In(r, {"SRC_SWAP_SNK_DISABLE"})
  /\ ~Rp(r) /\ ~Rp(o) =>
       \/ In(r, {"SRC_SWAP_STANDBY"}) \/ In(o, {"SRC_SWAP_STANDBY"})
       \/ /\ In(r, {"HARD_RESET_EXECUTE", "SNK_HARD_RESET_RECOVER", "SNK_DISCONNECTED",
                    "SNK_DISCONNECTED_DEBOUNCE"})
          /\ In(o, {"HARD_RESET_EXECUTE", "SNK_HARD_RESET_RECOVER", "SNK_DISCONNECTED",
                    "SNK_DISCONNECTED_DEBOUNCE"})

PairOK(r, o) ==
  Told(r, o) /\ Answered(r, o) /\ Contract(r, o) /\ Reset(r, o) /\ Swap(r, o) /\ Apart(r, o)

\* The two ports, in either order.
Good(r, o) == PortOK(r) /\ PortOK(o) /\ PairOK(r, o) /\ PairOK(o, r)

-----------------------------------------------------------------------------
(* What a step changes of what the invariant reads.                        *)

Place(r, s) == State(s) = State(r) /\ From(s) = From(r)
Clock(r, s) ==
  (Fresh(s) <=> Fresh(r)) /\ (Last(s) <=> Last(r)) /\ Goal(s) = Goal(r)
Power(r, s) ==
  /\ Sink(s) <=> Sink(r)
  /\ Rp(s) <=> Rp(r)
  /\ On(s) <=> On(r)
  /\ Off(s) <=> Off(r)
Mailbox(r, s) ==
  /\ Hears(s) <=> Hears(r)
  /\ Hit(s) <=> Hit(r)
  /\ News(s) = News(r)
  /\ Single(s) <=> Single(r)
Deaf(s) == ~Hears(s) /\ ~Hit(s) /\ News(s) = "none" /\ Single(s)

\* s is r after a step that the invariant does not see.
Same(r, s) == Place(r, s) /\ Clock(r, s) /\ Power(r, s) /\ Mailbox(r, s)
Keeps(r, s) ==
  /\ Same(r, s)
  /\ Waits(s) <=> Waits(r)
  /\ Packet(s) <=> Packet(r)
  /\ Ran(s) => Ran(r)

\* s is r after set_state(), after set_state_timeout(), and with a message.
Enter(r, s, next) ==
  /\ State(s) = next /\ From(s) = From(r) /\ Fresh(s) /\ ~Last(s) /\ Power(r, s)
  /\ IF next \in Disconnected /\ State(r) \notin Disconnected
     THEN Deaf(s) ELSE Mailbox(r, s)
  /\ (Waits(s) <=> Waits(r)) /\ (Packet(s) <=> Packet(r)) /\ (Ran(s) => Ran(r))
Timed(r, s, next) ==
  /\ Place(r, s) /\ Power(r, s) /\ Mailbox(r, s)
  /\ ~Fresh(s) /\ ~Last(s) /\ Goal(s) = next
Hands(r, s, m) ==
  /\ Place(r, s) /\ Clock(r, s) /\ Power(r, s)
  /\ (Waits(s) <=> Waits(r)) /\ (Packet(s) <=> Packet(r)) /\ (Ran(s) => Ran(r))
  /\ Hears(s) /\ Hears(r) /\ (Hit(s) <=> Hit(r))
  /\ News(r) = "none" /\ News(s) = m /\ Single(s)

-----------------------------------------------------------------------------
(* The parts of a step: the end of a pass, a transmission when nothing is  *)
(* lost, a hard reset, the beginning of a pass and a message that is read. *)

\* The state after the timeout, and whether a disconnection is looked for in
\* it: a sink looks at VBUS, a source at CC.
Reached(x) == IF Last(x) THEN Goal(x) ELSE State(x)
LooksAtVbus(x) ==
  /\ Sink(x)
  /\ Reached(x) \notin Swapping \cup
       {"SNK_DISCONNECTED", "SNK_DISCONNECTED_DEBOUNCE",
        "SNK_HARD_RESET_RECOVER", "HARD_RESET_EXECUTE"}
LooksAtCc(x) ==
  /\ ~Sink(x)
  /\ Reached(x) \notin Swapping \cup {"SRC_DISCONNECTED", "SRC_DISCONNECTED_DEBOUNCE"}

\* A pass of a port, in state this, whose handler leaves x, ends in s; the
\* other port is o.
Expires(x, s) ==
  IF Last(x)
  THEN /\ State(s) = Goal(x) /\ Fresh(s) /\ ~Last(s) /\ Power(x, s)
       /\ IF Goal(x) \in Disconnected /\ State(x) \notin Disconnected
          THEN Deaf(s) ELSE Mailbox(x, s)
  ELSE State(s) = State(x) /\ Clock(x, s) /\ Power(x, s) /\ Mailbox(x, s)

Ends(this, x, o, s) ==
  /\ Waits(s) /\ From(s) = this /\ (Ran(s) <=> State(s) = this)
  /\ \/ /\ Expires(x, s)
        /\ LooksAtVbus(x) => On(x) \/ On(o)
     \/ /\ LooksAtVbus(x) /\ ~On(x) /\ ~On(o)
        /\ State(s) = "SNK_DISCONNECTED" /\ Fresh(s) /\ ~Last(s) /\ Power(x, s)
        /\ Reached(x) \notin Disconnected => Deaf(s)
     \/ LooksAtCc(x) /\ (Rp(x) <=> Rp(o))

\* What y leaves of the partner o when x transmits m.
Spoken(x, o, y, m) ==
  IF Hears(x) /\ Hears(o) /\ News(o) = "none"
  THEN y.sent /\ Hands(o, y.you, m)
  ELSE ~y.sent /\ y.you = o

\* s is o when a hard reset has reached its PHY.
HitBy(o, s) ==
  /\ Place(o, s) /\ Clock(o, s) /\ Power(o, s)
  /\ (Waits(s) <=> Waits(o)) /\ (Packet(s) <=> Packet(o)) /\ (Ran(s) => Ran(o))
  /\ Hears(s) /\ Hit(s) /\ News(s) = News(o) /\ (Single(s) <=> Single(o))

\* What a port is by its type.
Shape(r) ==
  /\ Fresh(r) => ~Last(r)
  /\ State(r) \in States /\ News(r) \in Messages \cup {"none"}

\* s is r after a hard reset that its PHY heard.
Struck(r, s) ==
  /\ State(s) = IF Sink(r) THEN "SNK_HARD_RESET_RECOVER" ELSE "SRC_HARD_RESET_RECOVER"
  /\ From(s) = "HARD_RESET_EXECUTE" /\ Fresh(s) /\ ~Last(s)
  /\ Sink(s) <=> Sink(r)
  /\ Rp(s) <=> Rp(r) /\ ~In(r, NewSource)
  /\ On(s) <=> On(r) /\ Sink(r) /\ ~In(r, NewSource)
  /\ Hears(s) <=> Hears(r)
  /\ News(s) = News(r) /\ (Single(s) <=> Single(r)) /\ ~Hit(s)
  /\ (Waits(s) <=> Waits(r)) /\ (Packet(s) <=> Packet(r)) /\ ~Ran(s)

\* What a pass begins with: w is the port when its hard reset is done, b
\* when its handler runs.
Begins(w, b, o) ==
  /\ Good(w, o) /\ Shape(w) /\ Shape(o) /\ Same(w, b)
  /\ IF Waits(w)
     THEN /\ ~Hit(w) /\ ~Ran(w) /\ News(w) = "none" /\ ~Packet(b)
          /\ ~Hit(o) /\ News(o) = "none" /\ Waits(o)
     ELSE Packet(b)

\* b is r when its message is read.
Taken(r, b) ==
  /\ Place(r, b) /\ Clock(r, b) /\ Power(r, b)
  /\ (Hears(b) <=> Hears(r)) /\ (Hit(b) <=> Hit(r)) /\ (Ran(b) => Ran(r))
  /\ Got(b, "none") /\ Single(b) /\ ~Waits(b) /\ Packet(b)

\* A pass that says nothing, and one that says m: x is the port when its
\* handler is done and s when the pass is, u and v the partner.
Quietly(w, b, x, o, s, v) == Begins(w, b, o) /\ Ends(State(w), x, o, s) /\ Keeps(o, v)
Saying(m, w, b, x, o, u, s, v) ==
  /\ Begins(w, b, o) /\ Ends(State(w), x, o, s) /\ Keeps(u, v)
  /\ Hands(o, u, m)

\* A port takes a message that needs no answer, or answers it with m.
Silently(r, b, o, v) ==
  Good(r, o) /\ Shape(r) /\ Shape(o) /\ Waits(r) /\ ~Hit(r) /\ Taken(r, b) /\ Keeps(o, v)
Answering(m, r, b, o, u, v) ==
  /\ Good(r, o) /\ Shape(r) /\ Shape(o) /\ Waits(r) /\ ~Hit(r) /\ Taken(r, b)
  /\ Keeps(u, v) /\ Hands(o, u, m)

\* x is b in the state next, whatever its power role and resistor.
Moves(b, x, next) ==
  /\ State(x) = next /\ From(x) = From(b) /\ Fresh(x) /\ ~Last(x)
  /\ Hit(x) <=> Hit(b)
  /\ News(x) = News(b) /\ (Single(x) <=> Single(b))

\* A port sees the other's resistor, and VBUS.
Facing(r, o) == IF Rp(r) THEN ~Rp(o) ELSE Rp(o)
Fed(r, o) == On(r) \/ On(o)

\* x is r when a tick has passed, and when another task has called.
Ages(r, x) ==
  /\ Place(r, x) /\ Power(r, x) /\ Mailbox(r, x) /\ ~Ran(x)
  /\ (Fresh(x) <=> Fresh(r)) /\ Goal(x) = Goal(r)
  /\ (Waits(x) <=> Waits(r)) /\ (Packet(x) <=> Packet(r))

-----------------------------------------------------------------------------
(* The invariant survives each part of a step.  A leaf expands the parts   *)
(* of the invariant that it needs, and knows of the ports only what the    *)
(* definitions above say a step changes.                                   *)

USE DEF Shape, States, Messages, Good, PortOK, PairOK, Got, In, Enters, Away,
         Disconnected, Debouncing, SinkStates, SourceStates, Swapping, NewSource, Ready,
         Heeding, RunNew, RunOn, Leads, Asking, Asked, SourceAsked, SinkAsked, Idle,
         Busy, Opposed, Question, Settling, Leaving, Resetting, ResetSinks, Place,
         Clock, Power, Mailbox, Deaf, Same, Keeps, Enter, Timed, Hands, HitBy, Struck,
         Begins, Taken, Reached, LooksAtVbus, LooksAtCc, Expires, Ends, Quietly, Saying,
         Silently, Answering, Moves, Facing, Fed, Ages

\* What the invariant says of one port outlives a step that it does not see.
LEMMA KeepsPort ==
  ASSUME NEW o, NEW v, PortOK(o), Keeps(o, v)
  PROVE  PortOK(v)
BY SMTT(40) DEF RoleOK, MailOK, TimeOK, SwapOK, FromOK

\* A port whose hard reset waits has no message but an answer, and is reset
\* before it goes on.
LEMMA StruckNews ==
  ASSUME NEW r, NEW o, Good(r, o), Hit(r), Shape(r)
  PROVE  News(r) \in {"none", "ACCEPT", "REJECT"}
BY SMTT(40) DEF Told, Answered, Reset

LEMMA StruckGood ==
  ASSUME NEW r, NEW o, NEW s, Good(r, o), Hit(r), Shape(r), Shape(o), Struck(r, s),
         News(r) = "none"
  PROVE  Good(s, o)
<1>1. PortOK(s)
  BY SMTT(40) DEF RoleOK, MailOK, TimeOK, SwapOK, FromOK
<1>2. PortOK(o)
  BY SMTT(40) DEF RoleOK, MailOK, TimeOK, SwapOK, FromOK
<1>3. Told(s, o) /\ Told(o, s) /\ Answered(s, o) /\ Answered(o, s)
  BY SMTT(40) DEF Told, Answered, Reset
<1>4. Contract(s, o) /\ Contract(o, s) /\ Reset(s, o) /\ Reset(o, s)
  BY SMTT(40) DEF RoleOK, TimeOK, Contract, Reset, Apart
<1>5. Swap(s, o) /\ Swap(o, s) /\ Apart(s, o) /\ Apart(o, s)
  BY SMTT(40) DEF RoleOK, Reset, Swap, Apart
<1>6. QED BY <1>1, <1>2, <1>3, <1>4, <1>5

\* An answer that waits is thrown away.
LEMMA StruckAnswered ==
  ASSUME NEW r, NEW o, NEW s, NEW b, Good(r, o), Hit(r), Shape(r), Shape(o), Struck(r, s),
         Place(s, b), Clock(s, b), Power(s, b), Hears(b) <=> Hears(s), Hit(b) <=> Hit(s),
         Got(b, "none"), Single(b), ~Waits(b), Packet(b), Ran(b) => Ran(s),
         ~Got(r, "none")
  PROVE  /\ Good(b, o) /\ In(b, {"SNK_HARD_RESET_RECOVER", "SRC_HARD_RESET_RECOVER"})
<1>1. PortOK(b)
  BY SMTT(40) DEF RoleOK, MailOK, TimeOK, SwapOK, FromOK
<1>2. PortOK(o)
  BY SMTT(40) DEF RoleOK, MailOK, TimeOK, SwapOK, FromOK
<1>3. Told(b, o) /\ Told(o, b) /\ Answered(b, o) /\ Answered(o, b)
  BY SMTT(40) DEF Told, Answered, Reset
<1>4. Contract(b, o) /\ Contract(o, b) /\ Reset(b, o) /\ Reset(o, b)
  BY SMTT(40) DEF Told, Answered, Contract, Reset
<1>5. Swap(b, o) /\ Swap(o, b) /\ Apart(b, o) /\ Apart(o, b)
  BY SMTT(40) DEF RoleOK, Reset, Swap, Apart
<1>6. QED BY <1>1, <1>2, <1>3, <1>4, <1>5

LEMMA NewsHeard ==
  ASSUME NEW r, NEW o, Good(r, o), Shape(r), ~Got(r, "none")
  PROVE  ~In(r, Away)
BY SMTT(40) DEF Told, Answered

LEMMA PassGood ==
  ASSUME NEW r, NEW o, NEW v, Good(r, o), Keeps(o, v)
  PROVE  Good(r, v)
<1>1. PortOK(r)
  BY SMTT(40) DEF RoleOK, MailOK, TimeOK, SwapOK, FromOK
<1>2. PortOK(v)
  BY SMTT(40) DEF RoleOK, MailOK, TimeOK, SwapOK, FromOK
<1>3. Told(r, v) /\ Told(v, r) /\ Answered(r, v) /\ Answered(v, r)
  BY SMTT(40) DEF Told, Answered
<1>4. Contract(r, v) /\ Contract(v, r) /\ Reset(r, v) /\ Reset(v, r)
  BY SMTT(40) DEF Contract, Reset
<1>5. Swap(r, v) /\ Swap(v, r) /\ Apart(r, v) /\ Apart(v, r)
  BY SMTT(40) DEF Swap, Apart
<1>6. QED BY <1>1, <1>2, <1>3, <1>4, <1>5

\* A question finds the partner listening.
LEMMA AnswerHeard ==
  ASSUME NEW r, NEW b, NEW o, Good(r, o), Shape(r), Shape(o), Waits(r), ~Hit(r), Taken(r, b),
         News(r) \in {"SOURCE_CAP", "REQUEST", "GET_SINK_CAP", "SOFT_RESET", "PR_SWAP", "DR_SWAP"}
  PROVE  Hears(b) /\ Hears(o) /\ News(o) = "none" /\ ~Hit(b)
BY SMTT(40) DEF MailOK, Told, Apart

LEMMA SourceCapGood ==
  ASSUME NEW r, NEW b, NEW x, NEW o, NEW u, NEW v, Got(r, "SOURCE_CAP"),
         IF In(b, {"SNK_DISCOVERY", "SNK_TRANSITION", "SNK_READY"})
         THEN Answering("REQUEST", r, b, o, u, v) /\ Enter(b, x, "SNK_REQUESTED")
         ELSE Silently(r, b, o, v) /\ Keeps(b, x)
  PROVE  Good(x, v)
<1>1. RoleOK(x)
  BY SMTT(40) DEF RoleOK
<1>2. MailOK(x)
  BY SMTT(40) DEF MailOK, Told
<1>3. TimeOK(x)
  BY SMTT(40) DEF TimeOK, FromOK, Told
<1>4. SwapOK(x)
  BY SMTT(40) DEF SwapOK, Told
<1>5. FromOK(x)
  BY SMTT(40) DEF FromOK
<1>6. RoleOK(v)
  BY SMTT(40) DEF RoleOK
<1>7. MailOK(v)
  BY SMTT(40) DEF MailOK, Told
<1>8. TimeOK(v)
  BY SMTT(40) DEF TimeOK
<1>9. SwapOK(v)
  BY SMTT(40) DEF SwapOK, Told
<1>10. FromOK(v)
  BY SMTT(40) DEF FromOK
<1>11. Told(x, v) /\ Told(v, x) /\ Answered(x, v) /\ Answered(v, x)
  BY SMTT(40) DEF Told, Answered
<1>12. Contract(x, v) /\ Contract(v, x) /\ Reset(x, v) /\ Reset(v, x)
  BY SMTT(40) DEF Told, Answered, Contract, Reset
<1>13. Swap(x, v) /\ Swap(v, x) /\ Apart(x, v) /\ Apart(v, x)
  BY SMTT(40) DEF Told, Answered, Swap, Apart
<1>14. QED BY <1>1, <1>2, <1>3, <1>4, <1>5, <1>6, <1>7, <1>8, <1>9, <1>10, <1>11, <1>12,
       <1>13

LEMMA RequestGood ==
  ASSUME NEW r, NEW b, NEW x, NEW o, NEW u, NEW v, Got(r, "REQUEST"),
         ~Sink(b) => Answering("ACCEPT", r, b, o, u, v) /\ Enter(b, x, "SRC_ACCEPTED"),
         Sink(b) => Answering("REJECT", r, b, o, u, v) /\ Enter(b, x, "SRC_READY")
  PROVE  Good(x, v)
<1>1. RoleOK(x)
  BY SMTT(40) DEF RoleOK, Told
<1>2. MailOK(x)
  BY SMTT(40) DEF MailOK, Told
<1>3. TimeOK(x)
  BY SMTT(40) DEF TimeOK, FromOK, Told
<1>4. SwapOK(x)
  BY SMTT(40) DEF SwapOK
<1>5. FromOK(x)
  BY SMTT(40) DEF FromOK
<1>6. RoleOK(v)
  BY SMTT(40) DEF RoleOK
<1>7. MailOK(v)
  BY SMTT(40) DEF RoleOK, MailOK, Told
<1>8. TimeOK(v)
  BY SMTT(40) DEF TimeOK
<1>9. SwapOK(v)
  BY SMTT(40) DEF SwapOK, Told
<1>10. FromOK(v)
  BY SMTT(40) DEF FromOK
<1>11. Told(x, v) /\ Told(v, x) /\ Answered(x, v) /\ Answered(v, x)
  BY SMTT(40) DEF RoleOK, Told, Answered
<1>12. Contract(x, v) /\ Contract(v, x) /\ Reset(x, v) /\ Reset(v, x)
  BY SMTT(40) DEF RoleOK, Told, Answered, Contract, Reset
<1>13. Swap(x, v) /\ Swap(v, x) /\ Apart(x, v) /\ Apart(v, x)
  BY SMTT(40) DEF Told, Answered, Swap, Apart
<1>14. QED BY <1>1, <1>2, <1>3, <1>4, <1>5, <1>6, <1>7, <1>8, <1>9, <1>10, <1>11, <1>12,
       <1>13

LEMMA SinkCapGood ==
  ASSUME NEW r, NEW b, NEW x, NEW o, NEW v, Got(r, "SINK_CAP"), Silently(r, b, o, v),
         IF In(b, {"SRC_GET_SINK_CAP"}) THEN Enter(b, x, "SRC_READY") ELSE Keeps(b, x)
  PROVE  Good(x, v)
<1>1. RoleOK(x) /\ MailOK(x)
  BY SMTT(40) DEF RoleOK, MailOK, Told
<1>2. TimeOK(x) /\ SwapOK(x) /\ FromOK(x)
  BY SMTT(40) DEF TimeOK, SwapOK, FromOK, Told
<1>3. PortOK(v)
  BY SMTT(40) DEF RoleOK, MailOK, TimeOK, SwapOK, FromOK
<1>4. Told(x, v) /\ Told(v, x) /\ Answered(x, v) /\ Answered(v, x)
  BY SMTT(40) DEF Told, Answered, Apart
<1>5. Contract(x, v) /\ Contract(v, x) /\ Reset(x, v) /\ Reset(v, x)
  BY SMTT(40) DEF Told, Contract, Reset
<1>6. Swap(x, v) /\ Swap(v, x) /\ Apart(x, v) /\ Apart(v, x)
  BY SMTT(40) DEF Told, Swap, Apart
<1>7. QED BY <1>1, <1>2, <1>3, <1>4, <1>5, <1>6

LEMMA GetSinkCapGood ==
  ASSUME NEW r, NEW b, NEW o, NEW u, NEW v, Got(r, "GET_SINK_CAP"),
         Answering("SINK_CAP", r, b, o, u, v)
  PROVE  Good(b, v)
<1>1. PortOK(b)
  BY SMTT(40) DEF RoleOK, MailOK, TimeOK, SwapOK, FromOK, Told
<1>2. PortOK(v)
  BY SMTT(40) DEF RoleOK, MailOK, TimeOK, SwapOK, FromOK, Told
<1>3. Told(b, v) /\ Told(v, b) /\ Answered(b, v) /\ Answered(v, b)
  BY SMTT(40) DEF Told, Answered
<1>4. Contract(b, v) /\ Contract(v, b) /\ Reset(b, v) /\ Reset(v, b)
  BY SMTT(40) DEF Told, Contract, Reset
<1>5. Swap(b, v) /\ Swap(v, b) /\ Apart(b, v) /\ Apart(v, b)
  BY SMTT(40) DEF MailOK, Told, Swap, Apart
<1>6. QED BY <1>1, <1>2, <1>3, <1>4, <1>5

LEMMA PsRdyGood ==
  ASSUME NEW r, NEW b, NEW x, NEW o, NEW v, Got(r, "PS_RDY"), Silently(r, b, o, v),
         \/ In(b, {"SNK_SWAP_SRC_DISABLE"}) /\ Enter(b, x, "SNK_SWAP_STANDBY")
         \/ /\ In(b, {"SRC_SWAP_STANDBY"}) /\ Moves(b, x, "SNK_DISCOVERY") /\ Sink(x)
            /\ (Rp(x) <=> Rp(b)) /\ (On(x) <=> On(b)) /\ (Hears(x) <=> Hears(b))
            /\ (Waits(x) <=> Waits(b)) /\ (Packet(x) <=> Packet(b))
         \/ In(b, {"SNK_DISCOVERY"}) /\ Enter(b, x, "HARD_RESET_SEND")
         \/ In(b, {"SNK_SWAP_STANDBY"}) /\ Keeps(b, x)
         \/ /\ ~In(b, {"SNK_SWAP_SRC_DISABLE", "SRC_SWAP_STANDBY", "SNK_DISCOVERY",
                       "SNK_SWAP_STANDBY"})
            /\ IF Sink(b) THEN Enter(b, x, "SNK_READY") ELSE Keeps(b, x)
  PROVE  Good(x, v)
<1>1. PortOK(x)
  BY SMTT(40) DEF RoleOK, MailOK, TimeOK, SwapOK, FromOK, Answered
<1>2. RoleOK(v) /\ MailOK(v)
  BY SMTT(40) DEF RoleOK, MailOK
<1>3. TimeOK(v) /\ SwapOK(v) /\ FromOK(v)
  BY SMTT(40) DEF TimeOK, SwapOK, FromOK
<1>4. Told(x, v) /\ Told(v, x) /\ Answered(x, v) /\ Answered(v, x)
  BY SMTT(40) DEF Told, Answered
<1>5. Contract(x, v) /\ Contract(v, x) /\ Reset(x, v) /\ Reset(v, x)
  BY SMTT(40) DEF Answered, Contract, Reset
<1>6. Swap(x, v) /\ Swap(v, x) /\ Apart(x, v) /\ Apart(v, x)
  BY SMTT(40) DEF RoleOK, Answered, Swap, Apart
<1>7. QED BY <1>1, <1>2, <1>3, <1>4, <1>5, <1>6

LEMMA RejectGood ==
  ASSUME NEW r, NEW b, NEW x, NEW o, NEW v, Got(r, "REJECT"), Silently(r, b, o, v),
         \/ In(b, {"DR_SWAP"}) /\ Enter(b, x, IF Sink(b) THEN "SNK_READY" ELSE "SRC_READY")
         \/ In(b, {"SRC_SWAP_INIT"}) /\ Enter(b, x, "SRC_READY")
         \/ In(b, {"SNK_SWAP_INIT", "SNK_REQUESTED"}) /\ Enter(b, x, "SNK_READY")
         \/ /\ ~In(b, {"DR_SWAP", "SRC_SWAP_INIT", "SNK_SWAP_INIT", "SNK_REQUESTED"})
            /\ Keeps(b, x)
  PROVE  Good(x, v)
<1>1. PortOK(x)
  BY SMTT(40) DEF RoleOK, MailOK, TimeOK, SwapOK, FromOK, Answered
<1>2. PortOK(v)
  BY SMTT(40) DEF RoleOK, MailOK, TimeOK, SwapOK, FromOK
<1>3. Told(x, v) /\ Told(v, x) /\ Answered(x, v) /\ Answered(v, x)
  BY SMTT(40) DEF Told, Answered, Apart
<1>4. Contract(x, v) /\ Contract(v, x) /\ Reset(x, v) /\ Reset(v, x)
  BY SMTT(40) DEF Answered, Contract, Reset
<1>5. Swap(x, v) /\ Swap(v, x) /\ Apart(x, v) /\ Apart(v, x)
  BY SMTT(40) DEF Answered, Swap, Apart
<1>6. QED BY <1>1, <1>2, <1>3, <1>4, <1>5

LEMMA AcceptGood ==
  ASSUME NEW r, NEW b, NEW x, NEW o, NEW v, Got(r, "ACCEPT"), Silently(r, b, o, v),
         \/ In(b, {"SOFT_RESET"})
              /\ Enter(b, x, IF Sink(b) THEN "SNK_DISCOVERY" ELSE "SRC_DISCOVERY")
         \/ In(b, {"DR_SWAP"}) /\ Enter(b, x, IF Sink(b) THEN "SNK_READY" ELSE "SRC_READY")
         \/ In(b, {"SRC_SWAP_INIT"}) /\ Enter(b, x, "SRC_SWAP_SNK_DISABLE")
         \/ In(b, {"SNK_SWAP_INIT"}) /\ Enter(b, x, "SNK_SWAP_SNK_DISABLE")
         \/ In(b, {"SNK_REQUESTED"}) /\ Enter(b, x, "SNK_TRANSITION")
         \/ /\ ~In(b, {"SOFT_RESET", "DR_SWAP", "SRC_SWAP_INIT", "SNK_SWAP_INIT",
                       "SNK_REQUESTED"})
            /\ Keeps(b, x)
  PROVE  Good(x, v)
<1>1. PortOK(x)
  BY SMTT(40) DEF RoleOK, MailOK, TimeOK, SwapOK, FromOK, Answered
<1>2. RoleOK(v) /\ MailOK(v)
  BY SMTT(40) DEF RoleOK, MailOK
<1>3. TimeOK(v) /\ SwapOK(v) /\ FromOK(v)
  BY SMTT(40) DEF TimeOK, SwapOK, FromOK
<1>4. Told(x, v) /\ Told(v, x) /\ Answered(x, v) /\ Answered(v, x)
  BY SMTT(40) DEF Told, Answered, Apart
<1>5. Contract(x, v) /\ Contract(v, x) /\ Reset(x, v) /\ Reset(v, x)
  BY SMTT(40) DEF Answered, Contract, Reset
<1>6. Swap(x, v) /\ Swap(v, x) /\ Apart(x, v) /\ Apart(v, x)
  BY SMTT(40) DEF RoleOK, MailOK, Answered, Swap, Apart
<1>7. QED BY <1>1, <1>2, <1>3, <1>4, <1>5, <1>6

LEMMA SoftResetGood ==
  ASSUME NEW r, NEW b, NEW x, NEW o, NEW u, NEW v, Got(r, "SOFT_RESET"),
         Answering("ACCEPT", r, b, o, u, v),
         Enter(b, x, IF Sink(b) THEN "SNK_DISCOVERY" ELSE "SRC_DISCOVERY")
  PROVE  Good(x, v)
<1>1. RoleOK(x) /\ MailOK(x)
  BY SMTT(40) DEF RoleOK, MailOK, Told
<1>2. TimeOK(x) /\ SwapOK(x) /\ FromOK(x)
  BY SMTT(40) DEF TimeOK, SwapOK, FromOK, Told
<1>3. RoleOK(v) /\ MailOK(v)
  BY SMTT(40) DEF RoleOK, MailOK, Told
<1>4. TimeOK(v) /\ SwapOK(v) /\ FromOK(v)
  BY SMTT(40) DEF TimeOK, SwapOK, FromOK, Told
<1>5. Told(x, v) /\ Told(v, x) /\ Answered(x, v) /\ Answered(v, x)
  BY SMTT(40) DEF Told, Answered
<1>6. Contract(x, v) /\ Contract(v, x) /\ Reset(x, v) /\ Reset(v, x)
  BY SMTT(40) DEF Told, Contract, Reset
<1>7. Swap(x, v) /\ Swap(v, x) /\ Apart(x, v) /\ Apart(v, x)
  BY SMTT(40) DEF Told, Swap, Apart
<1>8. QED BY <1>1, <1>2, <1>3, <1>4, <1>5, <1>6, <1>7

LEMMA PrSwapGood ==
  ASSUME NEW r, NEW b, NEW x, NEW o, NEW u, NEW v, Got(r, "PR_SWAP"),
         \/ Answering("ACCEPT", r, b, o, u, v)
              /\ Enter(b, x, IF Sink(b) THEN "SNK_SWAP_SNK_DISABLE" ELSE "SRC_SWAP_SNK_DISABLE")
         \/ Answering("REJECT", r, b, o, u, v) /\ Keeps(b, x)
  PROVE  Good(x, v)
<1>1. RoleOK(x)
  BY SMTT(40) DEF RoleOK, Told
<1>2. MailOK(x)
  BY SMTT(40) DEF MailOK, Told
<1>3. TimeOK(x)
  BY SMTT(40) DEF TimeOK, FromOK, Told
<1>4. SwapOK(x)
  BY SMTT(40) DEF SwapOK, Told
<1>5. FromOK(x)
  BY SMTT(40) DEF FromOK
<1>6. RoleOK(v)
  BY SMTT(40) DEF RoleOK
<1>7. MailOK(v)
  BY SMTT(40) DEF MailOK, Told
<1>8. TimeOK(v)
  BY SMTT(40) DEF TimeOK
<1>9. SwapOK(v)
  BY SMTT(40) DEF SwapOK, Told
<1>10. FromOK(v)
  BY SMTT(40) DEF FromOK
<1>11. Told(x, v) /\ Told(v, x) /\ Answered(x, v) /\ Answered(v, x)
  BY SMTT(40) DEF RoleOK, Told, Answered, Reset
<1>12. Contract(x, v) /\ Contract(v, x) /\ Reset(x, v) /\ Reset(v, x)
  BY SMTT(40) DEF Told, Answered, Contract, Reset
<1>13. Swap(x, v) /\ Swap(v, x) /\ Apart(x, v) /\ Apart(v, x)
  BY SMTT(40) DEF RoleOK, Told, Answered, Swap, Apart
<1>14. QED BY <1>1, <1>2, <1>3, <1>4, <1>5, <1>6, <1>7, <1>8, <1>9, <1>10, <1>11, <1>12,
       <1>13

LEMMA DrSwapGood ==
  ASSUME NEW r, NEW b, NEW x, NEW o, NEW u, NEW v, Got(r, "DR_SWAP"), Keeps(b, x),
         Answering("ACCEPT", r, b, o, u, v) \/ Answering("REJECT", r, b, o, u, v)
  PROVE  Good(x, v)
<1>1. RoleOK(x)
  BY SMTT(40) DEF RoleOK
<1>2. MailOK(x)
  BY SMTT(40) DEF MailOK, Told
<1>3. TimeOK(x)
  BY SMTT(40) DEF TimeOK, Told
<1>4. SwapOK(x)
  BY SMTT(40) DEF SwapOK, Told
<1>5. FromOK(x)
  BY SMTT(40) DEF FromOK
<1>6. RoleOK(v)
  BY SMTT(40) DEF RoleOK
<1>7. MailOK(v)
  BY SMTT(40) DEF MailOK, Told
<1>8. TimeOK(v)
  BY SMTT(40) DEF TimeOK
<1>9. SwapOK(v)
  BY SMTT(40) DEF SwapOK, Told
<1>10. FromOK(v)
  BY SMTT(40) DEF FromOK
<1>11. Told(x, v) /\ Told(v, x) /\ Answered(x, v) /\ Answered(v, x)
  BY SMTT(40) DEF Told, Answered
<1>12. Contract(x, v) /\ Contract(v, x) /\ Reset(x, v) /\ Reset(v, x)
  BY SMTT(40) DEF Told, Answered, Contract, Reset
<1>13. Swap(x, v) /\ Swap(v, x) /\ Apart(x, v) /\ Apart(v, x)
  BY SMTT(40) DEF Told, Answered, Swap, Apart
<1>14. QED BY <1>1, <1>2, <1>3, <1>4, <1>5, <1>6, <1>7, <1>8, <1>9, <1>10, <1>11, <1>12,
       <1>13

-----------------------------------------------------------------------------
(* What the handler of each state makes of the two ports.                  *)

\* Only a port that is ready may go on with a hard reset that waits.
LEMMA BeginsUnhit ==
  ASSUME NEW w, NEW b, NEW o, Begins(w, b, o), ~In(b, Ready)
  PROVE  ~Hit(b)
BY SMTT(40) DEF MailOK

\* The states that only wait.
LEMMA WaitGood ==
  ASSUME NEW w, NEW b, NEW x, NEW o, NEW s, NEW v, NEW next, Quietly(w, b, x, o, s, v),
         Leads(b, next),
         In(b, {"SRC_STARTUP", "SRC_NEGOCIATE", "SRC_ACCEPTED", "SRC_POWERED",
                "SRC_SWAP_SNK_DISABLE", "SNK_REQUESTED", "SNK_TRANSITION",
                "SNK_SWAP_SRC_DISABLE"}),
         IF Enters(b) THEN Timed(b, x, next) ELSE Same(b, x)
  PROVE  Good(s, v)
<1>1. RoleOK(s) /\ MailOK(s)
  BY SMTT(40) DEF RoleOK, MailOK, TimeOK, Apart
<1>2. TimeOK(s) /\ SwapOK(s) /\ FromOK(s)
  BY SMTT(40) DEF RoleOK, TimeOK, SwapOK, FromOK, Apart
<1>3. PortOK(v)
  BY KeepsPort
<1>4. Told(s, v) /\ Told(v, s) /\ Answered(s, v) /\ Answered(v, s)
  BY SMTT(40) DEF RoleOK, MailOK, TimeOK, Told, Answered, Contract, Apart
<1>5. Contract(s, v) /\ Contract(v, s)
  BY SMTT(40) DEF RoleOK, TimeOK, Contract, Apart
<1>6. Reset(s, v) /\ Reset(v, s)
  BY SMTT(40) DEF RoleOK, TimeOK, Reset, Apart
<1>7. Swap(s, v) /\ Swap(v, s)
  BY SMTT(40) DEF RoleOK, MailOK, TimeOK, SwapOK, Swap, Apart
<1>8. Apart(s, v) /\ Apart(v, s)
  BY SMTT(40) DEF RoleOK, TimeOK, Apart
<1>9. QED BY <1>1, <1>2, <1>3, <1>4, <1>5, <1>6, <1>7, <1>8

LEMMA SrcDisconnectedGood ==
  ASSUME NEW w, NEW b, NEW x, NEW o, NEW s, NEW v, Quietly(w, b, x, o, s, v),
         State(b) = "SRC_DISCONNECTED",
         IF Facing(b, o) THEN Enter(b, x, "SRC_DISCONNECTED_DEBOUNCE")
         ELSE \/ Same(b, x)
              \/ /\ Moves(b, x, "SNK_DISCONNECTED") /\ Sink(x) /\ ~Rp(x)
                 /\ (On(x) <=> On(b)) /\ (Hears(x) <=> Hears(b))
  PROVE  Good(s, v)
<1>1. RoleOK(s) /\ MailOK(s)
  BY SMTT(40) DEF RoleOK, MailOK, Apart
<1>2. TimeOK(s) /\ SwapOK(s) /\ FromOK(s)
  BY SMTT(40) DEF TimeOK, SwapOK, FromOK
<1>3. PortOK(v)
  BY KeepsPort
<1>4. Told(s, v) /\ Told(v, s) /\ Answered(s, v) /\ Answered(v, s)
  BY SMTT(40) DEF RoleOK, MailOK, TimeOK, Told, Answered
<1>5. Contract(s, v) /\ Contract(v, s)
  BY SMTT(40) DEF RoleOK, TimeOK, Contract
<1>6. Reset(s, v) /\ Reset(v, s)
  BY SMTT(40) DEF RoleOK, TimeOK, Reset
<1>7. Swap(s, v) /\ Swap(v, s) /\ Apart(s, v) /\ Apart(v, s)
  BY SMTT(40) DEF Swap, Apart
<1>8. QED BY <1>1, <1>2, <1>3, <1>4, <1>5, <1>6, <1>7

LEMMA SrcDisconnectedDebounceGood ==
  ASSUME NEW w, NEW b, NEW x, NEW o, NEW s, NEW v, Quietly(w, b, x, o, s, v),
         State(b) = "SRC_DISCONNECTED_DEBOUNCE",
         IF ~Facing(b, o) THEN Enter(b, x, "SRC_DISCONNECTED")
         ELSE \/ Same(b, x)
              \/ /\ Moves(b, x, "SRC_STARTUP") /\ (Sink(x) <=> Sink(b)) /\ (Rp(x) <=> Rp(b))
                 /\ On(x) /\ Hears(x)
  PROVE  Good(s, v)
<1>1. PortOK(s)
  BY SMTT(40) DEF RoleOK, MailOK, TimeOK, SwapOK, FromOK
<1>2. PortOK(v)
  BY KeepsPort
<1>3. Told(s, v) /\ Told(v, s) /\ Answered(s, v) /\ Answered(v, s)
  BY SMTT(40) DEF RoleOK, TimeOK, Told, Answered
<1>4. Contract(s, v) /\ Contract(v, s)
  BY SMTT(40) DEF RoleOK, TimeOK, Contract
<1>5. Reset(s, v) /\ Reset(v, s)
  BY SMTT(40) DEF RoleOK, MailOK, TimeOK, Reset
<1>6. Swap(s, v) /\ Swap(v, s)
  BY SMTT(40) DEF TimeOK, Swap
<1>7. Apart(s, v) /\ Apart(v, s)
  BY SMTT(40) DEF RoleOK, Apart
<1>8. QED BY <1>1, <1>2, <1>3, <1>4, <1>5, <1>6, <1>7

LEMMA SrcHardResetRecoverGood ==
  ASSUME NEW w, NEW b, NEW x, NEW o, NEW s, NEW v, Quietly(w, b, x, o, s, v),
         State(b) = "SRC_HARD_RESET_RECOVER",
         \/ Same(b, x)
         \/ /\ Moves(b, x, "SRC_STARTUP") /\ (Sink(x) <=> Sink(b)) /\ (Rp(x) <=> Rp(b))
            /\ On(x) /\ (Hears(x) <=> Hears(b))
  PROVE  Good(s, v)
<1>1. RoleOK(s) /\ MailOK(s)
  BY SMTT(40) DEF RoleOK, MailOK, TimeOK, Reset
<1>2. TimeOK(s) /\ SwapOK(s) /\ FromOK(s)
  BY SMTT(40) DEF RoleOK, TimeOK, SwapOK, FromOK, Reset
<1>3. PortOK(v)
  BY KeepsPort
<1>4. Told(s, v) /\ Told(v, s) /\ Answered(s, v) /\ Answered(v, s)
  BY SMTT(40) DEF RoleOK, TimeOK, Told, Answered, Reset
<1>5. Contract(s, v) /\ Contract(v, s)
  BY SMTT(40) DEF RoleOK, TimeOK, Contract, Reset
<1>6. Reset(s, v) /\ Reset(v, s)
  BY SMTT(40) DEF RoleOK, TimeOK, Reset
<1>7. Swap(s, v) /\ Swap(v, s)
  BY SMTT(40) DEF RoleOK, TimeOK, Reset, Swap
<1>8. Apart(s, v) /\ Apart(v, s)
  BY SMTT(40) DEF RoleOK, Apart
<1>9. QED BY <1>1, <1>2, <1>3, <1>4, <1>5, <1>6, <1>7, <1>8

LEMMA SrcDiscoveryGood ==
  ASSUME NEW w, NEW b, NEW a, NEW x, NEW o, NEW u, NEW s, NEW v, State(b) = "SRC_DISCOVERY",
         \/ Same(b, a)
         \/ Enters(b) /\ (Timed(b, a, "HARD_RESET_SEND") \/ Timed(b, a, "SRC_DISCONNECTED")),
         \/ Saying("SOURCE_CAP", w, b, x, o, u, s, v) /\ Enter(a, x, "SRC_NEGOCIATE")
         \/ Quietly(w, b, x, o, s, v) /\ Same(a, x)
  PROVE  Good(s, v)
<1>1. PortOK(s)
  BY SMTT(40) DEF RoleOK, MailOK, TimeOK, SwapOK, FromOK, Answered, Apart
<1>2. PortOK(v)
  BY SMTT(40) DEF RoleOK, MailOK, TimeOK, SwapOK, FromOK, Answered, Apart
<1>3. Told(s, v) /\ Told(v, s) /\ Answered(s, v) /\ Answered(v, s)
  BY SMTT(40) DEF RoleOK, MailOK, TimeOK, Told, Answered, Contract, Reset, Swap, Apart
<1>4. Contract(s, v) /\ Contract(v, s) /\ Reset(s, v) /\ Reset(v, s)
  BY SMTT(40) DEF RoleOK, MailOK, TimeOK, Answered, Contract, Reset, Apart
<1>5. Swap(s, v) /\ Swap(v, s) /\ Apart(s, v) /\ Apart(v, s)
  BY SMTT(40) DEF RoleOK, MailOK, TimeOK, Told, Answered, Swap, Apart
<1>6. QED BY <1>1, <1>2, <1>3, <1>4, <1>5

\* A source that is about to be ready is heard.
LEMMA SrcTransitionHeard ==
  ASSUME NEW w, NEW b, NEW o, Begins(w, b, o), State(b) = "SRC_TRANSITION"
  PROVE  Hears(b) /\ Hears(o) /\ News(o) = "none"
BY SMTT(40) DEF MailOK, Contract

LEMMA SrcTransitionGood ==
  ASSUME NEW w, NEW b, NEW x, NEW o, NEW u, NEW s, NEW v,
         Saying("PS_RDY", w, b, x, o, u, s, v),
         State(b) = "SRC_TRANSITION", Enter(b, x, "SRC_READY")
  PROVE  Good(s, v)
<1>1. RoleOK(s) /\ MailOK(s)
  BY SMTT(40) DEF RoleOK, MailOK, Contract
<1>2. TimeOK(s) /\ SwapOK(s) /\ FromOK(s)
  BY SMTT(40) DEF RoleOK, TimeOK, SwapOK, FromOK, Contract
<1>3. RoleOK(v) /\ MailOK(v)
  BY SMTT(40) DEF RoleOK, MailOK
<1>4. TimeOK(v) /\ SwapOK(v) /\ FromOK(v)
  BY SMTT(40) DEF TimeOK, SwapOK, FromOK, Contract
<1>5. Told(s, v) /\ Told(v, s) /\ Answered(s, v) /\ Answered(v, s)
  BY SMTT(40) DEF RoleOK, MailOK, Told, Answered, Contract
<1>6. Contract(s, v) /\ Contract(v, s)
  BY SMTT(40) DEF RoleOK, Contract
<1>7. Reset(s, v) /\ Reset(v, s)
  BY SMTT(40) DEF RoleOK, MailOK, Contract, Reset
<1>8. Swap(s, v) /\ Swap(v, s)
  BY SMTT(40) DEF RoleOK, Contract, Swap
<1>9. Apart(s, v) /\ Apart(v, s)
  BY SMTT(40) DEF RoleOK, MailOK, Apart
<1>10. QED BY <1>1, <1>2, <1>3, <1>4, <1>5, <1>6, <1>7, <1>8, <1>9

\* The capabilities are asked for once, of a sink that listens.
LEMMA SrcReadyHeard ==
  ASSUME NEW w, NEW b, NEW o, Begins(w, b, o), State(b) = "SRC_READY", ~Packet(b), Enters(b)
  PROVE  Hears(b) /\ Hears(o) /\ News(o) = "none" /\ ~Hit(b)
BY SMTT(40) DEF RoleOK, MailOK, Contract

LEMMA SrcReadyGood ==
  ASSUME NEW w, NEW b, NEW x, NEW o, NEW u, NEW s, NEW v, State(b) = "SRC_READY",
         \/ /\ Enters(b) /\ ~Packet(b) /\ Saying("GET_SINK_CAP", w, b, x, o, u, s, v)
            /\ Enter(b, x, "SRC_GET_SINK_CAP")
         \/ /\ Quietly(w, b, x, o, s, v)
            /\ Same(b, x) \/ (~Packet(b) /\ Enter(b, x, "DR_SWAP"))
  PROVE  Good(s, v)
<1>1. PortOK(s)
  BY SMTT(40) DEF RoleOK, MailOK, TimeOK, SwapOK, FromOK, Answered, Contract
<1>2. RoleOK(v)
  BY SMTT(40) DEF RoleOK
<1>3. MailOK(v)
  BY SMTT(40) DEF MailOK
<1>4. TimeOK(v)
  BY SMTT(40) DEF TimeOK
<1>5. SwapOK(v)
  BY SMTT(40) DEF RoleOK, SwapOK, Contract
<1>6. FromOK(v)
  BY SMTT(40) DEF FromOK
<1>7. Told(s, v) /\ Told(v, s) /\ Answered(s, v) /\ Answered(v, s)
  BY SMTT(40) DEF RoleOK, TimeOK, Told, Answered, Contract
<1>8. Contract(s, v) /\ Contract(v, s) /\ Reset(s, v) /\ Reset(v, s)
  BY SMTT(40) DEF RoleOK, TimeOK, Answered, Contract, Reset
<1>9. Swap(s, v) /\ Swap(v, s) /\ Apart(s, v) /\ Apart(v, s)
  BY SMTT(40) DEF TimeOK, Answered, Swap, Apart
<1>10. QED BY <1>1, <1>2, <1>3, <1>4, <1>5, <1>6, <1>7, <1>8, <1>9

\* The capabilities of the sink are there before the source runs again.
LEMMA SrcGetSinkCapIdle ==
  ASSUME NEW w, NEW b, NEW o, Begins(w, b, o)
  PROVE  State(b) # "SRC_GET_SINK_CAP"
BY SMTT(40) DEF MailOK, Answered

\* The states that ask.
LEMMA AskGood ==
  ASSUME NEW w, NEW b, NEW x, NEW o, NEW u, NEW s, NEW v, NEW next, NEW failed,
         \/ /\ In(b, {"DR_SWAP", "SNK_SWAP_INIT", "SRC_SWAP_INIT"}) /\ failed = "SOFT_RESET"
            /\ next = IF Sink(b) THEN "SNK_READY" ELSE "SRC_READY"
         \/ /\ State(b) = "SOFT_RESET" /\ failed = "HARD_RESET_SEND"
            /\ next = "HARD_RESET_SEND",
         \/ Enters(b) /\ Saying(Question(b), w, b, x, o, u, s, v) /\ Timed(b, x, next)
         \/ /\ Enters(b) /\ Quietly(w, b, x, o, s, v) /\ Enter(b, x, failed)
            /\ ~(Hears(b) /\ Hears(o) /\ News(o) = "none")
         \/ ~Enters(b) /\ Quietly(w, b, x, o, s, v) /\ Same(b, x)
  PROVE  Good(s, v)
<1>1. PortOK(s)
  BY SMTT(40) DEF RoleOK, MailOK, TimeOK, SwapOK, FromOK, Answered, Contract, Reset
<1>2. PortOK(v)
  BY SMTT(40) DEF RoleOK, MailOK, TimeOK, SwapOK, FromOK, Swap, Apart
<1>3. Told(s, v) /\ Told(v, s) /\ Answered(s, v) /\ Answered(v, s)
  BY SMTT(40) DEF RoleOK, MailOK, TimeOK, Told, Answered, Contract, Reset, Swap, Apart
<1>4. Contract(s, v) /\ Contract(v, s) /\ Reset(s, v) /\ Reset(v, s)
  BY SMTT(40) DEF RoleOK, MailOK, Told, Answered, Contract, Reset
<1>5. Swap(s, v) /\ Swap(v, s) /\ Apart(s, v) /\ Apart(v, s)
  BY SMTT(40) DEF MailOK, TimeOK, Swap, Apart
<1>6. QED BY <1>1, <1>2, <1>3, <1>4, <1>5

LEMMA SrcSwapSrcDisableGood ==
  ASSUME NEW w, NEW b, NEW x, NEW o, NEW s, NEW v, Quietly(w, b, x, o, s, v),
         State(b) = "SRC_SWAP_SRC_DISABLE",
         IF Enters(b)
         THEN /\ Place(b, x) /\ Mailbox(b, x) /\ ~Fresh(x) /\ ~Last(x)
              /\ Goal(x) = "SRC_SWAP_STANDBY" /\ ~On(x) /\ (Sink(x) <=> Sink(b))
              /\ (Rp(x) <=> Rp(b))
         ELSE Same(b, x)
  PROVE  Good(s, v)
<1>1. RoleOK(s) /\ MailOK(s)
  BY SMTT(40) DEF RoleOK, MailOK, TimeOK
<1>2. TimeOK(s) /\ SwapOK(s) /\ FromOK(s)
  BY SMTT(40) DEF RoleOK, TimeOK, SwapOK, FromOK
<1>3. PortOK(v)
  BY KeepsPort
<1>4. Told(s, v) /\ Told(v, s) /\ Answered(s, v) /\ Answered(v, s)
  BY SMTT(40) DEF TimeOK, Told, Answered
<1>5. Contract(s, v) /\ Contract(v, s)
  BY SMTT(40) DEF TimeOK, Contract
<1>6. Reset(s, v) /\ Reset(v, s)
  BY SMTT(40) DEF TimeOK, Reset
<1>7. Swap(s, v) /\ Swap(v, s)
  BY SMTT(40) DEF RoleOK, MailOK, TimeOK, Swap
<1>8. Apart(s, v) /\ Apart(v, s)
  BY SMTT(40) DEF RoleOK, Apart
<1>9. QED BY <1>1, <1>2, <1>3, <1>4, <1>5, <1>6, <1>7, <1>8

LEMMA SrcSwapStandbyGood ==
  ASSUME NEW w, NEW b, NEW x, NEW o, NEW u, NEW s, NEW v, State(b) = "SRC_SWAP_STANDBY",
         \/ /\ Enters(b) /\ Saying("PS_RDY", w, b, x, o, u, s, v)
            /\ Place(b, x) /\ Mailbox(b, x) /\ ~Fresh(x) /\ ~Last(x)
            /\ Goal(x) = "SNK_DISCONNECTED" /\ Sink(x) /\ ~Rp(x) /\ (On(x) <=> On(b))
         \/ /\ Enters(b) /\ Quietly(w, b, x, o, s, v) /\ Enter(b, x, "SRC_DISCONNECTED")
            /\ ~(Hears(b) /\ Hears(o) /\ News(o) = "none")
         \/ ~Enters(b) /\ Quietly(w, b, x, o, s, v) /\ Same(b, x)
  PROVE  Good(s, v)
<1>1. PortOK(s)
  BY SMTT(40) DEF RoleOK, MailOK, TimeOK, SwapOK, FromOK, Answered
<1>2. PortOK(v)
  BY SMTT(40) DEF RoleOK, MailOK, TimeOK, SwapOK, FromOK, Answered, Swap
<1>3. Told(s, v) /\ Told(v, s) /\ Answered(s, v) /\ Answered(v, s)
  BY SMTT(40) DEF MailOK, TimeOK, SwapOK, Told, Answered, Swap
<1>4. Contract(s, v) /\ Contract(v, s) /\ Reset(s, v) /\ Reset(v, s)
  BY SMTT(40) DEF RoleOK, MailOK, TimeOK, Answered, Contract, Reset, Swap
<1>5. Swap(s, v) /\ Swap(v, s) /\ Apart(s, v) /\ Apart(v, s)
  BY SMTT(40) DEF RoleOK, MailOK, TimeOK, SwapOK, Answered, Swap, Apart
<1>6. QED BY <1>1, <1>2, <1>3, <1>4, <1>5

LEMMA SnkDisconnectedGood ==
  ASSUME NEW w, NEW b, NEW x, NEW o, NEW s, NEW v, Quietly(w, b, x, o, s, v),
         State(b) = "SNK_DISCONNECTED",
         IF Facing(b, o) THEN Enter(b, x, "SNK_DISCONNECTED_DEBOUNCE")
         ELSE \/ Same(b, x)
              \/ /\ Moves(b, x, "SRC_DISCONNECTED") /\ ~Sink(x) /\ Rp(x)
                 /\ (On(x) <=> On(b)) /\ (Hears(x) <=> Hears(b))
  PROVE  Good(s, v)
<1>1. RoleOK(s) /\ MailOK(s)
  BY SMTT(40) DEF RoleOK, MailOK, TimeOK
<1>2. TimeOK(s) /\ SwapOK(s) /\ FromOK(s)
  BY SMTT(40) DEF RoleOK, TimeOK, SwapOK, FromOK
<1>3. PortOK(v)
  BY KeepsPort
<1>4. Told(s, v) /\ Told(v, s) /\ Answered(s, v) /\ Answered(v, s)
  BY SMTT(40) DEF RoleOK, TimeOK, Told, Answered
<1>5. Contract(s, v) /\ Contract(v, s)
  BY SMTT(40) DEF RoleOK, TimeOK, Contract
<1>6. Reset(s, v) /\ Reset(v, s)
  BY SMTT(40) DEF RoleOK, TimeOK, Reset
<1>7. Swap(s, v) /\ Swap(v, s)
  BY SMTT(40) DEF RoleOK, TimeOK, Swap
<1>8. Apart(s, v) /\ Apart(v, s)
  BY SMTT(40) DEF RoleOK, TimeOK, Apart
<1>9. QED BY <1>1, <1>2, <1>3, <1>4, <1>5, <1>6, <1>7, <1>8

LEMMA SnkDisconnectedDebounceGood ==
  ASSUME NEW w, NEW b, NEW x, NEW o, NEW s, NEW v, Quietly(w, b, x, o, s, v),
         State(b) = "SNK_DISCONNECTED_DEBOUNCE",
         IF ~Facing(b, o) THEN Enter(b, x, "SNK_DISCONNECTED")
         ELSE \/ Same(b, x)
              \/ /\ Fed(b, o) /\ Moves(b, x, "SNK_DISCOVERY") /\ (Sink(x) <=> Sink(b))
                 /\ (Rp(x) <=> Rp(b)) /\ (On(x) <=> On(b)) /\ Hears(x)
  PROVE  Good(s, v)
<1>1. RoleOK(s) /\ MailOK(s)
  BY SMTT(40) DEF RoleOK, MailOK, TimeOK
<1>2. TimeOK(s) /\ SwapOK(s) /\ FromOK(s)
  BY SMTT(40) DEF RoleOK, TimeOK, SwapOK, FromOK
<1>3. PortOK(v)
  BY KeepsPort
<1>4. Told(s, v) /\ Told(v, s) /\ Answered(s, v) /\ Answered(v, s)
  BY SMTT(40) DEF RoleOK, TimeOK, Told, Answered
<1>5. Contract(s, v) /\ Contract(v, s)
  BY SMTT(40) DEF RoleOK, MailOK, TimeOK, Contract
<1>6. Reset(s, v) /\ Reset(v, s)
  BY SMTT(40) DEF RoleOK, MailOK, TimeOK, Reset
<1>7. Swap(s, v) /\ Swap(v, s)
  BY SMTT(40) DEF RoleOK, TimeOK, SwapOK, Swap
<1>8. Apart(s, v) /\ Apart(v, s)
  BY SMTT(40) DEF RoleOK, MailOK, Apart
<1>9. QED BY <1>1, <1>2, <1>3, <1>4, <1>5, <1>6, <1>7, <1>8

LEMMA SnkHardResetRecoverGood ==
  ASSUME NEW w, NEW b, NEW a, NEW x, NEW o, NEW s, NEW v, Quietly(w, b, x, o, s, v),
         State(b) = "SNK_HARD_RESET_RECOVER",
         IF Enters(b)
         THEN /\ Place(b, a) /\ Mailbox(b, a) /\ ~Fresh(a) /\ ~Last(a)
              /\ Goal(a) \in {"HARD_RESET_SEND", "SNK_DISCOVERY"} /\ ~Off(a)
              /\ (Sink(a) <=> Sink(b)) /\ (Rp(a) <=> Rp(b)) /\ (On(a) <=> On(b))
         ELSE Same(b, a),
         IF ~Fed(b, o) /\ ~Off(a)
         THEN /\ Place(a, x) /\ Mailbox(a, x) /\ ~Fresh(x) /\ ~Last(x)
              /\ Goal(x) = "SNK_DISCONNECTED" /\ Off(x)
              /\ (Sink(x) <=> Sink(a)) /\ (Rp(x) <=> Rp(a)) /\ (On(x) <=> On(a))
         ELSE IF Fed(b, o) /\ Off(a) THEN Enter(a, x, "SNK_DISCOVERY") ELSE Same(a, x)
  PROVE  Good(s, v)
<1>1. RoleOK(s) /\ MailOK(s)
  BY SMTT(40) DEF RoleOK, MailOK, TimeOK
<1>2. TimeOK(s) /\ SwapOK(s) /\ FromOK(s)
  BY SMTT(40) DEF RoleOK, TimeOK, SwapOK, FromOK
<1>3. PortOK(v)
  BY KeepsPort
<1>4. Told(s, v) /\ Told(v, s) /\ Answered(s, v) /\ Answered(v, s)
  BY SMTT(40) DEF RoleOK, TimeOK, Told, Answered
<1>5. Contract(s, v) /\ Contract(v, s)
  BY SMTT(40) DEF RoleOK, MailOK, TimeOK, Contract
<1>6. Reset(s, v) /\ Reset(v, s)
  BY SMTT(40) DEF RoleOK, MailOK, TimeOK, Reset
<1>7. Swap(s, v) /\ Swap(v, s)
  BY SMTT(40) DEF RoleOK, TimeOK, Swap
<1>8. Apart(s, v) /\ Apart(v, s)
  BY SMTT(40) DEF RoleOK, TimeOK, Apart
<1>9. QED BY <1>1, <1>2, <1>3, <1>4, <1>5, <1>6, <1>7, <1>8

LEMMA SnkDiscoveryGood ==
  ASSUME NEW w, NEW b, NEW x, NEW o, NEW s, NEW v, Quietly(w, b, x, o, s, v),
         State(b) = "SNK_DISCOVERY",
         \/ Same(b, x)
         \/ Enters(b) /\ (Timed(b, x, "HARD_RESET_SEND") \/ Timed(b, x, "SNK_DISCONNECTED"))
  PROVE  Good(s, v)
<1>1. RoleOK(s) /\ MailOK(s)
  BY SMTT(40) DEF RoleOK, MailOK, TimeOK
<1>2. TimeOK(s) /\ SwapOK(s) /\ FromOK(s)
  BY SMTT(40) DEF RoleOK, TimeOK, SwapOK, FromOK
<1>3. PortOK(v)
  BY KeepsPort
<1>4. Told(s, v) /\ Told(v, s) /\ Answered(s, v) /\ Answered(v, s)
  BY SMTT(40) DEF RoleOK, TimeOK, Told, Answered
<1>5. Contract(s, v) /\ Contract(v, s)
  BY SMTT(40) DEF RoleOK, MailOK, TimeOK, Contract
<1>6. Reset(s, v) /\ Reset(v, s)
  BY SMTT(40) DEF RoleOK, MailOK, TimeOK, Reset
<1>7. Swap(s, v) /\ Swap(v, s) /\ Apart(s, v) /\ Apart(v, s)
  BY SMTT(40) DEF TimeOK, Swap, Apart
<1>8. QED BY <1>1, <1>2, <1>3, <1>4, <1>5, <1>6, <1>7

LEMMA SnkReadyGood ==
  ASSUME NEW w, NEW b, NEW x, NEW o, NEW s, NEW v, Quietly(w, b, x, o, s, v),
         State(b) = "SNK_READY",
         \/ Same(b, x)
         \/ ~Packet(b) /\ (Enter(b, x, "SNK_SWAP_INIT") \/ Enter(b, x, "DR_SWAP"))
  PROVE  Good(s, v)
<1>1. RoleOK(s) /\ MailOK(s)
  BY SMTT(40) DEF RoleOK, MailOK, TimeOK
<1>2. TimeOK(s) /\ SwapOK(s) /\ FromOK(s)
  BY SMTT(40) DEF RoleOK, TimeOK, SwapOK, FromOK
<1>3. PortOK(v)
  BY KeepsPort
<1>4. Told(s, v) /\ Told(v, s) /\ Answered(s, v) /\ Answered(v, s)
  BY SMTT(40) DEF RoleOK, TimeOK, Told, Answered
<1>5. Contract(s, v) /\ Contract(v, s)
  BY SMTT(40) DEF RoleOK, MailOK, TimeOK, Contract
<1>6. Reset(s, v) /\ Reset(v, s)
  BY SMTT(40) DEF RoleOK, TimeOK, Reset, Apart
<1>7. Swap(s, v) /\ Swap(v, s) /\ Apart(s, v) /\ Apart(v, s)
  BY SMTT(40) DEF TimeOK, Swap, Apart
<1>8. QED BY <1>1, <1>2, <1>3, <1>4, <1>5, <1>6, <1>7

LEMMA SnkSwapSnkDisableGood ==
  ASSUME NEW w, NEW b, NEW x, NEW o, NEW s, NEW v, Quietly(w, b, x, o, s, v),
         State(b) = "SNK_SWAP_SNK_DISABLE", Enter(b, x, "SNK_SWAP_SRC_DISABLE")
  PROVE  Good(s, v)
<1>1. PortOK(s)
  BY SMTT(40) DEF RoleOK, MailOK, TimeOK, SwapOK, FromOK
<1>2. PortOK(v)
  BY KeepsPort
<1>3. Told(s, v) /\ Told(v, s) /\ Answered(s, v) /\ Answered(v, s)
  BY SMTT(40) DEF Told, Answered
<1>4. Contract(s, v) /\ Contract(v, s) /\ Reset(s, v) /\ Reset(v, s)
  BY SMTT(40) DEF Contract, Reset
<1>5. Swap(s, v) /\ Swap(v, s) /\ Apart(s, v) /\ Apart(v, s)
  BY SMTT(40) DEF Swap, Apart
<1>6. QED BY <1>1, <1>2, <1>3, <1>4, <1>5

LEMMA SnkSwapStandbyGood ==
  ASSUME NEW w, NEW b, NEW x, NEW o, NEW s, NEW v, Quietly(w, b, x, o, s, v),
         State(b) = "SNK_SWAP_STANDBY",
         IF Enters(b)
         THEN /\ Place(b, x) /\ Mailbox(b, x) /\ ~Fresh(x) /\ ~Last(x)
              /\ Goal(x) = "SNK_SWAP_COMPLETE" /\ On(x) /\ Rp(x) /\ (Sink(x) <=> Sink(b))
         ELSE Same(b, x)
  PROVE  Good(s, v)
<1>1. RoleOK(s) /\ MailOK(s)
  BY SMTT(40) DEF RoleOK, MailOK, TimeOK
<1>2. TimeOK(s) /\ SwapOK(s) /\ FromOK(s)
  BY SMTT(40) DEF TimeOK, SwapOK, FromOK
<1>3. PortOK(v)
  BY KeepsPort
<1>4. Told(s, v) /\ Told(v, s) /\ Answered(s, v) /\ Answered(v, s)
  BY SMTT(40) DEF TimeOK, Told, Answered
<1>5. Contract(s, v) /\ Contract(v, s) /\ Reset(s, v) /\ Reset(v, s)
  BY SMTT(40) DEF TimeOK, Contract, Reset
<1>6. Swap(s, v) /\ Swap(v, s)
  BY SMTT(40) DEF TimeOK, Swap
<1>7. Apart(s, v) /\ Apart(v, s)
  BY SMTT(40) DEF RoleOK, TimeOK, Swap, Apart
<1>8. QED BY <1>1, <1>2, <1>3, <1>4, <1>5, <1>6, <1>7

LEMMA SnkSwapCompleteGood ==
  ASSUME NEW w, NEW b, NEW x, NEW o, NEW u, NEW s, NEW v, State(b) = "SNK_SWAP_COMPLETE",
         \/ /\ Saying("PS_RDY", w, b, x, o, u, s, v)
            /\ Moves(b, x, "SRC_DISCOVERY") /\ ~Sink(x)
            /\ (Rp(x) <=> Rp(b)) /\ (On(x) <=> On(b)) /\ (Hears(x) <=> Hears(b))
         \/ /\ Quietly(w, b, x, o, s, v) /\ ~(Hears(b) /\ Hears(o) /\ News(o) = "none")
            /\ State(x) = "SNK_DISCONNECTED" /\ Fresh(x) /\ ~Last(x) /\ Deaf(x)
            /\ (Sink(x) <=> Sink(b)) /\ ~Rp(x) /\ ~On(x)
  PROVE  Good(s, v)
<1>1. PortOK(s)
  BY SMTT(40) DEF RoleOK, MailOK, TimeOK, SwapOK, FromOK, Answered, Swap
<1>2. PortOK(v)
  BY SMTT(40) DEF RoleOK, MailOK, TimeOK, SwapOK, FromOK, Answered, Swap
<1>3. Told(s, v) /\ Told(v, s) /\ Answered(s, v) /\ Answered(v, s)
  BY SMTT(40) DEF RoleOK, MailOK, SwapOK, Told, Answered, Swap
<1>4. Contract(s, v) /\ Contract(v, s) /\ Reset(s, v) /\ Reset(v, s)
  BY SMTT(40) DEF RoleOK, SwapOK, Answered, Contract, Reset, Swap
<1>5. Swap(s, v) /\ Swap(v, s) /\ Apart(s, v) /\ Apart(v, s)
  BY SMTT(40) DEF RoleOK, MailOK, SwapOK, Answered, Swap, Apart
<1>6. QED BY <1>1, <1>2, <1>3, <1>4, <1>5

\* A hard reset is heard by whoever is connected.
LEMMA HardResetSendHears ==
  ASSUME NEW w, NEW b, NEW o, Begins(w, b, o), State(b) = "HARD_RESET_SEND"
  PROVE  Hears(b)
BY SMTT(40) DEF MailOK

LEMMA HardResetSendGood ==
  ASSUME NEW w, NEW b, NEW x, NEW o, NEW u, NEW s, NEW v, State(b) = "HARD_RESET_SEND",
         Begins(w, b, o), Ends(State(w), x, o, s), Keeps(u, v),
         \/ ~Enters(b) /\ Same(b, x) /\ u = o
         \/ /\ IF Hears(o) THEN HitBy(o, u) ELSE u = o
            /\ IF ~Sink(b) THEN Timed(b, x, "HARD_RESET_EXECUTE")
               ELSE Enter(b, x, "HARD_RESET_EXECUTE")
  PROVE  Good(s, v)
<1>1. RoleOK(s) /\ MailOK(s)
  BY SMTT(40) DEF RoleOK, MailOK, TimeOK, Apart
<1>2. TimeOK(s) /\ SwapOK(s) /\ FromOK(s)
  BY SMTT(40) DEF RoleOK, TimeOK, SwapOK, FromOK, Apart
<1>3. RoleOK(v) /\ MailOK(v)
  BY SMTT(40) DEF RoleOK, MailOK, Apart
<1>4. TimeOK(v) /\ SwapOK(v) /\ FromOK(v)
  BY SMTT(40) DEF TimeOK, SwapOK, FromOK
<1>5. Told(s, v) /\ Told(v, s) /\ Answered(s, v) /\ Answered(v, s)
  BY SMTT(40) DEF RoleOK, MailOK, TimeOK, Told, Answered, Apart
<1>6. Contract(s, v) /\ Contract(v, s) /\ Reset(s, v) /\ Reset(v, s)
  BY SMTT(40) DEF RoleOK, MailOK, TimeOK, Told, Answered, Contract, Reset, Apart
<1>7. Swap(s, v) /\ Swap(v, s)
  BY SMTT(40) DEF MailOK, TimeOK, Swap, Apart
<1>8. Apart(s, v) /\ Apart(v, s)
  BY SMTT(40) DEF RoleOK, MailOK, TimeOK, Apart
<1>9. QED BY <1>1, <1>2, <1>3, <1>4, <1>5, <1>6, <1>7, <1>8

LEMMA HardResetExecuteGood ==
  ASSUME NEW w, NEW b, NEW x, NEW o, NEW s, NEW v, Quietly(w, b, x, o, s, v),
         State(b) = "HARD_RESET_EXECUTE",
         State(x) = IF Sink(b) THEN "SNK_HARD_RESET_RECOVER" ELSE "SRC_HARD_RESET_RECOVER",
         Fresh(x), ~Last(x), Mailbox(b, x), Sink(x) <=> Sink(b),
         From(b) # "SNK_SWAP_STANDBY" => (Rp(x) <=> Rp(b)),
         On(x) <=> (On(b) /\ Sink(b))
  PROVE  Good(s, v)
<1>1. RoleOK(s) /\ MailOK(s)
  BY SMTT(40) DEF RoleOK, MailOK, TimeOK, Reset
<1>2. TimeOK(s) /\ SwapOK(s) /\ FromOK(s)
  BY SMTT(40) DEF RoleOK, TimeOK, SwapOK, FromOK, Reset
<1>3. PortOK(v)
  BY KeepsPort
<1>4. Told(s, v) /\ Told(v, s) /\ Answered(s, v) /\ Answered(v, s)
  BY SMTT(40) DEF RoleOK, TimeOK, Told, Answered, Reset
<1>5. Contract(s, v) /\ Contract(v, s)
  BY SMTT(40) DEF RoleOK, TimeOK, Contract, Reset
<1>6. Reset(s, v) /\ Reset(v, s)
  BY SMTT(40) DEF RoleOK, TimeOK, Reset
<1>7. Swap(s, v) /\ Swap(v, s)
  BY SMTT(40) DEF RoleOK, TimeOK, Reset, Swap
<1>8. Apart(s, v) /\ Apart(v, s)
  BY SMTT(40) DEF RoleOK, TimeOK, Apart
<1>9. QED BY <1>1, <1>2, <1>3, <1>4, <1>5, <1>6, <1>7, <1>8

-----------------------------------------------------------------------------
(* The other tasks and time.                                               *)

LEMMA PowerSwapGood ==
  ASSUME NEW r, NEW x, NEW y, NEW o, Good(r, o), Shape(r), Shape(o), Waits(r),
         \/ State(r) = "SRC_READY" /\ Enter(r, x, "SRC_SWAP_INIT")
         \/ State(r) = "SNK_READY" /\ Enter(r, x, "SNK_SWAP_INIT"),
         Same(x, y), Waits(y) <=> Waits(x), Packet(y) <=> Packet(x), ~Ran(y)
  PROVE  Good(y, o)
<1>1. PortOK(y)
  BY SMTT(40) DEF RoleOK, MailOK, TimeOK, SwapOK, FromOK
<1>2. PortOK(o)
  BY SMTT(40) DEF RoleOK, MailOK, TimeOK, SwapOK, FromOK
<1>3. Told(y, o) /\ Told(o, y) /\ Answered(y, o) /\ Answered(o, y)
  BY SMTT(40) DEF FromOK, Told, Answered
<1>4. Contract(y, o) /\ Contract(o, y) /\ Reset(y, o) /\ Reset(o, y)
  BY SMTT(40) DEF Contract, Reset
<1>5. Swap(y, o) /\ Swap(o, y) /\ Apart(y, o) /\ Apart(o, y)
  BY SMTT(40) DEF Swap, Apart
<1>6. QED BY <1>1, <1>2, <1>3, <1>4, <1>5

LEMMA DataSwapGood ==
  ASSUME NEW r, NEW x, NEW y, NEW o, Good(r, o), Shape(r), Shape(o), Waits(r),
         State(r) \in Ready, Enter(r, x, "DR_SWAP"),
         Same(x, y), Waits(y) <=> Waits(x), Packet(y) <=> Packet(x), ~Ran(y)
  PROVE  Good(y, o)
<1>1. PortOK(y)
  BY SMTT(40) DEF RoleOK, MailOK, TimeOK, SwapOK, FromOK
<1>2. PortOK(o)
  BY SMTT(40) DEF RoleOK, MailOK, TimeOK, SwapOK, FromOK
<1>3. Told(y, o) /\ Told(o, y) /\ Answered(y, o) /\ Answered(o, y)
  BY SMTT(40) DEF FromOK, Told, Answered
<1>4. Contract(y, o) /\ Contract(o, y) /\ Reset(y, o) /\ Reset(o, y)
  BY SMTT(40) DEF RoleOK, Contract, Reset
<1>5. Swap(y, o) /\ Swap(o, y) /\ Apart(y, o) /\ Apart(o, y)
  BY SMTT(40) DEF Swap, Apart
<1>6. QED BY <1>1, <1>2, <1>3, <1>4, <1>5

LEMMA TickGood ==
  ASSUME NEW r, NEW x, NEW o, NEW y, Good(r, o), Shape(r), Shape(o), Shape(x), Shape(y),
         Waits(r), ~Hit(r), Got(r, "none"), Ran(r),
         Waits(o), ~Hit(o), Got(o, "none"), Ran(o), Ages(r, x), Ages(o, y)
  PROVE  Good(x, y)
<1>1. PortOK(x)
  BY SMTT(40) DEF RoleOK, MailOK, TimeOK, SwapOK, FromOK
<1>2. PortOK(y)
  BY SMTT(40) DEF RoleOK, MailOK, TimeOK, SwapOK, FromOK
<1>3. Told(x, y) /\ Told(y, x) /\ Answered(x, y) /\ Answered(y, x)
  BY SMTT(40) DEF Told, Answered
<1>4. Contract(x, y) /\ Contract(y, x) /\ Reset(x, y) /\ Reset(y, x)
  BY SMTT(40) DEF TimeOK, Answered, Contract, Reset
<1>5. Swap(x, y) /\ Swap(y, x) /\ Apart(x, y) /\ Apart(y, x)
  BY SMTT(40) DEF TimeOK, Swap, Apart
<1>6. QED BY <1>1, <1>2, <1>3, <1>4, <1>5

\* Two ports at boot.
LEMMA StartGood ==
  ASSUME NEW r, NEW o,
         State(r) = "SNK_DISCONNECTED", From(r) = "SNK_DISCONNECTED", Fresh(r), Sink(r), ~Rp(r),
         ~On(r), ~Hears(r), ~Hit(r), News(r) = "none", Single(r), Waits(r),
         State(o) = "SNK_DISCONNECTED", From(o) = "SNK_DISCONNECTED", Fresh(o), Sink(o), ~Rp(o),
         ~On(o), ~Hears(o), ~Hit(o), News(o) = "none", Single(o), Waits(o)
  PROVE  Good(r, o)
<1>1. PortOK(r)
  BY SMTT(40) DEF RoleOK, MailOK, TimeOK, SwapOK, FromOK
<1>2. PortOK(o)
  BY SMTT(40) DEF RoleOK, MailOK, TimeOK, SwapOK, FromOK
<1>3. Told(r, o) /\ Told(o, r) /\ Answered(r, o) /\ Answered(o, r)
  BY SMTT(40) DEF Told, Answered
<1>4. Contract(r, o) /\ Contract(o, r) /\ Reset(r, o) /\ Reset(o, r)
  BY SMTT(40) DEF Contract, Reset
<1>5. Swap(r, o) /\ Swap(o, r) /\ Apart(r, o) /\ Apart(o, r)
  BY SMTT(40) DEF Swap, Apart
<1>6. QED BY <1>1, <1>2, <1>3, <1>4, <1>5

\* What the theorems say of two ports.
LEMMA GoodApart ==
  ASSUME NEW r, NEW o, Good(r, o), Shape(r), Shape(o)
  PROVE  /\ ~(On(r) /\ On(o))
         /\ Sink(r) /\ (On(r) \/ Rp(r)) => State(r) \in NewSource
         /\ State(r) \in Ready /\ State(o) \in Ready =>
              \/ ~Sink(r) /\ On(r) /\ Sink(o) /\ ~On(o)
              \/ ~Sink(o) /\ On(o) /\ Sink(r) /\ ~On(r)
BY SMTT(40) DEF RoleOK, Swap, Apart

-----------------------------------------------------------------------------
(* From here on the invariant stays closed: a step is shown to be one of   *)
(* those the lemmas above are about.                                       *)

HIDE DEF Shape, States, Messages, Good, PortOK, PairOK, Got, In, Enters, Away,
         Disconnected, Debouncing, SinkStates, SourceStates, Swapping, NewSource, Ready,
         Heeding, RunNew, RunOn, Leads, Asking, Asked, SourceAsked, SinkAsked, Idle,
         Busy, Opposed, Question, Settling, Leaving, Resetting, ResetSinks, Place,
         Clock, Power, Mailbox, Deaf, Same, Keeps, Enter, Timed, Hands, HitBy, Struck,
         Begins, Taken, Reached, LooksAtVbus, LooksAtCc, Expires, Ends, Quietly, Saying,
         Silently, Answering, Moves, Facing, Fed, Ages

LEMMA EnterSeen ==
  ASSUME NEW r \in PortType, NEW next \in States
  PROVE  Enter(r, SetState(r, next), next)
BY DEF Enter, Power, Mailbox, Deaf, State, From, Fresh, Last, Sink, Rp, On, Off, Hears,
       News, Single, Hit, Waits, Ran, Packet, SetState, PortType

LEMMA TimedSeen ==
  ASSUME NEW p \in Ports, NEW r \in PortType, NEW d \in Durations, NEW next \in States
  PROVE  Timed(r, SetTimeout(r, T[p][d], next), next)
<1>1. T[p][d] + 1 \in Nat /\ T[p][d] + 1 # 0 /\ T[p][d] + 1 # 1
  BY LongestDuration
<1>2. QED
  BY <1>1 DEF Timed, Place, Power, Mailbox, State, From, Fresh, Last, Goal, Sink, Rp, On, Off,
       Hears, News, Single, Hit, SetTimeout, PortType

-----------------------------------------------------------------------------
(* The end of a pass.                                                      *)

LEMMA ExpireSeen ==
  ASSUME NEW p \in Ports, NEW x \in Sound(p)
  PROVE  /\ Expires(x, Expire(x)) /\ From(Expire(x)) = From(x)
         /\ State(Expire(x)) = Reached(x) /\ Expire(x) \in Sound(p)
         /\ Power(x, Expire(x))
<1>1. Last(x) => Goal(x) \in States
  BY DEF Last, Goal, Sound
<1>2. CASE Last(x)
  <2>1. Expire(x) = SetState(x, Goal(x))
    BY <1>2 DEF Last, Goal, Expire
  <2>2. Enter(x, Expire(x), Goal(x))
    BY <1>1, <1>2, <2>1, EnterSeen DEF Sound
  <2>3. QED BY <1>2, <2>2, ExpireSound DEF Expires, Enter, Reached
<1>3. CASE ~Last(x)
  <2>1. Expire(x) = x
    BY <1>3 DEF Last, Expire
  <2>2. QED BY <1>3, <2>1, ExpireSound DEF Expires, Reached, Clock, Power, Mailbox
<1>4. QED BY <1>2, <1>3

\* LoseSink() is all that is left open of a disconnection.
LEMMA DisconnectSeen ==
  ASSUME TypeInv, plugged, NEW p \in Ports, NEW x \in Sound(p), NEW o, o = pd[Other(p)]
  PROVE  LET s == DetectDisconnect(p, x)
             sees == /\ Sink(x)
                     /\ State(x) \notin Swapping \cup
                          {"SNK_DISCONNECTED", "SNK_DISCONNECTED_DEBOUNCE",
                           "SNK_HARD_RESET_RECOVER", "HARD_RESET_EXECUTE"}
         IN \/ s = x /\ (sees => On(x) \/ On(o))
            \/ sees /\ ~On(x) /\ ~On(o) /\ s = SetState(x, "SNK_DISCONNECTED")
            \/ /\ ~Sink(x) /\ (Rp(x) <=> Rp(o))
               /\ State(x) \notin Swapping \cup
                    {"SRC_DISCONNECTED", "SRC_DISCONNECTED_DEBOUNCE"}
<1>1. x \in PortType /\ o \in PortType
  BY OtherPort DEF TypeInv, Sound
<1>2. x.cc \in {"RD", "RP"} /\ o.cc \in {"RD", "RP"}
  BY <1>1 DEF PortType
<1>3. x.power_role \in {"SINK", "SOURCE"}
  BY <1>1 DEF PortType
<1>4. VbusProvided(p, x) <=> On(x) \/ On(o)
  BY DEF VbusProvided, On
<1>5. Attached(p, x) <=> ~(Rp(x) <=> Rp(o))
  BY <1>2 DEF Attached, Rp
<1>6. IsConnected(x) <=>
        State(x) \notin (IF Sink(x) THEN {"SNK_DISCONNECTED", "SNK_DISCONNECTED_DEBOUNCE"}
                         ELSE {"SRC_DISCONNECTED", "SRC_DISCONNECTED_DEBOUNCE"})
  BY DEF IsConnected, State, Sink
<1>7. CASE ~IsConnected(x) \/ State(x) \in Swapping
  BY <1>6, <1>7 DEF DetectDisconnect, State
<1>8. CASE IsConnected(x) /\ State(x) \notin Swapping /\ Sink(x)
  <2>1. DetectDisconnect(p, x) =
          IF ~(On(x) \/ On(o)) /\ State(x) \notin {"SNK_HARD_RESET_RECOVER", "HARD_RESET_EXECUTE"}
          THEN SetState(x, "SNK_DISCONNECTED") ELSE x
    BY <1>4, <1>8 DEF DetectDisconnect, State, Sink
  <2>2. QED BY <1>6, <1>8, <2>1
<1>9. CASE IsConnected(x) /\ State(x) \notin Swapping /\ ~Sink(x)
  <2>1. ~(Rp(x) <=> Rp(o)) => DetectDisconnect(p, x) = x
    BY <1>3, <1>5, <1>9 DEF DetectDisconnect, State, Sink
  <2>2. QED BY <1>6, <1>9, <2>1
<1>10. QED BY <1>7, <1>8, <1>9

\* The other port takes notice, at most.
LEMMA InterruptedSeen ==
  ASSUME NEW p \in Ports, NEW r, NEW you \in PortType
  PROVE  Keeps(you, Interrupted(p, r, you))
<1> DEFINE ran == you.ran /\ (plugged => r.vbus = pd[p].vbus)
<1>1. ran => you.ran
  OBVIOUS
<1>2. Interrupted(p, r, you) = [you EXCEPT !.ran = ran]
  BY DEF Interrupted
<1> HIDE DEF ran
<1>3. QED
  BY <1>1, <1>2 DEF Keeps, Same, Place, Clock, Power, Mailbox, State, From, Fresh, Last, Goal,
       Sink, Rp, On, Off, Hears, News, Single, Hit, Waits, Ran, Packet, PortType

LEMMA PassSeen ==
  ASSUME TypeInv, plugged, faults = 0, NEW p \in Ports, NEW x \in Sound(p),
         NEW y, SoundOutcome(p, y), Self(p) \in Sound(p), Pass(p, x, y)
  PROVE  /\ Ends(State(Self(p)), x, pd[Other(p)], pd'[p])
         /\ Keeps(y.you, pd'[Other(p)])
         /\ y.cost = 0 /\ ~Overtakes(p) /\ faults' = 0 /\ plugged'
<1> DEFINE this == State(Self(p))
           o == pd[Other(p)]
           n == [x EXCEPT !.last_state = this]
           e == Expire(n)
           last == DetectDisconnect(p, e)
           ran == (last.task_state = this)
           s == [last EXCEPT !.step = "wait", !.ran = ran]
<1>1. /\ pd' = [pd EXCEPT ![p] = s, ![Other(p)] = Interrupted(p, last, y.you)]
      /\ y.cost + (IF Overtakes(p) THEN 1 ELSE 0) <= faults
      /\ faults' = faults - (y.cost + (IF Overtakes(p) THEN 1 ELSE 0))
      /\ UNCHANGED plugged
  BY DEF Pass, State
<1>2. pd'[p] = s /\ pd'[Other(p)] = Interrupted(p, last, y.you)
  BY <1>1, OtherPort DEF TypeInv
<1>3. this \in States
  BY DEF State, Sound, PortType
<1>4. /\ n \in Sound(p) /\ State(n) = State(x) /\ From(n) = this
      /\ Clock(x, n) /\ Power(x, n) /\ Mailbox(x, n)
  <2> HIDE DEF this
  <2>1. n \in Sound(p)
    BY <1>3 DEF Sound, PortType
  <2>2. QED
    BY <1>3, <2>1 DEF Clock, Power, Mailbox, State, From, Fresh, Last, Goal,
         Sink, Rp, On, Off, Hears, News, Single, Hit, Sound, PortType
<1> HIDE DEF n
<1>5. /\ Expires(n, e) /\ From(e) = this /\ State(e) = Reached(n) /\ e \in Sound(p)
      /\ Power(n, e)
  BY <1>4, ExpireSeen
<1> HIDE DEF e
<1>6. LET sees == /\ Sink(e)
                  /\ State(e) \notin Swapping \cup
                       {"SNK_DISCONNECTED", "SNK_DISCONNECTED_DEBOUNCE",
                        "SNK_HARD_RESET_RECOVER", "HARD_RESET_EXECUTE"}
      IN \/ last = e /\ (sees => On(e) \/ On(o))
         \/ sees /\ ~On(e) /\ ~On(o) /\ last = SetState(e, "SNK_DISCONNECTED")
         \/ /\ ~Sink(e) /\ (Rp(e) <=> Rp(o))
            /\ State(e) \notin Swapping \cup
                 {"SRC_DISCONNECTED", "SRC_DISCONNECTED_DEBOUNCE"}
  BY <1>5, DisconnectSeen
<1>7. last \in Sound(p)
  BY <1>5, DetectDisconnectSound
<1>8. Enter(e, SetState(e, "SNK_DISCONNECTED"), "SNK_DISCONNECTED")
  BY <1>5, EnterSeen, StateNames DEF Sound
<1>9. From(last) = this
  <2>1. last \in {e, SetState(e, "SNK_DISCONNECTED")} \/ last = LoseSink(p, e)
    BY DEF DetectDisconnect
  <2>2. e.last_state = this /\ e \in PortType
    BY <1>5 DEF From, Sound
  <2>3. LoseSink(p, e).last_state = this
    BY <2>2 DEF LoseSink, SetState, PortType
  <2>4. QED BY <1>5, <1>8, <2>1, <2>3 DEF From, Enter
<1> HIDE DEF last
<1>10. /\ Same(last, s) /\ Waits(s) /\ (Ran(s) <=> State(s) = this)
  <2>1. ran \in BOOLEAN /\ (ran <=> State(last) = this)
    BY DEF State
  <2> HIDE DEF ran
  <2>2. QED
    BY <1>7, <2>1 DEF Same, Place, Clock, Power, Mailbox, State, From, Fresh, Last, Goal,
         Sink, Rp, On, Off, Hears, News, Single, Hit, Waits, Ran, Packet, Sound, PortType
<1> HIDE DEF s
<1>11. Reached(n) = Reached(x) /\ (Last(n) <=> Last(x)) /\ Goal(n) = Goal(x)
  BY <1>4 DEF Reached, Clock
<1>12. Ends(this, x, o, s)
  <2> HIDE DEF this, o
  <2>1. CASE /\ last = e
             /\ /\ Sink(e)
                /\ State(e) \notin Swapping \cup
                     {"SNK_DISCONNECTED", "SNK_DISCONNECTED_DEBOUNCE",
                      "SNK_HARD_RESET_RECOVER", "HARD_RESET_EXECUTE"}
                => On(e) \/ On(o)
    BY <1>4, <1>5, <1>9, <1>10, <1>11, <2>1
       DEF Ends, Expires, LooksAtVbus, Same, Place, Clock, Power, Mailbox, Deaf
  <2>2. CASE /\ Sink(e)
             /\ State(e) \notin Swapping \cup
                  {"SNK_DISCONNECTED", "SNK_DISCONNECTED_DEBOUNCE",
                   "SNK_HARD_RESET_RECOVER", "HARD_RESET_EXECUTE"}
             /\ ~On(e) /\ ~On(o) /\ last = SetState(e, "SNK_DISCONNECTED")
    BY <1>4, <1>5, <1>8, <1>9, <1>10, <1>11, <2>2
       DEF Ends, LooksAtVbus, Same, Place, Clock, Power, Mailbox, Deaf, Enter, Disconnected
  <2>3. CASE /\ ~Sink(e) /\ (Rp(e) <=> Rp(o))
             /\ State(e) \notin Swapping \cup
                  {"SRC_DISCONNECTED", "SRC_DISCONNECTED_DEBOUNCE"}
    BY <1>4, <1>5, <1>9, <1>10, <1>11, <2>3
       DEF Ends, LooksAtCc, Same, Place, Power
  <2>4. QED BY <1>6, <2>1, <2>2, <2>3
<1>13. Keeps(y.you, Interrupted(p, last, y.you))
  BY InterruptedSeen DEF SoundOutcome, Sound
<1>14. y.cost = 0 /\ ~Overtakes(p) /\ faults' = 0
  <2>1. y.cost \in 0..1
    BY DEF SoundOutcome
  <2>2. CASE Overtakes(p)
    BY <1>1, <2>1, <2>2
  <2>3. CASE ~Overtakes(p)
    BY <1>1, <2>1, <2>3
  <2>4. QED BY <2>2, <2>3
<1>15. QED BY <1>1, <1>2, <1>12, <1>13, <1>14

-----------------------------------------------------------------------------
(* What a transmission does when nothing is lost.                          *)

LEMMA NoNews ==
  ASSUME NEW r \in PortType
  PROVE  News(r) = "none" <=> r.rx = <<>>
<1>1. r.rx \in Mail /\ "none" \notin Messages
  BY DEF PortType, Messages
<1>2. QED BY <1>1, MailFacts DEF News

LEMMA OneMessage ==
  ASSUME NEW r \in PortType, NEW m \in Messages, News(r) = "none", Hears(r)
  PROVE  /\ [r EXCEPT !.rx = <<m>>].rx = <<m>>
         /\ Hands(r, [r EXCEPT !.rx = <<m>>], m)
<1>1. <<m>> # <<>> /\ Head(<<m>>) = m
  OBVIOUS
<1> DEFINE s == [r EXCEPT !.rx = <<m>>]
<1>2. s.rx = <<m>>
  BY DEF PortType
<1>3. News(s) = m /\ Single(s)
  BY <1>1, <1>2 DEF News, Single
<1>4. QED
  BY <1>2, <1>3 DEF Hands, Place, Clock, Power, State, From, Fresh, Last, Goal,
       Sink, Rp, On, Off, Hears, Hit, Waits, Ran, Packet, PortType

LEMMA TransmitSeen ==
  ASSUME TypeInv, plugged, faults = 0, NEW p \in Ports, NEW x \in Sound(p), ~Hit(x),
         NEW m \in Messages, NEW y \in Transmit(p, x, m), y.cost = 0
  PROVE  y.me = x /\ Spoken(x, pd[Other(p)], y, m)
<1> DEFINE o == pd[Other(p)]
<1>1. o \in PortType /\ o.rx_enabled \in BOOLEAN
  BY OtherPort DEF TypeInv, PortType
<1>2. TcpcRun(p, x) = x
  BY DEF TcpcRun, Hit
<1>3. Heard(x, o) <=> Hears(x) /\ Hears(o)
  BY DEF Heard, Hears
<1>4. o.rx = <<>> <=> News(o) = "none"
  BY <1>1, NoNews
<1>5. CASE Hears(x) /\ Hears(o) /\ News(o) = "none"
  <2>1. y \in {Outcome(x, [o EXCEPT !.rx = <<m>>], TRUE, 0), Outcome(x, o, FALSE, 1),
               Outcome(x, [o EXCEPT !.rx = <<m>>], FALSE, 1),
               Outcome(x, [o EXCEPT !.rx = <<m, m>>], TRUE, 1)}
    BY <1>2, <1>3, <1>4, <1>5 DEF Transmit
  <2>2. y = Outcome(x, [o EXCEPT !.rx = <<m>>], TRUE, 0)
    BY <2>1 DEF Outcome
  <2>3. Hands(o, [o EXCEPT !.rx = <<m>>], m)
    BY <1>1, <1>5, OneMessage
  <2>4. y.me = x /\ y.sent /\ y.you = [o EXCEPT !.rx = <<m>>]
    BY <2>2 DEF Outcome
  <2>5. QED BY <1>5, <2>3, <2>4 DEF Spoken
<1>6. CASE ~(Hears(x) /\ Hears(o) /\ News(o) = "none")
  <2>1. y = Outcome(x, o, FALSE, 0)
    BY <1>2, <1>3, <1>4, <1>6 DEF Transmit
  <2>2. QED BY <1>6, <2>1 DEF Spoken, Outcome
<1>7. QED BY <1>5, <1>6

LEMMA TransmitHardResetSeen ==
  ASSUME TypeInv, plugged, faults = 0, NEW p \in Ports, NEW x \in Sound(p), ~Hit(x),
         NEW y \in TransmitHardReset(p, x), y.cost = 0
  PROVE  /\ y.me = x /\ (y.sent <=> Hears(x))
         /\ IF Hears(x) /\ Hears(pd[Other(p)]) THEN HitBy(pd[Other(p)], y.you)
            ELSE y.you = pd[Other(p)]
<1> DEFINE o == pd[Other(p)]
           struck == [o EXCEPT !.hard_rst = TRUE]
<1>1. o \in PortType /\ x.rx_enabled \in BOOLEAN
  BY OtherPort DEF TypeInv, PortType, Sound
<1>2. TcpcRun(p, x) = x
  BY DEF TcpcRun, Hit
<1>3. Heard(x, o) <=> Hears(x) /\ Hears(o)
  BY DEF Heard, Hears
<1>4. y = Outcome(x, IF Heard(x, o) THEN struck ELSE o, x.rx_enabled, 0)
  BY <1>2 DEF TransmitHardReset, Outcome
<1>5. y.me = x /\ y.sent = x.rx_enabled /\ y.you = IF Heard(x, o) THEN struck ELSE o
  BY <1>4 DEF Outcome
<1>6. /\ Place(o, struck) /\ Clock(o, struck) /\ Power(o, struck)
      /\ (Waits(struck) <=> Waits(o)) /\ (Packet(struck) <=> Packet(o))
      /\ (Ran(struck) <=> Ran(o))
      /\ (Hears(struck) <=> Hears(o)) /\ Hit(struck) /\ News(struck) = News(o)
      /\ (Single(struck) <=> Single(o))
  BY <1>1 DEF Place, Clock, Power, State, From, Fresh, Last, Goal,
       Sink, Rp, On, Off, Hears, News, Single, Hit, Waits, Ran, Packet, PortType
<1> HIDE DEF struck
<1>7. QED BY <1>1, <1>3, <1>5, <1>6 DEF Hears, HitBy

-----------------------------------------------------------------------------
(* The beginning of a pass.                                                *)

Safe ==
  /\ TypeInv /\ plugged /\ faults = 0
  /\ \A p \in Ports : Good(pd[p], pd[Other(p)])

LEMMA ShapeSeen ==
  ASSUME NEW r \in PortType
  PROVE  Shape(r)
<1>1. r.rx # <<>> => Head(r.rx) \in Messages
  BY MailFacts DEF PortType
<1>2. r.timeout \in Nat /\ r.task_state \in States
  BY DEF PortType
<1>3. QED BY <1>1, <1>2 DEF Shape, Fresh, Last, State, News

LEMMA StruckSeen ==
  ASSUME NEW p \in Ports, NEW r \in Sound(p), Hit(r)
  PROVE  Struck(r, TcpcRun(p, r))
BY DEF Struck, State, From, Fresh, Last, In, Sink, Rp, On, Hears, News, Single, Hit, Waits,
     Ran, Packet, TcpcRun, ExecuteHardReset, RestoreRd, SetState, Disconnected, Sound, PortType

LEMMA WokenSeen ==
  ASSUME NEW p \in Ports, TypeInv
  PROVE  Same(TcpcRun(p, pd[p]), Woken(p)) /\ ~Packet(Woken(p)) /\ ~Waits(Woken(p))
<1> DEFINE x == TcpcRun(p, pd[p])
<1>1. x \in Sound(p)
  BY TcpcRunSound DEF TypeInv
<1>2. Woken(p) = [x EXCEPT !.step = "run", !.incoming_packet = FALSE]
  BY DEF Woken
<1> DEFINE y == Woken(p)
<1> HIDE DEF x
<1>3. /\ y.task_state = x.task_state /\ y.last_state = x.last_state
      /\ y.timeout = x.timeout /\ y.timeout_state = x.timeout_state
      /\ y.power_role = x.power_role /\ y.cc = x.cc /\ y.vbus = x.vbus
      /\ y.vbus_off = x.vbus_off /\ y.rx_enabled = x.rx_enabled /\ y.rx = x.rx
      /\ y.hard_rst = x.hard_rst /\ y.step = "run" /\ y.incoming_packet = FALSE
  BY <1>1, <1>2 DEF Sound, PortType
<1> HIDE DEF y
<1>4. Same(x, y) /\ ~Packet(y) /\ ~Waits(y)
  BY <1>3 DEF Same, Place, Clock, Power, Mailbox, State, From, Fresh, Last, Goal,
       Sink, Rp, On, Off, Hears, News, Single, Hit, Waits, Packet
<1>5. QED BY <1>4 DEF x, y

LEMMA OneAtATime ==
  ASSUME NEW r, NEW o, Good(r, o), Hit(r)
  PROVE  ~Hit(o) /\ News(o) = "none" /\ Waits(o)
BY DEF Good, PairOK, Reset, Got

LEMMA BeginSeen ==
  ASSUME Safe, NEW p \in Ports, Turn(p), ~Overtakes(p)
  PROVE  \E w : Begins(w, Self(p), pd[Other(p)])
<1> DEFINE r == pd[p]
           o == pd[Other(p)]
<1>1. r \in Sound(p) /\ r \in PortType /\ o \in PortType /\ TypeInv
  BY OtherPort DEF Safe, TypeInv
<1>2. Good(r, o) /\ Shape(r) /\ Shape(o)
  BY <1>1, ShapeSeen DEF Safe
<1>3. /\ Waits(r) <=> r.step # "run"
      /\ Waits(o) <=> o.step # "run"
      /\ News(r) = "none" <=> r.rx = <<>>
      /\ News(o) = "none" <=> o.rx = <<>>
  BY <1>1, NoNews DEF Waits, PortType
<1>4. /\ Pending(p) <=> News(r) # "none" \/ Hit(r) \/ ~Waits(r)
      /\ Pending(Other(p)) <=> News(o) # "none" \/ Hit(o) \/ ~Waits(o)
  BY <1>3 DEF Pending, Hit
<1> HIDE DEF r, o
<1>5. CASE ~Waits(r)
  <2>1. Self(p) = r
    BY <1>3, <1>5 DEF Self, r
  <2>2. Packet(r)
    BY <1>2, <1>5 DEF Good, PortOK, MailOK
  <2>3. Same(r, r)
    BY DEF Same, Place, Clock, Power, Mailbox
  <2>4. Begins(r, Self(p), o)
    BY <1>2, <1>5, <2>1, <2>2, <2>3 DEF Begins
  <2>5. QED BY <2>4 DEF o
<1>6. CASE Waits(r)
  <2> DEFINE x == TcpcRun(p, pd[p])
  <2>1. Self(p) = Woken(p)
    BY <1>3, <1>6 DEF Self, r
  <2>2. Due(p) /\ News(r) = "none"
    BY <1>3, <1>6 DEF Turn, r
  <2>3. Same(x, Self(p)) /\ ~Packet(Self(p))
    BY <1>1, <2>1, WokenSeen
  <2>4. CASE Hit(r)
    <3>1. Struck(r, x)
      BY <1>1, <2>4, StruckSeen DEF r
    <3>2. x \in PortType
      BY <1>1, TcpcRunSound DEF r, Sound
    <3> HIDE DEF x
    <3>3. Good(x, o)
      BY <1>2, <2>2, <2>4, <3>1, StruckGood
    <3>4. ~Hit(x) /\ ~Ran(x) /\ News(x) = "none" /\ Waits(x)
      BY <1>6, <2>2, <3>1 DEF Struck
    <3>5. ~Hit(o) /\ News(o) = "none" /\ Waits(o)
      BY <1>2, <2>4, OneAtATime
    <3>6. Shape(x)
      BY <3>2, ShapeSeen
    <3>7. Begins(x, Self(p), o)
      BY <1>2, <2>3, <3>3, <3>4, <3>5, <3>6 DEF Begins
    <3>8. QED BY <3>7 DEF o
  <2>5. CASE ~Hit(r)
    <3>1. x = r
      BY <2>5 DEF TcpcRun, Hit, r
    <3>2. ~Ran(r)
      BY <1>4, <1>6, <2>2, <2>5 DEF Due, Ran, r
    <3>3. ~Hit(o) /\ News(o) = "none" /\ Waits(o)
      BY <1>4, <1>6, <2>2, <2>5 DEF Overtakes
    <3> HIDE DEF x
    <3>4. Begins(r, Self(p), o)
      BY <1>2, <1>6, <2>2, <2>3, <2>5, <3>1, <3>2, <3>3 DEF Begins
    <3>5. QED BY <3>4 DEF o
  <2>6. QED BY <2>4, <2>5
<1>7. QED BY <1>5, <1>6

LEMMA QuietSeen ==
  ASSUME Safe, NEW p \in Ports, NEW x \in Sound(p), QuietPass(p, x)
  PROVE  /\ Ends(State(Self(p)), x, pd[Other(p)], pd'[p])
         /\ Keeps(pd[Other(p)], pd'[Other(p)]) /\ ~Overtakes(p)
         /\ faults' = 0 /\ plugged'
<1>1. SoundOutcome(p, Quiet(p, x)) /\ Quiet(p, x).you = pd[Other(p)]
  BY QuietSound DEF Safe, Quiet, Outcome
<1>2. Pass(p, x, Quiet(p, x)) /\ Self(p) \in Sound(p)
  BY SelfSound DEF QuietPass, Safe
<1>3. QED BY <1>1, <1>2, PassSeen DEF Safe

-----------------------------------------------------------------------------
(* The handling of a message.                                              *)

LEMMA TailSeen ==
  ASSUME NEW r \in PortType, r.rx # <<>>, Single(r)
  PROVE  Tail(r.rx) = <<>>
<1>1. r.rx = <<Head(r.rx)>>
  BY DEF Single
<1>2. \A m : Tail(<<m>>) = <<>>
  OBVIOUS
<1>3. QED BY <1>1, <1>2

LEMMA RequestSeen ==
  ASSUME Safe, NEW p \in Ports, NEW m \in Messages, Handles(p, m)
  PROVE  /\ Got(pd[p], m) /\ Waits(pd[p]) /\ Request(p) \in Sound(p)
         /\ IF Hit(pd[p])
            THEN /\ m \in {"ACCEPT", "REJECT"} /\ Good(Request(p), pd[Other(p)])
                 /\ In(Request(p), {"SNK_HARD_RESET_RECOVER", "SRC_HARD_RESET_RECOVER"})
            ELSE Taken(pd[p], Request(p))
<1> DEFINE r == pd[p]
           o == pd[Other(p)]
           x == TcpcRun(p, pd[p])
           w == Woken(p)
           b == [w EXCEPT !.rx = Tail(@), !.incoming_packet = TRUE]
<1>1. r \in Sound(p) /\ r \in PortType /\ o \in PortType /\ TypeInv /\ w \in Sound(p)
  BY OtherPort, SelfSound DEF Safe, TypeInv
<1>2. Good(r, o) /\ Shape(r) /\ Shape(o)
  BY <1>1, ShapeSeen DEF Safe
<1>3. Got(r, m) /\ Waits(r) /\ r.rx # <<>> /\ m # "none"
  BY DEF Handles, Awake, Got, News, Waits, Messages
<1>4. Request(p) \in Sound(p)
  BY <1>1, RequestSound
<1>5. Same(x, w) /\ w.step = "run"
  <2>1. Same(x, w) /\ x \in Sound(p)
    BY <1>1, WokenSeen, TcpcRunSound
  <2> HIDE DEF x
  <2>2. w.step = "run"
    <3>1. w = [x EXCEPT !.step = "run", !.incoming_packet = FALSE]
      BY DEF Woken, x
    <3> HIDE DEF w
    <3>2. QED BY <2>1, <3>1 DEF Sound, PortType
  <2>3. QED BY <2>1, <2>2
<1>6. w.rx = r.rx /\ w.ran = x.ran
  <2>1. x \in Sound(p) /\ x.rx = r.rx
    BY <1>1, TcpcRunSound, TcpcRunFields
  <2> HIDE DEF x
  <2>2. w = [x EXCEPT !.step = "run", !.incoming_packet = FALSE]
    BY DEF Woken, x
  <2> HIDE DEF w
  <2>3. QED BY <2>1, <2>2 DEF Sound, PortType
<1> HIDE DEF w
<1>7. Single(r)
  BY <1>2 DEF Good, PortOK, MailOK
<1>8. Tail(w.rx) = <<>>
  BY <1>1, <1>3, <1>6, <1>7, TailSeen
<1>9. /\ Place(w, b) /\ Clock(w, b) /\ Power(w, b)
      /\ (Hears(b) <=> Hears(w)) /\ (Hit(b) <=> Hit(w)) /\ (Ran(b) <=> Ran(w))
      /\ Got(b, "none") /\ Single(b) /\ ~Waits(b) /\ Packet(b)
  <2>1. b = [w EXCEPT !.rx = <<>>, !.incoming_packet = TRUE]
    BY <1>8
  <2> HIDE DEF b
  <2>2. /\ b.task_state = w.task_state /\ b.last_state = w.last_state
        /\ b.timeout = w.timeout /\ b.timeout_state = w.timeout_state
        /\ b.power_role = w.power_role /\ b.cc = w.cc /\ b.vbus = w.vbus
        /\ b.vbus_off = w.vbus_off /\ b.rx_enabled = w.rx_enabled /\ b.rx = <<>>
        /\ b.hard_rst = w.hard_rst /\ b.step = w.step /\ b.incoming_packet = TRUE
        /\ b.ran = w.ran
    BY <1>1, <2>1 DEF Sound, PortType
  <2>3. QED
    BY <1>5, <2>2 DEF Place, Clock, Power, State, From, Fresh, Last, Goal,
         Sink, Rp, On, Off, Hears, News, Single, Hit, Waits, Packet, Ran, Got
<1>10. Request(p) = IF IsConnected(b) THEN b ELSE SetState(b, "HARD_RESET_SEND")
  BY DEF Request, w
<1>11. IsConnected(b) <=>
         State(b) \notin (IF Sink(b) THEN {"SNK_DISCONNECTED", "SNK_DISCONNECTED_DEBOUNCE"}
                          ELSE {"SRC_DISCONNECTED", "SRC_DISCONNECTED_DEBOUNCE"})
  BY DEF IsConnected, State, Sink
<1> HIDE DEF b
<1>12. (Ran(w) <=> Ran(x))
  BY <1>6 DEF Ran
<1>13. CASE Hit(r)
  <2>1. Struck(r, x)
    BY <1>1, <1>13, StruckSeen
  <2> HIDE DEF x, r, o
  <2>2. /\ Place(x, b) /\ Clock(x, b) /\ Power(x, b)
        /\ (Hears(b) <=> Hears(x)) /\ (Hit(b) <=> Hit(x)) /\ (Ran(b) => Ran(x))
    BY <1>5, <1>9, <1>12 DEF Same, Place, Clock, Power, Mailbox
  <2>3. ~Got(r, "none")
    BY <1>3 DEF Got
  <2>4. /\ Good(b, o)
        /\ In(b, {"SNK_HARD_RESET_RECOVER", "SRC_HARD_RESET_RECOVER"})
    BY <1>2, <1>9, <1>13, <2>1, <2>2, <2>3, StruckAnswered
  <2>5. IsConnected(b)
    BY <1>11, <2>4 DEF In
  <2>6. News(r) \in {"none", "ACCEPT", "REJECT"}
    BY <1>2, <1>13, StruckNews
  <2>7. m \in {"ACCEPT", "REJECT"}
    BY <1>3, <2>6 DEF Got
  <2>8. QED BY <1>3, <1>4, <1>10, <1>13, <2>4, <2>5, <2>7 DEF r, o
<1>14. CASE ~Hit(r)
  <2>1. x = r
    BY <1>14 DEF TcpcRun, Hit
  <2> HIDE DEF x, r, o
  <2>2. Taken(r, b)
    BY <1>5, <1>9, <1>12, <2>1 DEF Taken, Same, Place, Clock, Power, Mailbox
  <2>3. ~In(b, Away)
    <3>1. ~In(r, Away)
      BY <1>2, <1>3, NewsHeard DEF Got
    <3>2. QED BY <2>2, <3>1 DEF Taken, Place, In
  <2>4. IsConnected(b)
    BY <1>11, <2>3 DEF In, Away, Disconnected, Debouncing
  <2>5. QED BY <1>3, <1>4, <1>10, <1>14, <2>2, <2>4 DEF r, o
<1>15. QED BY <1>13, <1>14

LEMMA HandledSeen ==
  ASSUME Safe, NEW p \in Ports, NEW x, NEW y, SoundOutcome(p, y), Handled(p, x, y)
  PROVE  /\ pd'[p] = x /\ Keeps(y.you, pd'[Other(p)])
         /\ y.cost = 0 /\ faults' = 0 /\ plugged'
<1>1. pd'[p] = x /\ pd'[Other(p)] = Interrupted(p, x, y.you)
  BY OtherPort DEF Handled, Safe, TypeInv
<1>2. Keeps(y.you, Interrupted(p, x, y.you))
  BY InterruptedSeen DEF SoundOutcome, Sound
<1>3. y.cost = 0 /\ faults' = 0 /\ plugged'
  BY DEF Handled, Safe, SoundOutcome
<1>4. QED BY <1>1, <1>2, <1>3

LEMMA HandledQuietSeen ==
  ASSUME Safe, NEW p \in Ports, NEW b \in Sound(p), NEW x, Handled(p, x, Quiet(p, b))
  PROVE  /\ pd'[p] = x /\ Keeps(pd[Other(p)], pd'[Other(p)])
         /\ faults' = 0 /\ plugged'
<1>1. SoundOutcome(p, Quiet(p, b)) /\ Quiet(p, b).you = pd[Other(p)]
  BY QuietSound DEF Safe, Quiet, Outcome
<1>2. QED BY <1>1, HandledSeen

\* s differs from r in nothing that the invariant reads.
Unseen(r, s) ==
  /\ s.task_state = r.task_state /\ s.last_state = r.last_state
  /\ s.timeout = r.timeout /\ s.timeout_state = r.timeout_state
  /\ s.power_role = r.power_role /\ s.cc = r.cc /\ s.vbus = r.vbus
  /\ s.vbus_off = r.vbus_off /\ s.rx_enabled = r.rx_enabled /\ s.rx = r.rx
  /\ s.hard_rst = r.hard_rst /\ s.step = r.step
  /\ s.incoming_packet = r.incoming_packet /\ s.ran = r.ran

LEMMA UnseenKeeps == ASSUME NEW r, NEW s, Unseen(r, s) PROVE Keeps(r, s)
BY DEF Unseen, Keeps, Same, Place, Clock, Power, Mailbox, State, From, Fresh, Last, Goal,
       Sink, Rp, On, Off, Hears, News, Single, Hit, Waits, Packet, Ran

LEMMA FlagsUnseen ==
  ASSUME NEW p \in Ports, NEW r \in Sound(p)
  PROVE  /\ \A f \in SUBSET Flags : /\ Keeps(r, [r EXCEPT !.flags = @ \cup f])
                                    /\ Keeps(r, [r EXCEPT !.flags = @ \ f])
                                    /\ [r EXCEPT !.flags = @ \cup f] \in Sound(p)
                                    /\ [r EXCEPT !.flags = @ \ f] \in Sound(p)
         /\ Keeps(r, DrSwap(r)) /\ DrSwap(r) \in Sound(p)
<1>1. ASSUME NEW g \in SUBSET Flags, NEW d \in {"UFP", "DFP"}
      PROVE  LET s == [r EXCEPT !.flags = g]
                 t == [r EXCEPT !.data_role = d]
             IN Keeps(r, s) /\ Keeps(r, t) /\ s \in Sound(p) /\ t \in Sound(p)
  <2> DEFINE s == [r EXCEPT !.flags = g]
             t == [r EXCEPT !.data_role = d]
  <2>1. s \in Sound(p) /\ t \in Sound(p)
    BY DEF Sound, PortType
  <2>2. Unseen(r, s) /\ Unseen(r, t)
    BY DEF Unseen, Sound, PortType
  <2> HIDE DEF s, t
  <2>3. Keeps(r, s) /\ Keeps(r, t)
    BY <2>2, UnseenKeeps
  <2>4. QED BY <2>1, <2>3 DEF s, t
<1>2. ASSUME NEW f \in SUBSET Flags
      PROVE  r.flags \cup f \in SUBSET Flags /\ r.flags \ f \in SUBSET Flags
  <2>1. r.flags \in SUBSET Flags
    BY DEF Sound, PortType
  <2>2. QED BY <2>1
<1>3. PICK d \in {"UFP", "DFP"} : DrSwap(r) = [r EXCEPT !.data_role = d]
  BY DEF DrSwap
<1>4. QED BY <1>1, <1>2, <1>3

LEMMA KeepsTrans ==
  ASSUME NEW r, NEW s, NEW t, Keeps(r, s)
  PROVE  /\ Keeps(s, t) => Keeps(r, t)
         /\ \A next : Enter(s, t, next) => Enter(r, t, next)
         /\ Keeps(r, r)
BY DEF Keeps, Same, Place, Clock, Power, Mailbox, Enter, Deaf

\* When the port that is handled was reset, the message changes nothing.
LEMMA ResetHolds ==
  ASSUME Safe, NEW p \in Ports, NEW m \in Messages, Handles(p, m), Hit(pd[p]),
         pd'[p] = Request(p), Keeps(pd[Other(p)], pd'[Other(p)])
  PROVE  Good(pd'[p], pd'[Other(p)])
BY RequestSeen, PassGood

LEMMA SilentSeen ==
  ASSUME Safe, NEW p \in Ports, NEW m \in Messages, Handles(p, m), ~Hit(pd[p])
  PROVE  LET r == pd[p]  b == Request(p)  o == pd[Other(p)] IN
         /\ Got(r, m) /\ Good(r, o) /\ Shape(r) /\ Shape(o) /\ Waits(r) /\ Taken(r, b)
         /\ b \in Sound(p) /\ b \in PortType /\ ~Hit(b)
         /\ \A v : Keeps(o, v) => Silently(r, b, o, v)
         /\ \A n, u, v : Hands(o, u, n) /\ Keeps(u, v) => Answering(n, r, b, o, u, v)
<1>1. pd[p] \in PortType /\ pd[Other(p)] \in PortType
  BY OtherPort DEF Safe, TypeInv
<1>2. /\ Good(pd[p], pd[Other(p)]) /\ Shape(pd[p]) /\ Shape(pd[Other(p)])
  BY <1>1, ShapeSeen DEF Safe
<1>3. /\ Got(pd[p], m) /\ Waits(pd[p]) /\ Request(p) \in Sound(p)
      /\ Taken(pd[p], Request(p))
  BY RequestSeen
<1>4. ~Hit(Request(p)) /\ Request(p) \in PortType
  BY <1>3 DEF Taken, Sound
<1>5. QED BY <1>2, <1>3, <1>4 DEF Silently, Answering

\* What a step has to leave.
Holds(p) == Good(pd'[p], pd'[Other(p)]) /\ faults' = 0 /\ plugged'

\* A message that asks for an answer gets it.
LEMMA AnswerSeen ==
  ASSUME Safe, NEW p \in Ports,
         NEW m \in {"SOURCE_CAP", "REQUEST", "GET_SINK_CAP", "SOFT_RESET", "PR_SWAP", "DR_SWAP"},
         Handles(p, m), NEW k \in Sound(p), Hears(k) <=> Hears(Request(p)),
         Hit(k) <=> Hit(Request(p)), NEW n \in Messages, NEW y \in Transmit(p, k, n),
         NEW x, Handled(p, x, y)
  PROVE  /\ ~Hit(pd[p]) /\ Got(pd[p], m) /\ Taken(pd[p], Request(p))
         /\ y.me = k /\ y.sent /\ pd'[p] = x /\ faults' = 0 /\ plugged'
         /\ Answering(n, pd[p], Request(p), pd[Other(p)], y.you, pd'[Other(p)])
<1>1. m \in Messages /\ m \notin {"ACCEPT", "REJECT"}
  BY DEF Messages
<1>2. ~Hit(pd[p])
  BY <1>1, RequestSeen
<1>3. SoundOutcome(p, y)
  BY TransmitSound DEF Safe
<1>4. /\ pd'[p] = x /\ Keeps(y.you, pd'[Other(p)])
      /\ y.cost = 0 /\ faults' = 0 /\ plugged'
  BY <1>3, HandledSeen
<1>5. /\ Got(pd[p], m) /\ Good(pd[p], pd[Other(p)]) /\ Shape(pd[p])
      /\ Shape(pd[Other(p)]) /\ Waits(pd[p]) /\ Taken(pd[p], Request(p))
      /\ \A u, v : Hands(pd[Other(p)], u, n) /\ Keeps(u, v) =>
           Answering(n, pd[p], Request(p), pd[Other(p)], u, v)
  BY <1>1, <1>2, SilentSeen
<1>6. /\ Hears(Request(p)) /\ Hears(pd[Other(p)]) /\ News(pd[Other(p)]) = "none"
      /\ ~Hit(Request(p))
  BY <1>2, <1>5, AnswerHeard DEF Got
<1>7. y.me = k /\ Spoken(k, pd[Other(p)], y, n)
  BY <1>4, <1>6, TransmitSeen DEF Safe
<1>8. y.sent /\ Hands(pd[Other(p)], y.you, n)
  BY <1>6, <1>7 DEF Spoken
<1>9. QED BY <1>2, <1>4, <1>5, <1>7, <1>8

LEMMA RxSourceCapHolds ==
  ASSUME Safe, NEW p \in Ports, RxSourceCap(p)
  PROVE  Holds(p)
<1> DEFINE r == pd[p]
           b == Request(p)
           o == pd[Other(p)]
           v == pd'[Other(p)]
           known == [b EXCEPT !.flags = @ \cup {"PREVIOUS_PD_CONN", "PARTNER_DR"}]
<1>1. Handles(p, "SOURCE_CAP") /\ "SOURCE_CAP" \in Messages /\ "REQUEST" \in Messages
  BY DEF RxSourceCap, Messages
<1>2. ~Hit(r)
  BY <1>1, RequestSeen
<1>3. /\ Got(r, "SOURCE_CAP") /\ b \in Sound(p)
      /\ \A w : Keeps(o, w) => Silently(r, b, o, w)
  BY <1>1, <1>2, SilentSeen
<1>4. Keeps(b, known) /\ known \in Sound(p)
  BY <1>3, FlagsUnseen DEF Flags
<1> HIDE DEF known
<1>5. CASE In(b, {"SNK_DISCOVERY", "SNK_TRANSITION", "SNK_READY"})
  <2>1. PICK y \in Transmit(p, known, "REQUEST") :
          Handled(p, IF y.sent THEN SetState(y.me, "SNK_REQUESTED") ELSE y.me, y)
    BY <1>5 DEF RxSourceCap, In, State, known
  <2>2. (Hears(known) <=> Hears(b)) /\ (Hit(known) <=> Hit(b))
    BY <1>4 DEF Keeps, Same, Mailbox
  <2>3. /\ y.me = known /\ y.sent /\ faults' = 0 /\ plugged'
        /\ pd'[p] = IF y.sent THEN SetState(y.me, "SNK_REQUESTED") ELSE y.me
        /\ Answering("REQUEST", r, b, o, y.you, v)
    BY <1>1, <1>4, <2>1, <2>2, AnswerSeen
  <2>4. Enter(known, pd'[p], "SNK_REQUESTED")
    BY <1>4, <2>3, EnterSeen, StateNames DEF Sound
  <2>5. Enter(b, pd'[p], "SNK_REQUESTED")
    BY <1>4, <2>4, KeepsTrans
  <2>6. QED BY <1>3, <1>5, <2>3, <2>5, SourceCapGood DEF Holds
<1>6. CASE ~In(b, {"SNK_DISCOVERY", "SNK_TRANSITION", "SNK_READY"})
  <2>1. Handled(p, b, Quiet(p, b))
    BY <1>6 DEF RxSourceCap, In, State
  <2>2. pd'[p] = b /\ Keeps(o, v) /\ faults' = 0 /\ plugged'
    BY <1>3, <2>1, HandledQuietSeen
  <2>3. Keeps(b, pd'[p])
    BY <2>2, <1>4, KeepsTrans
  <2>4. QED BY <1>3, <1>6, <2>2, <2>3, SourceCapGood DEF Holds
<1>7. QED BY <1>5, <1>6

LEMMA RxRequestHolds ==
  ASSUME Safe, NEW p \in Ports, RxRequest(p)
  PROVE  Holds(p)
<1> DEFINE r == pd[p]
           b == Request(p)
           o == pd[Other(p)]
           v == pd'[Other(p)]
<1>1. /\ Handles(p, "REQUEST") /\ "REQUEST" \in Messages
      /\ "ACCEPT" \in Messages /\ "REJECT" \in Messages
  BY DEF RxRequest, Messages
<1>2. b \in Sound(p) /\ (b.power_role = "SOURCE" <=> ~Sink(b))
  BY <1>1, RequestSeen DEF Sink, Sound, PortType
<1>3. CASE ~Sink(b)
  <2>1. PICK y \in Transmit(p, b, "ACCEPT") :
          Handled(p, IF y.sent THEN SetState(y.me, "SRC_ACCEPTED") ELSE y.me, y)
    BY <1>2, <1>3 DEF RxRequest
  <2>2. /\ y.me = b /\ y.sent /\ faults' = 0 /\ plugged' /\ Got(r, "REQUEST")
        /\ pd'[p] = IF y.sent THEN SetState(y.me, "SRC_ACCEPTED") ELSE y.me
        /\ Answering("ACCEPT", r, b, o, y.you, v)
    BY <1>1, <1>2, <2>1, AnswerSeen
  <2>3. Enter(b, pd'[p], "SRC_ACCEPTED")
    BY <1>2, <2>2, EnterSeen, StateNames DEF Sound
  <2>4. QED BY <1>3, <2>2, <2>3, RequestGood DEF Holds
<1>4. CASE Sink(b)
  <2>1. PICK y \in Transmit(p, b, "REJECT") : Handled(p, SetState(y.me, "SRC_READY"), y)
    BY <1>2, <1>4 DEF RxRequest
  <2>2. /\ y.me = b /\ faults' = 0 /\ plugged' /\ Got(r, "REQUEST")
        /\ pd'[p] = SetState(y.me, "SRC_READY")
        /\ Answering("REJECT", r, b, o, y.you, v)
    BY <1>1, <1>2, <2>1, AnswerSeen
  <2>3. Enter(b, pd'[p], "SRC_READY")
    BY <1>2, <2>2, EnterSeen, StateNames DEF Sound
  <2>4. QED BY <1>4, <2>2, <2>3, RequestGood DEF Holds
<1>5. QED BY <1>3, <1>4

LEMMA RxSinkCapHolds ==
  ASSUME Safe, NEW p \in Ports, RxSinkCap(p)
  PROVE  Holds(p)
<1> DEFINE r == pd[p]
           b == Request(p)
           o == pd[Other(p)]
           v == pd'[Other(p)]
           known == [b EXCEPT !.flags = @ \cup {"SNK_CAP_RECVD", "PARTNER_DR"}]
           x == IF b.task_state = "SRC_GET_SINK_CAP" THEN SetState(known, "SRC_READY")
                ELSE known
<1>1. Handles(p, "SINK_CAP") /\ "SINK_CAP" \in Messages
  BY DEF RxSinkCap, Messages
<1>2. ~Hit(r)
  BY <1>1, RequestSeen
<1>3. /\ Got(r, "SINK_CAP") /\ b \in Sound(p)
      /\ \A w : Keeps(o, w) => Silently(r, b, o, w)
  BY <1>1, <1>2, SilentSeen
<1>4. Keeps(b, known) /\ known \in Sound(p)
  BY <1>3, FlagsUnseen DEF Flags
<1>5. Handled(p, x, Quiet(p, b))
  BY DEF RxSinkCap
<1> HIDE DEF known
<1>6. Enter(b, SetState(known, "SRC_READY"), "SRC_READY")
  BY <1>4, EnterSeen, StateNames, KeepsTrans DEF Sound
<1>7. pd'[p] = x /\ Keeps(o, v) /\ faults' = 0 /\ plugged'
  BY <1>3, <1>5, HandledQuietSeen
<1>8. IF In(b, {"SRC_GET_SINK_CAP"}) THEN Enter(b, pd'[p], "SRC_READY") ELSE Keeps(b, pd'[p])
  BY <1>4, <1>6, <1>7 DEF In, State
<1>9. QED BY <1>3, <1>7, <1>8, SinkCapGood DEF Holds

LEMMA RxGetSinkCapHolds ==
  ASSUME Safe, NEW p \in Ports, RxGetSinkCap(p)
  PROVE  Holds(p)
<1>1. /\ Handles(p, "GET_SINK_CAP") /\ "GET_SINK_CAP" \in Messages
      /\ "SINK_CAP" \in Messages
  BY DEF RxGetSinkCap, Messages
<1>2. Request(p) \in Sound(p)
  BY <1>1, RequestSeen
<1>3. PICK y \in Transmit(p, Request(p), "SINK_CAP") : Handled(p, y.me, y)
  BY DEF RxGetSinkCap
<1>4. /\ y.me = Request(p) /\ faults' = 0 /\ plugged' /\ Got(pd[p], "GET_SINK_CAP")
      /\ pd'[p] = y.me
      /\ Answering("SINK_CAP", pd[p], Request(p), pd[Other(p)], y.you, pd'[Other(p)])
  BY <1>1, <1>2, <1>3, AnswerSeen
<1>5. QED BY <1>4, GetSinkCapGood DEF Holds

LEMMA KeepsSelf == ASSUME NEW r PROVE Keeps(r, r)
BY DEF Keeps, Same, Place, Clock, Power, Mailbox

LEMMA ReturnSeen ==
  ASSUME NEW b
  PROVE  /\ ReadyReturnState(b) = IF Sink(b) THEN "SNK_READY" ELSE "SRC_READY"
         /\ ExecuteSoftReset(b) =
              SetState(b, IF Sink(b) THEN "SNK_DISCOVERY" ELSE "SRC_DISCOVERY")
BY DEF ReadyReturnState, ExecuteSoftReset, Sink

LEMMA RxRejectHolds ==
  ASSUME Safe, NEW p \in Ports, RxReject(p)
  PROVE  Holds(p)
<1> DEFINE r == pd[p]
           b == Request(p)
           o == pd[Other(p)]
           v == pd'[Other(p)]
<1>1. Handles(p, "REJECT") /\ "REJECT" \in Messages
  BY DEF RxReject, Messages
<1>2. b \in Sound(p) /\ b \in PortType
  BY <1>1, RequestSeen DEF Sound
<1>3. PICK x : Handled(p, x, Quiet(p, b)) /\ x = 
             (CASE b.task_state = "DR_SWAP" -> SetState(b, ReadyReturnState(b))
                [] b.task_state = "SRC_SWAP_INIT" -> SetState(b, "SRC_READY")
                [] b.task_state \in {"SNK_SWAP_INIT", "SNK_REQUESTED"} ->
                     SetState(b, "SNK_READY")
                [] OTHER -> b)
  BY DEF RxReject
<1>4. pd'[p] = x /\ Keeps(o, v) /\ faults' = 0 /\ plugged'
  BY <1>2, <1>3, HandledQuietSeen
<1>5. \A next \in States : Enter(b, SetState(b, next), next)
  BY <1>2, EnterSeen
<1>6. Keeps(b, b)
  BY KeepsSelf
<1>7. CASE ~Hit(r)
  <2>1. /\ Got(r, "REJECT") /\ Silently(r, b, o, v)
    BY <1>1, <1>4, <1>7, SilentSeen
  <2>2. \/ In(b, {"DR_SWAP"}) /\ Enter(b, x, IF Sink(b) THEN "SNK_READY" ELSE "SRC_READY")
        \/ In(b, {"SRC_SWAP_INIT"}) /\ Enter(b, x, "SRC_READY")
        \/ In(b, {"SNK_SWAP_INIT", "SNK_REQUESTED"}) /\ Enter(b, x, "SNK_READY")
        \/ /\ ~In(b, {"DR_SWAP", "SRC_SWAP_INIT", "SNK_SWAP_INIT", "SNK_REQUESTED"})
           /\ Keeps(b, x)
    BY <1>3, <1>5, <1>6, ReturnSeen, StateNames DEF In, State
  <2>3. QED BY <1>4, <2>1, <2>2, RejectGood DEF Holds
<1>8. CASE Hit(r)
  <2>1. Good(b, o) /\ In(b, {"SNK_HARD_RESET_RECOVER", "SRC_HARD_RESET_RECOVER"})
    BY <1>1, <1>8, RequestSeen
  <2>2. x = b
    BY <1>3, <2>1 DEF In, State
  <2>3. QED BY <1>4, <2>1, <2>2, PassGood DEF Holds
<1>9. QED BY <1>7, <1>8

LEMMA RxAcceptHolds ==
  ASSUME Safe, NEW p \in Ports, RxAccept(p)
  PROVE  Holds(p)
<1> DEFINE r == pd[p]
           b == Request(p)
           o == pd[Other(p)]
           v == pd'[Other(p)]
<1>1. Handles(p, "ACCEPT") /\ "ACCEPT" \in Messages
  BY DEF RxAccept, Messages
<1>2. b \in Sound(p) /\ b \in PortType
  BY <1>1, RequestSeen DEF Sound
<1>3. PICK x : Handled(p, x, Quiet(p, b)) /\ x = 
             (CASE b.task_state = "SOFT_RESET" -> ExecuteSoftReset(b)
                [] b.task_state = "DR_SWAP" -> SetState(DrSwap(b), ReadyReturnState(b))
                [] b.task_state = "SRC_SWAP_INIT" -> SetState(b, "SRC_SWAP_SNK_DISABLE")
                [] b.task_state = "SNK_SWAP_INIT" -> SetState(b, "SNK_SWAP_SNK_DISABLE")
                [] b.task_state = "SNK_REQUESTED" -> SetState(b, "SNK_TRANSITION")
                [] OTHER -> b)
  BY DEF RxAccept
<1>4. pd'[p] = x /\ Keeps(o, v) /\ faults' = 0 /\ plugged'
  BY <1>2, <1>3, HandledQuietSeen
<1>5. \A next \in States : Enter(b, SetState(b, next), next)
  BY <1>2, EnterSeen
<1>6. Keeps(b, b)
  BY KeepsSelf
<1>7. CASE ~Hit(r)
  <2>1. /\ Got(r, "ACCEPT") /\ Silently(r, b, o, v)
    BY <1>1, <1>4, <1>7, SilentSeen
  <2>d. \A next \in States : Enter(b, SetState(DrSwap(b), next), next)
    BY <1>2, FlagsUnseen, KeepsTrans, EnterSeen DEF Sound
  <2>2. \/ In(b, {"SOFT_RESET"})
             /\ Enter(b, x, IF Sink(b) THEN "SNK_DISCOVERY" ELSE "SRC_DISCOVERY")
        \/ In(b, {"DR_SWAP"}) /\ Enter(b, x, IF Sink(b) THEN "SNK_READY" ELSE "SRC_READY")
        \/ In(b, {"SRC_SWAP_INIT"}) /\ Enter(b, x, "SRC_SWAP_SNK_DISABLE")
        \/ In(b, {"SNK_SWAP_INIT"}) /\ Enter(b, x, "SNK_SWAP_SNK_DISABLE")
        \/ In(b, {"SNK_REQUESTED"}) /\ Enter(b, x, "SNK_TRANSITION")
        \/ /\ ~In(b, {"SOFT_RESET", "DR_SWAP", "SRC_SWAP_INIT", "SNK_SWAP_INIT",
                      "SNK_REQUESTED"})
           /\ Keeps(b, x)
    BY <1>3, <1>5, <1>6, <2>d, ReturnSeen, StateNames DEF In, State
  <2>3. QED BY <1>4, <2>1, <2>2, AcceptGood DEF Holds
<1>8. CASE Hit(r)
  <2>1. Good(b, o) /\ In(b, {"SNK_HARD_RESET_RECOVER", "SRC_HARD_RESET_RECOVER"})
    BY <1>1, <1>8, RequestSeen
  <2>2. x = b
    BY <1>3, <2>1 DEF In, State
  <2>3. QED BY <1>4, <2>1, <2>2, PassGood DEF Holds
<1>9. QED BY <1>7, <1>8

LEMMA RxPsRdyHolds ==
  ASSUME Safe, NEW p \in Ports, RxPsRdy(p)
  PROVE  Holds(p)
<1> DEFINE r == pd[p]
           b == Request(p)
           o == pd[Other(p)]
           v == pd'[Other(p)]
<1>1. Handles(p, "PS_RDY") /\ "PS_RDY" \in Messages
  BY DEF RxPsRdy, Messages
<1>2. b \in Sound(p) /\ b \in PortType
  BY <1>1, RequestSeen DEF Sound
<1>3. PICK x : Handled(p, x, Quiet(p, b)) /\ x = 
             (CASE b.task_state = "SNK_SWAP_SRC_DISABLE" -> SetState(b, "SNK_SWAP_STANDBY")
                [] b.task_state = "SRC_SWAP_STANDBY" ->
                     SetState([b EXCEPT !.power_role = "SINK"], "SNK_DISCOVERY")
                [] b.task_state = "SNK_DISCOVERY" -> SetState(b, "HARD_RESET_SEND")
                [] b.task_state = "SNK_SWAP_STANDBY" -> b
                [] OTHER -> IF b.power_role = "SINK" THEN SetState(b, "SNK_READY") ELSE b)
  BY DEF RxPsRdy
<1>4. pd'[p] = x /\ Keeps(o, v) /\ faults' = 0 /\ plugged'
  BY <1>2, <1>3, HandledQuietSeen
<1>5. \A next \in States : Enter(b, SetState(b, next), next)
  BY <1>2, EnterSeen
<1>6. Keeps(b, b)
  BY KeepsSelf
<1>7. CASE ~Hit(r)
  <2>1. /\ Got(r, "PS_RDY") /\ Silently(r, b, o, v)
    BY <1>1, <1>4, <1>7, SilentSeen
  <2> DEFINE k == [b EXCEPT !.power_role = "SINK"]
  <2>k. /\ k \in PortType /\ State(k) = State(b) /\ From(k) = From(b) /\ Sink(k)
        /\ (Rp(k) <=> Rp(b)) /\ (On(k) <=> On(b)) /\ Mailbox(b, k)
        /\ (Waits(k) <=> Waits(b)) /\ (Packet(k) <=> Packet(b)) /\ (Ran(k) => Ran(b))
    BY <1>2 DEF PortType, State, From, Sink, Rp, On, Mailbox, Hears, Hit, News, Single,
         Waits, Packet, Ran
  <2> HIDE DEF k
  <2>e. Enter(k, SetState(k, "SNK_DISCOVERY"), "SNK_DISCOVERY")
    BY <2>k, EnterSeen, StateNames
  <2>m. LET s == SetState(k, "SNK_DISCOVERY") IN
        /\ Moves(b, s, "SNK_DISCOVERY") /\ Sink(s) /\ (Rp(s) <=> Rp(b)) /\ (On(s) <=> On(b))
        /\ (Hears(s) <=> Hears(b)) /\ (Waits(s) <=> Waits(b)) /\ (Packet(s) <=> Packet(b))
    BY <2>k, <2>e DEF Moves, Enter, Mailbox, Power, Disconnected
  <2>2. \/ In(b, {"SNK_SWAP_SRC_DISABLE"}) /\ Enter(b, x, "SNK_SWAP_STANDBY")
        \/ /\ In(b, {"SRC_SWAP_STANDBY"}) /\ Moves(b, x, "SNK_DISCOVERY") /\ Sink(x)
           /\ (Rp(x) <=> Rp(b)) /\ (On(x) <=> On(b)) /\ (Hears(x) <=> Hears(b))
           /\ (Waits(x) <=> Waits(b)) /\ (Packet(x) <=> Packet(b))
        \/ In(b, {"SNK_DISCOVERY"}) /\ Enter(b, x, "HARD_RESET_SEND")
        \/ In(b, {"SNK_SWAP_STANDBY"}) /\ Keeps(b, x)
        \/ /\ ~In(b, {"SNK_SWAP_SRC_DISABLE", "SRC_SWAP_STANDBY", "SNK_DISCOVERY",
                      "SNK_SWAP_STANDBY"})
           /\ IF Sink(b) THEN Enter(b, x, "SNK_READY") ELSE Keeps(b, x)
    BY <1>3, <1>5, <1>6, <2>m, StateNames DEF In, State, Sink, k
  <2>3. QED BY <1>4, <2>1, <2>2, PsRdyGood DEF Holds
<1>8. ~Hit(r)
  BY <1>1, RequestSeen
<1>9. QED BY <1>7, <1>8

LEMMA RxSoftResetHolds ==
  ASSUME Safe, NEW p \in Ports, RxSoftReset(p)
  PROVE  Holds(p)
<1> DEFINE r == pd[p]
           b == Request(p)
           o == pd[Other(p)]
           v == pd'[Other(p)]
           next == IF Sink(b) THEN "SNK_DISCOVERY" ELSE "SRC_DISCOVERY"
           k == SetState(b, next)
<1>1. /\ Handles(p, "SOFT_RESET") /\ "SOFT_RESET" \in Messages /\ "ACCEPT" \in Messages
  BY DEF RxSoftReset, Messages
<1>2. b \in Sound(p) /\ b \in PortType
  BY <1>1, RequestSeen DEF Sound
<1>3. next \in States /\ next \notin Disconnected
  BY StateNames DEF Disconnected
<1>4. Enter(b, k, next) /\ k \in Sound(p)
  <2> HIDE DEF next
  <2>1. QED BY <1>2, <1>3, EnterSeen, SetStateSound
<1>5. PICK y \in Transmit(p, k, "ACCEPT") : Handled(p, y.me, y)
  BY ReturnSeen DEF RxSoftReset
<1> HIDE DEF k, next
<1>6. (Hears(k) <=> Hears(b)) /\ (Hit(k) <=> Hit(b))
  BY <1>3, <1>4 DEF Enter, Mailbox
<1>7. /\ y.me = k /\ faults' = 0 /\ plugged' /\ Got(r, "SOFT_RESET")
      /\ pd'[p] = y.me /\ Answering("ACCEPT", r, b, o, y.you, v)
  BY <1>1, <1>4, <1>5, <1>6, AnswerSeen
<1>8. Enter(b, pd'[p], IF Sink(b) THEN "SNK_DISCOVERY" ELSE "SRC_DISCOVERY")
  BY <1>4, <1>7 DEF next
<1>9. QED BY <1>7, <1>8, SoftResetGood DEF Holds

LEMMA RxPrSwapHolds ==
  ASSUME Safe, NEW p \in Ports, RxPrSwap(p)
  PROVE  Holds(p)
<1> DEFINE r == pd[p]
           b == Request(p)
           o == pd[Other(p)]
           v == pd'[Other(p)]
           next == IF Sink(b) THEN "SNK_SWAP_SNK_DISABLE" ELSE "SRC_SWAP_SNK_DISABLE"
           k == [b EXCEPT !.flags = @ \ {"CHECK_PR_ROLE"}]
<1>1. /\ Handles(p, "PR_SWAP") /\ "PR_SWAP" \in Messages
      /\ "ACCEPT" \in Messages /\ "REJECT" \in Messages
  BY DEF RxPrSwap, Messages
<1>2. b \in Sound(p) /\ b \in PortType
  BY <1>1, RequestSeen DEF Sound
<1>3. Keeps(b, k) /\ k \in PortType /\ k.power_role = b.power_role
  <2>1. Keeps(b, k) /\ k \in Sound(p)
    BY <1>2, FlagsUnseen DEF Flags
  <2>2. QED BY <1>2, <2>1 DEF Sound, PortType
<1> HIDE DEF k
<1>4. CASE b.drp = "TOGGLE_ON"
  <2>1. PICK y \in Transmit(p, b, "ACCEPT") :
          Handled(p, SetState([y.me EXCEPT !.flags = @ \ {"CHECK_PR_ROLE"}],
                              IF y.me.power_role = "SINK" THEN "SNK_SWAP_SNK_DISABLE"
                              ELSE "SRC_SWAP_SNK_DISABLE"), y)
    BY <1>4 DEF RxPrSwap
  <2>2. /\ y.me = b /\ faults' = 0 /\ plugged' /\ Got(r, "PR_SWAP")
        /\ pd'[p] = SetState([y.me EXCEPT !.flags = @ \ {"CHECK_PR_ROLE"}],
                             IF y.me.power_role = "SINK" THEN "SNK_SWAP_SNK_DISABLE"
                             ELSE "SRC_SWAP_SNK_DISABLE")
        /\ Answering("ACCEPT", r, b, o, y.you, v)
    BY <1>1, <1>2, <2>1, AnswerSeen
  <2>3. pd'[p] = SetState(k, next)
    BY <2>2 DEF Sink, k
  <2>4. next \in States
    BY StateNames
  <2> HIDE DEF next
  <2>5. Enter(b, pd'[p], next)
    <3>1. Enter(k, pd'[p], next)
      BY <1>3, <2>3, <2>4, EnterSeen
    <3>2. QED BY <1>3, <3>1, KeepsTrans
  <2>6. QED BY <2>2, <2>5, PrSwapGood DEF Holds, next
<1>5. CASE b.drp # "TOGGLE_ON"
  <2>1. PICK y \in Transmit(p, b, "REJECT") : Handled(p, y.me, y)
    BY <1>5 DEF RxPrSwap
  <2>2. /\ y.me = b /\ faults' = 0 /\ plugged' /\ Got(r, "PR_SWAP")
        /\ pd'[p] = y.me /\ Answering("REJECT", r, b, o, y.you, v)
    BY <1>1, <1>2, <2>1, AnswerSeen
  <2>3. Keeps(b, pd'[p])
    BY <2>2, KeepsSelf
  <2>4. QED BY <2>2, <2>3, PrSwapGood DEF Holds
<1>6. QED BY <1>4, <1>5

LEMMA RxDrSwapHolds ==
  ASSUME Safe, NEW p \in Ports, RxDrSwap(p)
  PROVE  Holds(p)
<1> DEFINE r == pd[p]
           b == Request(p)
           o == pd[Other(p)]
           v == pd'[Other(p)]
           k == [b EXCEPT !.flags = @ \ {"CHECK_DR_ROLE"}]
<1>1. /\ Handles(p, "DR_SWAP") /\ "DR_SWAP" \in Messages
      /\ "ACCEPT" \in Messages /\ "REJECT" \in Messages
  BY DEF RxDrSwap, Messages
<1>2. b \in Sound(p)
  BY <1>1, RequestSeen
<1>3. Keeps(b, k) /\ k \in Sound(p)
  BY <1>2, FlagsUnseen DEF Flags
<1> HIDE DEF k
<1>4. CASE b.data_role = "UFP"
  <2>1. PICK y \in Transmit(p, k, "ACCEPT") :
          Handled(p, IF y.sent THEN DrSwap(y.me) ELSE y.me, y)
    BY <1>4 DEF RxDrSwap, k
  <2>2. (Hears(k) <=> Hears(b)) /\ (Hit(k) <=> Hit(b))
    BY <1>3 DEF Keeps, Same, Mailbox
  <2>3. /\ y.me = k /\ y.sent /\ faults' = 0 /\ plugged' /\ Got(r, "DR_SWAP")
        /\ pd'[p] = IF y.sent THEN DrSwap(y.me) ELSE y.me
        /\ Answering("ACCEPT", r, b, o, y.you, v)
    BY <1>1, <1>3, <2>1, <2>2, AnswerSeen
  <2>4. Keeps(k, pd'[p])
    BY <1>3, <2>3, FlagsUnseen
  <2>5. Keeps(b, pd'[p])
    BY <1>3, <2>4, KeepsTrans
  <2>6. QED BY <2>3, <2>5, DrSwapGood DEF Holds
<1>5. CASE b.data_role # "UFP"
  <2>1. PICK y \in Transmit(p, b, "REJECT") : Handled(p, y.me, y)
    BY <1>5 DEF RxDrSwap
  <2>2. /\ y.me = b /\ faults' = 0 /\ plugged' /\ Got(r, "DR_SWAP")
        /\ pd'[p] = y.me /\ Answering("REJECT", r, b, o, y.you, v)
    BY <1>1, <1>2, <2>1, AnswerSeen
  <2>3. Keeps(b, pd'[p])
    BY <2>2, KeepsSelf
  <2>4. QED BY <2>2, <2>3, DrSwapGood DEF Holds
<1>6. QED BY <1>4, <1>5

LEMMA ReceiveHolds ==
  ASSUME Safe, NEW p \in Ports, Receive(p)
  PROVE  Holds(p)
BY RxSourceCapHolds, RxRequestHolds, RxSinkCapHolds, RxGetSinkCapHolds, RxPsRdyHolds,
   RxRejectHolds, RxAcceptHolds, RxSoftResetHolds, RxPrSwapHolds, RxDrSwapHolds DEF Receive

-----------------------------------------------------------------------------
(* The handler of each state.                                              *)

LEMMA QuietBegins ==
  ASSUME Safe, NEW p \in Ports, Turn(p), NEW x \in Sound(p), QuietPass(p, x)
  PROVE  /\ faults' = 0 /\ plugged'
         /\ \E w : Quietly(w, Self(p), x, pd[Other(p)], pd'[p], pd'[Other(p)])
<1>1. /\ Ends(State(Self(p)), x, pd[Other(p)], pd'[p])
      /\ Keeps(pd[Other(p)], pd'[Other(p)]) /\ ~Overtakes(p)
      /\ faults' = 0 /\ plugged'
  BY QuietSeen
<1>2. PICK w : Begins(w, Self(p), pd[Other(p)])
  BY <1>1, BeginSeen
<1>3. State(w) = State(Self(p))
  BY <1>2 DEF Begins, Same, Place
<1>4. QED BY <1>1, <1>2, <1>3 DEF Quietly

LEMMA SpeakBegins ==
  ASSUME Safe, NEW p \in Ports, Turn(p), NEW m \in Messages, NEW a \in Sound(p),
         Hears(a) <=> Hears(Self(p)), Hit(a) <=> Hit(Self(p)),
         \A w : Begins(w, Self(p), pd[Other(p)]) => ~Hit(Self(p)),
         NEW y \in Transmit(p, a, m), NEW x \in Sound(p), Pass(p, x, y)
  PROVE  /\ faults' = 0 /\ plugged' /\ y.me = a
         /\ \E w :
              LET b == Self(p)  o == pd[Other(p)]  s == pd'[p]  v == pd'[Other(p)] IN
              /\ Begins(w, b, o)
              /\ IF Hears(b) /\ Hears(o) /\ News(o) = "none"
                 THEN y.sent /\ Saying(m, w, b, x, o, y.you, s, v)
                 ELSE ~y.sent /\ Quietly(w, b, x, o, s, v)
<1>1. SoundOutcome(p, y) /\ Self(p) \in Sound(p)
  BY TransmitSound, SelfSound DEF Safe
<1>2. /\ Ends(State(Self(p)), x, pd[Other(p)], pd'[p])
      /\ Keeps(y.you, pd'[Other(p)]) /\ y.cost = 0 /\ ~Overtakes(p)
      /\ faults' = 0 /\ plugged'
  BY <1>1, PassSeen DEF Safe
<1>3. PICK w : Begins(w, Self(p), pd[Other(p)])
  BY <1>2, BeginSeen
<1>4. State(w) = State(Self(p))
  BY <1>3 DEF Begins, Same, Place
<1>5. y.me = a /\ Spoken(a, pd[Other(p)], y, m)
  BY <1>2, <1>3, TransmitSeen DEF Safe
<1>6. CASE Hears(Self(p)) /\ Hears(pd[Other(p)]) /\ News(pd[Other(p)]) = "none"
  BY <1>2, <1>3, <1>4, <1>5, <1>6 DEF Spoken, Saying
<1>7. CASE ~(Hears(Self(p)) /\ Hears(pd[Other(p)]) /\ News(pd[Other(p)]) = "none")
  BY <1>2, <1>3, <1>4, <1>5, <1>7 DEF Spoken, Quietly
<1>8. QED BY <1>6, <1>7

\* The handler of a state, and what it reads.
LEMMA HandlerSeen ==
  ASSUME Safe, NEW p \in Ports
  PROVE  /\ Self(p) \in Sound(p) /\ Self(p) \in PortType
         /\ \A state : At(p, state) => Turn(p) /\ State(Self(p)) = state
         /\ Entered(Self(p)) <=> Enters(Self(p))
         /\ Attached(p, Self(p)) <=> Facing(Self(p), pd[Other(p)])
         /\ VbusProvided(p, Self(p)) <=> Fed(Self(p), pd[Other(p)])
         /\ Same(Self(p), Self(p))
<1>1. /\ Self(p) \in Sound(p) /\ Self(p) \in PortType /\ pd[Other(p)] \in PortType
      /\ plugged
  BY SelfSound, OtherPort DEF Safe, TypeInv, Sound
<1>2. Attached(p, Self(p)) <=> Facing(Self(p), pd[Other(p)])
  BY <1>1 DEF Attached, Facing, Rp, PortType
<1>3. VbusProvided(p, Self(p)) <=> Fed(Self(p), pd[Other(p)])
  BY <1>1 DEF VbusProvided, Fed, On
<1>4. Same(Self(p), Self(p))
  BY DEF Same, Place, Clock, Power, Mailbox
<1>5. QED BY <1>1, <1>2, <1>3, <1>4 DEF At, State, Entered, Enters, From

LEMMA WaitHolds ==
  ASSUME Safe, NEW p \in Ports,
         NEW state \in {"SRC_STARTUP", "SRC_NEGOCIATE", "SRC_ACCEPTED", "SRC_POWERED",
                        "SRC_SWAP_SNK_DISABLE", "SNK_REQUESTED", "SNK_TRANSITION",
                        "SNK_SWAP_SRC_DISABLE"},
         NEW d \in Durations, NEW next \in States, At(p, state),
         State(Self(p)) = state => Leads(Self(p), next),
         NEW k \in Sound(p), Keeps(Self(p), k),
         QuietPass(p, IF Entered(Self(p)) THEN SetTimeout(k, T[p][d], next) ELSE Self(p))
  PROVE  Holds(p)
<1> DEFINE b == Self(p)
           x == IF Entered(b) THEN SetTimeout(k, T[p][d], next) ELSE b
<1>1. /\ b \in Sound(p) /\ Turn(p) /\ State(b) = state /\ (Entered(b) <=> Enters(b))
      /\ Same(b, b)
  BY HandlerSeen
<1>2. x \in Sound(p)
  BY <1>1, SetTimeoutSound
<1>3. IF Enters(b) THEN Timed(b, x, next) ELSE Same(b, x)
  <2>1. k \in PortType
    BY DEF Sound
  <2>2. Timed(k, SetTimeout(k, T[p][d], next), next)
    BY <2>1, TimedSeen
  <2>3. Timed(b, SetTimeout(k, T[p][d], next), next)
    BY <2>2 DEF Timed, Keeps, Same, Place, Power, Mailbox
  <2>4. QED BY <1>1, <2>3
<1>4. In(b, {"SRC_STARTUP", "SRC_NEGOCIATE", "SRC_ACCEPTED", "SRC_POWERED",
             "SRC_SWAP_SNK_DISABLE", "SNK_REQUESTED", "SNK_TRANSITION",
             "SNK_SWAP_SRC_DISABLE"})
  BY <1>1 DEF In
<1>5. QuietPass(p, x)
  OBVIOUS
<1> HIDE DEF x
<1>6. PICK w : Quietly(w, b, x, pd[Other(p)], pd'[p], pd'[Other(p)])
  BY <1>1, <1>2, <1>5, QuietBegins
<1>7. faults' = 0 /\ plugged'
  BY <1>1, <1>2, <1>5, QuietBegins
<1>8. Good(pd'[p], pd'[Other(p)])
  BY <1>1, <1>3, <1>4, <1>6, WaitGood
<1>9. QED BY <1>7, <1>8 DEF Holds

LEMMA WaitStatesHold ==
  ASSUME Safe, NEW p \in Ports,
         \/ SrcStartup(p) \/ SrcNegociate(p) \/ SrcAccepted(p) \/ SrcPowered(p)
         \/ SrcSwapSnkDisable(p) \/ SnkRequested(p) \/ SnkTransition(p)
         \/ SnkSwapSrcDisable(p)
  PROVE  Holds(p)
<1> DEFINE b == Self(p)
           started == [b EXCEPT !.caps_count = 0, !.snk_cap_count = 0]
           asked == [b EXCEPT !.hard_reset_count = 0]
<1>1. b \in Sound(p) /\ Keeps(b, b)
  BY HandlerSeen, KeepsSelf
<1>2. started \in Sound(p) /\ Keeps(b, started) /\ asked \in Sound(p) /\ Keeps(b, asked)
  <2>1. /\ 0 \in 0..PD_CAPS_COUNT /\ 0 \in 0..PD_SNK_CAP_RETRIES + 1
        /\ 0 \in 0..PD_HARD_RESET_COUNT
    BY PdAssumption
  <2> HIDE DEF b
  <2>2. started \in Sound(p) /\ asked \in Sound(p)
    BY <1>1, <2>1 DEF Sound, PortType
  <2>3. Unseen(b, started) /\ Unseen(b, asked)
    BY <1>1 DEF Unseen, Sound, PortType
  <2> HIDE DEF started, asked
  <2>4. QED BY <2>2, <2>3, UnseenKeeps
<1> HIDE DEF started, asked
<1>3. ASSUME NEW state \in {"SRC_NEGOCIATE", "SRC_ACCEPTED", "SRC_POWERED",
                             "SRC_SWAP_SNK_DISABLE", "SNK_TRANSITION", "SNK_SWAP_SRC_DISABLE"},
             NEW d \in Durations, NEW next \in States, Wait(p, state, d, next),
             State(b) = state => Leads(b, next)
      PROVE  Holds(p)
  <2> DEFINE x == IF Entered(b) THEN SetTimeout(b, T[p][d], next) ELSE b
  <2>1. At(p, state) /\ QuietPass(p, x)
    BY <1>3 DEF Wait
  <2>2. QED BY <1>1, <1>3, <2>1, WaitHolds
<1>4. CASE SrcStartup(p)
  <2>1. /\ At(p, "SRC_STARTUP")
        /\ QuietPass(p, IF Entered(b) THEN SetTimeout(started, T[p]["TURN_ON"], "SRC_DISCOVERY")
                        ELSE b)
    BY <1>4 DEF SrcStartup, started
  <2>2. State(b) = "SRC_STARTUP" => Leads(b, "SRC_DISCOVERY")
    BY DEF Leads
  <2>3. "TURN_ON" \in Durations /\ "SRC_DISCOVERY" \in States
    BY StateNames DEF Durations
  <2>4. QED BY <1>2, <2>1, <2>2, <2>3, WaitHolds
<1>5. CASE SnkRequested(p)
  <2>1. /\ At(p, "SNK_REQUESTED")
        /\ QuietPass(p, IF Entered(b)
                        THEN SetTimeout(asked, T[p]["SENDER_RESPONSE"], "HARD_RESET_SEND")
                        ELSE b)
    BY <1>5 DEF SnkRequested, asked
  <2>2. State(b) = "SNK_REQUESTED" => Leads(b, "HARD_RESET_SEND")
    BY DEF Leads, In
  <2>3. "SENDER_RESPONSE" \in Durations /\ "HARD_RESET_SEND" \in States
    BY StateNames DEF Durations
  <2>4. QED BY <1>2, <2>1, <2>2, <2>3, WaitHolds
<1>6. CASE \/ SrcNegociate(p) \/ SrcAccepted(p) \/ SrcPowered(p) \/ SrcSwapSnkDisable(p)
           \/ SnkTransition(p) \/ SnkSwapSrcDisable(p)
  <2>1. /\ State(b) = "SRC_NEGOCIATE" => Leads(b, "HARD_RESET_SEND")
        /\ State(b) = "SRC_ACCEPTED" => Leads(b, "SRC_POWERED")
        /\ State(b) = "SRC_POWERED" => Leads(b, "SRC_TRANSITION")
        /\ State(b) = "SRC_SWAP_SNK_DISABLE" => Leads(b, "SRC_SWAP_SRC_DISABLE")
        /\ State(b) = "SNK_TRANSITION" => Leads(b, "HARD_RESET_SEND")
        /\ State(b) = "SNK_SWAP_SRC_DISABLE" => Leads(b, "HARD_RESET_SEND")
    BY DEF Leads, In
  <2>2. {"SENDER_RESPONSE", "SINK_TRANSITION", "TURN_ON", "PS_TRANSITION", "PS_SOURCE_OFF"}
          \subseteq Durations
    BY DEF Durations
  <2>3. {"HARD_RESET_SEND", "SRC_POWERED", "SRC_TRANSITION", "SRC_SWAP_SRC_DISABLE"}
          \subseteq States
    BY StateNames
  <2>4. CASE SrcNegociate(p)
    BY <1>3, <2>1, <2>2, <2>3, <2>4 DEF SrcNegociate
  <2>5. CASE SrcAccepted(p)
    BY <1>3, <2>1, <2>2, <2>3, <2>5 DEF SrcAccepted
  <2>6. CASE SrcPowered(p)
    BY <1>3, <2>1, <2>2, <2>3, <2>6 DEF SrcPowered
  <2>7. CASE SrcSwapSnkDisable(p)
    BY <1>3, <2>1, <2>2, <2>3, <2>7 DEF SrcSwapSnkDisable
  <2>8. CASE SnkTransition(p)
    BY <1>3, <2>1, <2>2, <2>3, <2>8 DEF SnkTransition
  <2>9. CASE SnkSwapSrcDisable(p)
    BY <1>3, <2>1, <2>2, <2>3, <2>9 DEF SnkSwapSrcDisable
  <2>10. QED BY <1>6, <2>4, <2>5, <2>6, <2>7, <2>8, <2>9
<1>7. QED BY <1>4, <1>5, <1>6

\* s differs from r in its role, its resistor, VBUS or its receiver.
Recast(r, s) ==
  /\ s.task_state = r.task_state /\ s.last_state = r.last_state
  /\ s.timeout = r.timeout /\ s.timeout_state = r.timeout_state
  /\ s.rx = r.rx /\ s.hard_rst = r.hard_rst /\ s.step = r.step
  /\ s.incoming_packet = r.incoming_packet /\ s.ran = r.ran

LEMMA RecastSeen ==
  ASSUME NEW r, NEW s, Recast(r, s)
  PROVE  /\ Place(r, s) /\ Clock(r, s)
         /\ (Hit(s) <=> Hit(r)) /\ News(s) = News(r) /\ (Single(s) <=> Single(r))
         /\ (Waits(s) <=> Waits(r)) /\ (Packet(s) <=> Packet(r)) /\ (Ran(s) <=> Ran(r))
         /\ s.power_role = r.power_role => (Sink(s) <=> Sink(r))
         /\ s.cc = r.cc => (Rp(s) <=> Rp(r))
         /\ s.vbus = r.vbus => (On(s) <=> On(r))
         /\ s.vbus_off = r.vbus_off => (Off(s) <=> Off(r))
         /\ s.rx_enabled = r.rx_enabled => (Hears(s) <=> Hears(r))
         /\ s.power_role = "SINK" => Sink(s)
         /\ s.power_role = "SOURCE" => ~Sink(s)
         /\ s.cc = "RP" => Rp(s)
         /\ s.cc = "RD" => ~Rp(s)
         /\ s.vbus = TRUE => On(s)
         /\ s.vbus = FALSE => ~On(s)
         /\ s.vbus_off = TRUE => Off(s)
         /\ s.vbus_off = FALSE => ~Off(s)
         /\ s.rx_enabled = TRUE => Hears(s)
BY DEF Recast, Place, Clock, State, From, Fresh, Last, Goal,
       Sink, Rp, On, Off, Hears, News, Single, Hit, Waits, Packet, Ran

\* s is r after some fields have changed, a state has been entered, and some
\* more have changed.
LEMMA MovesSeen ==
  ASSUME NEW r, NEW a, NEW c, NEW s, NEW next, Recast(r, a), Enter(a, c, next), Recast(c, s),
         next \notin Disconnected \/ State(r) \in Disconnected
  PROVE  /\ Moves(r, s, next)
         /\ s.power_role = c.power_role => (Sink(s) <=> Sink(a))
         /\ s.cc = c.cc => (Rp(s) <=> Rp(a))
         /\ s.vbus = c.vbus => (On(s) <=> On(a))
         /\ s.rx_enabled = c.rx_enabled => (Hears(s) <=> Hears(a))
<1>1. /\ Place(r, a) /\ (Hit(a) <=> Hit(r)) /\ News(a) = News(r) /\ (Single(a) <=> Single(r))
  BY RecastSeen
<1>2. /\ Place(c, s) /\ Clock(c, s)
      /\ (Hit(s) <=> Hit(c)) /\ News(s) = News(c) /\ (Single(s) <=> Single(c))
      /\ s.power_role = c.power_role => (Sink(s) <=> Sink(c))
      /\ s.cc = c.cc => (Rp(s) <=> Rp(c))
      /\ s.vbus = c.vbus => (On(s) <=> On(c))
      /\ s.rx_enabled = c.rx_enabled => (Hears(s) <=> Hears(c))
  BY RecastSeen
<1>3. Power(a, c) /\ Mailbox(a, c)
  BY <1>1 DEF Enter, Place
<1>4. QED BY <1>1, <1>2, <1>3 DEF Enter, Moves, Place, Clock, Power, Mailbox

\* A pass that says nothing.
LEMMA QuietHandled ==
  ASSUME Safe, NEW p \in Ports, Turn(p), NEW x \in Sound(p), QuietPass(p, x),
         \A w : Quietly(w, Self(p), x, pd[Other(p)], pd'[p], pd'[Other(p)]) =>
               Good(pd'[p], pd'[Other(p)])
  PROVE  Holds(p)
BY QuietBegins DEF Holds

LEMMA SrcDisconnectedHolds ==
  ASSUME Safe, NEW p \in Ports, SrcDisconnected(p)
  PROVE  Holds(p)
<1> DEFINE b == Self(p)
           o == pd[Other(p)]
           role == [b EXCEPT !.power_role = "SINK"]
           off == SetState(role, "SNK_DISCONNECTED")
           turned == [off EXCEPT !.cc = "RD", !.next_role_swap = T[p]["DRP_SNK"],
                                 !.try_src_marker = T[p]["TRY_WAIT"]]
           seen == [b EXCEPT !.cc_attached = FALSE]
           wait == SetState(seen, "SRC_DISCONNECTED_DEBOUNCE")
<1>1. At(p, "SRC_DISCONNECTED")
  BY DEF SrcDisconnected
<1>2. /\ b \in Sound(p) /\ b \in PortType /\ Turn(p) /\ State(b) = "SRC_DISCONNECTED"
      /\ (Attached(p, b) <=> Facing(b, o)) /\ Same(b, b)
  BY <1>1, HandlerSeen
<1>3. \/ Attached(p, b) /\ QuietPass(p, wait)
      \/ ~Attached(p, b) /\ (QuietPass(p, turned) \/ QuietPass(p, b))
  BY DEF SrcDisconnected
<1> HIDE DEF b, o
<1>4. /\ role \in Sound(p) /\ Recast(b, role) /\ role.power_role = "SINK"
      /\ role.vbus = b.vbus /\ role.rx_enabled = b.rx_enabled
      /\ seen \in Sound(p) /\ Unseen(b, seen)
  BY <1>2 DEF Sound, PortType, Recast, Unseen
<1> HIDE DEF role, seen
<1>5. /\ off \in Sound(p) /\ wait \in Sound(p)
      /\ Enter(role, off, "SNK_DISCONNECTED")
      /\ Enter(seen, wait, "SRC_DISCONNECTED_DEBOUNCE")
  BY <1>4, SetStateSound, EnterSeen, StateNames DEF Sound
<1> HIDE DEF off, wait
<1>6. /\ turned \in Sound(p) /\ Recast(off, turned) /\ turned.cc = "RD"
      /\ turned.power_role = off.power_role
      /\ turned.vbus = off.vbus /\ turned.rx_enabled = off.rx_enabled
  <2>1. T[p]["DRP_SNK"] \in Nat /\ T[p]["TRY_WAIT"] \in Nat
    BY LongestDuration DEF Durations
  <2>2. QED BY <1>5, <2>1 DEF Sound, PortType, Recast
<1> HIDE DEF turned
<1>7. Enter(b, wait, "SRC_DISCONNECTED_DEBOUNCE")
  BY <1>4, <1>5, UnseenKeeps, KeepsTrans
<1>8. /\ Moves(b, turned, "SNK_DISCONNECTED") /\ Sink(turned) /\ ~Rp(turned)
      /\ (On(turned) <=> On(b)) /\ (Hears(turned) <=> Hears(b))
  <2>1. Sink(role) /\ (On(role) <=> On(b)) /\ (Hears(role) <=> Hears(b)) /\ ~Rp(turned)
    BY <1>4, <1>6, RecastSeen
  <2>2. State(b) \in Disconnected
    BY <1>2 DEF Disconnected
  <2>3. QED BY <1>4, <1>5, <1>6, <2>1, <2>2, MovesSeen
<1>9. PICK x \in Sound(p) :
        /\ QuietPass(p, x)
        /\ IF Facing(b, o) THEN Enter(b, x, "SRC_DISCONNECTED_DEBOUNCE")
           ELSE \/ Same(b, x)
                \/ /\ Moves(b, x, "SNK_DISCONNECTED") /\ Sink(x) /\ ~Rp(x)
                   /\ (On(x) <=> On(b)) /\ (Hears(x) <=> Hears(b))
  BY <1>2, <1>3, <1>5, <1>6, <1>7, <1>8
<1>10. \A w : Quietly(w, b, x, o, pd'[p], pd'[Other(p)]) => Good(pd'[p], pd'[Other(p)])
  BY <1>2, <1>9, SrcDisconnectedGood
<1>11. QED BY <1>2, <1>9, <1>10, QuietHandled DEF b, o

LEMMA SrcDisconnectedDebounceHolds ==
  ASSUME Safe, NEW p \in Ports, SrcDisconnectedDebounce(p)
  PROVE  Holds(p)
<1> DEFINE b == Self(p)
           o == pd[Other(p)]
           off == SetState(b, "SRC_DISCONNECTED")
           on == [b EXCEPT !.data_role = "DFP", !.vbus = TRUE, !.rx_enabled = TRUE,
                           !.flags = @ \cup CheckRoles, !.hard_reset_count = 0]
           startup == SetState(on, "SRC_STARTUP")
           seen == [b EXCEPT !.cc_debounce = T[p]["CC_DEBOUNCE"], !.cc_attached = TRUE]
<1>1. At(p, "SRC_DISCONNECTED_DEBOUNCE")
  BY DEF SrcDisconnectedDebounce
<1>2. /\ b \in Sound(p) /\ b \in PortType /\ Turn(p)
      /\ State(b) = "SRC_DISCONNECTED_DEBOUNCE"
      /\ (Attached(p, b) <=> Facing(b, o)) /\ Same(b, b)
  BY <1>1, HandlerSeen
<1>3. \/ ~Attached(p, b) /\ QuietPass(p, off)
      \/ Attached(p, b) /\ (QuietPass(p, seen) \/ QuietPass(p, b) \/ QuietPass(p, startup))
  BY DEF SrcDisconnectedDebounce
<1> HIDE DEF b, o
<1>4. seen \in Sound(p) /\ Unseen(b, seen)
  <2>1. T[p]["CC_DEBOUNCE"] \in Nat
    BY LongestDuration DEF Durations
  <2>2. QED BY <1>2, <2>1 DEF Sound, PortType, Unseen
<1>5. /\ on \in Sound(p) /\ Recast(b, on) /\ on.vbus = TRUE /\ on.rx_enabled = TRUE
      /\ on.power_role = b.power_role /\ on.cc = b.cc
  <2>1. b.flags \cup CheckRoles \in SUBSET Flags
    BY <1>2 DEF PortType, CheckRoles, Flags
  <2>2. 0 \in 0..PD_HARD_RESET_COUNT
    BY PdAssumption
  <2>3. QED BY <1>2, <2>1, <2>2 DEF Sound, PortType, Recast
<1> HIDE DEF on, seen
<1>6. /\ off \in Sound(p) /\ startup \in Sound(p)
      /\ Enter(b, off, "SRC_DISCONNECTED") /\ Enter(on, startup, "SRC_STARTUP")
  BY <1>2, <1>5, SetStateSound, EnterSeen, StateNames DEF Sound
<1> HIDE DEF off, startup
<1>7. /\ Moves(b, startup, "SRC_STARTUP") /\ (Sink(startup) <=> Sink(b))
      /\ (Rp(startup) <=> Rp(b)) /\ On(startup) /\ Hears(startup)
  <2>1. (Sink(on) <=> Sink(b)) /\ (Rp(on) <=> Rp(b)) /\ On(on) /\ Hears(on)
    BY <1>5, RecastSeen
  <2>2. Recast(startup, startup)
    BY DEF Recast
  <2>3. "SRC_STARTUP" \notin Disconnected
    BY DEF Disconnected
  <2>4. QED BY <1>5, <1>6, <2>1, <2>2, <2>3, MovesSeen
<1>8. Same(b, seen)
  BY <1>4, UnseenKeeps DEF Keeps
<1>9. PICK x \in Sound(p) :
        /\ QuietPass(p, x)
        /\ IF ~Facing(b, o) THEN Enter(b, x, "SRC_DISCONNECTED")
           ELSE \/ Same(b, x)
                \/ /\ Moves(b, x, "SRC_STARTUP") /\ (Sink(x) <=> Sink(b)) /\ (Rp(x) <=> Rp(b))
                   /\ On(x) /\ Hears(x)
  BY <1>2, <1>3, <1>4, <1>6, <1>7, <1>8
<1>10. \A w : Quietly(w, b, x, o, pd'[p], pd'[Other(p)]) => Good(pd'[p], pd'[Other(p)])
  BY <1>2, <1>9, SrcDisconnectedDebounceGood
<1>11. QED BY <1>2, <1>9, <1>10, QuietHandled DEF b, o

LEMMA SrcHardResetRecoverHolds ==
  ASSUME Safe, NEW p \in Ports, SrcHardResetRecover(p)
  PROVE  Holds(p)
<1> DEFINE b == Self(p)
           o == pd[Other(p)]
           on == [b EXCEPT !.vbus = TRUE]
           startup == SetState(on, "SRC_STARTUP")
<1>1. At(p, "SRC_HARD_RESET_RECOVER")
  BY DEF SrcHardResetRecover
<1>2. /\ b \in Sound(p) /\ b \in PortType /\ Turn(p)
      /\ State(b) = "SRC_HARD_RESET_RECOVER" /\ Same(b, b)
  BY <1>1, HandlerSeen
<1>3. QuietPass(p, b) \/ QuietPass(p, startup)
  BY DEF SrcHardResetRecover
<1> HIDE DEF b, o
<1>4. /\ on \in Sound(p) /\ Recast(b, on) /\ on.vbus = TRUE /\ on.rx_enabled = b.rx_enabled
      /\ on.power_role = b.power_role /\ on.cc = b.cc
  BY <1>2 DEF Sound, PortType, Recast
<1> HIDE DEF on
<1>5. startup \in Sound(p) /\ Enter(on, startup, "SRC_STARTUP")
  BY <1>4, SetStateSound, EnterSeen, StateNames DEF Sound
<1> HIDE DEF startup
<1>6. /\ Moves(b, startup, "SRC_STARTUP") /\ (Sink(startup) <=> Sink(b))
      /\ (Rp(startup) <=> Rp(b)) /\ On(startup) /\ (Hears(startup) <=> Hears(b))
  <2>1. (Sink(on) <=> Sink(b)) /\ (Rp(on) <=> Rp(b)) /\ On(on) /\ (Hears(on) <=> Hears(b))
    BY <1>4, RecastSeen
  <2>2. Recast(startup, startup)
    BY DEF Recast
  <2>3. "SRC_STARTUP" \notin Disconnected
    BY DEF Disconnected
  <2>4. QED BY <1>4, <1>5, <2>1, <2>2, <2>3, MovesSeen
<1>7. PICK x \in Sound(p) :
        /\ QuietPass(p, x)
        /\ \/ Same(b, x)
           \/ /\ Moves(b, x, "SRC_STARTUP") /\ (Sink(x) <=> Sink(b)) /\ (Rp(x) <=> Rp(b))
              /\ On(x) /\ (Hears(x) <=> Hears(b))
  BY <1>2, <1>3, <1>5, <1>6
<1>8. \A w : Quietly(w, b, x, o, pd'[p], pd'[Other(p)]) => Good(pd'[p], pd'[Other(p)])
  BY <1>2, <1>7, SrcHardResetRecoverGood
<1>9. QED BY <1>2, <1>7, <1>8, QuietHandled DEF b, o

\* A message that a state sends: what is left is what the sender becomes.
LEMMA Spoke ==
  ASSUME Safe, NEW p \in Ports, Turn(p), ~In(Self(p), Ready) \/ ~Hit(Self(p)),
         NEW m \in Messages, NEW a \in Sound(p),
         Mailbox(Self(p), a), NEW y \in Transmit(p, a, m),
         NEW x \in Sound(p), Pass(p, x, y)
  PROVE  /\ faults' = 0 /\ plugged' /\ y.me = a
         /\ \E w :
              LET b == Self(p)  o == pd[Other(p)]  s == pd'[p]  v == pd'[Other(p)] IN
              /\ Begins(w, b, o)
              /\ IF Hears(b) /\ Hears(o) /\ News(o) = "none"
                 THEN y.sent /\ Saying(m, w, b, x, o, y.you, s, v)
                 ELSE ~y.sent /\ Quietly(w, b, x, o, s, v)
<1>1. (Hears(a) <=> Hears(Self(p))) /\ (Hit(a) <=> Hit(Self(p)))
  BY DEF Mailbox
<1>2. \A w : Begins(w, Self(p), pd[Other(p)]) => ~Hit(Self(p))
  BY BeginsUnhit
<1>3. QED BY <1>1, <1>2, SpeakBegins

LEMMA SrcTransitionHolds ==
  ASSUME Safe, NEW p \in Ports, SrcTransition(p)
  PROVE  Holds(p)
<1> DEFINE b == Self(p)
           o == pd[Other(p)]
           off(y) == [y.me EXCEPT !.vbus = FALSE]
           x(y) == IF y.sent THEN SetState(y.me, "SRC_READY")
                   ELSE SetState(off(y), "SRC_DISCONNECTED")
<1>1. At(p, "SRC_TRANSITION") /\ "PS_RDY" \in Messages
  BY DEF SrcTransition, Messages
<1>2. /\ b \in Sound(p) /\ b \in PortType /\ Turn(p) /\ State(b) = "SRC_TRANSITION"
      /\ Mailbox(b, b)
  BY <1>1, HandlerSeen DEF Same
<1>3. PICK y \in Transmit(p, b, "PS_RDY") : Pass(p, x(y), y)
  BY DEF SrcTransition
<1>4. y.me \in Sound(p)
  BY <1>1, <1>2, TransmitSound DEF SoundOutcome, Safe
<1>5. x(y) \in Sound(p)
  <2>1. off(y) \in Sound(p)
    BY <1>4 DEF Sound, PortType
  <2>2. QED BY <1>4, <2>1, SetStateSound, StateNames
<1>6. ~In(b, Ready)
  BY <1>2 DEF In, Ready
<1>7. /\ faults' = 0 /\ plugged' /\ y.me = b
      /\ \E w :
           /\ Begins(w, b, o)
           /\ IF Hears(b) /\ Hears(o) /\ News(o) = "none"
              THEN y.sent /\ Saying("PS_RDY", w, b, x(y), o, y.you, pd'[p], pd'[Other(p)])
              ELSE ~y.sent /\ Quietly(w, b, x(y), o, pd'[p], pd'[Other(p)])
  <2> HIDE DEF x
  <2>1. QED BY <1>1, <1>2, <1>3, <1>5, <1>6, Spoke
<1> HIDE DEF b, o
<1>8. PICK w : /\ y.sent
               /\ Saying("PS_RDY", w, b, x(y), o, y.you, pd'[p], pd'[Other(p)])
  <2> HIDE DEF x
  <2>1. QED BY <1>2, <1>7, SrcTransitionHeard
<1>9. Enter(b, x(y), "SRC_READY")
  BY <1>2, <1>7, <1>8, EnterSeen, StateNames DEF Sound
<1>10. Good(pd'[p], pd'[Other(p)])
  <2> HIDE DEF x
  <2>1. QED BY <1>2, <1>8, <1>9, SrcTransitionGood
<1>11. QED BY <1>7, <1>10 DEF Holds

LEMMA EnterKeeps ==
  ASSUME NEW r, NEW s, NEW t, NEW next, Enter(r, s, next), Keeps(s, t)
  PROVE  Enter(r, t, next)
BY DEF Enter, Keeps, Same, Place, Clock, Power, Mailbox, Deaf

LEMMA SrcDiscoveryHolds ==
  ASSUME Safe, NEW p \in Ports, SrcDiscovery(p)
  PROVE  Holds(p)
<1> DEFINE b == Self(p)
           o == pd[Other(p)]
           goal == IF b.hard_reset_count < PD_HARD_RESET_COUNT
                   THEN "HARD_RESET_SEND" ELSE "SRC_DISCONNECTED"
           a == IF Entered(b) /\ "PREVIOUS_PD_CONN" \in b.flags
                THEN SetTimeout(b, T[p]["NO_RESPONSE"], goal) ELSE b
           asks(y) == SetState(y.me, "SRC_NEGOCIATE")
           negociate(y) == [asks(y) EXCEPT !.hard_reset_count = 0, !.caps_count = 0,
                                           !.flags = @ \cup {"PREVIOUS_PD_CONN"}]
           again(y) == [y.me EXCEPT !.caps_count = @ + 1]
<1>1. At(p, "SRC_DISCOVERY") /\ "SOURCE_CAP" \in Messages
  BY DEF SrcDiscovery, Messages
<1>2. /\ b \in Sound(p) /\ b \in PortType /\ Turn(p) /\ State(b) = "SRC_DISCOVERY"
      /\ Same(b, b) /\ (Entered(b) <=> Enters(b)) /\ ~In(b, Ready)
  BY <1>1, HandlerSeen DEF In, Ready
<1>3. IF a.caps_count < PD_CAPS_COUNT
      THEN \E y \in Transmit(p, a, "SOURCE_CAP") :
             Pass(p, IF y.sent THEN negociate(y) ELSE again(y), y)
      ELSE QuietPass(p, a)
  BY DEF SrcDiscovery
<1> HIDE DEF b, o
<1>4. /\ a \in Sound(p) /\ Mailbox(b, a)
      /\ \/ Same(b, a)
         \/ Enters(b) /\ (Timed(b, a, "HARD_RESET_SEND") \/ Timed(b, a, "SRC_DISCONNECTED"))
  <2>1. goal \in {"HARD_RESET_SEND", "SRC_DISCONNECTED"} /\ goal \in States
    BY StateNames
  <2> HIDE DEF goal
  <2>2. "NO_RESPONSE" \in Durations
    BY DEF Durations
  <2>3. /\ SetTimeout(b, T[p]["NO_RESPONSE"], goal) \in Sound(p)
        /\ Timed(b, SetTimeout(b, T[p]["NO_RESPONSE"], goal), goal)
    BY <1>2, <2>1, <2>2, SetTimeoutSound, TimedSeen
  <2>4. CASE Entered(b) /\ "PREVIOUS_PD_CONN" \in b.flags
    BY <1>2, <2>1, <2>3, <2>4 DEF Timed
  <2>5. CASE ~(Entered(b) /\ "PREVIOUS_PD_CONN" \in b.flags)
    BY <1>2, <2>5 DEF Same
  <2>6. QED BY <2>4, <2>5
<1> HIDE DEF a
<1>5. CASE a.caps_count < PD_CAPS_COUNT
  <2>1. PICK y \in Transmit(p, a, "SOURCE_CAP") :
          Pass(p, IF y.sent THEN negociate(y) ELSE again(y), y)
    BY <1>3, <1>5
  <2> DEFINE x == IF y.sent THEN negociate(y) ELSE again(y)
  <2>2. y.me \in Sound(p) /\ y.me.caps_count = a.caps_count
    <3>1. y.me \in Sound(p)
      BY <1>1, <1>4, TransmitSound DEF SoundOutcome, Safe
    <3>2. QED BY <1>4, <2>1, <3>1, TcpcRunCounts DEF Transmit, Outcome
  <2>3. asks(y) \in Sound(p) /\ Enter(y.me, asks(y), "SRC_NEGOCIATE")
    BY <2>2, SetStateSound, EnterSeen, StateNames DEF Sound
  <2> HIDE DEF asks
  <2>4. /\ negociate(y) \in Sound(p) /\ Unseen(asks(y), negociate(y))
    <3>1. asks(y).flags \cup {"PREVIOUS_PD_CONN"} \in SUBSET Flags
      BY <2>3 DEF Sound, PortType, Flags
    <3>2. 0 \in 0..PD_HARD_RESET_COUNT /\ 0 \in 0..PD_CAPS_COUNT
      BY PdAssumption
    <3>3. QED BY <2>3, <3>1, <3>2 DEF Sound, PortType, Unseen
  <2>5. again(y) \in Sound(p) /\ Unseen(y.me, again(y))
    <3>1. y.me.caps_count + 1 \in 0..PD_CAPS_COUNT
      BY PdAssumption, <1>5, <2>2 DEF Sound, PortType
    <3>2. QED BY <2>2, <3>1 DEF Sound, PortType, Unseen
  <2> HIDE DEF negociate, again
  <2>6. x \in Sound(p) /\ Pass(p, x, y)
    BY <2>1, <2>4, <2>5
  <2>7. /\ y.sent => Enter(y.me, x, "SRC_NEGOCIATE")
        /\ ~y.sent => Same(y.me, x)
    <3>1. Enter(y.me, negociate(y), "SRC_NEGOCIATE")
      BY <2>3, <2>4, UnseenKeeps, EnterKeeps
    <3>2. Same(y.me, again(y))
      BY <2>5, UnseenKeeps DEF Keeps
    <3>3. QED BY <3>1, <3>2
  <2> HIDE DEF x
  <2>8. /\ faults' = 0 /\ plugged' /\ y.me = a
        /\ \E w :
             \/ y.sent /\ Saying("SOURCE_CAP", w, b, x, o, y.you, pd'[p], pd'[Other(p)])
             \/ ~y.sent /\ Quietly(w, b, x, o, pd'[p], pd'[Other(p)])
    BY <1>1, <1>2, <1>4, <2>1, <2>6, Spoke DEF b, o
  <2>9. Good(pd'[p], pd'[Other(p)])
    BY <1>2, <1>4, <2>7, <2>8, SrcDiscoveryGood
  <2>10. QED BY <2>8, <2>9 DEF Holds
<1>6. CASE ~(a.caps_count < PD_CAPS_COUNT)
  <2>1. QuietPass(p, a)
    BY <1>3, <1>6
  <2>2. Same(a, a)
    BY DEF Same, Place, Clock, Power, Mailbox
  <2>3. \A w : Quietly(w, b, a, o, pd'[p], pd'[Other(p)]) => Good(pd'[p], pd'[Other(p)])
    BY <1>2, <1>4, <2>2, SrcDiscoveryGood
  <2>4. QED BY <1>2, <1>4, <2>1, <2>3, QuietHandled DEF b, o
<1>7. QED BY <1>5, <1>6

\* The roles are checked.
LEMMA CheckRoleSeen ==
  ASSUME NEW p \in Ports, NEW b \in Sound(p)
  PROVE  /\ CheckRole(b) \in Sound(p)
         /\ \/ Same(b, CheckRole(b))
            \/ Sink(b) /\ Enter(b, CheckRole(b), "SNK_SWAP_INIT")
            \/ Enter(b, CheckRole(b), "DR_SWAP")
<1> DEFINE power == [b EXCEPT !.flags = @ \ {"CHECK_PR_ROLE"}]
           data == [b EXCEPT !.flags = @ \ {"CHECK_DR_ROLE"}]
<1>1. /\ power \in Sound(p) /\ Keeps(b, power)
      /\ data \in Sound(p) /\ Keeps(b, data)
  BY FlagsUnseen DEF Flags
<1>2. /\ \/ CheckPrRole(b) = power
         \/ Sink(b) /\ CheckPrRole(b) = SetState(power, "SNK_SWAP_INIT")
      /\ CheckDrRole(b) \in {data, SetState(data, "DR_SWAP")}
  BY DEF CheckPrRole, CheckDrRole, Sink
<1> HIDE DEF power, data
<1>3. /\ SetState(power, "SNK_SWAP_INIT") \in Sound(p)
      /\ Enter(power, SetState(power, "SNK_SWAP_INIT"), "SNK_SWAP_INIT")
      /\ SetState(data, "DR_SWAP") \in Sound(p)
      /\ Enter(data, SetState(data, "DR_SWAP"), "DR_SWAP")
  BY <1>1, SetStateSound, EnterSeen, StateNames DEF Sound
<1>4. /\ Enter(b, SetState(power, "SNK_SWAP_INIT"), "SNK_SWAP_INIT")
      /\ Enter(b, SetState(data, "DR_SWAP"), "DR_SWAP")
  BY <1>1, <1>3, KeepsTrans
<1>5. Same(b, power) /\ Same(b, data) /\ Same(b, b)
  BY <1>1, KeepsSelf DEF Keeps
<1>6. CheckRole(b) \in {CheckPrRole(b), CheckDrRole(b), b}
  BY DEF CheckRole
<1>7. CASE CheckRole(b) = CheckPrRole(b)
  BY <1>1, <1>2, <1>3, <1>4, <1>5, <1>7
<1>8. CASE CheckRole(b) = CheckDrRole(b)
  BY <1>1, <1>2, <1>3, <1>4, <1>5, <1>8
<1>9. QED BY <1>5, <1>6, <1>7, <1>8

LEMMA SrcReadyHolds ==
  ASSUME Safe, NEW p \in Ports, SrcReady(p)
  PROVE  Holds(p)
<1> DEFINE b == Self(p)
           o == pd[Other(p)]
           ask == Entered(b) /\ "SNK_CAP_RECVD" \notin b.flags
           asked == IF ask /\ b.snk_cap_count <= PD_SNK_CAP_RETRIES
                    THEN [b EXCEPT !.snk_cap_count = @ + 1] ELSE b
<1>1. At(p, "SRC_READY") /\ "GET_SINK_CAP" \in Messages
  BY DEF SrcReady, Messages
<1>2. /\ b \in Sound(p) /\ b \in PortType /\ Turn(p) /\ State(b) = "SRC_READY"
      /\ Same(b, b) /\ (Entered(b) <=> Enters(b))
  BY <1>1, HandlerSeen
<1>3. \/ QuietPass(p, b)
      \/ /\ ~Packet(b) /\ Entered(b)
         /\ \E y \in Transmit(p, asked, "GET_SINK_CAP") :
              Pass(p, SetState(y.me, "SRC_GET_SINK_CAP"), y)
      \/ ~Packet(b) /\ QuietPass(p, CheckRole(asked))
  BY DEF SrcReady, Packet
<1> HIDE DEF b, o
<1>4. asked \in Sound(p) /\ Keeps(b, asked)
  <2> DEFINE more == [b EXCEPT !.snk_cap_count = @ + 1]
  <2>1. CASE b.snk_cap_count <= PD_SNK_CAP_RETRIES
    <3>1. b.snk_cap_count + 1 \in 0..PD_SNK_CAP_RETRIES + 1
      BY PdAssumption, <1>2, <2>1 DEF PortType
    <3>2. more \in Sound(p) /\ Unseen(b, more)
      BY <1>2, <3>1 DEF Sound, PortType, Unseen
    <3> HIDE DEF more
    <3>3. more \in Sound(p) /\ Keeps(b, more)
      BY <3>2, UnseenKeeps
    <3>4. asked \in {more, b}
      BY DEF more
    <3> HIDE DEF asked
    <3>5. QED BY <1>2, <3>3, <3>4, KeepsSelf
  <2>2. QED BY <1>2, <2>1, KeepsSelf
<1> HIDE DEF asked
<1>5. CASE QuietPass(p, b)
  <2>1. \A w : Quietly(w, b, b, o, pd'[p], pd'[Other(p)]) => Good(pd'[p], pd'[Other(p)])
    BY <1>2, SrcReadyGood
  <2>2. QED BY <1>2, <1>5, <2>1, QuietHandled DEF b, o
<1>6. CASE /\ ~Packet(b) /\ Entered(b)
           /\ \E y \in Transmit(p, asked, "GET_SINK_CAP") :
                Pass(p, SetState(y.me, "SRC_GET_SINK_CAP"), y)
  <2>1. PICK y \in Transmit(p, asked, "GET_SINK_CAP") :
          Pass(p, SetState(y.me, "SRC_GET_SINK_CAP"), y)
    BY <1>6
  <2> DEFINE x == SetState(y.me, "SRC_GET_SINK_CAP")
  <2>2. y.me \in Sound(p)
    BY <1>1, <1>4, TransmitSound DEF SoundOutcome, Safe
  <2>3. x \in Sound(p) /\ Enter(y.me, x, "SRC_GET_SINK_CAP")
    BY <2>2, SetStateSound, EnterSeen, StateNames DEF Sound
  <2> HIDE DEF x
  <2>4. (Hears(asked) <=> Hears(b)) /\ (Hit(asked) <=> Hit(b))
    BY <1>4 DEF Keeps, Same, Mailbox
  <2>5. \A w : Begins(w, b, o) => ~Hit(b) /\ Hears(b) /\ Hears(o) /\ News(o) = "none"
    BY <1>2, <1>6, SrcReadyHeard
  <2>6. /\ faults' = 0 /\ plugged' /\ y.me = asked
        /\ \E w :
             /\ Begins(w, b, o)
             /\ IF Hears(b) /\ Hears(o) /\ News(o) = "none"
                THEN /\ y.sent
                     /\ Saying("GET_SINK_CAP", w, b, x, o, y.you, pd'[p], pd'[Other(p)])
                ELSE ~y.sent /\ Quietly(w, b, x, o, pd'[p], pd'[Other(p)])
    BY <1>1, <1>2, <1>4, <2>1, <2>3, <2>4, <2>5, SpeakBegins DEF b, o, x
  <2>7. PICK w : Saying("GET_SINK_CAP", w, b, x, o, y.you, pd'[p], pd'[Other(p)])
    BY <2>5, <2>6
  <2>8. Enter(b, x, "SRC_GET_SINK_CAP")
    BY <1>4, <2>3, <2>6, KeepsTrans
  <2>9. Good(pd'[p], pd'[Other(p)])
    BY <1>2, <1>6, <2>7, <2>8, SrcReadyGood
  <2>10. QED BY <2>6, <2>9 DEF Holds
<1>7. CASE ~Packet(b) /\ QuietPass(p, CheckRole(asked))
  <2> DEFINE x == CheckRole(asked)
  <2>1. /\ x \in Sound(p)
        /\ \/ Same(asked, x)
           \/ Sink(asked) /\ Enter(asked, x, "SNK_SWAP_INIT")
           \/ Enter(asked, x, "DR_SWAP")
    BY <1>4, CheckRoleSeen
  <2>2. QuietPass(p, x)
    BY <1>7
  <2> HIDE DEF x
  <2>3. \/ Same(b, x)
        \/ Sink(b)
        \/ Enter(b, x, "DR_SWAP")
    <3>1. Same(asked, x) => Same(b, x)
      BY <1>4 DEF Keeps, Same, Place, Clock, Power, Mailbox
    <3>2. Sink(asked) <=> Sink(b)
      BY <1>4 DEF Keeps, Same, Power
    <3>3. QED BY <1>4, <2>1, <3>1, <3>2, KeepsTrans
  <2>4. ASSUME NEW w, Quietly(w, b, x, o, pd'[p], pd'[Other(p)])
        PROVE  Good(pd'[p], pd'[Other(p)])
    <3>1. ~Sink(b)
      BY <1>2, <2>4 DEF Quietly, Begins, Good, PortOK, RoleOK, Same, Place, Power, In,
           SourceStates
    <3>2. QED BY <1>2, <1>7, <2>3, <2>4, <3>1, SrcReadyGood
  <2>5. QED BY <1>2, <2>1, <2>2, <2>4, QuietHandled DEF b, o
<1>8. QED BY <1>3, <1>5, <1>6, <1>7

LEMMA SrcGetSinkCapHolds ==
  ASSUME Safe, NEW p \in Ports, SrcGetSinkCap(p)
  PROVE  Holds(p)
<1> DEFINE b == Self(p)
           o == pd[Other(p)]
           late == SetTimeout(b, T[p]["SENDER_RESPONSE"], "SRC_READY")
           x == IF Entered(b) THEN late ELSE b
<1>1. At(p, "SRC_GET_SINK_CAP") /\ QuietPass(p, x)
  BY DEF SrcGetSinkCap, Wait
<1>2. /\ b \in Sound(p) /\ Turn(p) /\ State(b) = "SRC_GET_SINK_CAP"
  BY <1>1, HandlerSeen
<1> HIDE DEF b, o
<1>3. x \in Sound(p)
  BY <1>2, SetTimeoutSound, StateNames DEF Durations
<1> HIDE DEF x
<1>4. \A w : Quietly(w, b, x, o, pd'[p], pd'[Other(p)]) => Good(pd'[p], pd'[Other(p)])
  BY <1>2, SrcGetSinkCapIdle DEF Quietly
<1>5. QED BY <1>1, <1>2, <1>3, <1>4, QuietHandled DEF b, o

LEMMA AskHolds ==
  ASSUME Safe, NEW p \in Ports, NEW state \in States, NEW m \in Messages, NEW next \in States,
         NEW failed \in States, Ask(p, state, m, next, failed),
         \/ /\ state \in {"DR_SWAP", "SNK_SWAP_INIT", "SRC_SWAP_INIT"}
            /\ m = (IF state = "DR_SWAP" THEN "DR_SWAP" ELSE "PR_SWAP")
            /\ failed = "SOFT_RESET"
            /\ \A w : State(Self(p)) = state /\ Begins(w, Self(p), pd[Other(p)]) =>
                        next = IF Sink(Self(p)) THEN "SNK_READY" ELSE "SRC_READY"
         \/ /\ state = "SOFT_RESET" /\ m = "SOFT_RESET"
            /\ failed = "HARD_RESET_SEND" /\ next = "HARD_RESET_SEND"
  PROVE  Holds(p)
<1> DEFINE b == Self(p)
           o == pd[Other(p)]
           late(y) == SetTimeout(y.me, T[p]["SENDER_RESPONSE"], next)
           x(y) == IF y.sent THEN late(y) ELSE SetState(y.me, failed)
<1>1. At(p, state)
  BY DEF Ask
<1>2. /\ b \in Sound(p) /\ b \in PortType /\ Turn(p) /\ State(b) = state
      /\ Same(b, b) /\ Mailbox(b, b) /\ (Entered(b) <=> Enters(b))
  BY <1>1, HandlerSeen DEF Same
<1>3. IF Entered(b) THEN \E y \in Transmit(p, b, m) : Pass(p, x(y), y) ELSE QuietPass(p, b)
  BY DEF Ask
<1>4. Question(b) = m /\ ~In(b, Ready)
  BY <1>2 DEF Question, In, Ready
<1>5. \A w : Begins(w, b, o) =>
        \/ /\ In(b, {"DR_SWAP", "SNK_SWAP_INIT", "SRC_SWAP_INIT"}) /\ failed = "SOFT_RESET"
           /\ next = IF Sink(b) THEN "SNK_READY" ELSE "SRC_READY"
        \/ /\ State(b) = "SOFT_RESET" /\ failed = "HARD_RESET_SEND"
           /\ next = "HARD_RESET_SEND"
  BY <1>2 DEF In
<1>6. CASE Entered(b)
  <2>1. PICK y \in Transmit(p, b, m) : Pass(p, x(y), y)
    BY <1>3, <1>6
  <2>2. y.me \in Sound(p)
    BY <1>2, TransmitSound DEF SoundOutcome, Safe
  <2>3. /\ late(y) \in Sound(p) /\ Timed(y.me, late(y), next)
        /\ SetState(y.me, failed) \in Sound(p) /\ Enter(y.me, SetState(y.me, failed), failed)
    BY <2>2, SetStateSound, EnterSeen, SetTimeoutSound, TimedSeen DEF Sound, Durations
  <2> HIDE DEF late
  <2>4. /\ x(y) \in Sound(p)
        /\ y.sent => Timed(y.me, x(y), next)
        /\ ~y.sent => Enter(y.me, x(y), failed)
    BY <2>3
  <2> HIDE DEF x
  <2>5. /\ faults' = 0 /\ plugged' /\ y.me = b
        /\ \E w :
             /\ Begins(w, b, o)
             /\ IF Hears(b) /\ Hears(o) /\ News(o) = "none"
                THEN y.sent /\ Saying(m, w, b, x(y), o, y.you, pd'[p], pd'[Other(p)])
                ELSE ~y.sent /\ Quietly(w, b, x(y), o, pd'[p], pd'[Other(p)])
    BY <1>2, <1>4, <2>1, <2>4, Spoke
  <2> HIDE DEF b, o
  <2>6. PICK w :
          /\ Begins(w, b, o)
          /\ \/ /\ Saying(Question(b), w, b, x(y), o, y.you, pd'[p], pd'[Other(p)])
                /\ Timed(b, x(y), next)
             \/ /\ Quietly(w, b, x(y), o, pd'[p], pd'[Other(p)]) /\ Enter(b, x(y), failed)
                /\ ~(Hears(b) /\ Hears(o) /\ News(o) = "none")
    BY <1>4, <2>4, <2>5
  <2>7. Good(pd'[p], pd'[Other(p)])
    BY <1>2, <1>5, <1>6, <2>6, AskGood
  <2>8. QED BY <2>5, <2>7 DEF Holds
<1>7. CASE ~Entered(b)
  <2> HIDE DEF b, o
  <2>1. \A w : Quietly(w, b, b, o, pd'[p], pd'[Other(p)]) => Good(pd'[p], pd'[Other(p)])
    BY <1>2, <1>5, <1>7, AskGood DEF Quietly
  <2>2. QuietPass(p, b)
    BY <1>3, <1>7
  <2>3. QED BY <1>2, <2>1, <2>2, QuietHandled DEF b, o
<1>8. QED BY <1>6, <1>7

LEMMA AskStatesHold ==
  ASSUME Safe, NEW p \in Ports,
         DrSwapState(p) \/ SrcSwapInit(p) \/ SnkSwapInit(p) \/ SoftReset(p)
  PROVE  Holds(p)
<1> DEFINE b == Self(p)
           o == pd[Other(p)]
<1>1. /\ {"DR_SWAP", "SOFT_RESET", "SRC_SWAP_INIT", "SNK_SWAP_INIT", "SRC_READY",
          "SNK_READY", "HARD_RESET_SEND"} \subseteq States
      /\ {"DR_SWAP", "PR_SWAP", "SOFT_RESET"} \subseteq Messages
  BY StateNames DEF Messages
<1>2. /\ ReadyReturnState(b) = IF Sink(b) THEN "SNK_READY" ELSE "SRC_READY"
      /\ ReadyReturnState(b) \in States
  BY <1>1 DEF ReadyReturnState, Sink
<1>3. \A w : Begins(w, b, o) => /\ State(b) = "SRC_SWAP_INIT" => ~Sink(b)
                                /\ State(b) = "SNK_SWAP_INIT" => Sink(b)
  BY DEF Begins, Good, PortOK, RoleOK, Same, Place, Power, In, SourceStates, SinkStates
<1>4. CASE DrSwapState(p)
  <2>1. Ask(p, "DR_SWAP", "DR_SWAP", ReadyReturnState(b), "SOFT_RESET")
    BY <1>4 DEF DrSwapState
  <2> HIDE DEF b
  <2>2. QED BY <1>1, <1>2, <2>1, AskHolds DEF b
<1>5. CASE SrcSwapInit(p)
  <2>1. Ask(p, "SRC_SWAP_INIT", "PR_SWAP", "SRC_READY", "SOFT_RESET")
    BY <1>5 DEF SrcSwapInit
  <2>2. QED BY <1>1, <1>3, <2>1, AskHolds
<1>6. CASE SnkSwapInit(p)
  <2>1. Ask(p, "SNK_SWAP_INIT", "PR_SWAP", "SNK_READY", "SOFT_RESET")
    BY <1>6 DEF SnkSwapInit
  <2>2. QED BY <1>1, <1>3, <2>1, AskHolds
<1>7. CASE SoftReset(p)
  <2>1. Ask(p, "SOFT_RESET", "SOFT_RESET", "HARD_RESET_SEND", "HARD_RESET_SEND")
    BY <1>7 DEF SoftReset
  <2>2. QED BY <1>1, <2>1, AskHolds
<1>8. QED BY <1>4, <1>5, <1>6, <1>7

LEMMA SrcSwapSrcDisableHolds ==
  ASSUME Safe, NEW p \in Ports, SrcSwapSrcDisable(p)
  PROVE  Holds(p)
<1> DEFINE b == Self(p)
           o == pd[Other(p)]
           off == [b EXCEPT !.vbus = FALSE]
           late == SetTimeout(off, T[p]["TURN_OFF"], "SRC_SWAP_STANDBY")
           x == IF Entered(b) THEN late ELSE b
<1>1. At(p, "SRC_SWAP_SRC_DISABLE") /\ QuietPass(p, x)
  BY DEF SrcSwapSrcDisable
<1>2. /\ b \in Sound(p) /\ b \in PortType /\ Turn(p) /\ Same(b, b)
      /\ State(b) = "SRC_SWAP_SRC_DISABLE" /\ (Entered(b) <=> Enters(b))
  BY <1>1, HandlerSeen
<1> HIDE DEF b, o
<1>3. /\ off \in Sound(p) /\ Recast(b, off) /\ off.vbus = FALSE
      /\ off.power_role = b.power_role /\ off.cc = b.cc /\ off.rx_enabled = b.rx_enabled
  BY <1>2 DEF Sound, PortType, Recast
<1> HIDE DEF off
<1>4. late \in Sound(p) /\ Timed(off, late, "SRC_SWAP_STANDBY")
  <2>1. "TURN_OFF" \in Durations /\ "SRC_SWAP_STANDBY" \in States /\ off \in PortType
    BY <1>3, StateNames DEF Sound, Durations
  <2>2. QED BY <1>3, <2>1, SetTimeoutSound, TimedSeen
<1> HIDE DEF late
<1>5. /\ Place(b, late) /\ Mailbox(b, late) /\ ~Fresh(late) /\ ~Last(late)
      /\ Goal(late) = "SRC_SWAP_STANDBY" /\ ~On(late) /\ (Sink(late) <=> Sink(b))
      /\ (Rp(late) <=> Rp(b))
  <2>1. /\ Place(b, off) /\ (Hit(off) <=> Hit(b)) /\ News(off) = News(b)
        /\ (Single(off) <=> Single(b)) /\ (Hears(off) <=> Hears(b))
        /\ (Sink(off) <=> Sink(b)) /\ (Rp(off) <=> Rp(b)) /\ ~On(off)
    BY <1>3, RecastSeen
  <2>2. QED BY <1>4, <2>1 DEF Timed, Place, Power, Mailbox
<1>6. x \in Sound(p)
  BY <1>2, <1>4
<1>7. \A w : Quietly(w, b, x, o, pd'[p], pd'[Other(p)]) => Good(pd'[p], pd'[Other(p)])
  BY <1>2, <1>5, SrcSwapSrcDisableGood
<1> HIDE DEF x
<1>8. QED BY <1>1, <1>2, <1>6, <1>7, QuietHandled DEF b, o

LEMMA SrcSwapStandbyHolds ==
  ASSUME Safe, NEW p \in Ports, SrcSwapStandby(p)
  PROVE  Holds(p)
<1> DEFINE b == Self(p)
           o == pd[Other(p)]
           sink(y) == [y.me EXCEPT !.cc = "RD", !.power_role = "SINK"]
           late(y) == SetTimeout(sink(y), T[p]["PS_SOURCE_ON"], "SNK_DISCONNECTED")
           off(y) == SetState(y.me, "SRC_DISCONNECTED")
           x(y) == IF y.sent THEN late(y) ELSE off(y)
<1>1. At(p, "SRC_SWAP_STANDBY") /\ "PS_RDY" \in Messages
  BY DEF SrcSwapStandby, Messages
<1>2. /\ b \in Sound(p) /\ b \in PortType /\ Turn(p) /\ State(b) = "SRC_SWAP_STANDBY"
      /\ Same(b, b) /\ Mailbox(b, b) /\ (Entered(b) <=> Enters(b)) /\ ~In(b, Ready)
  BY <1>1, HandlerSeen DEF Same, In, Ready
<1>3. IF Entered(b) THEN \E y \in Transmit(p, b, "PS_RDY") : Pass(p, x(y), y)
      ELSE QuietPass(p, b)
  BY DEF SrcSwapStandby
<1>4. CASE Entered(b)
  <2>1. PICK y \in Transmit(p, b, "PS_RDY") : Pass(p, x(y), y)
    BY <1>3, <1>4
  <2>2. y.me \in Sound(p)
    BY <1>1, <1>2, TransmitSound DEF SoundOutcome, Safe
  <2>3. /\ sink(y) \in Sound(p) /\ Recast(y.me, sink(y)) /\ sink(y).power_role = "SINK"
        /\ sink(y).cc = "RD" /\ sink(y).vbus = y.me.vbus
        /\ sink(y).rx_enabled = y.me.rx_enabled
    BY <2>2 DEF Sound, PortType, Recast
  <2> HIDE DEF sink
  <2>4. /\ late(y) \in Sound(p) /\ Timed(sink(y), late(y), "SNK_DISCONNECTED")
        /\ off(y) \in Sound(p) /\ Enter(y.me, off(y), "SRC_DISCONNECTED")
    <3>1. /\ "PS_SOURCE_ON" \in Durations /\ sink(y) \in PortType /\ y.me \in PortType
          /\ "SNK_DISCONNECTED" \in States /\ "SRC_DISCONNECTED" \in States
      BY <2>2, <2>3, StateNames DEF Sound, Durations
    <3>2. QED
      BY <2>2, <2>3, <3>1, SetStateSound, EnterSeen, SetTimeoutSound, TimedSeen
  <2> HIDE DEF late, off
  <2>5. /\ Place(y.me, late(y)) /\ Mailbox(y.me, late(y)) /\ ~Fresh(late(y)) /\ ~Last(late(y))
        /\ Goal(late(y)) = "SNK_DISCONNECTED" /\ Sink(late(y)) /\ ~Rp(late(y))
        /\ (On(late(y)) <=> On(y.me))
    <3>1. /\ Place(y.me, sink(y)) /\ (Hit(sink(y)) <=> Hit(y.me))
          /\ News(sink(y)) = News(y.me) /\ (Single(sink(y)) <=> Single(y.me))
          /\ (Hears(sink(y)) <=> Hears(y.me)) /\ Sink(sink(y)) /\ ~Rp(sink(y))
          /\ (On(sink(y)) <=> On(y.me))
      BY <2>3, RecastSeen
    <3>2. QED BY <2>4, <3>1 DEF Timed, Place, Power, Mailbox
  <2>6. /\ x(y) \in Sound(p)
        /\ y.sent => x(y) = late(y)
        /\ ~y.sent => x(y) = off(y)
    BY <2>4
  <2> HIDE DEF x
  <2>7. /\ faults' = 0 /\ plugged' /\ y.me = b
        /\ \E w :
             /\ Begins(w, b, o)
             /\ IF Hears(b) /\ Hears(o) /\ News(o) = "none"
                THEN y.sent /\ Saying("PS_RDY", w, b, x(y), o, y.you, pd'[p], pd'[Other(p)])
                ELSE ~y.sent /\ Quietly(w, b, x(y), o, pd'[p], pd'[Other(p)])
    BY <1>1, <1>2, <2>1, <2>6, Spoke
  <2> HIDE DEF b, o
  <2>8. PICK w :
          IF Hears(b) /\ Hears(o) /\ News(o) = "none"
          THEN y.sent /\ Saying("PS_RDY", w, b, x(y), o, y.you, pd'[p], pd'[Other(p)])
          ELSE ~y.sent /\ Quietly(w, b, x(y), o, pd'[p], pd'[Other(p)])
    BY <2>7
  <2>9. Good(pd'[p], pd'[Other(p)])
    <3>1. CASE Hears(b) /\ Hears(o) /\ News(o) = "none"
      <4>1. x(y) = late(y)
        BY <2>6, <2>8, <3>1
      <4>2. QED BY <1>2, <1>4, <2>5, <2>7, <2>8, <3>1, <4>1, SrcSwapStandbyGood
    <3>2. CASE ~(Hears(b) /\ Hears(o) /\ News(o) = "none")
      <4>1. Enter(b, x(y), "SRC_DISCONNECTED")
        BY <2>4, <2>6, <2>7, <2>8, <3>2
      <4>2. QED BY <1>2, <1>4, <2>8, <3>2, <4>1, SrcSwapStandbyGood
    <3>3. QED BY <3>1, <3>2
  <2>10. QED BY <2>7, <2>9 DEF Holds
<1>5. CASE ~Entered(b)
  <2> HIDE DEF b, o
  <2>1. \A w : Quietly(w, b, b, o, pd'[p], pd'[Other(p)]) => Good(pd'[p], pd'[Other(p)])
    BY <1>2, <1>5, SrcSwapStandbyGood
  <2>2. QuietPass(p, b)
    BY <1>3, <1>5
  <2>3. QED BY <1>2, <2>1, <2>2, QuietHandled DEF b, o
<1>6. QED BY <1>4, <1>5

LEMMA LateSeen ==
  ASSUME NEW r, NEW a, NEW s, NEW next, Recast(r, a), a.rx_enabled = r.rx_enabled,
         Timed(a, s, next)
  PROVE  /\ Place(r, s) /\ Mailbox(r, s) /\ ~Fresh(s) /\ ~Last(s) /\ Goal(s) = next
         /\ (Sink(s) <=> Sink(a)) /\ (Rp(s) <=> Rp(a)) /\ (On(s) <=> On(a)) /\ (Off(s) <=> Off(a))
<1>1. /\ Place(r, a) /\ (Hit(a) <=> Hit(r)) /\ News(a) = News(r)
      /\ (Single(a) <=> Single(r)) /\ (Hears(a) <=> Hears(r))
  BY RecastSeen
<1>2. QED BY <1>1 DEF Timed, Place, Power, Mailbox

LEMMA SnkDisconnectedHolds ==
  ASSUME Safe, NEW p \in Ports, SnkDisconnected(p)
  PROVE  Holds(p)
<1> DEFINE b == Self(p)
           o == pd[Other(p)]
           role == [b EXCEPT !.power_role = "SOURCE"]
           off == SetState(role, "SRC_DISCONNECTED")
           turned == [off EXCEPT !.cc = "RP", !.next_role_swap = T[p]["DRP_SRC"]]
           tried == [b EXCEPT !.flags = @ \ {"TRY_SRC"}]
           wait == SetState(b, "SNK_DISCONNECTED_DEBOUNCE")
           debounce == [wait EXCEPT !.hard_reset_count = 0, !.cc_debounce = T[p]["CC_DEBOUNCE"]]
<1>1. At(p, "SNK_DISCONNECTED")
  BY DEF SnkDisconnected
<1>2. /\ b \in Sound(p) /\ b \in PortType /\ Turn(p) /\ State(b) = "SNK_DISCONNECTED"
      /\ (Attached(p, b) <=> Facing(b, o)) /\ Same(b, b)
  BY <1>1, HandlerSeen
<1>3. \/ Attached(p, b) /\ QuietPass(p, debounce)
      \/ ~Attached(p, b) /\ (QuietPass(p, turned) \/ QuietPass(p, b) \/ QuietPass(p, tried))
  BY DEF SnkDisconnected
<1> HIDE DEF b, o
<1>4. /\ role \in Sound(p) /\ Recast(b, role) /\ role.power_role = "SOURCE"
      /\ role.vbus = b.vbus /\ role.rx_enabled = b.rx_enabled
  BY <1>2 DEF Sound, PortType, Recast
<1>5. tried \in Sound(p) /\ Same(b, tried)
  BY <1>2, FlagsUnseen DEF Flags, Keeps
<1> HIDE DEF role, tried
<1>6. /\ off \in Sound(p) /\ wait \in Sound(p)
      /\ Enter(role, off, "SRC_DISCONNECTED")
      /\ Enter(b, wait, "SNK_DISCONNECTED_DEBOUNCE")
  BY <1>2, <1>4, SetStateSound, EnterSeen, StateNames DEF Sound
<1> HIDE DEF off, wait
<1>7. /\ T[p]["DRP_SRC"] \in Nat /\ T[p]["CC_DEBOUNCE"] \in Nat
      /\ 0 \in 0..PD_HARD_RESET_COUNT
  BY PdAssumption, LongestDuration DEF Durations
<1>8. /\ turned \in Sound(p) /\ Recast(off, turned) /\ turned.cc = "RP"
      /\ turned.power_role = off.power_role
      /\ turned.vbus = off.vbus /\ turned.rx_enabled = off.rx_enabled
  BY <1>6, <1>7 DEF Sound, PortType, Recast
<1>9. debounce \in Sound(p) /\ Unseen(wait, debounce)
  BY <1>6, <1>7 DEF Sound, PortType, Unseen
<1> HIDE DEF turned, debounce
<1>10. Enter(b, debounce, "SNK_DISCONNECTED_DEBOUNCE")
  BY <1>6, <1>9, UnseenKeeps, EnterKeeps
<1>11. /\ Moves(b, turned, "SRC_DISCONNECTED") /\ ~Sink(turned) /\ Rp(turned)
       /\ (On(turned) <=> On(b)) /\ (Hears(turned) <=> Hears(b))
  <2>1. ~Sink(role) /\ (On(role) <=> On(b)) /\ (Hears(role) <=> Hears(b)) /\ Rp(turned)
    BY <1>4, <1>8, RecastSeen
  <2>2. State(b) \in Disconnected
    BY <1>2 DEF Disconnected
  <2>3. QED BY <1>4, <1>6, <1>8, <2>1, <2>2, MovesSeen
<1>12. PICK x \in Sound(p) :
        /\ QuietPass(p, x)
        /\ IF Facing(b, o) THEN Enter(b, x, "SNK_DISCONNECTED_DEBOUNCE")
           ELSE \/ Same(b, x)
                \/ /\ Moves(b, x, "SRC_DISCONNECTED") /\ ~Sink(x) /\ Rp(x)
                   /\ (On(x) <=> On(b)) /\ (Hears(x) <=> Hears(b))
  BY <1>2, <1>3, <1>5, <1>8, <1>9, <1>10, <1>11
<1>13. \A w : Quietly(w, b, x, o, pd'[p], pd'[Other(p)]) => Good(pd'[p], pd'[Other(p)])
  BY <1>2, <1>12, SnkDisconnectedGood
<1>14. QED BY <1>2, <1>12, <1>13, QuietHandled DEF b, o

LEMMA SnkDisconnectedDebounceHolds ==
  ASSUME Safe, TrySrc = {}, NEW p \in Ports, SnkDisconnectedDebounce(p)
  PROVE  Holds(p)
<1> DEFINE b == Self(p)
           o == pd[Other(p)]
           off == SetState(b, "SNK_DISCONNECTED")
           on == [b EXCEPT !.data_role = "UFP", !.rx_enabled = TRUE,
                           !.flags = @ \cup CheckRoles]
           sink == SetState(on, "SNK_DISCOVERY")
<1>1. At(p, "SNK_DISCONNECTED_DEBOUNCE") /\ ~TryEnabled(p, b)
  BY DEF SnkDisconnectedDebounce, TryEnabled
<1>2. /\ b \in Sound(p) /\ b \in PortType /\ Turn(p)
      /\ State(b) = "SNK_DISCONNECTED_DEBOUNCE"
      /\ (Attached(p, b) <=> Facing(b, o)) /\ Same(b, b) /\ (VbusProvided(p, b) <=> Fed(b, o))
  BY <1>1, HandlerSeen
<1>3. \/ ~Attached(p, b) /\ QuietPass(p, off)
      \/ Attached(p, b) /\ QuietPass(p, b)
      \/ Attached(p, b) /\ VbusProvided(p, b) /\ QuietPass(p, sink)
  BY <1>1 DEF SnkDisconnectedDebounce
<1> HIDE DEF b, o
<1>4. /\ on \in Sound(p) /\ Recast(b, on) /\ on.rx_enabled = TRUE
      /\ on.power_role = b.power_role /\ on.cc = b.cc /\ on.vbus = b.vbus
  <2>1. b.flags \cup CheckRoles \in SUBSET Flags
    BY <1>2 DEF PortType, CheckRoles, Flags
  <2>2. QED BY <1>2, <2>1 DEF Sound, PortType, Recast
<1> HIDE DEF on
<1>5. /\ off \in Sound(p) /\ sink \in Sound(p)
      /\ Enter(b, off, "SNK_DISCONNECTED") /\ Enter(on, sink, "SNK_DISCOVERY")
  BY <1>2, <1>4, SetStateSound, EnterSeen, StateNames DEF Sound
<1> HIDE DEF off, sink
<1>6. /\ Moves(b, sink, "SNK_DISCOVERY") /\ (Sink(sink) <=> Sink(b))
      /\ (Rp(sink) <=> Rp(b)) /\ (On(sink) <=> On(b)) /\ Hears(sink)
  <2>1. (Sink(on) <=> Sink(b)) /\ (Rp(on) <=> Rp(b)) /\ (On(on) <=> On(b)) /\ Hears(on)
    BY <1>4, RecastSeen
  <2>2. Recast(sink, sink)
    BY DEF Recast
  <2>3. "SNK_DISCOVERY" \notin Disconnected
    BY DEF Disconnected
  <2>4. QED BY <1>4, <1>5, <2>1, <2>2, <2>3, MovesSeen
<1>7. PICK x \in Sound(p) :
        /\ QuietPass(p, x)
        /\ IF ~Facing(b, o) THEN Enter(b, x, "SNK_DISCONNECTED")
           ELSE \/ Same(b, x)
                \/ /\ Fed(b, o) /\ Moves(b, x, "SNK_DISCOVERY") /\ (Sink(x) <=> Sink(b))
                   /\ (Rp(x) <=> Rp(b)) /\ (On(x) <=> On(b)) /\ Hears(x)
  BY <1>2, <1>3, <1>5, <1>6
<1>8. \A w : Quietly(w, b, x, o, pd'[p], pd'[Other(p)]) => Good(pd'[p], pd'[Other(p)])
  BY <1>2, <1>7, SnkDisconnectedDebounceGood
<1>9. QED BY <1>2, <1>7, <1>8, QuietHandled DEF b, o

LEMMA SnkHardResetRecoverHolds ==
  ASSUME Safe, NEW p \in Ports, SnkHardResetRecover(p)
  PROVE  Holds(p)
<1> DEFINE b == Self(p)
           o == pd[Other(p)]
           goal == IF b.hard_reset_count < PD_HARD_RESET_COUNT
                   THEN "HARD_RESET_SEND" ELSE "SNK_DISCOVERY"
           fresh == [b EXCEPT !.vbus_off = FALSE]
           late == SetTimeout(fresh, T[p]["SAFE_0V"], goal)
           a == IF Entered(b) THEN late ELSE b
           low == [a EXCEPT !.vbus_off = TRUE]
           waits == SetTimeout(low, T[p]["SRC_RECOVER_MAX"], "SNK_DISCONNECTED")
           found == SetState(a, "SNK_DISCOVERY")
<1>1. At(p, "SNK_HARD_RESET_RECOVER")
  BY DEF SnkHardResetRecover
<1>2. /\ b \in Sound(p) /\ b \in PortType /\ Turn(p) /\ Same(b, b)
      /\ State(b) = "SNK_HARD_RESET_RECOVER" /\ (Entered(b) <=> Enters(b))
      /\ (VbusProvided(p, b) <=> Fed(b, o))
  BY <1>1, HandlerSeen
<1>3. \/ ~VbusProvided(p, b) /\ ~a.vbus_off /\ QuietPass(p, waits)
      \/ VbusProvided(p, b) /\ a.vbus_off /\ QuietPass(p, found)
      \/ /\ ~(~VbusProvided(p, b) /\ ~a.vbus_off)
         /\ ~(VbusProvided(p, b) /\ a.vbus_off)
         /\ QuietPass(p, a)
  BY DEF SnkHardResetRecover
<1> HIDE DEF b, o
<1>4. /\ fresh \in Sound(p) /\ fresh \in PortType /\ Recast(b, fresh)
      /\ fresh.vbus_off = FALSE /\ fresh.rx_enabled = b.rx_enabled
      /\ fresh.power_role = b.power_role /\ fresh.cc = b.cc /\ fresh.vbus = b.vbus
  BY <1>2 DEF Sound, PortType, Recast
<1> HIDE DEF fresh
<1>5. /\ goal \in {"HARD_RESET_SEND", "SNK_DISCOVERY"} /\ goal \in States
      /\ "SNK_DISCONNECTED" \in States /\ "SNK_DISCOVERY" \in States
      /\ "SAFE_0V" \in Durations /\ "SRC_RECOVER_MAX" \in Durations
  BY StateNames DEF Durations
<1> HIDE DEF goal
<1>6. late \in Sound(p) /\ Timed(fresh, late, goal)
  BY <1>4, <1>5, SetTimeoutSound, TimedSeen
<1> HIDE DEF late
<1>7. /\ a \in Sound(p)
      /\ IF Enters(b)
         THEN /\ Place(b, a) /\ Mailbox(b, a) /\ ~Fresh(a) /\ ~Last(a)
              /\ Goal(a) \in {"HARD_RESET_SEND", "SNK_DISCOVERY"} /\ ~Off(a)
              /\ (Sink(a) <=> Sink(b)) /\ (Rp(a) <=> Rp(b)) /\ (On(a) <=> On(b))
         ELSE Same(b, a)
  <2>1. (Sink(fresh) <=> Sink(b)) /\ (Rp(fresh) <=> Rp(b)) /\ (On(fresh) <=> On(b)) /\ ~Off(fresh)
    BY <1>4, RecastSeen
  <2>2. /\ Place(b, late) /\ Mailbox(b, late) /\ ~Fresh(late) /\ ~Last(late)
        /\ Goal(late) \in {"HARD_RESET_SEND", "SNK_DISCOVERY"} /\ ~Off(late)
        /\ (Sink(late) <=> Sink(b)) /\ (Rp(late) <=> Rp(b)) /\ (On(late) <=> On(b))
    BY <1>4, <1>5, <1>6, <2>1, LateSeen
  <2>3. QED BY <1>2, <1>6, <2>2
<1> HIDE DEF a
<1>8. /\ low \in Sound(p) /\ low \in PortType /\ Recast(a, low)
      /\ low.vbus_off = TRUE /\ low.rx_enabled = a.rx_enabled
      /\ low.power_role = a.power_role /\ low.cc = a.cc /\ low.vbus = a.vbus
  BY <1>7 DEF Sound, PortType, Recast
<1> HIDE DEF low
<1>9. /\ waits \in Sound(p) /\ Timed(low, waits, "SNK_DISCONNECTED")
      /\ found \in Sound(p) /\ Enter(a, found, "SNK_DISCOVERY")
  <2>1. a \in PortType
    BY <1>7 DEF Sound
  <2>2. QED BY <1>5, <1>7, <1>8, <2>1, SetTimeoutSound, TimedSeen, SetStateSound, EnterSeen
<1> HIDE DEF waits, found
<1>10. /\ Place(a, waits) /\ Mailbox(a, waits) /\ ~Fresh(waits) /\ ~Last(waits)
       /\ Goal(waits) = "SNK_DISCONNECTED" /\ Off(waits)
       /\ (Sink(waits) <=> Sink(a)) /\ (Rp(waits) <=> Rp(a)) /\ (On(waits) <=> On(a))
  <2>1. (Sink(low) <=> Sink(a)) /\ (Rp(low) <=> Rp(a)) /\ (On(low) <=> On(a)) /\ Off(low)
    BY <1>8, RecastSeen
  <2>2. QED BY <1>8, <1>9, <2>1, LateSeen
<1>11. Same(a, a) /\ (Off(a) <=> a.vbus_off)
  BY DEF Same, Place, Clock, Power, Mailbox, Off
<1>12. PICK x \in Sound(p) :
        /\ QuietPass(p, x)
        /\ IF ~Fed(b, o) /\ ~Off(a)
           THEN /\ Place(a, x) /\ Mailbox(a, x) /\ ~Fresh(x) /\ ~Last(x)
                /\ Goal(x) = "SNK_DISCONNECTED" /\ Off(x)
                /\ (Sink(x) <=> Sink(a)) /\ (Rp(x) <=> Rp(a)) /\ (On(x) <=> On(a))
           ELSE IF Fed(b, o) /\ Off(a) THEN Enter(a, x, "SNK_DISCOVERY") ELSE Same(a, x)
  BY <1>2, <1>3, <1>7, <1>9, <1>10, <1>11
<1>13. \A w : Quietly(w, b, x, o, pd'[p], pd'[Other(p)]) => Good(pd'[p], pd'[Other(p)])
  BY <1>2, <1>7, <1>12, SnkHardResetRecoverGood
<1>14. QED BY <1>2, <1>12, <1>13, QuietHandled DEF b, o

LEMMA SnkDiscoveryHolds ==
  ASSUME Safe, NEW p \in Ports, SnkDiscovery(p)
  PROVE  Holds(p)
<1> DEFINE b == Self(p)
           o == pd[Other(p)]
           caps == SetTimeout(b, T[p]["SINK_WAIT_CAP"], "HARD_RESET_SEND")
           none == SetTimeout(b, T[p]["NO_RESPONSE"], "SNK_DISCONNECTED")
<1>1. At(p, "SNK_DISCOVERY")
  BY DEF SnkDiscovery
<1>2. /\ b \in Sound(p) /\ b \in PortType /\ Turn(p) /\ State(b) = "SNK_DISCOVERY"
      /\ Same(b, b) /\ (Entered(b) <=> Enters(b))
  BY <1>1, HandlerSeen
<1>3. QuietPass(p, b) \/ (Entered(b) /\ (QuietPass(p, caps) \/ QuietPass(p, none)))
  BY DEF SnkDiscovery
<1> HIDE DEF b, o
<1>4. /\ caps \in Sound(p) /\ Timed(b, caps, "HARD_RESET_SEND")
      /\ none \in Sound(p) /\ Timed(b, none, "SNK_DISCONNECTED")
  <2>1. /\ "SINK_WAIT_CAP" \in Durations /\ "NO_RESPONSE" \in Durations
        /\ "HARD_RESET_SEND" \in States /\ "SNK_DISCONNECTED" \in States
    BY StateNames DEF Durations
  <2>2. QED BY <1>2, <2>1, SetTimeoutSound, TimedSeen
<1> HIDE DEF caps, none
<1>5. PICK x \in Sound(p) :
        /\ QuietPass(p, x)
        /\ \/ Same(b, x)
           \/ Enters(b) /\ (Timed(b, x, "HARD_RESET_SEND") \/ Timed(b, x, "SNK_DISCONNECTED"))
  BY <1>2, <1>3, <1>4
<1>6. \A w : Quietly(w, b, x, o, pd'[p], pd'[Other(p)]) => Good(pd'[p], pd'[Other(p)])
  BY <1>2, <1>5, SnkDiscoveryGood
<1>7. QED BY <1>2, <1>5, <1>6, QuietHandled DEF b, o

LEMMA SnkReadyHolds ==
  ASSUME Safe, NEW p \in Ports, SnkReady(p)
  PROVE  Holds(p)
<1> DEFINE b == Self(p)
           o == pd[Other(p)]
<1>1. At(p, "SNK_READY")
  BY DEF SnkReady
<1>2. /\ b \in Sound(p) /\ Turn(p) /\ State(b) = "SNK_READY" /\ Same(b, b)
  BY <1>1, HandlerSeen
<1>3. QuietPass(p, b) \/ (~Packet(b) /\ QuietPass(p, CheckRole(b)))
  BY DEF SnkReady, Packet
<1> HIDE DEF b, o
<1>4. PICK x \in Sound(p) :
        /\ QuietPass(p, x)
        /\ \/ Same(b, x)
           \/ ~Packet(b) /\ (Enter(b, x, "SNK_SWAP_INIT") \/ Enter(b, x, "DR_SWAP"))
  BY <1>2, <1>3, CheckRoleSeen
<1>5. \A w : Quietly(w, b, x, o, pd'[p], pd'[Other(p)]) => Good(pd'[p], pd'[Other(p)])
  BY <1>2, <1>4, SnkReadyGood
<1>6. QED BY <1>2, <1>4, <1>5, QuietHandled DEF b, o

LEMMA SnkSwapSnkDisableHolds ==
  ASSUME Safe, NEW p \in Ports, SnkSwapSnkDisable(p)
  PROVE  Holds(p)
<1> DEFINE b == Self(p)
           o == pd[Other(p)]
           x == SetState(b, "SNK_SWAP_SRC_DISABLE")
<1>1. At(p, "SNK_SWAP_SNK_DISABLE") /\ QuietPass(p, x)
  BY DEF SnkSwapSnkDisable
<1>2. /\ b \in Sound(p) /\ b \in PortType /\ Turn(p) /\ State(b) = "SNK_SWAP_SNK_DISABLE"
  BY <1>1, HandlerSeen
<1> HIDE DEF b, o
<1>3. x \in Sound(p) /\ Enter(b, x, "SNK_SWAP_SRC_DISABLE")
  BY <1>2, SetStateSound, EnterSeen, StateNames
<1> HIDE DEF x
<1>4. \A w : Quietly(w, b, x, o, pd'[p], pd'[Other(p)]) => Good(pd'[p], pd'[Other(p)])
  BY <1>2, <1>3, SnkSwapSnkDisableGood
<1>5. QED BY <1>1, <1>2, <1>3, <1>4, QuietHandled DEF b, o

LEMMA SnkSwapStandbyHolds ==
  ASSUME Safe, NEW p \in Ports, SnkSwapStandby(p)
  PROVE  Holds(p)
<1> DEFINE b == Self(p)
           o == pd[Other(p)]
           on == [b EXCEPT !.cc = "RP", !.vbus = TRUE]
           late == SetTimeout(on, T[p]["TURN_ON"], "SNK_SWAP_COMPLETE")
           x == IF Entered(b) THEN late ELSE b
<1>1. At(p, "SNK_SWAP_STANDBY") /\ QuietPass(p, x)
  BY DEF SnkSwapStandby
<1>2. /\ b \in Sound(p) /\ b \in PortType /\ Turn(p) /\ Same(b, b)
      /\ State(b) = "SNK_SWAP_STANDBY" /\ (Entered(b) <=> Enters(b))
  BY <1>1, HandlerSeen
<1> HIDE DEF b, o
<1>3. /\ on \in Sound(p) /\ on \in PortType /\ Recast(b, on)
      /\ on.vbus = TRUE /\ on.cc = "RP"
      /\ on.power_role = b.power_role /\ on.rx_enabled = b.rx_enabled
  BY <1>2 DEF Sound, PortType, Recast
<1> HIDE DEF on
<1>4. late \in Sound(p) /\ Timed(on, late, "SNK_SWAP_COMPLETE")
  <2>1. "TURN_ON" \in Durations /\ "SNK_SWAP_COMPLETE" \in States
    BY StateNames DEF Durations
  <2>2. QED BY <1>3, <2>1, SetTimeoutSound, TimedSeen
<1> HIDE DEF late
<1>5. /\ Place(b, late) /\ Mailbox(b, late) /\ ~Fresh(late) /\ ~Last(late)
      /\ Goal(late) = "SNK_SWAP_COMPLETE" /\ On(late) /\ Rp(late) /\ (Sink(late) <=> Sink(b))
  <2>1. On(on) /\ Rp(on) /\ (Sink(on) <=> Sink(b))
    BY <1>3, RecastSeen
  <2>2. QED BY <1>3, <1>4, <2>1, LateSeen
<1>6. x \in Sound(p)
  BY <1>2, <1>4
<1>7. \A w : Quietly(w, b, x, o, pd'[p], pd'[Other(p)]) => Good(pd'[p], pd'[Other(p)])
  BY <1>2, <1>5, SnkSwapStandbyGood
<1> HIDE DEF x
<1>8. QED BY <1>1, <1>2, <1>6, <1>7, QuietHandled DEF b, o

LEMMA SnkSwapCompleteHolds ==
  ASSUME Safe, NEW p \in Ports, SnkSwapComplete(p)
  PROVE  Holds(p)
<1> DEFINE b == Self(p)
           o == pd[Other(p)]
           source(y) == BecomeSource(y.me)
           done(y) == SetState(source(y), "SRC_DISCOVERY")
           sink(y) == RestoreRd(y.me)
           off(y) == SetState(sink(y), "SNK_DISCONNECTED")
           x(y) == IF y.sent THEN done(y) ELSE off(y)
<1>1. At(p, "SNK_SWAP_COMPLETE") /\ "PS_RDY" \in Messages
  BY DEF SnkSwapComplete, Messages
<1>2. /\ b \in Sound(p) /\ b \in PortType /\ Turn(p) /\ State(b) = "SNK_SWAP_COMPLETE"
      /\ Mailbox(b, b) /\ ~In(b, Ready)
  BY <1>1, HandlerSeen DEF Same, In, Ready
<1>3. PICK y \in Transmit(p, b, "PS_RDY") : Pass(p, x(y), y)
  BY DEF SnkSwapComplete
<1>4. y.me \in Sound(p)
  BY <1>1, <1>2, TransmitSound DEF SoundOutcome, Safe
<1>5. /\ source(y) \in Sound(p) /\ Recast(y.me, source(y))
      /\ source(y).power_role = "SOURCE" /\ source(y).cc = y.me.cc
      /\ source(y).vbus = y.me.vbus /\ source(y).rx_enabled = y.me.rx_enabled
  <2>1. 0 \in 0..PD_CAPS_COUNT /\ PD_SNK_CAP_RETRIES + 1 \in 0..PD_SNK_CAP_RETRIES + 1
    BY PdAssumption
  <2>2. QED BY <1>4, <2>1 DEF BecomeSource, Sound, PortType, Recast
<1>6. /\ sink(y) \in Sound(p) /\ Recast(y.me, sink(y)) /\ sink(y).power_role = y.me.power_role
      /\ sink(y).cc = "RD" /\ sink(y).vbus = FALSE
  BY <1>4 DEF RestoreRd, Sound, PortType, Recast
<1> HIDE DEF source, sink
<1>7. /\ done(y) \in Sound(p) /\ Enter(source(y), done(y), "SRC_DISCOVERY")
      /\ off(y) \in Sound(p) /\ Enter(sink(y), off(y), "SNK_DISCONNECTED")
  BY <1>5, <1>6, SetStateSound, EnterSeen, StateNames DEF Sound
<1> HIDE DEF done, off
<1>8. /\ x(y) \in Sound(p)
      /\ y.sent => x(y) = done(y)
      /\ ~y.sent => x(y) = off(y)
  BY <1>7
<1> HIDE DEF x
<1>9. /\ faults' = 0 /\ plugged' /\ y.me = b
      /\ \E w :
           /\ Begins(w, b, o)
           /\ IF Hears(b) /\ Hears(o) /\ News(o) = "none"
              THEN y.sent /\ Saying("PS_RDY", w, b, x(y), o, y.you, pd'[p], pd'[Other(p)])
              ELSE ~y.sent /\ Quietly(w, b, x(y), o, pd'[p], pd'[Other(p)])
  BY <1>1, <1>2, <1>3, <1>8, Spoke
<1> HIDE DEF b, o
<1>10. /\ Moves(b, done(y), "SRC_DISCOVERY") /\ ~Sink(done(y))
       /\ (Rp(done(y)) <=> Rp(b)) /\ (On(done(y)) <=> On(b)) /\ (Hears(done(y)) <=> Hears(b))
  <2>1. /\ ~Sink(source(y)) /\ (Rp(source(y)) <=> Rp(b)) /\ (On(source(y)) <=> On(b))
        /\ (Hears(source(y)) <=> Hears(b))
    BY <1>5, <1>9, RecastSeen
  <2>2. Recast(done(y), done(y))
    BY DEF Recast
  <2>3. "SRC_DISCOVERY" \notin Disconnected
    BY DEF Disconnected
  <2>4. QED BY <1>5, <1>7, <1>9, <2>1, <2>2, <2>3, MovesSeen
<1>11. /\ State(off(y)) = "SNK_DISCONNECTED" /\ Fresh(off(y)) /\ ~Last(off(y)) /\ Deaf(off(y))
       /\ (Sink(off(y)) <=> Sink(b)) /\ ~Rp(off(y)) /\ ~On(off(y))
  <2>1. /\ Place(b, sink(y)) /\ (Sink(sink(y)) <=> Sink(b)) /\ ~Rp(sink(y)) /\ ~On(sink(y))
    BY <1>6, <1>9, RecastSeen
  <2>2. QED BY <1>2, <1>7, <2>1 DEF Enter, Place, Power, Disconnected
<1>12. Good(pd'[p], pd'[Other(p)])
  <2>1. PICK w :
          IF Hears(b) /\ Hears(o) /\ News(o) = "none"
          THEN y.sent /\ Saying("PS_RDY", w, b, x(y), o, y.you, pd'[p], pd'[Other(p)])
          ELSE ~y.sent /\ Quietly(w, b, x(y), o, pd'[p], pd'[Other(p)])
    BY <1>9
  <2>2. CASE Hears(b) /\ Hears(o) /\ News(o) = "none"
    <3>1. x(y) = done(y)
      BY <1>8, <2>1, <2>2
    <3>2. QED BY <1>2, <1>10, <2>1, <2>2, <3>1, SnkSwapCompleteGood
  <2>3. CASE ~(Hears(b) /\ Hears(o) /\ News(o) = "none")
    <3>1. x(y) = off(y)
      BY <1>8, <2>1, <2>3
    <3>2. QED BY <1>2, <1>11, <2>1, <2>3, <3>1, SnkSwapCompleteGood
  <2>4. QED BY <2>2, <2>3
<1>13. QED BY <1>9, <1>12 DEF Holds

LEMMA HardResetSendHolds ==
  ASSUME Safe, NEW p \in Ports, HardResetSend(p)
  PROVE  Holds(p)
<1> DEFINE b == Self(p)
           o == pd[Other(p)]
           count == b.hard_reset_count
           more == IF count < PD_HARD_RESET_COUNT THEN count + 1 ELSE count
           again == b.hard_reset_sent /\ ~Entered(b)
           a == [b EXCEPT !.hard_reset_count = more, !.hard_reset_sent = again]
           sent(y) == [y.me EXCEPT !.hard_reset_sent = TRUE]
           late(y) == SetTimeout(sent(y), T[p]["PS_HARD_RESET"], "HARD_RESET_EXECUTE")
           now(y) == SetState(sent(y), "HARD_RESET_EXECUTE")
           x(y) == IF y.sent
                   THEN IF sent(y).power_role = "SOURCE" THEN late(y) ELSE now(y)
                   ELSE y.me
<1>1. At(p, "HARD_RESET_SEND")
  BY DEF HardResetSend
<1>2. /\ b \in Sound(p) /\ b \in PortType /\ Turn(p) /\ State(b) = "HARD_RESET_SEND"
      /\ (Entered(b) <=> Enters(b)) /\ ~In(b, Ready)
  BY <1>1, HandlerSeen DEF In, Ready
<1>3. IF a.hard_reset_sent THEN QuietPass(p, a)
      ELSE \E y \in TransmitHardReset(p, a) : Pass(p, x(y), y)
  BY DEF HardResetSend
<1>4. a \in Sound(p) /\ Unseen(b, a) /\ (a.hard_reset_sent => ~Entered(b))
  <2>1. more \in 0..PD_HARD_RESET_COUNT
    BY PdAssumption, <1>2 DEF PortType
  <2>2. again \in BOOLEAN /\ (again => ~Entered(b))
    BY <1>2 DEF PortType
  <2> HIDE DEF b, more, again
  <2>3. QED BY <1>2, <2>1, <2>2 DEF Sound, PortType, Unseen
<1> HIDE DEF a
<1>5. Same(b, a)
  BY <1>4, UnseenKeeps DEF Keeps
<1>6. CASE a.hard_reset_sent
  <2> HIDE DEF b, o
  <2>1. ASSUME NEW w, Quietly(w, b, a, o, pd'[p], pd'[Other(p)])
        PROVE  Good(pd'[p], pd'[Other(p)])
    BY <1>2, <1>4, <1>5, <1>6, <2>1, HardResetSendGood DEF Quietly
  <2>2. QuietPass(p, a)
    BY <1>3, <1>6
  <2>3. QED BY <1>2, <1>4, <2>1, <2>2, QuietHandled DEF b, o
<1>7. CASE ~a.hard_reset_sent
  <2>1. PICK y \in TransmitHardReset(p, a) : Pass(p, x(y), y)
    BY <1>3, <1>7
  <2>2. SoundOutcome(p, y) /\ y.me \in Sound(p)
    BY <1>4, TransmitHardResetSound DEF SoundOutcome, Safe
  <2>3. sent(y) \in Sound(p) /\ Unseen(y.me, sent(y))
    BY <2>2 DEF Sound, PortType, Unseen
  <2>4. sent(y).power_role = "SOURCE" <=> ~Sink(sent(y))
    BY <2>3 DEF Sound, PortType, Sink
  <2> HIDE DEF sent
  <2>5. /\ late(y) \in Sound(p) /\ Timed(sent(y), late(y), "HARD_RESET_EXECUTE")
        /\ now(y) \in Sound(p) /\ Enter(sent(y), now(y), "HARD_RESET_EXECUTE")
    <3>1. /\ "PS_HARD_RESET" \in Durations /\ "HARD_RESET_EXECUTE" \in States
          /\ sent(y) \in PortType
      BY <2>3, StateNames DEF Durations, Sound
    <3>2. QED BY <2>3, <3>1, SetTimeoutSound, TimedSeen, SetStateSound, EnterSeen
  <2> HIDE DEF late, now
  <2>6. x(y) \in Sound(p)
    BY <2>2, <2>5
  <2>7. y.sent => IF ~Sink(sent(y)) THEN x(y) = late(y) ELSE x(y) = now(y)
    BY <2>4
  <2> HIDE DEF x
  <2>8. /\ Ends(State(b), x(y), o, pd'[p]) /\ Keeps(y.you, pd'[Other(p)])
        /\ y.cost = 0 /\ ~Overtakes(p) /\ faults' = 0 /\ plugged'
    BY <1>2, <2>1, <2>2, <2>6, PassSeen DEF Safe
  <2>9. PICK w : Begins(w, b, o)
    BY <1>2, <2>8, BeginSeen
  <2> HIDE DEF o
  <2>10. Hears(b) /\ ~Hit(b) /\ State(w) = State(b)
    <3> HIDE DEF b
    <3>1. QED BY <1>2, <2>9, HardResetSendHears, BeginsUnhit DEF Begins, Same, Place
  <2>11. Hears(a) /\ ~Hit(a)
    BY <1>5, <2>10 DEF Same, Mailbox
  <2>12. /\ y.me = a /\ y.sent
         /\ IF Hears(o) THEN HitBy(o, y.you) ELSE y.you = o
    BY <1>4, <2>1, <2>8, <2>11, TransmitHardResetSeen DEF Safe, o
  <2> HIDE DEF b
  <2>13. IF ~Sink(b) THEN Timed(b, x(y), "HARD_RESET_EXECUTE")
         ELSE Enter(b, x(y), "HARD_RESET_EXECUTE")
    <3>1. Keeps(a, sent(y)) /\ Keeps(b, a)
      BY <1>4, <2>3, <2>12, UnseenKeeps
    <3>2. Keeps(b, sent(y))
      BY <3>1, KeepsTrans
    <3>3. Sink(sent(y)) <=> Sink(b)
      BY <3>2 DEF Keeps, Same, Power
    <3>4. Timed(b, late(y), "HARD_RESET_EXECUTE")
      BY <2>5, <3>2 DEF Timed, Keeps, Same, Place, Power, Mailbox
    <3>5. Enter(b, now(y), "HARD_RESET_EXECUTE")
      BY <2>5, <3>2, KeepsTrans
    <3>6. QED BY <2>7, <2>12, <3>3, <3>4, <3>5
  <2>14. Good(pd'[p], pd'[Other(p)])
    BY <1>2, <2>8, <2>9, <2>10, <2>12, <2>13, HardResetSendGood
  <2>15. QED BY <2>8, <2>14 DEF Holds
<1>8. QED BY <1>6, <1>7

LEMMA HardResetExecuteHolds ==
  ASSUME Safe, NEW p \in Ports, HardResetExecute(p)
  PROVE  Holds(p)
<1> DEFINE b == Self(p)
           o == pd[Other(p)]
           a == IF b.last_state = "SNK_SWAP_STANDBY" THEN [b EXCEPT !.cc = "RD"] ELSE b
           x == ExecuteHardReset(p, a)
<1>1. At(p, "HARD_RESET_EXECUTE") /\ QuietPass(p, x)
  BY DEF HardResetExecute
<1>2. /\ b \in Sound(p) /\ b \in PortType /\ Turn(p) /\ State(b) = "HARD_RESET_EXECUTE"
  BY <1>1, HandlerSeen
<1> HIDE DEF b, o
<1>3. /\ a \in Sound(p) /\ a \in PortType /\ a.task_state = "HARD_RESET_EXECUTE"
      /\ a.power_role = b.power_role /\ a.vbus = b.vbus
      /\ a.rx = b.rx /\ a.hard_rst = b.hard_rst /\ a.rx_enabled = b.rx_enabled
      /\ b.last_state # "SNK_SWAP_STANDBY" => a.cc = b.cc
  BY <1>2 DEF Sound, PortType, State
<1> HIDE DEF a
<1>4. x \in Sound(p)
  BY <1>3, ExecuteHardResetSound
<1>5. /\ x.task_state = IF a.power_role = "SINK" THEN "SNK_HARD_RESET_RECOVER"
                        ELSE "SRC_HARD_RESET_RECOVER"
      /\ x.power_role = a.power_role /\ x.cc = a.cc
      /\ x.vbus = IF a.power_role # "SINK" THEN FALSE ELSE a.vbus
      /\ x.rx = a.rx /\ x.rx_enabled = a.rx_enabled /\ x.timeout = 0
      /\ x.hard_rst = a.hard_rst
  <2>1. a.task_state \notin NewSource
    BY <1>3 DEF NewSource
  <2>2. QED BY <1>3, <2>1, ExecuteHardResetFields
<1> HIDE DEF x
<1>6. /\ State(x) = IF Sink(b) THEN "SNK_HARD_RESET_RECOVER" ELSE "SRC_HARD_RESET_RECOVER"
      /\ Fresh(x) /\ ~Last(x) /\ Mailbox(b, x) /\ (Sink(x) <=> Sink(b))
      /\ From(b) # "SNK_SWAP_STANDBY" => (Rp(x) <=> Rp(b))
      /\ On(x) <=> (On(b) /\ Sink(b))
  BY <1>3, <1>5 DEF State, Fresh, Last, Mailbox, Sink, From, Rp, On, Hears, Hit, News, Single
<1>7. \A w : Quietly(w, b, x, o, pd'[p], pd'[Other(p)]) => Good(pd'[p], pd'[Other(p)])
  BY <1>2, <1>6, HardResetExecuteGood
<1>8. QED BY <1>1, <1>2, <1>4, <1>7, QuietHandled DEF b, o

LEMMA RunStateHolds ==
  ASSUME Safe, TrySrc = {}, NEW p \in Ports, RunState(p)
  PROVE  Holds(p)
BY SrcDisconnectedHolds, SrcDisconnectedDebounceHolds, SrcHardResetRecoverHolds,
   WaitStatesHold, SrcDiscoveryHolds, SrcTransitionHolds, SrcReadyHolds, SrcGetSinkCapHolds,
   AskStatesHold, SrcSwapSrcDisableHolds, SrcSwapStandbyHolds, SnkDisconnectedHolds,
   SnkDisconnectedDebounceHolds, SnkHardResetRecoverHolds, SnkDiscoveryHolds, SnkReadyHolds,
   SnkSwapSnkDisableHolds, SnkSwapStandbyHolds, SnkSwapCompleteHolds, HardResetSendHolds,
   HardResetExecuteHolds DEF RunState

-----------------------------------------------------------------------------
(* The other tasks, time, and the theorems.                                *)

LEMMA CallHolds ==
  ASSUME Safe, NEW p \in Ports, RequestPowerSwap(p) \/ RequestDataSwap(p)
  PROVE  Holds(p)
<1> DEFINE r == pd[p]
           o == pd[Other(p)]
<1>1. /\ r \in Sound(p) /\ r \in PortType /\ Good(r, o) /\ Shape(r) /\ Shape(o)
      /\ Other(p) \in Ports /\ Other(p) # p /\ pd \in [Ports -> PortType]
  <2>1. r \in PortType /\ o \in PortType /\ Other(p) \in Ports /\ Other(p) # p
    BY OtherPort DEF Safe, TypeInv
  <2>2. QED BY <2>1, ShapeSeen DEF Safe, TypeInv
<1>2. ASSUME NEW x \in Sound(p), Called(p, x)
      PROVE  /\ Waits(r) /\ Same(x, pd'[p]) /\ (Waits(pd'[p]) <=> Waits(x))
             /\ (Packet(pd'[p]) <=> Packet(x)) /\ ~Ran(pd'[p])
             /\ pd'[Other(p)] = o /\ faults' = 0 /\ plugged'
  <2> DEFINE y == [x EXCEPT !.ran = FALSE]
  <2>1. pd'[p] = y /\ pd'[Other(p)] = o /\ r.step = "wait" /\ faults' = 0 /\ plugged'
    BY <1>1, <1>2 DEF Called, Awake, Safe
  <2>2. /\ Same(x, y) /\ (Waits(y) <=> Waits(x)) /\ (Packet(y) <=> Packet(x)) /\ ~Ran(y)
    BY <1>2 DEF Same, Place, Clock, Power, Mailbox, State, From, Fresh, Last, Goal,
       Sink, Rp, On, Off, Hears, News, Single, Hit, Waits, Packet, Ran, Sound, PortType
  <2>3. QED BY <2>1, <2>2 DEF Waits
<1>3. \A next \in {"SRC_SWAP_INIT", "SNK_SWAP_INIT", "DR_SWAP"} :
        SetState(r, next) \in Sound(p) /\ Enter(r, SetState(r, next), next)
  BY <1>1, SetStateSound, EnterSeen, StateNames
<1>4. CASE RequestPowerSwap(p)
  <2>1. PICK x \in Sound(p) :
          /\ Called(p, x)
          /\ \/ State(r) = "SRC_READY" /\ Enter(r, x, "SRC_SWAP_INIT")
             \/ State(r) = "SNK_READY" /\ Enter(r, x, "SNK_SWAP_INIT")
    <3>1. /\ Called(p, PowerSwap(r))
          /\ \/ State(r) = "SRC_READY" /\ PowerSwap(r) = SetState(r, "SRC_SWAP_INIT")
             \/ State(r) = "SNK_READY" /\ PowerSwap(r) = SetState(r, "SNK_SWAP_INIT")
      BY <1>4 DEF RequestPowerSwap, PowerSwap, State, Ready
    <3>2. QED BY <1>3, <3>1
  <2>2. /\ Waits(r) /\ Same(x, pd'[p]) /\ (Waits(pd'[p]) <=> Waits(x))
        /\ (Packet(pd'[p]) <=> Packet(x)) /\ ~Ran(pd'[p])
        /\ pd'[Other(p)] = o /\ faults' = 0 /\ plugged'
    BY <1>2, <2>1
  <2> HIDE DEF r, o
  <2>3. Good(pd'[p], o)
    BY <1>1, <2>1, <2>2, PowerSwapGood
  <2>4. QED BY <2>2, <2>3 DEF Holds
<1>5. CASE RequestDataSwap(p)
  <2> DEFINE x == SetState(r, "DR_SWAP")
  <2>1. Called(p, x) /\ State(r) \in Ready
    BY <1>5 DEF RequestDataSwap, ReadyReturnState, State, Ready
  <2>2. x \in Sound(p) /\ Enter(r, x, "DR_SWAP")
    BY <1>3
  <2> HIDE DEF x
  <2>3. /\ Waits(r) /\ Same(x, pd'[p]) /\ (Waits(pd'[p]) <=> Waits(x))
        /\ (Packet(pd'[p]) <=> Packet(x)) /\ ~Ran(pd'[p])
        /\ pd'[Other(p)] = o /\ faults' = 0 /\ plugged'
    BY <1>2, <2>1, <2>2
  <2> HIDE DEF r, o
  <2>4. Good(pd'[p], o)
    BY <1>1, <2>1, <2>2, <2>3, DataSwapGood
  <2>5. QED BY <2>3, <2>4 DEF Holds
<1>6. QED BY <1>4, <1>5

LEMMA TickHolds ==
  ASSUME Safe, NEW p \in Ports, Tick
  PROVE  Good(pd'[p], pd'[Other(p)]) /\ faults' = 0 /\ plugged'
<1>1. /\ Other(p) \in Ports /\ Good(pd[p], pd[Other(p)])
      /\ \A q \in Ports : pd[q] \in Sound(q)
  BY OtherPort DEF Safe, TypeInv
<1>2. ASSUME NEW q \in Ports
      PROVE  /\ Ages(pd[q], pd'[q]) /\ Shape(pd[q]) /\ Shape(pd'[q])
             /\ Waits(pd[q]) /\ ~Hit(pd[q]) /\ Got(pd[q], "none") /\ Ran(pd[q])
  <2> DEFINE r == pd[q]
             x == Aged(r)
  <2>1. r \in PortType /\ r \in Sound(q) /\ x \in Sound(q)
    BY <1>1, AgedSound DEF Sound
  <2>2. /\ pd'[q] = x /\ r.rx = <<>> /\ ~r.hard_rst /\ r.step # "run" /\ r.ran
    BY DEF Tick, Due, Pending
  <2>3. Waits(r) /\ ~Hit(r) /\ Got(r, "none") /\ Ran(r)
    BY <2>1, <2>2 DEF Waits, Hit, Got, News, Ran, PortType
  <2>4. Shape(r) /\ Shape(x)
    BY <2>1, ShapeSeen DEF Sound
  <2>5. /\ x.task_state = r.task_state /\ x.last_state = r.last_state
        /\ x.timeout_state = r.timeout_state
        /\ x.power_role = r.power_role /\ x.cc = r.cc /\ x.vbus = r.vbus
        /\ x.vbus_off = r.vbus_off /\ x.rx_enabled = r.rx_enabled /\ x.rx = r.rx
        /\ x.hard_rst = r.hard_rst /\ x.step = r.step
        /\ x.incoming_packet = r.incoming_packet /\ x.ran = FALSE
    BY <2>1 DEF Aged, PortType
  <2>6. x.timeout = 0 <=> r.timeout = 0
    <3>1. r.timeout \in Nat
      BY <2>1 DEF PortType
    <3>2. x.timeout = IF r.timeout <= 1 THEN r.timeout ELSE r.timeout - 1
      BY <2>1 DEF Aged, PortType
    <3>3. QED BY <3>1, <3>2
  <2> HIDE DEF x
  <2>7. Ages(r, x)
    BY <2>5, <2>6 DEF Ages, Place, Power, Mailbox, State, From, Fresh, Goal, Sink, Rp, On, Off,
         Hears, News, Single, Hit, Waits, Packet, Ran
  <2>8. QED BY <2>2, <2>3, <2>4, <2>7
<1>3. Good(pd'[p], pd'[Other(p)])
  BY <1>1, <1>2, TickGood
<1>4. QED BY <1>3 DEF Tick, Safe

\* No message is lost, no port tries to be the source, and the other tasks ask for
\* swaps only.
Lossless ==
  MaxFaults = 0 /\ TrySrc = {} /\ Calls \subseteq {"power_swap", "data_swap"}

LEMMA GoodBoth == ASSUME NEW r, NEW o, Good(r, o) PROVE Good(o, r)
BY DEF Good

LEMMA StepSafe == Lossless /\ Safe /\ [Next]_vars => Safe'
<1> SUFFICES ASSUME Lossless, Safe, [Next]_vars PROVE Safe'
  OBVIOUS
<1>1. TypeInv'
  BY NextSound DEF Safe
<1>2. ASSUME NEW p \in Ports, Holds(p)
      PROVE  \A q \in Ports : Good(pd'[q], pd'[Other(q)])
  <2>1. Good(pd'[p], pd'[Other(p)]) /\ Good(pd'[Other(p)], pd'[p])
    BY <1>2, GoodBoth DEF Holds
  <2>2. QED BY <2>1, OtherPort
<1>3. ASSUME faults' = 0, plugged', \A q \in Ports : Good(pd'[q], pd'[Other(q)])
      PROVE  Safe'
  BY <1>1, <1>3 DEF Safe
<1>4. ASSUME NEW p \in Ports, Holds(p) PROVE Safe'
  BY <1>2, <1>3, <1>4 DEF Holds
<1>5. CASE Tick
  <2>1. \A p \in Ports : Good(pd'[p], pd'[Other(p)]) /\ faults' = 0 /\ plugged'
    BY <1>5, TickHolds
  <2>2. \E p \in Ports : TRUE
    BY PdAssumption
  <2>3. QED BY <1>3, <2>1, <2>2
<1>6. CASE UNCHANGED vars
  <2>1. pd' = pd /\ faults' = faults /\ plugged' = plugged
    BY <1>6 DEF vars
  <2>2. QED BY <1>3, <2>1 DEF Safe
<1>7. ASSUME NEW p \in Ports, Step(p) PROVE Safe'
  BY <1>4, <1>7, ReceiveHolds, RunStateHolds DEF Step, Lossless
<1>8. ASSUME NEW p \in Ports, RequestPowerSwap(p) \/ RequestDataSwap(p) PROVE Safe'
  BY <1>4, <1>8, CallHolds
<1>9. ~Plug /\ \A p \in Ports : ~PdSoftReset(p) /\ ~SetDualRole(p)
  BY DEF Lossless, Plug, PdSoftReset, SetDualRole
<1>10. QED BY <1>5, <1>6, <1>7, <1>8, <1>9 DEF Next

LEMMA StartSafe == Lossless /\ Init => Safe
<1> SUFFICES ASSUME Lossless, Init PROVE Safe
  OBVIOUS
<1>1. TypeInv /\ plugged /\ faults = 0
  BY InitSound DEF Lossless, Init
<1>2. PICK drp \in [Ports -> {"TOGGLE_ON", "TOGGLE_OFF"}] :
        pd = [p \in Ports |-> InitPort(drp[p])]
  BY DEF Init
<1>3. ASSUME NEW d
      PROVE  LET r == InitPort(d) IN
             /\ State(r) = "SNK_DISCONNECTED" /\ From(r) = "SNK_DISCONNECTED" /\ Fresh(r)
             /\ Sink(r) /\ ~Rp(r) /\ ~On(r) /\ ~Hears(r) /\ ~Hit(r) /\ News(r) = "none"
             /\ Single(r) /\ Waits(r)
  BY DEF InitPort, State, From, Fresh, Sink, Rp, On, Hears, Hit, News, Single, Waits
<1>4. \A c, d : Good(InitPort(c), InitPort(d))
  BY <1>3, StartGood
<1>5. ASSUME NEW p \in Ports PROVE Good(pd[p], pd[Other(p)])
  BY <1>2, <1>4, OtherPort
<1>6. QED BY <1>1, <1>5 DEF Safe

LEMMA SafeApart ==
  Safe => OneSource /\ SinkIsOff /\ RolesAgree
<1> SUFFICES ASSUME Safe PROVE OneSource /\ SinkIsOff /\ RolesAgree
  OBVIOUS
<1>1. ASSUME NEW p \in Ports
      PROVE  LET r == pd[p]  o == pd[Other(p)] IN
             /\ Other(p) \in Ports /\ r \in PortType /\ o \in PortType
             /\ ~(On(r) /\ On(o))
             /\ Sink(r) /\ (On(r) \/ Rp(r)) => State(r) \in NewSource
             /\ State(r) \in Ready /\ State(o) \in Ready =>
                  \/ ~Sink(r) /\ On(r) /\ Sink(o) /\ ~On(o)
                  \/ ~Sink(o) /\ On(o) /\ Sink(r) /\ ~On(r)
  <2>1. Other(p) \in Ports /\ pd[p] \in PortType /\ pd[Other(p)] \in PortType
    BY OtherPort DEF Safe, TypeInv
  <2>2. Good(pd[p], pd[Other(p)]) /\ Shape(pd[p]) /\ Shape(pd[Other(p)])
    BY <2>1, ShapeSeen DEF Safe
  <2>3. QED BY <2>1, <2>2, GoodApart
<1>2. \E p \in Ports : TRUE
  BY PdAssumption
<1>3. OneSource
  BY <1>1, <1>2 DEF OneSource, On
<1>4. SinkIsOff
  BY <1>1 DEF SinkIsOff, Sink, On, Rp, State
<1>5. RolesAgree
  <2> SUFFICES ASSUME \A p \in Ports : pd[p].task_state \in Ready
               PROVE  \E p \in Ports :
                        /\ pd[p].power_role = "SOURCE" /\ pd[p].vbus
                        /\ pd[Other(p)].power_role = "SINK" /\ ~pd[Other(p)].vbus
    BY DEF RolesAgree
  <2>1. PICK p \in Ports : TRUE
    BY <1>2
  <2>2. Other(p) \in Ports /\ Other(Other(p)) = p
    BY OtherPort
  <2>3. \/ /\ pd[p].power_role # "SINK" /\ pd[p].vbus
           /\ pd[Other(p)].power_role = "SINK" /\ ~pd[Other(p)].vbus
        \/ /\ pd[Other(p)].power_role # "SINK" /\ pd[Other(p)].vbus
           /\ pd[p].power_role = "SINK" /\ ~pd[p].vbus
    BY <1>1, <2>2 DEF Sink, On, State
  <2>4. \A q \in Ports : pd[q].power_role \in {"SINK", "SOURCE"}
    BY <1>1 DEF PortType
  <2>5. QED BY <2>2, <2>3, <2>4
<1>6. QED BY <1>3, <1>4, <1>5

LEMMA AlwaysSafe ==
  ASSUME Lossless
  PROVE  Spec => []Safe
<1>1. Init => Safe
  BY StartSafe
<1>2. Safe /\ [Next]_vars => Safe'
  BY StepSafe
<1>3. QED BY <1>1, <1>2, PTL DEF Spec

\* The two ends never drive VBUS against each other when nothing is lost: however
\* long the timeouts of the two are, however often they retry and swap, and
\* whichever of them is reset, the new source turns on only when the old one is off.
THEOREM NeverTwoSources ==
  ASSUME Lossless
  PROVE  Spec => []OneSource
<1>1. Safe => OneSource
  BY SafeApart
<1>2. QED BY AlwaysSafe, <1>1, PTL

\* When nothing is lost a port that is a sink drives VBUS, or shows Rp, only in
\* the last states of a swap that makes it the source.
THEOREM SinksAreOff ==
  ASSUME Lossless
  PROVE  Spec => []SinkIsOff
<1>1. Safe => SinkIsOff
  BY SafeApart
<1>2. QED BY AlwaysSafe, <1>1, PTL

\* When nothing is lost two ports that are ready are a source that drives VBUS
\* and a sink that does not.
THEOREM ReadyRolesAgree ==
  ASSUME Lossless
  PROVE  Spec => []RolesAgree
<1>1. Safe => RolesAgree
  BY SafeApart
<1>2. QED BY AlwaysSafe, <1>1, PTL

=============================================================================
