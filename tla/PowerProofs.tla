----------------------------- MODULE PowerProofs -----------------------------
(***************************************************************************)
(* Theorems about Power and about PowerButton.                             *)
(*                                                                         *)
(* A pass of the chipset task runs a handler of Chipsets statement by      *)
(* statement, and anything may happen between two statements.  What makes  *)
(* the rails and the hooks orderly is what the task knows at each point of *)
(* a handler, whatever the others do: outputs that no forced shutdown      *)
(* turns off are still on, outputs it has turned off are still off, and it *)
(* is the only one that notifies hooks.  So each handler gets a proof      *)
(* outline: a set of points (the statements that are left, and what is     *)
(* known there) that is closed under every statement, with one condition   *)
(* per state on what is known when a pass begins in it.  A handler is Fine *)
(* when such a set exists; the waits make loops of it, so that sets of     *)
(* points are built, not counted down.                                     *)
(*                                                                         *)
(* The invariant says that what is left of the pass is fine with some      *)
(* knowledge that holds.                                                   *)
(*                                                                         *)
(* The second part is about PowerButton: no press is left behind.  There,  *)
(* too, it is not the state alone that matters, but what the interrupted   *)
(* routines of HOOKS and CHIPSET still have to do.                         *)
(***************************************************************************)
EXTENDS Power, PowerButton, SequenceTheorems, TLAPS

-----------------------------------------------------------------------------
(* What is known at a point of a handler                                   *)

Sequenced == {"haswell", "baytrail"}
OffStates == {"G3", "G3S5", "S5", "S5S3", "S5G3"}
UpStates  == {"S0", "S0S3"}
States    == OffStates \cup {"S3", "S3S0", "S3S5"} \cup UpStates

\* The hooks of which the last was notified when a pass begins in a state
HeardIn(st) == IF st \in OffStates THEN {"SHUTDOWN"}
               ELSE IF st \in UpStates THEN {"RESUME"}
               ELSE {"STARTUP", "SUSPEND"}

\* The outputs that are high then, and the outputs and the flag that are low
HighIn(c, st) == IF c \in Sequenced /\ st \notin OffStates THEN {"PP1350_EN"} ELSE {}

LowIn(c, st) ==
  (IF c \in Sequenced /\ st \notin UpStates THEN {"PP3300_DX_EN", "VCORE_EN"} ELSE {})
  \cup (IF c \in Sequenced /\ st \in {"G3", "G3S5"} THEN {"RSMRST_L"} ELSE {})
  \cup (IF c = "baytrail" /\ st \in OffStates THEN {"restart_from_s5"} ELSE {})

\* What is known is enough for a pass to begin in st.
Enters(c, st, on, off, heard) ==
  /\ st \in States
  /\ HighIn(c, st) \subseteq on
  /\ LowIn(c, st) \subseteq off
  /\ heard \subseteq HeardIn(st)

\* No chipset_force_shutdown() turns these off.
Kept == {"PP5000_EN", "PP1350_EN", "PP3300_DX_EN", "VCORE_EN", "SUSP_VR_EN",
         "PCH_PWROK", "CORE_PWROK"}

\* The flags of the files, and those of them that other tasks write
Flags  == {"want_g3_exit", "pause_in_s5", "forcing_shutdown", "restart_from_s5"}
Shared == Flags \ {"restart_from_s5"}

\* What must be known of the outputs for a statement not to break their order:
\* what an output depends on is on, for good; what depends on it is off.
MayTurnOn(c, pin, on, off) ==
  /\ pin \notin Flags
  /\ \A o \in RailOrder(c) : o[1] = pin => o[2] \in on \cap Kept
  /\ c = "baytrail" /\ pin = "RSMRST_L" => "restart_from_s5" \in off

MayTurnOff(c, pin, off) ==
  /\ pin \notin Flags
  /\ \A o \in RailOrder(c) : o[2] = pin => o[1] \in off

\* Bay Trail asks for the restart from S5 with RSMRST# low.
MayRaise(c, flag, off) ==
  /\ flag \in Flags
  /\ c = "baytrail" /\ flag = "restart_from_s5" => "RSMRST_L" \in off

-----------------------------------------------------------------------------

\* The outline S has a point with these statements left that asks for no more
\* than what is known.
Follows(S, todo, on, off, heard) ==
  \E q \in S : /\ q.todo = todo
               /\ q.on \subseteq on /\ q.off \subseteq off /\ heard \subseteq q.heard

\* A sequence of whatever statements
IsCode(s) == \E S : s \in Seq(S)

\* What a wait does when its time is over: see Look of Power
LookAgain(s) == [do |-> "look", failed |-> s.failed]

\* At point p, statement s may be executed and leads to points of S, whichever
\* way its test goes and however long its wait lasts; rest is what follows it.
StatementOk(c, S, p, s, rest) ==
  /\ s.do = "on" =>
       /\ MayTurnOn(c, s.pin, p.on, p.off)
       /\ Follows(S, rest, p.on \cup {s.pin}, p.off \ {s.pin}, p.heard)
  /\ s.do = "off" =>
       /\ MayTurnOff(c, s.pin, p.off)
       /\ Follows(S, rest, p.on \ {s.pin}, p.off \cup {s.pin}, p.heard)
  /\ s.do = "raise" =>
       /\ MayRaise(c, s.flag, p.off)
       /\ Follows(S, rest, p.on, p.off \ {s.flag}, p.heard)
  /\ s.do = "lower" =>
       s.flag \in Flags /\ Follows(S, rest, p.on, p.off \cup {s.flag}, p.heard)
  /\ s.do = "notify" =>
       /\ \A h \in p.heard : <<h, s.hook>> \in HookOrder
       /\ Follows(S, rest, p.on, p.off, {s.hook})
  /\ s.do \in {"has", "high", "in", "either"} =>
       /\ Follows(S, s.then \o rest, p.on, p.off, p.heard)
       /\ Follows(S, s.else \o rest, p.on, p.off, p.heard)
  /\ s.do = "if" =>
       /\ s.flag \in Flags
       /\ Follows(S, s.then \o rest, p.on,
                  p.off \cup (IF c = "baytrail" /\ s.flag = "restart_from_s5"
                              THEN {"RSMRST_L"} ELSE {}), p.heard)
       /\ Follows(S, s.else \o rest, p.on, p.off \cup {s.flag}, p.heard)
  /\ s.do = "go" => Enters(c, s.to, p.on, p.off, p.heard)
  /\ s.do = "wait" =>
       /\ Follows(S, rest, p.on, p.off, p.heard)
       /\ Follows(S, <<Sleep(<<LookAgain(s)>>)>> \o p.todo, p.on, p.off, p.heard)
  /\ s.do = "sleep" =>
       /\ Follows(S, rest, p.on, p.off, p.heard)
       /\ s.late # <<>> => Follows(S, s.late, p.on, p.off, p.heard)
  /\ s.do = "look" => IsCode(s.failed) /\ Follows(S, s.failed, p.on, p.off, p.heard)
  /\ s.do \in {"store", "start"} => Follows(S, rest, p.on, p.off, p.heard)

\* The same for all of what is left at p, in a pass that began in st
PointOk(c, st, S, p) ==
  /\ p.todo = <<>> => Enters(c, st, p.on, p.off, p.heard)
  /\ p.todo = <<Stay>> => Follows(S, power_common_state(st), p.on, p.off, p.heard)
  /\ p.todo # <<>> => StatementOk(c, S, p, Head(p.todo), Tail(p.todo))

\* S is a proof outline.
Closed(c, st, S) == \A p \in S : PointOk(c, st, S, p)

\* Some outline shows that the task may go on so
Fine(c, st, todo, on, off, heard) ==
  \E S : Closed(c, st, S) /\ Follows(S, todo, on, off, heard)

-----------------------------------------------------------------------------
\* More points make no point worse.
LEMMA FollowsGrows ==
  ASSUME NEW S, NEW T, S \subseteq T, NEW todo, NEW on, NEW off, NEW heard,
         Follows(S, todo, on, off, heard)
  PROVE  Follows(T, todo, on, off, heard)
  BY DEF Follows

LEMMA PointGrows ==
  ASSUME NEW c, NEW st, NEW S, NEW T, S \subseteq T, NEW p, PointOk(c, st, S, p)
  PROVE  PointOk(c, st, T, p)
<1>1. ASSUME NEW s, NEW rest, StatementOk(c, S, p, s, rest)
      PROVE  StatementOk(c, T, p, s, rest)
  BY <1>1, FollowsGrows DEF StatementOk
<1> QED BY <1>1, FollowsGrows DEF PointOk

\* Outlines can be put together.
LEMMA ClosedUnion ==
  ASSUME NEW c, NEW st, NEW S, NEW T, Closed(c, st, S), Closed(c, st, T)
  PROVE  Closed(c, st, S \cup T)
  BY PointGrows DEF Closed

LEMMA ClosedPoint ==
  ASSUME NEW c, NEW st, NEW S, Closed(c, st, S), NEW p, PointOk(c, st, S, p)
  PROVE  Closed(c, st, S \cup {p})
  BY PointGrows DEF Closed

Point(todo, on, off, heard) == [todo |-> todo, on |-> on, off |-> off, heard |-> heard]

\* A point is fine when a closed set has what it leads to.
LEMMA FinePoint ==
  ASSUME NEW c, NEW st, NEW S, Closed(c, st, S),
         NEW todo, NEW on, NEW off, NEW heard,
         PointOk(c, st, S, Point(todo, on, off, heard))
  PROVE  Fine(c, st, todo, on, off, heard)
<1> DEFINE p == Point(todo, on, off, heard)
<1>1. Closed(c, st, S \cup {p})
  BY ClosedPoint
<1>2. Follows(S \cup {p}, todo, on, off, heard)
  BY DEF Follows, Point
<1> QED BY <1>1, <1>2 DEF Fine

\* Two points that are fine are so in one set
LEMMA FineBoth ==
  ASSUME NEW c, NEW st,
         NEW todo1, NEW on1, NEW off1, NEW heard1, Fine(c, st, todo1, on1, off1, heard1),
         NEW todo2, NEW on2, NEW off2, NEW heard2, Fine(c, st, todo2, on2, off2, heard2)
  PROVE  \E S : /\ Closed(c, st, S)
                /\ Follows(S, todo1, on1, off1, heard1)
                /\ Follows(S, todo2, on2, off2, heard2)
<1>1. PICK S1 : Closed(c, st, S1) /\ Follows(S1, todo1, on1, off1, heard1)
  BY DEF Fine
<1>2. PICK S2 : Closed(c, st, S2) /\ Follows(S2, todo2, on2, off2, heard2)
  BY DEF Fine
<1>3. Closed(c, st, S1 \cup S2)
  BY <1>1, <1>2, ClosedUnion
<1>4. /\ Follows(S1 \cup S2, todo1, on1, off1, heard1)
      /\ Follows(S1 \cup S2, todo2, on2, off2, heard2)
  BY <1>1, <1>2, FollowsGrows
<1> QED BY <1>3, <1>4

\* Who knows more may do as much.
LEMMA FineWeakens ==
  ASSUME NEW c, NEW st, NEW todo,
         NEW on1, NEW off1, NEW heard1, Fine(c, st, todo, on1, off1, heard1),
         NEW on2, NEW off2, NEW heard2,
         on1 \subseteq on2, off1 \subseteq off2, heard2 \subseteq heard1
  PROVE  Fine(c, st, todo, on2, off2, heard2)
<1>1. PICK S : Closed(c, st, S) /\ Follows(S, todo, on1, off1, heard1)
  BY DEF Fine
<1>2. Follows(S, todo, on2, off2, heard2)
  BY <1>1 DEF Follows
<1> QED BY <1>1, <1>2 DEF Fine

-----------------------------------------------------------------------------
(* Sequences of statements                                                 *)

LEMMA CodeAround ==
  ASSUME NEW s, IsCode(s)
  PROVE  /\ s \o <<>> = s /\ <<>> \o s = s
         /\ \A x : Tail(<<x>> \o s) = s
         /\ s # <<>> => \A x : Len(<<x>> \o s) # 1
<1>1. PICK S : s \in Seq(S)
  BY DEF IsCode
<1>2. s \o <<>> = s /\ <<>> \o s = s
  BY <1>1
<1>3. \A x : Tail(<<x>> \o s) = s
  BY <1>1
<1>4. ASSUME s # <<>>, NEW x
      PROVE  Len(<<x>> \o s) # 1
  BY <1>1, <1>4
<1> QED BY <1>2, <1>3, <1>4

\* Joining, and what is in front of what was joined
LEMMA JoinCode ==
  ASSUME NEW s, NEW t, IsCode(s), IsCode(t)
  PROVE  IsCode(s \o t)
<1>1. PICK S, T : s \in Seq(S) /\ t \in Seq(T)
  BY DEF IsCode
<1>2. s \in Seq(S \cup T) /\ t \in Seq(S \cup T)
  BY <1>1, SeqMonotonic, Zenon
<1> QED BY <1>2, ConcatProperties DEF IsCode

LEMMA JoinAssociative ==
  ASSUME NEW s, NEW t, NEW u, IsCode(s), IsCode(t), IsCode(u)
  PROVE  (s \o t) \o u = s \o (t \o u)
<1>1. PICK S, T, U : s \in Seq(S) /\ t \in Seq(T) /\ u \in Seq(U)
  BY DEF IsCode
<1> DEFINE V == S \cup T \cup U
<1>2. s \in Seq(V) /\ t \in Seq(V) /\ u \in Seq(V)
  BY <1>1, SeqMonotonic, Zenon
<1> QED BY <1>2, ConcatAssociative

LEMMA Prepend1 ==
  ASSUME NEW a, NEW s, IsCode(s)
  PROVE  /\ <<a>> \o s # <<>> /\ Head(<<a>> \o s) = a /\ Tail(<<a>> \o s) = s
         /\ IsCode(<<a>> \o s)
<1>1. PICK S : s \in Seq(S)
  BY DEF IsCode
<1>2. <<a>> \o s # <<>> /\ Head(<<a>> \o s) = a /\ Tail(<<a>> \o s) = s
  BY <1>1
<1>3. <<a>> \o s \in Seq(S \cup {a})
  BY <1>1
<1> QED BY <1>2, <1>3 DEF IsCode

LEMMA Prepend2 ==
  ASSUME NEW a, NEW b, NEW s, IsCode(s)
  PROVE  /\ <<a, b>> \o s # <<>> /\ Head(<<a, b>> \o s) = a
         /\ Tail(<<a, b>> \o s) = <<b>> \o s
<1>1. PICK S : s \in Seq(S)
  BY DEF IsCode
<1> QED BY <1>1

LEMMA Prepend3 ==
  ASSUME NEW a, NEW b, NEW c, NEW s, IsCode(s)
  PROVE  /\ <<a, b, c>> \o s # <<>> /\ Head(<<a, b, c>> \o s) = a
         /\ Tail(<<a, b, c>> \o s) = <<b, c>> \o s
<1>1. PICK S : s \in Seq(S)
  BY DEF IsCode
<1> QED BY <1>1

\* The first statement of a handler, and those after it
LEMMA Code1 ==
  ASSUME NEW a
  PROVE  LET s == <<a>> IN
         /\ s # <<>> /\ Head(s) = a /\ Tail(s) = <<>>
         /\ IsCode(s) /\ s \o <<>> = s /\ <<>> \o s = s
<1> DEFINE s == <<a>>
<1>1. s \in Seq({a})
  OBVIOUS
<1>2. IsCode(s)
  BY <1>1, Zenon DEF IsCode
<1>3. s # <<>> /\ Head(s) = a /\ Tail(s) = <<>>
  OBVIOUS
<1> HIDE DEF s
<1> QED BY <1>2, <1>3, CodeAround DEF s

LEMMA Code2 ==
  ASSUME NEW a, NEW b
  PROVE  LET s == <<a, b>> IN
         /\ s # <<>> /\ Head(s) = a /\ Tail(s) = <<b>>
         /\ IsCode(s) /\ s \o <<>> = s /\ <<>> \o s = s
<1> DEFINE s == <<a, b>>
<1>1. s \in Seq({a, b})
  OBVIOUS
<1>2. IsCode(s)
  BY <1>1, Zenon DEF IsCode
<1>3. s # <<>> /\ Head(s) = a /\ Tail(s) = <<b>>
  OBVIOUS
<1> HIDE DEF s
<1> QED BY <1>2, <1>3, CodeAround DEF s

LEMMA Code3 ==
  ASSUME NEW a, NEW b, NEW c
  PROVE  LET s == <<a, b, c>> IN
         /\ s # <<>> /\ Head(s) = a /\ Tail(s) = <<b, c>>
         /\ IsCode(s) /\ s \o <<>> = s /\ <<>> \o s = s
<1> DEFINE s == <<a, b, c>>
<1>1. s \in Seq({a, b, c})
  OBVIOUS
<1>2. IsCode(s)
  BY <1>1, Zenon DEF IsCode
<1>3. s # <<>> /\ Head(s) = a /\ Tail(s) = <<b, c>>
  OBVIOUS
<1> HIDE DEF s
<1> QED BY <1>2, <1>3, CodeAround DEF s

LEMMA Code4 ==
  ASSUME NEW a, NEW b, NEW c, NEW d
  PROVE  LET s == <<a, b, c, d>> IN
         /\ s # <<>> /\ Head(s) = a /\ Tail(s) = <<b, c, d>>
         /\ IsCode(s) /\ s \o <<>> = s /\ <<>> \o s = s
<1> DEFINE s == <<a, b, c, d>>
<1>1. s \in Seq({a, b, c, d})
  OBVIOUS
<1>2. IsCode(s)
  BY <1>1, Zenon DEF IsCode
<1>3. s # <<>> /\ Head(s) = a /\ Tail(s) = <<b, c, d>>
  OBVIOUS
<1> HIDE DEF s
<1> QED BY <1>2, <1>3, CodeAround DEF s

LEMMA Code5 ==
  ASSUME NEW a, NEW b, NEW c, NEW d, NEW e
  PROVE  LET s == <<a, b, c, d, e>> IN
         /\ s # <<>> /\ Head(s) = a /\ Tail(s) = <<b, c, d, e>>
         /\ IsCode(s) /\ s \o <<>> = s /\ <<>> \o s = s
<1> DEFINE s == <<a, b, c, d, e>>
<1>1. s \in Seq({a, b, c, d, e})
  OBVIOUS
<1>2. IsCode(s)
  BY <1>1, Zenon DEF IsCode
<1>3. s # <<>> /\ Head(s) = a /\ Tail(s) = <<b, c, d, e>>
  OBVIOUS
<1> HIDE DEF s
<1> QED BY <1>2, <1>3, CodeAround DEF s

LEMMA Code6 ==
  ASSUME NEW a, NEW b, NEW c, NEW d, NEW e, NEW f
  PROVE  LET s == <<a, b, c, d, e, f>> IN
         /\ s # <<>> /\ Head(s) = a /\ Tail(s) = <<b, c, d, e, f>>
         /\ IsCode(s) /\ s \o <<>> = s /\ <<>> \o s = s
<1> DEFINE s == <<a, b, c, d, e, f>>
<1>1. s \in Seq({a, b, c, d, e, f})
  OBVIOUS
<1>2. IsCode(s)
  BY <1>1, Zenon DEF IsCode
<1>3. s # <<>> /\ Head(s) = a /\ Tail(s) = <<b, c, d, e, f>>
  OBVIOUS
<1> HIDE DEF s
<1> QED BY <1>2, <1>3, CodeAround DEF s

LEMMA Code7 ==
  ASSUME NEW a, NEW b, NEW c, NEW d, NEW e, NEW f, NEW g
  PROVE  LET s == <<a, b, c, d, e, f, g>> IN
         /\ s # <<>> /\ Head(s) = a /\ Tail(s) = <<b, c, d, e, f, g>>
         /\ IsCode(s) /\ s \o <<>> = s /\ <<>> \o s = s
<1> DEFINE s == <<a, b, c, d, e, f, g>>
<1>1. s \in Seq({a, b, c, d, e, f, g})
  OBVIOUS
<1>2. IsCode(s)
  BY <1>1, Zenon DEF IsCode
<1>3. s # <<>> /\ Head(s) = a /\ Tail(s) = <<b, c, d, e, f, g>>
  OBVIOUS
<1> HIDE DEF s
<1> QED BY <1>2, <1>3, CodeAround DEF s

LEMMA Code8 ==
  ASSUME NEW a, NEW b, NEW c, NEW d, NEW e, NEW f, NEW g, NEW h
  PROVE  LET s == <<a, b, c, d, e, f, g, h>> IN
         /\ s # <<>> /\ Head(s) = a /\ Tail(s) = <<b, c, d, e, f, g, h>>
         /\ IsCode(s) /\ s \o <<>> = s /\ <<>> \o s = s
<1> DEFINE s == <<a, b, c, d, e, f, g, h>>
<1>1. s \in Seq({a, b, c, d, e, f, g, h})
  OBVIOUS
<1>2. IsCode(s)
  BY <1>1, Zenon DEF IsCode
<1>3. s # <<>> /\ Head(s) = a /\ Tail(s) = <<b, c, d, e, f, g, h>>
  OBVIOUS
<1> HIDE DEF s
<1> QED BY <1>2, <1>3, CodeAround DEF s

LEMMA Code9 ==
  ASSUME NEW a, NEW b, NEW c, NEW d, NEW e, NEW f, NEW g, NEW h, NEW i
  PROVE  LET s == <<a, b, c, d, e, f, g, h, i>> IN
         /\ s # <<>> /\ Head(s) = a /\ Tail(s) = <<b, c, d, e, f, g, h, i>>
         /\ IsCode(s) /\ s \o <<>> = s /\ <<>> \o s = s
<1> DEFINE s == <<a, b, c, d, e, f, g, h, i>>
<1>1. s \in Seq({a, b, c, d, e, f, g, h, i})
  OBVIOUS
<1>2. IsCode(s)
  BY <1>1, Zenon DEF IsCode
<1>3. s # <<>> /\ Head(s) = a /\ Tail(s) = <<b, c, d, e, f, g, h, i>>
  OBVIOUS
<1> HIDE DEF s
<1> QED BY <1>2, <1>3, CodeAround DEF s

\* One rule for each statement: what must be fine after it
LEMMA OnRule ==
  ASSUME NEW c, NEW st, NEW todo, NEW on, NEW off, NEW heard, NEW pin,
         todo # <<>>, Head(todo) = On(pin),
         MayTurnOn(c, pin, on, off),
         Fine(c, st, Tail(todo), on \cup {pin}, off \ {pin}, heard)
  PROVE  Fine(c, st, todo, on, off, heard)
<1>1. PICK S : Closed(c, st, S) /\ Follows(S, Tail(todo), on \cup {pin}, off \ {pin}, heard)
  BY DEF Fine
<1> DEFINE p == Point(todo, on, off, heard)
<1>2. StatementOk(c, S, p, Head(todo), Tail(todo))
  <2>1. p.on = on /\ p.off = off /\ p.heard = heard
    BY DEF Point
  <2>2. Head(todo).do = "on" /\ Head(todo).pin = pin
    BY DEF On
  <2> HIDE DEF p
  <2> QED BY <1>1, <2>1, <2>2 DEF StatementOk
<1>3. todo # <<Stay>>
  BY DEF Stay, On
<1>4. PointOk(c, st, S, p)
  BY <1>2, <1>3 DEF PointOk, Point
<1> QED BY <1>1, <1>4, FinePoint

LEMMA OffRule ==
  ASSUME NEW c, NEW st, NEW todo, NEW on, NEW off, NEW heard, NEW pin,
         todo # <<>>, Head(todo) = Off(pin),
         MayTurnOff(c, pin, off),
         Fine(c, st, Tail(todo), on \ {pin}, off \cup {pin}, heard)
  PROVE  Fine(c, st, todo, on, off, heard)
<1>1. PICK S : Closed(c, st, S) /\ Follows(S, Tail(todo), on \ {pin}, off \cup {pin}, heard)
  BY DEF Fine
<1> DEFINE p == Point(todo, on, off, heard)
<1>2. StatementOk(c, S, p, Head(todo), Tail(todo))
  <2>1. p.on = on /\ p.off = off /\ p.heard = heard
    BY DEF Point
  <2>2. Head(todo).do = "off" /\ Head(todo).pin = pin
    BY DEF Off
  <2> HIDE DEF p
  <2> QED BY <1>1, <2>1, <2>2 DEF StatementOk
<1>3. todo # <<Stay>>
  BY DEF Stay, Off
<1>4. PointOk(c, st, S, p)
  BY <1>2, <1>3 DEF PointOk, Point
<1> QED BY <1>1, <1>4, FinePoint

LEMMA RaiseRule ==
  ASSUME NEW c, NEW st, NEW todo, NEW on, NEW off, NEW heard, NEW flag,
         todo # <<>>, Head(todo) = Raise(flag),
         MayRaise(c, flag, off),
         Fine(c, st, Tail(todo), on, off \ {flag}, heard)
  PROVE  Fine(c, st, todo, on, off, heard)
<1>1. PICK S : Closed(c, st, S) /\ Follows(S, Tail(todo), on, off \ {flag}, heard)
  BY DEF Fine
<1> DEFINE p == Point(todo, on, off, heard)
<1>2. StatementOk(c, S, p, Head(todo), Tail(todo))
  <2>1. p.on = on /\ p.off = off /\ p.heard = heard
    BY DEF Point
  <2>2. Head(todo).do = "raise" /\ Head(todo).flag = flag
    BY DEF Raise
  <2> HIDE DEF p
  <2> QED BY <1>1, <2>1, <2>2 DEF StatementOk
<1>3. todo # <<Stay>>
  BY DEF Stay, Raise
<1>4. PointOk(c, st, S, p)
  BY <1>2, <1>3 DEF PointOk, Point
<1> QED BY <1>1, <1>4, FinePoint

LEMMA LowerRule ==
  ASSUME NEW c, NEW st, NEW todo, NEW on, NEW off, NEW heard, NEW flag,
         todo # <<>>, Head(todo) = Lower(flag), flag \in Flags,
         Fine(c, st, Tail(todo), on, off \cup {flag}, heard)
  PROVE  Fine(c, st, todo, on, off, heard)
<1>1. PICK S : Closed(c, st, S) /\ Follows(S, Tail(todo), on, off \cup {flag}, heard)
  BY DEF Fine
<1> DEFINE p == Point(todo, on, off, heard)
<1>2. StatementOk(c, S, p, Head(todo), Tail(todo))
  <2>1. p.on = on /\ p.off = off /\ p.heard = heard
    BY DEF Point
  <2>2. Head(todo).do = "lower" /\ Head(todo).flag = flag
    BY DEF Lower
  <2> HIDE DEF p
  <2> QED BY <1>1, <2>1, <2>2 DEF StatementOk
<1>3. todo # <<Stay>>
  BY DEF Stay, Lower
<1>4. PointOk(c, st, S, p)
  BY <1>2, <1>3 DEF PointOk, Point
<1> QED BY <1>1, <1>4, FinePoint

LEMMA NotifyRule ==
  ASSUME NEW c, NEW st, NEW todo, NEW on, NEW off, NEW heard, NEW hook,
         todo # <<>>, Head(todo) = Notify(hook),
         \A h \in heard : <<h, hook>> \in HookOrder,
         Fine(c, st, Tail(todo), on, off, {hook})
  PROVE  Fine(c, st, todo, on, off, heard)
<1>1. PICK S : Closed(c, st, S) /\ Follows(S, Tail(todo), on, off, {hook})
  BY DEF Fine
<1> DEFINE p == Point(todo, on, off, heard)
<1>2. StatementOk(c, S, p, Head(todo), Tail(todo))
  <2>1. p.on = on /\ p.off = off /\ p.heard = heard
    BY DEF Point
  <2>2. Head(todo).do = "notify" /\ Head(todo).hook = hook
    BY DEF Notify
  <2> HIDE DEF p
  <2> QED BY <1>1, <2>1, <2>2 DEF StatementOk
<1>3. todo # <<Stay>>
  BY DEF Stay, Notify
<1>4. PointOk(c, st, S, p)
  BY <1>2, <1>3 DEF PointOk, Point
<1> QED BY <1>1, <1>4, FinePoint

LEMMA HasRule ==
  ASSUME NEW c, NEW st, NEW todo, NEW on, NEW off, NEW heard,
         NEW want, NEW then, NEW else,
         todo # <<>>, Head(todo) = Has(want, then, else),
         Fine(c, st, then \o Tail(todo), on, off, heard),
         Fine(c, st, else \o Tail(todo), on, off, heard)
  PROVE  Fine(c, st, todo, on, off, heard)
<1>1. PICK S : /\ Closed(c, st, S)
               /\ Follows(S, then \o Tail(todo), on, off, heard)
               /\ Follows(S, else \o Tail(todo), on, off, heard)
  BY FineBoth
<1> DEFINE p == Point(todo, on, off, heard)
<1>2. StatementOk(c, S, p, Head(todo), Tail(todo))
  <2>1. p.on = on /\ p.off = off /\ p.heard = heard
    BY DEF Point
  <2>2. Head(todo).do = "has" /\ Head(todo).then = then /\ Head(todo).else = else
    BY DEF Has
  <2> HIDE DEF p
  <2> QED BY <1>1, <2>1, <2>2 DEF StatementOk
<1>3. todo # <<Stay>>
  BY DEF Stay, Has
<1>4. PointOk(c, st, S, p)
  BY <1>2, <1>3 DEF PointOk, Point
<1> QED BY <1>1, <1>4, FinePoint

LEMMA HighRule ==
  ASSUME NEW c, NEW st, NEW todo, NEW on, NEW off, NEW heard,
         NEW gpio, NEW then, NEW else,
         todo # <<>>, Head(todo) = High(gpio, then, else),
         Fine(c, st, then \o Tail(todo), on, off, heard),
         Fine(c, st, else \o Tail(todo), on, off, heard)
  PROVE  Fine(c, st, todo, on, off, heard)
<1>1. PICK S : /\ Closed(c, st, S)
               /\ Follows(S, then \o Tail(todo), on, off, heard)
               /\ Follows(S, else \o Tail(todo), on, off, heard)
  BY FineBoth
<1> DEFINE p == Point(todo, on, off, heard)
<1>2. StatementOk(c, S, p, Head(todo), Tail(todo))
  <2>1. p.on = on /\ p.off = off /\ p.heard = heard
    BY DEF Point
  <2>2. Head(todo).do = "high" /\ Head(todo).then = then /\ Head(todo).else = else
    BY DEF High
  <2> HIDE DEF p
  <2> QED BY <1>1, <2>1, <2>2 DEF StatementOk
<1>3. todo # <<Stay>>
  BY DEF Stay, High
<1>4. PointOk(c, st, S, p)
  BY <1>2, <1>3 DEF PointOk, Point
<1> QED BY <1>1, <1>4, FinePoint

LEMMA InStateRule ==
  ASSUME NEW c, NEW st, NEW todo, NEW on, NEW off, NEW heard, NEW in, NEW then, NEW else,
         todo # <<>>, Head(todo) = InState(in, then, else),
         Fine(c, st, then \o Tail(todo), on, off, heard),
         Fine(c, st, else \o Tail(todo), on, off, heard)
  PROVE  Fine(c, st, todo, on, off, heard)
<1>1. PICK S : /\ Closed(c, st, S)
               /\ Follows(S, then \o Tail(todo), on, off, heard)
               /\ Follows(S, else \o Tail(todo), on, off, heard)
  BY FineBoth
<1> DEFINE p == Point(todo, on, off, heard)
<1>2. StatementOk(c, S, p, Head(todo), Tail(todo))
  <2>1. p.on = on /\ p.off = off /\ p.heard = heard
    BY DEF Point
  <2>2. Head(todo).do = "in" /\ Head(todo).then = then /\ Head(todo).else = else
    BY DEF InState
  <2> HIDE DEF p
  <2> QED BY <1>1, <2>1, <2>2 DEF StatementOk
<1>3. todo # <<Stay>>
  BY DEF Stay, InState
<1>4. PointOk(c, st, S, p)
  BY <1>2, <1>3 DEF PointOk, Point
<1> QED BY <1>1, <1>4, FinePoint

LEMMA EitherRule ==
  ASSUME NEW c, NEW st, NEW todo, NEW on, NEW off, NEW heard, NEW then, NEW else,
         todo # <<>>, Head(todo) = Either(then, else),
         Fine(c, st, then \o Tail(todo), on, off, heard),
         Fine(c, st, else \o Tail(todo), on, off, heard)
  PROVE  Fine(c, st, todo, on, off, heard)
<1>1. PICK S : /\ Closed(c, st, S)
               /\ Follows(S, then \o Tail(todo), on, off, heard)
               /\ Follows(S, else \o Tail(todo), on, off, heard)
  BY FineBoth
<1> DEFINE p == Point(todo, on, off, heard)
<1>2. StatementOk(c, S, p, Head(todo), Tail(todo))
  <2>1. p.on = on /\ p.off = off /\ p.heard = heard
    BY DEF Point
  <2>2. Head(todo).do = "either" /\ Head(todo).then = then /\ Head(todo).else = else
    BY DEF Either
  <2> HIDE DEF p
  <2> QED BY <1>1, <2>1, <2>2 DEF StatementOk
<1>3. todo # <<Stay>>
  BY DEF Stay, Either
<1>4. PointOk(c, st, S, p)
  BY <1>2, <1>3 DEF PointOk, Point
<1> QED BY <1>1, <1>4, FinePoint

LEMMA IfRule ==
  ASSUME NEW c, NEW st, NEW todo, NEW on, NEW off, NEW heard,
         NEW flag, NEW then, NEW else,
         todo # <<>>, Head(todo) = If(flag, then, else), flag \in Flags,
         Fine(c, st, then \o Tail(todo), on,
              off \cup (IF c = "baytrail" /\ flag = "restart_from_s5"
                        THEN {"RSMRST_L"} ELSE {}), heard),
         Fine(c, st, else \o Tail(todo), on, off \cup {flag}, heard)
  PROVE  Fine(c, st, todo, on, off, heard)
<1>1. PICK S : /\ Closed(c, st, S)
               /\ Follows(S, then \o Tail(todo), on,
                          off \cup (IF c = "baytrail" /\ flag = "restart_from_s5"
                                    THEN {"RSMRST_L"} ELSE {}), heard)
               /\ Follows(S, else \o Tail(todo), on, off \cup {flag}, heard)
  BY FineBoth
<1> DEFINE p == Point(todo, on, off, heard)
<1>2. StatementOk(c, S, p, Head(todo), Tail(todo))
  <2>1. p.on = on /\ p.off = off /\ p.heard = heard
    BY DEF Point
  <2>2. /\ Head(todo).do = "if" /\ Head(todo).flag = flag
        /\ Head(todo).then = then /\ Head(todo).else = else
    BY DEF If
  <2> HIDE DEF p
  <2> QED BY <1>1, <2>1, <2>2 DEF StatementOk
<1>3. todo # <<Stay>>
  BY DEF Stay, If
<1>4. PointOk(c, st, S, p)
  BY <1>2, <1>3 DEF PointOk, Point
<1> QED BY <1>1, <1>4, FinePoint

LEMMA GoRule ==
  ASSUME NEW c, NEW st, NEW todo, NEW on, NEW off, NEW heard, NEW to,
         todo # <<>>, Head(todo) = Go(to), Enters(c, to, on, off, heard)
  PROVE  Fine(c, st, todo, on, off, heard)
<1> DEFINE p == Point(todo, on, off, heard)
<1>1. Closed(c, st, {})
  BY DEF Closed
<1>2. StatementOk(c, {}, p, Head(todo), Tail(todo))
  BY DEF StatementOk, Point, Go
<1>3. todo # <<Stay>>
  BY DEF Stay, Go
<1>4. PointOk(c, st, {}, p)
  BY <1>2, <1>3 DEF PointOk, Point
<1> QED BY <1>1, <1>4, FinePoint

LEMMA EndRule ==
  ASSUME NEW c, NEW st, NEW on, NEW off, NEW heard, Enters(c, st, on, off, heard)
  PROVE  Fine(c, st, <<>>, on, off, heard)
<1> DEFINE p == Point(<<>>, on, off, heard)
<1>1. Closed(c, st, {})
  BY DEF Closed
<1>2. PointOk(c, st, {}, p)
  BY DEF PointOk, Point
<1> QED BY <1>1, <1>2, FinePoint

LEMMA WakeRule ==
  ASSUME NEW c, NEW st, NEW todo, NEW on, NEW off, NEW heard,
         todo # <<>>, Head(todo) = Sleep(<<>>),
         Fine(c, st, Tail(todo), on, off, heard)
  PROVE  Fine(c, st, todo, on, off, heard)
<1>1. PICK S : Closed(c, st, S) /\ Follows(S, Tail(todo), on, off, heard)
  BY DEF Fine
<1> DEFINE p == Point(todo, on, off, heard)
<1>2. StatementOk(c, S, p, Head(todo), Tail(todo))
  BY <1>1 DEF StatementOk, Point, Sleep
<1>3. todo # <<Stay>>
  BY DEF Stay, Sleep
<1>4. PointOk(c, st, S, p)
  BY <1>2, <1>3 DEF PointOk, Point
<1> QED BY <1>1, <1>4, FinePoint

LEMMA SleepRule ==
  ASSUME NEW c, NEW st, NEW todo, NEW on, NEW off, NEW heard, NEW late,
         todo # <<>>, Head(todo) = Sleep(late),
         Fine(c, st, Tail(todo), on, off, heard),
         Fine(c, st, late, on, off, heard)
  PROVE  Fine(c, st, todo, on, off, heard)
<1>1. PICK S : /\ Closed(c, st, S)
               /\ Follows(S, Tail(todo), on, off, heard)
               /\ Follows(S, late, on, off, heard)
  BY FineBoth
<1> DEFINE p == Point(todo, on, off, heard)
<1>2. StatementOk(c, S, p, Head(todo), Tail(todo))
  BY <1>1 DEF StatementOk, Point, Sleep
<1>3. todo # <<Stay>>
  BY DEF Stay, Sleep
<1>4. PointOk(c, st, S, p)
  BY <1>2, <1>3 DEF PointOk, Point
<1> QED BY <1>1, <1>4, FinePoint

LEMMA StayRule ==
  ASSUME NEW c, NEW st, NEW on, NEW off, NEW heard,
         Fine(c, st, power_common_state(st), on, off, heard)
  PROVE  Fine(c, st, <<Stay>>, on, off, heard)
<1>1. PICK S : Closed(c, st, S) /\ Follows(S, power_common_state(st), on, off, heard)
  BY DEF Fine
<1> DEFINE p == Point(<<Stay>>, on, off, heard)
<1>2. StatementOk(c, S, p, Stay, <<>>)
  BY DEF StatementOk, Stay
<1>3. PointOk(c, st, S, p)
  BY <1>1, <1>2 DEF PointOk, Point
<1> QED BY <1>1, <1>3, FinePoint

\* A wait that times out looks at the signals again and, unless they are there
\* now, goes on with what is done when it has failed.
LEMMA LookRule ==
  ASSUME NEW c, NEW st, NEW s, NEW on, NEW off, NEW heard,
         IsCode(s.failed), Fine(c, st, s.failed, on, off, heard)
  PROVE  Fine(c, st, <<LookAgain(s)>>, on, off, heard)
<1>1. PICK S : Closed(c, st, S) /\ Follows(S, s.failed, on, off, heard)
  BY DEF Fine
<1> DEFINE p == Point(<<LookAgain(s)>>, on, off, heard)
<1>2. StatementOk(c, S, p, LookAgain(s), <<>>)
  BY <1>1 DEF StatementOk, LookAgain, Point
<1>3. <<LookAgain(s)>> # <<Stay>>
  BY DEF LookAgain, Stay
<1>4. PointOk(c, st, S, p)
  BY <1>2, <1>3 DEF PointOk, Point
<1> QED BY <1>1, <1>4, FinePoint

\* The second half of power_update_signals()
LEMMA StoreRule ==
  ASSUME NEW c, NEW st, NEW todo, IsCode(todo), NEW on, NEW off, NEW heard,
         NEW s, s.do = "store", Fine(c, st, todo, on, off, heard)
  PROVE  Fine(c, st, <<s>> \o todo, on, off, heard)
<1>1. PICK S : Closed(c, st, S) /\ Follows(S, todo, on, off, heard)
  BY DEF Fine
<1> DEFINE all == <<s>> \o todo
           p == Point(all, on, off, heard)
<1>2. all # <<>> /\ Head(all) = s /\ Tail(all) = todo
  BY Prepend1
<1> HIDE DEF all
<1>3. StatementOk(c, S, p, s, todo)
  BY <1>1 DEF StatementOk, Point
<1>4. all # <<Stay>>
  BY <1>2 DEF Stay
<1>5. PointOk(c, st, S, p)
  BY <1>2, <1>3, <1>4 DEF PointOk, Point
<1>6. Fine(c, st, all, on, off, heard)
  BY <1>1, <1>5, FinePoint
<1> QED BY <1>6 DEF all

\* A wait is a loop: the task sleeps in front of it, any number of times.
LEMMA WaitRule ==
  ASSUME NEW c, NEW st, NEW todo, NEW on, NEW off, NEW heard, NEW want, NEW failed,
         todo # <<>>, Head(todo) = Wait(want, failed),
         IsCode(todo), IsCode(failed),
         Fine(c, st, Tail(todo), on, off, heard),
         Fine(c, st, failed, on, off, heard)
  PROVE  Fine(c, st, todo, on, off, heard)
<1> DEFINE s == Wait(want, failed)
<1>0. \A x : Tail(<<x>> \o todo) = todo /\ Len(<<x>> \o todo) # 1
  BY CodeAround
<1>1. Fine(c, st, <<LookAgain(s)>>, on, off, heard)
  BY LookRule DEF Wait
<1>2. PICK S : /\ Closed(c, st, S)
               /\ Follows(S, Tail(todo), on, off, heard)
               /\ Follows(S, <<LookAgain(s)>>, on, off, heard)
  BY <1>1, FineBoth
<1> DEFINE asleep == Point(<<Sleep(<<LookAgain(s)>>)>> \o todo, on, off, heard)
           p == Point(todo, on, off, heard)
           T == S \cup {p, asleep}
<1>3. /\ Follows(T, Tail(todo), on, off, heard)
      /\ Follows(T, <<LookAgain(s)>>, on, off, heard)
  BY <1>2, FollowsGrows
<1>4. /\ Follows(T, todo, on, off, heard)
      /\ Follows(T, <<Sleep(<<LookAgain(s)>>)>> \o todo, on, off, heard)
  <2>1. p \in T /\ asleep \in T
    OBVIOUS
  <2>2. p.todo = todo /\ p.on = on /\ p.off = off /\ p.heard = heard
    BY DEF Point
  <2>3. /\ asleep.todo = <<Sleep(<<LookAgain(s)>>)>> \o todo
        /\ asleep.on = on /\ asleep.off = off /\ asleep.heard = heard
    BY DEF Point
  <2> HIDE DEF p, asleep, T
  <2> QED BY <2>1, <2>2, <2>3 DEF Follows
<1>5. StatementOk(c, T, p, Head(todo), Tail(todo))
  BY <1>3, <1>4 DEF StatementOk, Point, Wait
<1>6. PointOk(c, st, T, p)
  <2>1. todo # <<Stay>>
    BY DEF Stay, Wait
  <2> QED BY <2>1, <1>5 DEF PointOk, Point
<1>7. PointOk(c, st, T, asleep)
  <2>1. /\ Head(asleep.todo) = Sleep(<<LookAgain(s)>>)
        /\ Tail(asleep.todo) = todo
    BY <1>0 DEF Point
  <2>2. StatementOk(c, T, asleep, Sleep(<<LookAgain(s)>>), todo)
    BY <1>3, <1>4 DEF StatementOk, Point, Sleep
  <2>3. asleep.todo # <<>> /\ asleep.todo # <<Stay>>
    BY <1>0 DEF Point
  <2> QED BY <2>1, <2>2, <2>3 DEF PointOk
<1>8. \A q \in S : PointOk(c, st, T, q)
  BY <1>2, PointGrows DEF Closed
<1>9. Closed(c, st, T)
  BY <1>6, <1>7, <1>8 DEF Closed
<1> QED BY <1>4, <1>9 DEF Fine

\* The same rules for a test that ends a handler
LEMMA HasLast ==
  ASSUME NEW c, NEW st, NEW s, NEW on, NEW off, NEW heard,
         NEW want, NEW then, NEW else,
         s = Has(want, then, else),
         Fine(c, st, then \o <<>>, on, off, heard),
         Fine(c, st, else \o <<>>, on, off, heard)
  PROVE  Fine(c, st, <<s>>, on, off, heard)
<1>1. <<s>> # <<>> /\ Head(<<s>>) = s /\ Tail(<<s>>) = <<>>
  OBVIOUS
<1> QED BY <1>1, HasRule

LEMMA HighLast ==
  ASSUME NEW c, NEW st, NEW s, NEW on, NEW off, NEW heard,
         NEW gpio, NEW then, NEW else,
         s = High(gpio, then, else),
         Fine(c, st, then \o <<>>, on, off, heard),
         Fine(c, st, else \o <<>>, on, off, heard)
  PROVE  Fine(c, st, <<s>>, on, off, heard)
<1>1. <<s>> # <<>> /\ Head(<<s>>) = s /\ Tail(<<s>>) = <<>>
  OBVIOUS
<1> QED BY <1>1, HighRule

LEMMA InStateLast ==
  ASSUME NEW c, NEW st, NEW s, NEW on, NEW off, NEW heard, NEW in, NEW then, NEW else,
         s = InState(in, then, else),
         Fine(c, st, then \o <<>>, on, off, heard),
         Fine(c, st, else \o <<>>, on, off, heard)
  PROVE  Fine(c, st, <<s>>, on, off, heard)
<1>1. <<s>> # <<>> /\ Head(<<s>>) = s /\ Tail(<<s>>) = <<>>
  OBVIOUS
<1> QED BY <1>1, InStateRule

LEMMA EitherLast ==
  ASSUME NEW c, NEW st, NEW s, NEW on, NEW off, NEW heard, NEW then, NEW else,
         s = Either(then, else),
         Fine(c, st, then \o <<>>, on, off, heard),
         Fine(c, st, else \o <<>>, on, off, heard)
  PROVE  Fine(c, st, <<s>>, on, off, heard)
<1>1. <<s>> # <<>> /\ Head(<<s>>) = s /\ Tail(<<s>>) = <<>>
  OBVIOUS
<1> QED BY <1>1, EitherRule

\* The flag that restarts Bay Trail from S5 is set with RSMRST# low.
LEMMA RestartRule ==
  ASSUME NEW st, NEW todo, NEW on, NEW off, NEW heard, NEW then, NEW else,
         todo # <<>>, Head(todo) = If("restart_from_s5", then, else),
         Fine("baytrail", st, then \o Tail(todo), on, off \cup {"RSMRST_L"}, heard),
         Fine("baytrail", st, else \o Tail(todo), on, off \cup {"restart_from_s5"}, heard)
  PROVE  Fine("baytrail", st, todo, on, off, heard)
<1>1. (IF "baytrail" = "baytrail" /\ "restart_from_s5" = "restart_from_s5"
       THEN {"RSMRST_L"} ELSE {}) = {"RSMRST_L"}
  OBVIOUS
<1>2. "restart_from_s5" \in Flags
  BY DEF Flags
<1> QED BY <1>1, <1>2, IfRule

LEMMA IfLast ==
  ASSUME NEW c, NEW st, NEW s, NEW on, NEW off, NEW heard,
         NEW flag, NEW then, NEW else,
         s = If(flag, then, else), flag \in Flags, c # "baytrail" \/ flag # "restart_from_s5",
         Fine(c, st, then \o <<>>, on, off, heard),
         Fine(c, st, else \o <<>>, on, off \cup {flag}, heard)
  PROVE  Fine(c, st, <<s>>, on, off, heard)
<1>1. <<s>> # <<>> /\ Head(<<s>>) = s /\ Tail(<<s>>) = <<>>
  OBVIOUS
<1>2. off \cup (IF c = "baytrail" /\ flag = "restart_from_s5" THEN {"RSMRST_L"} ELSE {}) = off
  OBVIOUS
<1> QED BY <1>1, <1>2, IfRule

-----------------------------------------------------------------------------
(* Braswell and Skylake, of whose outputs none depends on another          *)

Loose == {"braswell", "skylake"}

LEMMA LooseEnters ==
  ASSUME NEW c \in Loose, NEW heard
  PROVE  /\ \A st \in OffStates : heard \subseteq {"SHUTDOWN"} => Enters(c, st, {}, {}, heard)
         /\ \A st \in UpStates : heard \subseteq {"RESUME"} => Enters(c, st, {}, {}, heard)
         /\ \A st \in {"S3", "S3S0", "S3S5"} :
              heard \subseteq {"STARTUP", "SUSPEND"} => Enters(c, st, {}, {}, heard)
<1>1. \A st : HighIn(c, st) = {} /\ LowIn(c, st) = {}
  BY DEF Loose, Sequenced, HighIn, LowIn
<1>2. /\ \A st \in OffStates : HeardIn(st) = {"SHUTDOWN"} /\ st \in States
      /\ \A st \in UpStates : HeardIn(st) = {"RESUME"} /\ st \in States
      /\ \A st \in {"S3", "S3S0", "S3S5"} : HeardIn(st) = {"STARTUP", "SUSPEND"} /\ st \in States
  BY DEF HeardIn, States, OffStates, UpStates
<1> QED BY <1>1, <1>2 DEF Enters

\* What is fine when nothing is known of outputs and flags is so when more is
LEMMA LooseWeakens ==
  ASSUME NEW c, NEW st, NEW todo, NEW heard, Fine(c, st, todo, {}, {}, heard),
         NEW on, NEW off, NEW less, less \subseteq heard
  PROVE  Fine(c, st, todo, on, off, less)
  BY FineWeakens

LEMMA LooseMay ==
  ASSUME NEW c \in Loose
  PROVE  /\ \A pin, on, off : pin \notin Flags => MayTurnOn(c, pin, on, off) /\ MayTurnOff(c, pin, off)
         /\ \A flag, off : flag \in Flags => MayRaise(c, flag, off)
  BY DEF MayTurnOn, MayTurnOff, MayRaise, RailOrder, Loose

LEMMA LooseOn ==
  ASSUME NEW c \in Loose, NEW st, NEW todo, todo # <<>>, NEW heard,
         NEW pin, pin \notin Flags, Head(todo) = On(pin),
         Fine(c, st, Tail(todo), {}, {}, heard)
  PROVE  Fine(c, st, todo, {}, {}, heard)
  BY LooseMay, LooseWeakens, OnRule

LEMMA LooseOff ==
  ASSUME NEW c \in Loose, NEW st, NEW todo, todo # <<>>, NEW heard,
         NEW pin, pin \notin Flags, Head(todo) = Off(pin),
         Fine(c, st, Tail(todo), {}, {}, heard)
  PROVE  Fine(c, st, todo, {}, {}, heard)
  BY LooseMay, LooseWeakens, OffRule

LEMMA LooseRaise ==
  ASSUME NEW c \in Loose, NEW st, NEW todo, todo # <<>>, NEW heard,
         NEW flag, flag \in Flags, Head(todo) = Raise(flag),
         Fine(c, st, Tail(todo), {}, {}, heard)
  PROVE  Fine(c, st, todo, {}, {}, heard)
  BY LooseMay, LooseWeakens, RaiseRule

LEMMA LooseLower ==
  ASSUME NEW c \in Loose, NEW st, NEW todo, todo # <<>>, NEW heard,
         NEW flag, flag \in Flags, Head(todo) = Lower(flag),
         Fine(c, st, Tail(todo), {}, {}, heard)
  PROVE  Fine(c, st, todo, {}, {}, heard)
  BY LooseMay, LooseWeakens, LowerRule

LEMMA LooseIf ==
  ASSUME NEW c \in Loose, NEW st, NEW todo, todo # <<>>, NEW heard,
         NEW flag \in Flags, NEW then, NEW else, Head(todo) = If(flag, then, else),
         Fine(c, st, then \o Tail(todo), {}, {}, heard),
         Fine(c, st, else \o Tail(todo), {}, {}, heard)
  PROVE  Fine(c, st, todo, {}, {}, heard)
  BY LooseWeakens, IfRule

LEMMA LooseIfLast ==
  ASSUME NEW c \in Loose, NEW st, NEW s, NEW heard,
         NEW flag \in Flags, NEW then, NEW else, s = If(flag, then, else),
         Fine(c, st, then \o <<>>, {}, {}, heard),
         Fine(c, st, else \o <<>>, {}, {}, heard)
  PROVE  Fine(c, st, <<s>>, {}, {}, heard)
<1>1. <<s>> # <<>> /\ Head(<<s>>) = s /\ Tail(<<s>>) = <<>>
  OBVIOUS
<1> QED BY <1>1, LooseIf

LEMMA HooksInOrder ==
  /\ <<"SHUTDOWN", "STARTUP">> \in HookOrder /\ <<"STARTUP", "RESUME">> \in HookOrder
  /\ <<"STARTUP", "SHUTDOWN">> \in HookOrder /\ <<"RESUME", "SUSPEND">> \in HookOrder
  /\ <<"SUSPEND", "RESUME">> \in HookOrder /\ <<"SUSPEND", "SHUTDOWN">> \in HookOrder
  BY DEF HookOrder

\* power_common_state()
LEMMA StayFine ==
  ASSUME NEW c, NEW st \in {"G3", "S5", "S3", "S0"}, NEW on, NEW off, NEW heard,
         Enters(c, st, on, off, heard)
  PROVE  Fine(c, st, <<Stay>>, on, off, heard)
<1>0. "want_g3_exit" \in Flags
  BY DEF Flags
<1>1. ASSUME NEW off1, off \subseteq off1
      PROVE  Fine(c, st, <<Sleep(<<>>)>>, on, off1, heard)
  <2>1. Fine(c, st, <<>>, on, off1, heard)
    BY <1>1, EndRule DEF Enters
  <2> QED BY <2>1, WakeRule, Code1
<1>2. ASSUME NEW to \in States, HighIn(c, to) = HighIn(c, st), LowIn(c, to) \subseteq LowIn(c, st),
             HeardIn(to) = HeardIn(st)
      PROVE  Fine(c, st, <<Lower("want_g3_exit"), Go(to)>>, on, off, heard)
  <2>1. Enters(c, to, on, off \cup {"want_g3_exit"}, heard)
    BY <1>2 DEF Enters
  <2>2. Fine(c, st, <<Go(to)>>, on, off \cup {"want_g3_exit"}, heard)
    BY <2>1, GoRule, Code1
  <2> QED BY <1>0, <2>2, LowerRule, Code2
<1>3. CASE st = "G3"
  <2>1. Fine(c, st, <<Lower("want_g3_exit"), Go("G3S5")>>, on, off, heard)
    BY <1>2, <1>3 DEF States, OffStates, UpStates, HighIn, LowIn, HeardIn
  <2>2. /\ Fine(c, st, <<Lower("want_g3_exit"), Go("G3S5")>> \o <<>>, on, off \cup {}, heard)
        /\ Fine(c, st, <<Sleep(<<>>)>> \o <<>>, on, off \cup {"want_g3_exit"}, heard)
    BY <1>1, <2>1, Code1, Code2, FineWeakens
  <2>3. Fine(c, st, <<If("want_g3_exit", <<Lower("want_g3_exit"), Go("G3S5")>>,
                         <<Sleep(<<>>)>>)>>, on, off, heard)
    BY <1>0, <2>2, IfRule, Code1
  <2> QED BY <1>3, <2>3, StayRule DEF power_common_state
<1>4. CASE st = "S5"
  <2>1. Fine(c, st, <<Lower("want_g3_exit"), Go("S5G3")>>, on, off, heard)
    BY <1>2, <1>4 DEF States, OffStates, UpStates, HighIn, LowIn, HeardIn
  <2>2. Fine(c, st, <<>>, on, off, heard)
    BY EndRule
  <2>3. Fine(c, st, <<Sleep(<<Lower("want_g3_exit"), Go("S5G3")>>)>>, on, off, heard)
    BY <2>1, <2>2, SleepRule, Code1
  <2> QED BY <1>4, <2>3, StayRule DEF power_common_state
<1>5. CASE st \in {"S3", "S0"}
  <2>1. Fine(c, st, <<Sleep(<<>>)>>, on, off, heard)
    BY <1>1
  <2> QED BY <1>5, <2>1, StayRule DEF power_common_state
<1> QED BY <1>3, <1>4, <1>5

-----------------------------------------------------------------------------
(* Haswell                                                                 *)

LEMMA HaswellOrder ==
  \A o : o \in RailOrder("haswell") <=> \/ o = <<"RSMRST_L", "SUSP_VR_EN">>
         \/ o = <<"PP1350_EN", "PP5000_EN">>
         \/ o = <<"PP3300_DX_EN", "PP1350_EN">>
         \/ o = <<"VCORE_EN", "PP3300_DX_EN">>
         \/ o = <<"PCH_PWROK", "VCORE_EN">>
         \/ o = <<"SYS_PWROK", "PCH_PWROK">>
  BY DEF RailOrder

\* What must be known to turn an output on, or off
LEMMA HaswellMayTurnOn ==
  ASSUME NEW on, NEW off
  PROVE  /\ MayTurnOn("haswell", "DPWROK", on, off)
         /\ MayTurnOn("haswell", "SUSP_VR_EN", on, off)
         /\ "SUSP_VR_EN" \in on => MayTurnOn("haswell", "RSMRST_L", on, off)
         /\ MayTurnOn("haswell", "PP5000_EN", on, off)
         /\ "PP5000_EN" \in on => MayTurnOn("haswell", "PP1350_EN", on, off)
         /\ "PP1350_EN" \in on => MayTurnOn("haswell", "PP3300_DX_EN", on, off)
         /\ "PP3300_DX_EN" \in on => MayTurnOn("haswell", "VCORE_EN", on, off)
         /\ "VCORE_EN" \in on => MayTurnOn("haswell", "PCH_PWROK", on, off)
         /\ "PCH_PWROK" \in on => MayTurnOn("haswell", "SYS_PWROK", on, off)
  BY HaswellOrder DEF MayTurnOn, Kept, Flags

LEMMA HaswellMayTurnOff ==
  ASSUME NEW off
  PROVE  /\ MayTurnOff("haswell", "DPWROK", off)
         /\ "RSMRST_L" \in off => MayTurnOff("haswell", "SUSP_VR_EN", off)
         /\ MayTurnOff("haswell", "RSMRST_L", off)
         /\ "PP1350_EN" \in off => MayTurnOff("haswell", "PP5000_EN", off)
         /\ "PP3300_DX_EN" \in off => MayTurnOff("haswell", "PP1350_EN", off)
         /\ "VCORE_EN" \in off => MayTurnOff("haswell", "PP3300_DX_EN", off)
         /\ "PCH_PWROK" \in off => MayTurnOff("haswell", "VCORE_EN", off)
         /\ "SYS_PWROK" \in off => MayTurnOff("haswell", "PCH_PWROK", off)
         /\ MayTurnOff("haswell", "SYS_PWROK", off)
  BY HaswellOrder DEF MayTurnOff, Flags

\* What is known when a pass begins
LEMMA HaswellEnters ==
  ASSUME NEW on, NEW off, NEW heard
  PROVE  /\ Enters("haswell", "G3", on, off, heard) <=>
              /\ "PP3300_DX_EN" \in off
              /\ "VCORE_EN" \in off
              /\ "RSMRST_L" \in off
              /\ heard \subseteq {"SHUTDOWN"}
         /\ Enters("haswell", "S5", on, off, heard) <=>
              /\ "PP3300_DX_EN" \in off
              /\ "VCORE_EN" \in off
              /\ heard \subseteq {"SHUTDOWN"}
         /\ Enters("haswell", "S3", on, off, heard) <=>
              /\ "PP3300_DX_EN" \in off
              /\ "VCORE_EN" \in off
              /\ "PP1350_EN" \in on
              /\ heard \subseteq {"STARTUP", "SUSPEND"}
         /\ Enters("haswell", "S0", on, off, heard) <=>
              /\ "PP1350_EN" \in on
              /\ heard \subseteq {"RESUME"}
         /\ Enters("haswell", "G3S5", on, off, heard) <=>
              /\ "PP3300_DX_EN" \in off
              /\ "VCORE_EN" \in off
              /\ "RSMRST_L" \in off
              /\ heard \subseteq {"SHUTDOWN"}
         /\ Enters("haswell", "S5S3", on, off, heard) <=>
              /\ "PP3300_DX_EN" \in off
              /\ "VCORE_EN" \in off
              /\ heard \subseteq {"SHUTDOWN"}
         /\ Enters("haswell", "S3S0", on, off, heard) <=>
              /\ "PP3300_DX_EN" \in off
              /\ "VCORE_EN" \in off
              /\ "PP1350_EN" \in on
              /\ heard \subseteq {"STARTUP", "SUSPEND"}
         /\ Enters("haswell", "S0S3", on, off, heard) <=>
              /\ "PP1350_EN" \in on
              /\ heard \subseteq {"RESUME"}
         /\ Enters("haswell", "S3S5", on, off, heard) <=>
              /\ "PP3300_DX_EN" \in off
              /\ "VCORE_EN" \in off
              /\ "PP1350_EN" \in on
              /\ heard \subseteq {"STARTUP", "SUSPEND"}
         /\ Enters("haswell", "S5G3", on, off, heard) <=>
              /\ "PP3300_DX_EN" \in off
              /\ "VCORE_EN" \in off
              /\ heard \subseteq {"SHUTDOWN"}
  BY DEF Enters, States, OffStates, UpStates, HeardIn, HighIn, LowIn, Sequenced

\* A forced shutdown and what is done after it
LEMMA HaswellShutdownThen ==
  ASSUME NEW st, NEW rest, IsCode(rest), NEW on, NEW off, NEW heard,
         Fine("haswell", st, rest, (on \ {"DPWROK"}) \ {"RSMRST_L"},
              (off \cup {"DPWROK"}) \cup {"RSMRST_L"}, heard)
  PROVE  Fine("haswell", st, HaswellShutdown \o rest, on, off, heard)
<1>1. /\ MayTurnOff("haswell", "DPWROK", off)
      /\ MayTurnOff("haswell", "RSMRST_L", off \cup {"DPWROK"})
  BY HaswellMayTurnOff
<1>2. Fine("haswell", st, <<Off("RSMRST_L")>> \o rest, on \ {"DPWROK"}, off \cup {"DPWROK"}, heard)
  BY <1>1, OffRule, Prepend1
<1>3. Fine("haswell", st, <<Off("DPWROK"), Off("RSMRST_L")>> \o rest, on, off, heard)
  BY <1>1, <1>2, OffRule, Prepend2
<1> QED BY <1>3 DEF HaswellShutdown

LEMMA HaswellShutdownIsCode == IsCode(HaswellShutdown)
  BY Code2 DEF HaswellShutdown

LEMMA HaswellShutdownEnd ==
  ASSUME NEW rest, IsCode(rest)
  PROVE  (HaswellShutdown \o rest) \o <<>> = HaswellShutdown \o rest
<1>1. IsCode(HaswellShutdown \o rest)
  BY JoinCode, HaswellShutdownIsCode
<1> QED BY <1>1, CodeAround

LEMMA HaswellShutdownAfter ==
  ASSUME NEW rest, IsCode(rest), NEW s, IsCode(s)
  PROVE  /\ (s \o HaswellShutdown) \o rest = s \o (HaswellShutdown \o rest)
         /\ (HaswellShutdown \o s) \o rest = HaswellShutdown \o (s \o rest)
         /\ IsCode(HaswellShutdown \o rest) /\ IsCode((s \o HaswellShutdown) \o rest)
<1>1. (s \o HaswellShutdown) \o rest = s \o (HaswellShutdown \o rest)
  BY JoinAssociative, HaswellShutdownIsCode
<1>2. (HaswellShutdown \o s) \o rest = HaswellShutdown \o (s \o rest)
  BY JoinAssociative, HaswellShutdownIsCode
<1>3. IsCode(HaswellShutdown \o rest) /\ IsCode((s \o HaswellShutdown) \o rest)
  BY JoinCode, HaswellShutdownIsCode
<1> QED BY <1>1, <1>2, <1>3

\* The statements of each state
LEMMA HaswellIsG3 ==
  Haswell("G3") =
    <<Stay>>
  BY DEF Haswell, HaswellSuspend

LEMMA HaswellIsS5 ==
  Haswell("S5") =
    <<High("SLP_S5", <<Go("S5S3")>>, <<Stay>>)>>
  BY DEF Haswell, HaswellSuspend

LEMMA HaswellIsS3 ==
  Haswell("S3") =
    <<Has({"PP5000", "PP1350"}, <<High("SLP_S3", <<Go("S3S0")>>,
      <<High("SLP_S5", <<Stay>>, <<Go("S3S5")>>)>>)>>, HaswellShutdown
      \o <<Go("S3S5")>>)>>
  BY DEF Haswell, HaswellSuspend

LEMMA HaswellIsS0 ==
  Haswell("S0") =
    <<Has({"PP5000", "PP1350", "PP1050"}, <<High("SLP_S3", <<Stay>>,
      <<Go("S0S3")>>)>>, HaswellShutdown \o <<Go("S0S3")>>)>>
  BY DEF Haswell, HaswellSuspend

LEMMA HaswellIsG3S5 ==
  Haswell("G3S5") =
    <<On("DPWROK"), Wait({"SLP_SUS"}, HaswellShutdown \o <<Go("G3")>>),
      On("SUSP_VR_EN"), Wait({"PP1050"}, <<Off("SUSP_VR_EN")>> \o
      HaswellShutdown \o <<Go("G3")>>), On("RSMRST_L"), Go("S5")>>
  BY DEF Haswell, HaswellSuspend

LEMMA HaswellIsS5S3 ==
  Haswell("S5S3") =
    <<On("PP5000_EN"), Wait({"PP5000"}, HaswellShutdown \o <<Go("S5G3")>>),
      On("PP1350_EN"), Wait({"PP5000", "PP1350"}, HaswellShutdown \o
      <<Go("S5G3")>>), Notify("STARTUP"), Go("S3")>>
  BY DEF Haswell, HaswellSuspend

LEMMA HaswellIsS3S0 ==
  Haswell("S3S0") =
    <<On("PP3300_DX_EN"), Wait({"PP5000", "PP1350", "PP1050"},
      HaswellShutdown \o <<Off("PP3300_DX_EN"), Go("S3")>>),
      On("VCORE_EN"), Notify("RESUME"), On("PCH_PWROK"),
      On("SYS_PWROK"), Go("S0")>>
  BY DEF Haswell, HaswellSuspend

LEMMA HaswellIsS0S3 ==
  Haswell("S0S3") =
    <<Notify("SUSPEND"), Off("SYS_PWROK"), Off("PCH_PWROK"),
      Off("VCORE_EN"), Off("PP3300_DX_EN"), Go("S3")>>
  BY DEF Haswell, HaswellSuspend

LEMMA HaswellIsS3S5 ==
  Haswell("S3S5") =
    <<Notify("SHUTDOWN"), Off("PP1350_EN"), Off("PP5000_EN"),
      If("pause_in_s5", <<Go("S5")>>, <<Go("S5G3")>>)>>
  BY DEF Haswell, HaswellSuspend

LEMMA HaswellIsS5G3 ==
  Haswell("S5G3") =
    <<Off("DPWROK"), Off("RSMRST_L"), Off("SUSP_VR_EN"), Go("G3")>>
  BY DEF Haswell, HaswellSuspend

\* POWER_G3
LEMMA HaswellG3 ==
  ASSUME NEW on, NEW off, NEW heard, Enters("haswell", "G3", on, off, heard)
  PROVE  Fine("haswell", "G3", Haswell("G3"), on, off, heard)
<1> DEFINE Here(todo, on_, off_, heard_) == Fine("haswell", "G3", todo, on_, off_, heard_)
           s1 == Stay
<1> HIDE DEF s1
<1>1. "PP3300_DX_EN" \in off /\ "VCORE_EN" \in off /\ "RSMRST_L" \in off /\
         heard \subseteq {"SHUTDOWN"}
  BY HaswellEnters
<1>2. Enters("haswell", "G3", on, off, heard)
  BY <1>1, HaswellEnters
<1>3. Here(<<s1>>, on, off, heard)
  BY <1>2, StayFine DEF s1
<1> QED BY <1>3, HaswellIsG3 DEF s1

\* POWER_S5
LEMMA HaswellS5 ==
  ASSUME NEW on, NEW off, NEW heard, Enters("haswell", "S5", on, off, heard)
  PROVE  Fine("haswell", "S5", Haswell("S5"), on, off, heard)
<1> DEFINE Here(todo, on_, off_, heard_) == Fine("haswell", "S5", todo, on_, off_, heard_)
           s1 == Go("S5S3")
           b1 == <<s1>>
           s2 == Stay
           b2 == <<s2>>
           s3 == High("SLP_S5", b1, b2)
<1> HIDE DEF s1, b1, s2, b2, s3
<1>1. "PP3300_DX_EN" \in off /\ "VCORE_EN" \in off /\ heard \subseteq
         {"SHUTDOWN"}
  BY HaswellEnters
<1>2. Enters("haswell", "S5S3", on, off, heard)
  BY <1>1, HaswellEnters
<1>3. Here(<<s1>>, on, off, heard)
  BY <1>2, GoRule, Code1 DEF s1
<1>4. Here(b1, on, off, heard)
  BY <1>3 DEF b1
<1>5. Here(b1 \o <<>>, on, off, heard)
  BY <1>4, Code1 DEF b1
<1>6. Enters("haswell", "S5", on, off, heard)
  BY <1>1, HaswellEnters
<1>7. Here(<<s2>>, on, off, heard)
  BY <1>6, StayFine DEF s2
<1>8. Here(b2, on, off, heard)
  BY <1>7 DEF b2
<1>9. Here(b2 \o <<>>, on, off, heard)
  BY <1>8, Code1 DEF b2
<1>10. Here(<<s3>>, on, off, heard)
  BY <1>5, <1>9, HighLast DEF s3
<1> QED BY <1>10, HaswellIsS5 DEF s1, b1, s2, b2, s3

\* POWER_S3
LEMMA HaswellS3 ==
  ASSUME NEW on, NEW off, NEW heard, Enters("haswell", "S3", on, off, heard)
  PROVE  Fine("haswell", "S3", Haswell("S3"), on, off, heard)
<1> DEFINE Here(todo, on_, off_, heard_) == Fine("haswell", "S3", todo, on_, off_, heard_)
           s1 == Go("S3S0")
           b1 == <<s1>>
           s2 == Stay
           b2 == <<s2>>
           s3 == Go("S3S5")
           b3 == <<s3>>
           s4 == High("SLP_S5", b2, b3)
           b4 == <<s4>>
           s5 == High("SLP_S3", b1, b4)
           b5 == <<s5>>
           b6 == HaswellShutdown \o <<s3>>
           s6 == Has({"PP5000", "PP1350"}, b5, b6)
           on1 == on \ {"DPWROK"}
           off1 == off \cup {"DPWROK"}
           on2 == on1 \ {"RSMRST_L"}
           off2 == off1 \cup {"RSMRST_L"}
<1> HIDE DEF s1, b1, s2, b2, s3, b3, s4, b4, s5, b5, b6, s6, on1, off1, on2,
             off2
<1>1. "PP3300_DX_EN" \in off /\ "VCORE_EN" \in off /\ "PP1350_EN" \in on /\
         heard \subseteq {"STARTUP", "SUSPEND"}
  BY HaswellEnters
<1>2. Enters("haswell", "S3S0", on, off, heard)
  BY <1>1, HaswellEnters
<1>3. Here(<<s1>>, on, off, heard)
  BY <1>2, GoRule, Code1 DEF s1
<1>4. Here(b1, on, off, heard)
  BY <1>3 DEF b1
<1>5. Here(b1 \o <<>>, on, off, heard)
  BY <1>4, Code1 DEF b1
<1>6. Enters("haswell", "S3", on, off, heard)
  BY <1>1, HaswellEnters
<1>7. Here(<<s2>>, on, off, heard)
  BY <1>6, StayFine DEF s2
<1>8. Here(b2, on, off, heard)
  BY <1>7 DEF b2
<1>9. Here(b2 \o <<>>, on, off, heard)
  BY <1>8, Code1 DEF b2
<1>10. Enters("haswell", "S3S5", on, off, heard)
  BY <1>1, HaswellEnters
<1>11. Here(<<s3>>, on, off, heard)
  BY <1>10, GoRule, Code1 DEF s3
<1>12. Here(b3, on, off, heard)
  BY <1>11 DEF b3
<1>13. Here(b3 \o <<>>, on, off, heard)
  BY <1>12, Code1 DEF b3
<1>14. Here(<<s4>>, on, off, heard)
  BY <1>9, <1>13, HighLast DEF s4
<1>15. Here(b4, on, off, heard)
  BY <1>14 DEF b4
<1>16. Here(b4 \o <<>>, on, off, heard)
  BY <1>15, Code1 DEF b4
<1>17. Here(<<s5>>, on, off, heard)
  BY <1>5, <1>16, HighLast DEF s5
<1>18. Here(b5, on, off, heard)
  BY <1>17 DEF b5
<1>19. Here(b5 \o <<>>, on, off, heard)
  BY <1>18, Code1 DEF b5
<1>20. Enters("haswell", "S3S5", on2, off2, heard)
  BY <1>1, HaswellEnters DEF on2, on1, off2, off1
<1>21. Here(<<s3>>, on2, off2, heard)
  BY <1>20, GoRule, Code1 DEF s3
<1>22. Here(HaswellShutdown \o <<s3>>, on, off, heard)
  BY <1>21, HaswellShutdownThen, Code1 DEF on1, off1, on2, off2
<1>23. Here(b6, on, off, heard)
  BY <1>22 DEF b6
<1>24. Here(b6 \o <<>>, on, off, heard)
  BY <1>23, HaswellShutdownEnd, Code1 DEF b6
<1>25. Here(<<s6>>, on, off, heard)
  BY <1>19, <1>24, HasLast DEF s6
<1> QED BY <1>25, HaswellIsS3 DEF s1, b1, s2, b2, s3, b3, s4, b4, s5, b5, b6,
         s6

\* POWER_S0
LEMMA HaswellS0 ==
  ASSUME NEW on, NEW off, NEW heard, Enters("haswell", "S0", on, off, heard)
  PROVE  Fine("haswell", "S0", Haswell("S0"), on, off, heard)
<1> DEFINE Here(todo, on_, off_, heard_) == Fine("haswell", "S0", todo, on_, off_, heard_)
           s1 == Stay
           b1 == <<s1>>
           s2 == Go("S0S3")
           b2 == <<s2>>
           s3 == High("SLP_S3", b1, b2)
           b3 == <<s3>>
           b4 == HaswellShutdown \o <<s2>>
           s4 == Has({"PP5000", "PP1350", "PP1050"}, b3, b4)
           on1 == on \ {"DPWROK"}
           off1 == off \cup {"DPWROK"}
           on2 == on1 \ {"RSMRST_L"}
           off2 == off1 \cup {"RSMRST_L"}
<1> HIDE DEF s1, b1, s2, b2, s3, b3, b4, s4, on1, off1, on2, off2
<1>1. "PP1350_EN" \in on /\ heard \subseteq {"RESUME"}
  BY HaswellEnters
<1>2. Enters("haswell", "S0", on, off, heard)
  BY <1>1, HaswellEnters
<1>3. Here(<<s1>>, on, off, heard)
  BY <1>2, StayFine DEF s1
<1>4. Here(b1, on, off, heard)
  BY <1>3 DEF b1
<1>5. Here(b1 \o <<>>, on, off, heard)
  BY <1>4, Code1 DEF b1
<1>6. Enters("haswell", "S0S3", on, off, heard)
  BY <1>1, HaswellEnters
<1>7. Here(<<s2>>, on, off, heard)
  BY <1>6, GoRule, Code1 DEF s2
<1>8. Here(b2, on, off, heard)
  BY <1>7 DEF b2
<1>9. Here(b2 \o <<>>, on, off, heard)
  BY <1>8, Code1 DEF b2
<1>10. Here(<<s3>>, on, off, heard)
  BY <1>5, <1>9, HighLast DEF s3
<1>11. Here(b3, on, off, heard)
  BY <1>10 DEF b3
<1>12. Here(b3 \o <<>>, on, off, heard)
  BY <1>11, Code1 DEF b3
<1>13. Enters("haswell", "S0S3", on2, off2, heard)
  BY <1>1, HaswellEnters DEF on2, on1, off2, off1
<1>14. Here(<<s2>>, on2, off2, heard)
  BY <1>13, GoRule, Code1 DEF s2
<1>15. Here(HaswellShutdown \o <<s2>>, on, off, heard)
  BY <1>14, HaswellShutdownThen, Code1 DEF on1, off1, on2, off2
<1>16. Here(b4, on, off, heard)
  BY <1>15 DEF b4
<1>17. Here(b4 \o <<>>, on, off, heard)
  BY <1>16, HaswellShutdownEnd, Code1 DEF b4
<1>18. Here(<<s4>>, on, off, heard)
  BY <1>12, <1>17, HasLast DEF s4
<1> QED BY <1>18, HaswellIsS0 DEF s1, b1, s2, b2, s3, b3, b4, s4

\* POWER_G3S5
LEMMA HaswellG3S5 ==
  ASSUME NEW on, NEW off, NEW heard, Enters("haswell", "G3S5", on, off, heard)
  PROVE  Fine("haswell", "G3S5", Haswell("G3S5"), on, off, heard)
<1> DEFINE Here(todo, on_, off_, heard_) == Fine("haswell", "G3S5", todo, on_, off_, heard_)
           s1 == On("DPWROK")
           s2 == Go("G3")
           b1 == HaswellShutdown \o <<s2>>
           s3 == Wait({"SLP_SUS"}, b1)
           s4 == On("SUSP_VR_EN")
           s5 == Off("SUSP_VR_EN")
           b2 == <<s5>> \o HaswellShutdown \o <<s2>>
           s6 == Wait({"PP1050"}, b2)
           s7 == On("RSMRST_L")
           s8 == Go("S5")
           r1 == <<s1, s3, s4, s6, s7, s8>>
           r2 == <<s3, s4, s6, s7, s8>>
           r3 == <<s4, s6, s7, s8>>
           r4 == <<s6, s7, s8>>
           on1 == on \cup {"DPWROK"}
           off1 == off \ {"DPWROK"}
           on2 == on1 \cup {"SUSP_VR_EN"}
           off2 == off1 \ {"SUSP_VR_EN"}
           on3 == on2 \cup {"RSMRST_L"}
           off3 == off2 \ {"RSMRST_L"}
           on4 == on2 \ {"SUSP_VR_EN"}
           off4 == off2 \cup {"SUSP_VR_EN"}
           on5 == on4 \ {"DPWROK"}
           off5 == off4 \cup {"DPWROK"}
           on6 == on5 \ {"RSMRST_L"}
           off6 == off5 \cup {"RSMRST_L"}
           on7 == on1 \ {"DPWROK"}
           off7 == off1 \cup {"DPWROK"}
           on8 == on7 \ {"RSMRST_L"}
           off8 == off7 \cup {"RSMRST_L"}
<1> HIDE DEF s1, s2, b1, s3, s4, s5, b2, s6, s7, s8, r1, r2, r3, r4, on1,
             off1, on2, off2, on3, off3, on4, off4, on5, off5, on6, off6, on7,
             off7, on8, off8
<1>1. "PP3300_DX_EN" \in off /\ "VCORE_EN" \in off /\ "RSMRST_L" \in off /\
         heard \subseteq {"SHUTDOWN"}
  BY HaswellEnters
<1>2. MayTurnOn("haswell", "DPWROK", on, off)
  BY <1>1, HaswellMayTurnOn
<1>3. MayTurnOn("haswell", "SUSP_VR_EN", on1, off1)
  BY <1>1, HaswellMayTurnOn DEF on1, off1
<1>4. MayTurnOn("haswell", "RSMRST_L", on2, off2)
  BY <1>1, HaswellMayTurnOn DEF on2, on1, off2, off1
<1>5. Enters("haswell", "S5", on3, off3, heard)
  BY <1>1, HaswellEnters DEF on3, on2, on1, off3, off2, off1
<1>6. Here(<<s8>>, on3, off3, heard)
  BY <1>5, GoRule, Code1 DEF s8
<1>7. Here(<<s7, s8>>, on2, off2, heard)
  BY <1>6, <1>4, OnRule, Code2 DEF s7, on3, off3
<1>8. MayTurnOff("haswell", "SUSP_VR_EN", off2)
  BY <1>1, HaswellMayTurnOff DEF off2, off1
<1>9. Enters("haswell", "G3", on6, off6, heard)
  BY <1>1, HaswellEnters DEF on6, on5, on4, on2, on1, off6, off5, off4, off2,
     off1
<1>10. Here(<<s2>>, on6, off6, heard)
  BY <1>9, GoRule, Code1 DEF s2
<1>11. Here(HaswellShutdown \o <<s2>>, on4, off4, heard)
  BY <1>10, HaswellShutdownThen, Code1 DEF on5, off5, on6, off6
<1>12. IsCode(HaswellShutdown \o <<s2>>)
  BY HaswellShutdownAfter, Code1
<1>13. Here(<<s5>> \o (HaswellShutdown \o <<s2>>), on2, off2, heard)
  BY <1>11, <1>12, <1>8, OffRule, Prepend1 DEF s5, on4, off4
<1>14. Here(b2, on2, off2, heard)
  BY <1>13, HaswellShutdownAfter, Code1 DEF b2
<1>15. IsCode(b2)
  BY HaswellShutdownAfter, Code1 DEF b2
<1>16. IsCode(r4)
  BY Code3 DEF r4
<1>17. r4 # <<>> /\ Head(r4) = s6 /\ Tail(r4) = <<s7, s8>>
  BY Code3 DEF r4
<1>18. Here(r4, on2, off2, heard)
  BY <1>7, <1>14, <1>15, WaitRule, <1>17, <1>16 DEF s6
<1>19. r3 # <<>> /\ Head(r3) = s4 /\ Tail(r3) = r4
  BY Code4 DEF r3, r4
<1>20. Here(r3, on1, off1, heard)
  BY <1>18, <1>3, OnRule, <1>19 DEF s4, on2, off2
<1>21. Enters("haswell", "G3", on8, off8, heard)
  BY <1>1, HaswellEnters DEF on8, on7, on1, off8, off7, off1
<1>22. Here(<<s2>>, on8, off8, heard)
  BY <1>21, GoRule, Code1 DEF s2
<1>23. Here(HaswellShutdown \o <<s2>>, on1, off1, heard)
  BY <1>22, HaswellShutdownThen, Code1 DEF on7, off7, on8, off8
<1>24. Here(b1, on1, off1, heard)
  BY <1>23 DEF b1
<1>25. IsCode(b1)
  BY Code1, HaswellShutdownAfter DEF b1
<1>26. IsCode(r2)
  BY Code5 DEF r2
<1>27. r2 # <<>> /\ Head(r2) = s3 /\ Tail(r2) = r3
  BY Code5 DEF r2, r3
<1>28. Here(r2, on1, off1, heard)
  BY <1>20, <1>24, <1>25, WaitRule, <1>27, <1>26 DEF s3
<1>29. r1 # <<>> /\ Head(r1) = s1 /\ Tail(r1) = r2
  BY Code6 DEF r1, r2
<1>30. Here(r1, on, off, heard)
  BY <1>28, <1>2, OnRule, <1>29 DEF s1, on1, off1
<1> QED BY <1>30, HaswellIsG3S5 DEF s1, s2, b1, s3, s4, s5, b2, s6, s7, s8,
         r1, r2, r3, r4

\* POWER_S5S3
LEMMA HaswellS5S3 ==
  ASSUME NEW on, NEW off, NEW heard, Enters("haswell", "S5S3", on, off, heard)
  PROVE  Fine("haswell", "S5S3", Haswell("S5S3"), on, off, heard)
<1> DEFINE Here(todo, on_, off_, heard_) == Fine("haswell", "S5S3", todo, on_, off_, heard_)
           s1 == On("PP5000_EN")
           s2 == Go("S5G3")
           b1 == HaswellShutdown \o <<s2>>
           s3 == Wait({"PP5000"}, b1)
           s4 == On("PP1350_EN")
           s5 == Wait({"PP5000", "PP1350"}, b1)
           s6 == Notify("STARTUP")
           s7 == Go("S3")
           r1 == <<s1, s3, s4, s5, s6, s7>>
           r2 == <<s3, s4, s5, s6, s7>>
           r3 == <<s4, s5, s6, s7>>
           r4 == <<s5, s6, s7>>
           on1 == on \cup {"PP5000_EN"}
           off1 == off \ {"PP5000_EN"}
           on2 == on1 \cup {"PP1350_EN"}
           off2 == off1 \ {"PP1350_EN"}
           on3 == on2 \ {"DPWROK"}
           off3 == off2 \cup {"DPWROK"}
           on4 == on3 \ {"RSMRST_L"}
           off4 == off3 \cup {"RSMRST_L"}
           on5 == on1 \ {"DPWROK"}
           off5 == off1 \cup {"DPWROK"}
           on6 == on5 \ {"RSMRST_L"}
           off6 == off5 \cup {"RSMRST_L"}
<1> HIDE DEF s1, s2, b1, s3, s4, s5, s6, s7, r1, r2, r3, r4, on1, off1, on2,
             off2, on3, off3, on4, off4, on5, off5, on6, off6
<1>1. "PP3300_DX_EN" \in off /\ "VCORE_EN" \in off /\ heard \subseteq
         {"SHUTDOWN"}
  BY HaswellEnters
<1>2. MayTurnOn("haswell", "PP5000_EN", on, off)
  BY <1>1, HaswellMayTurnOn
<1>3. MayTurnOn("haswell", "PP1350_EN", on1, off1)
  BY <1>1, HaswellMayTurnOn DEF on1, off1
<1>4. \A h \in heard : <<h, "STARTUP">> \in HookOrder
  BY <1>1, HooksInOrder
<1>5. Enters("haswell", "S3", on2, off2, {"STARTUP"})
  BY <1>1, HaswellEnters DEF on2, on1, off2, off1
<1>6. Here(<<s7>>, on2, off2, {"STARTUP"})
  BY <1>5, GoRule, Code1 DEF s7
<1>7. Here(<<s6, s7>>, on2, off2, heard)
  BY <1>6, <1>4, NotifyRule, Code2 DEF s6
<1>8. Enters("haswell", "S5G3", on4, off4, heard)
  BY <1>1, HaswellEnters DEF on4, on3, on2, on1, off4, off3, off2, off1
<1>9. Here(<<s2>>, on4, off4, heard)
  BY <1>8, GoRule, Code1 DEF s2
<1>10. Here(HaswellShutdown \o <<s2>>, on2, off2, heard)
  BY <1>9, HaswellShutdownThen, Code1 DEF on3, off3, on4, off4
<1>11. Here(b1, on2, off2, heard)
  BY <1>10 DEF b1
<1>12. IsCode(b1)
  BY Code1, HaswellShutdownAfter DEF b1
<1>13. IsCode(r4)
  BY Code3 DEF r4
<1>14. r4 # <<>> /\ Head(r4) = s5 /\ Tail(r4) = <<s6, s7>>
  BY Code3 DEF r4
<1>15. Here(r4, on2, off2, heard)
  BY <1>7, <1>11, <1>12, WaitRule, <1>14, <1>13 DEF s5
<1>16. r3 # <<>> /\ Head(r3) = s4 /\ Tail(r3) = r4
  BY Code4 DEF r3, r4
<1>17. Here(r3, on1, off1, heard)
  BY <1>15, <1>3, OnRule, <1>16 DEF s4, on2, off2
<1>18. Enters("haswell", "S5G3", on6, off6, heard)
  BY <1>1, HaswellEnters DEF on6, on5, on1, off6, off5, off1
<1>19. Here(<<s2>>, on6, off6, heard)
  BY <1>18, GoRule, Code1 DEF s2
<1>20. Here(HaswellShutdown \o <<s2>>, on1, off1, heard)
  BY <1>19, HaswellShutdownThen, Code1 DEF on5, off5, on6, off6
<1>21. Here(b1, on1, off1, heard)
  BY <1>20 DEF b1
<1>22. IsCode(r2)
  BY Code5 DEF r2
<1>23. r2 # <<>> /\ Head(r2) = s3 /\ Tail(r2) = r3
  BY Code5 DEF r2, r3
<1>24. Here(r2, on1, off1, heard)
  BY <1>17, <1>21, <1>12, WaitRule, <1>23, <1>22 DEF s3
<1>25. r1 # <<>> /\ Head(r1) = s1 /\ Tail(r1) = r2
  BY Code6 DEF r1, r2
<1>26. Here(r1, on, off, heard)
  BY <1>24, <1>2, OnRule, <1>25 DEF s1, on1, off1
<1> QED BY <1>26, HaswellIsS5S3 DEF s1, s2, b1, s3, s4, s5, s6, s7, r1, r2,
         r3, r4

\* POWER_S3S0
LEMMA HaswellS3S0 ==
  ASSUME NEW on, NEW off, NEW heard, Enters("haswell", "S3S0", on, off, heard)
  PROVE  Fine("haswell", "S3S0", Haswell("S3S0"), on, off, heard)
<1> DEFINE Here(todo, on_, off_, heard_) == Fine("haswell", "S3S0", todo, on_, off_, heard_)
           s1 == On("PP3300_DX_EN")
           s2 == Off("PP3300_DX_EN")
           s3 == Go("S3")
           b1 == HaswellShutdown \o <<s2, s3>>
           s4 == Wait({"PP5000", "PP1350", "PP1050"}, b1)
           s5 == On("VCORE_EN")
           s6 == Notify("RESUME")
           s7 == On("PCH_PWROK")
           s8 == On("SYS_PWROK")
           s9 == Go("S0")
           r1 == <<s1, s4, s5, s6, s7, s8, s9>>
           r2 == <<s4, s5, s6, s7, s8, s9>>
           r3 == <<s5, s6, s7, s8, s9>>
           r4 == <<s6, s7, s8, s9>>
           r5 == <<s7, s8, s9>>
           on1 == on \cup {"PP3300_DX_EN"}
           off1 == off \ {"PP3300_DX_EN"}
           on2 == on1 \cup {"VCORE_EN"}
           off2 == off1 \ {"VCORE_EN"}
           on3 == on2 \cup {"PCH_PWROK"}
           off3 == off2 \ {"PCH_PWROK"}
           on4 == on3 \cup {"SYS_PWROK"}
           off4 == off3 \ {"SYS_PWROK"}
           on5 == on1 \ {"DPWROK"}
           off5 == off1 \cup {"DPWROK"}
           on6 == on5 \ {"RSMRST_L"}
           off6 == off5 \cup {"RSMRST_L"}
           on7 == on6 \ {"PP3300_DX_EN"}
           off7 == off6 \cup {"PP3300_DX_EN"}
<1> HIDE DEF s1, s2, s3, b1, s4, s5, s6, s7, s8, s9, r1, r2, r3, r4, r5, on1,
             off1, on2, off2, on3, off3, on4, off4, on5, off5, on6, off6, on7,
             off7
<1>1. "PP3300_DX_EN" \in off /\ "VCORE_EN" \in off /\ "PP1350_EN" \in on /\
         heard \subseteq {"STARTUP", "SUSPEND"}
  BY HaswellEnters
<1>2. MayTurnOn("haswell", "PP3300_DX_EN", on, off)
  BY <1>1, HaswellMayTurnOn
<1>3. MayTurnOn("haswell", "VCORE_EN", on1, off1)
  BY <1>1, HaswellMayTurnOn DEF on1, off1
<1>4. \A h \in heard : <<h, "RESUME">> \in HookOrder
  BY <1>1, HooksInOrder
<1>5. MayTurnOn("haswell", "PCH_PWROK", on2, off2)
  BY <1>1, HaswellMayTurnOn DEF on2, on1, off2, off1
<1>6. MayTurnOn("haswell", "SYS_PWROK", on3, off3)
  BY <1>1, HaswellMayTurnOn DEF on3, on2, on1, off3, off2, off1
<1>7. Enters("haswell", "S0", on4, off4, {"RESUME"})
  BY <1>1, HaswellEnters DEF on4, on3, on2, on1, off4, off3, off2, off1
<1>8. Here(<<s9>>, on4, off4, {"RESUME"})
  BY <1>7, GoRule, Code1 DEF s9
<1>9. Here(<<s8, s9>>, on3, off3, {"RESUME"})
  BY <1>8, <1>6, OnRule, Code2 DEF s8, on4, off4
<1>10. r5 # <<>> /\ Head(r5) = s7 /\ Tail(r5) = <<s8, s9>>
  BY Code3 DEF r5
<1>11. Here(r5, on2, off2, {"RESUME"})
  BY <1>9, <1>5, OnRule, <1>10 DEF s7, on3, off3
<1>12. r4 # <<>> /\ Head(r4) = s6 /\ Tail(r4) = r5
  BY Code4 DEF r4, r5
<1>13. Here(r4, on2, off2, heard)
  BY <1>11, <1>4, NotifyRule, <1>12 DEF s6
<1>14. r3 # <<>> /\ Head(r3) = s5 /\ Tail(r3) = r4
  BY Code5 DEF r3, r4
<1>15. Here(r3, on1, off1, heard)
  BY <1>13, <1>3, OnRule, <1>14 DEF s5, on2, off2
<1>16. MayTurnOff("haswell", "PP3300_DX_EN", off6)
  BY <1>1, HaswellMayTurnOff DEF off6, off5, off1
<1>17. Enters("haswell", "S3", on7, off7, heard)
  BY <1>1, HaswellEnters DEF on7, on6, on5, on1, off7, off6, off5, off1
<1>18. Here(<<s3>>, on7, off7, heard)
  BY <1>17, GoRule, Code1 DEF s3
<1>19. Here(<<s2, s3>>, on6, off6, heard)
  BY <1>18, <1>16, OffRule, Code2 DEF s2, on7, off7
<1>20. Here(HaswellShutdown \o <<s2, s3>>, on1, off1, heard)
  BY <1>19, HaswellShutdownThen, Code2 DEF on5, off5, on6, off6
<1>21. Here(b1, on1, off1, heard)
  BY <1>20 DEF b1
<1>22. IsCode(b1)
  BY Code2, HaswellShutdownAfter, Code1 DEF b1
<1>23. IsCode(r2)
  BY Code6 DEF r2
<1>24. r2 # <<>> /\ Head(r2) = s4 /\ Tail(r2) = r3
  BY Code6 DEF r2, r3
<1>25. Here(r2, on1, off1, heard)
  BY <1>15, <1>21, <1>22, WaitRule, <1>24, <1>23 DEF s4
<1>26. r1 # <<>> /\ Head(r1) = s1 /\ Tail(r1) = r2
  BY Code7 DEF r1, r2
<1>27. Here(r1, on, off, heard)
  BY <1>25, <1>2, OnRule, <1>26 DEF s1, on1, off1
<1> QED BY <1>27, HaswellIsS3S0 DEF s1, s2, s3, b1, s4, s5, s6, s7, s8, s9,
         r1, r2, r3, r4, r5

\* POWER_S0S3
LEMMA HaswellS0S3 ==
  ASSUME NEW on, NEW off, NEW heard, Enters("haswell", "S0S3", on, off, heard)
  PROVE  Fine("haswell", "S0S3", Haswell("S0S3"), on, off, heard)
<1> DEFINE Here(todo, on_, off_, heard_) == Fine("haswell", "S0S3", todo, on_, off_, heard_)
           s1 == Notify("SUSPEND")
           s2 == Off("SYS_PWROK")
           s3 == Off("PCH_PWROK")
           s4 == Off("VCORE_EN")
           s5 == Off("PP3300_DX_EN")
           s6 == Go("S3")
           r1 == <<s1, s2, s3, s4, s5, s6>>
           r2 == <<s2, s3, s4, s5, s6>>
           r3 == <<s3, s4, s5, s6>>
           r4 == <<s4, s5, s6>>
           on1 == on \ {"SYS_PWROK"}
           off1 == off \cup {"SYS_PWROK"}
           on2 == on1 \ {"PCH_PWROK"}
           off2 == off1 \cup {"PCH_PWROK"}
           on3 == on2 \ {"VCORE_EN"}
           off3 == off2 \cup {"VCORE_EN"}
           on4 == on3 \ {"PP3300_DX_EN"}
           off4 == off3 \cup {"PP3300_DX_EN"}
<1> HIDE DEF s1, s2, s3, s4, s5, s6, r1, r2, r3, r4, on1, off1, on2, off2,
             on3, off3, on4, off4
<1>1. "PP1350_EN" \in on /\ heard \subseteq {"RESUME"}
  BY HaswellEnters
<1>2. \A h \in heard : <<h, "SUSPEND">> \in HookOrder
  BY <1>1, HooksInOrder
<1>3. MayTurnOff("haswell", "SYS_PWROK", off)
  BY <1>1, HaswellMayTurnOff
<1>4. MayTurnOff("haswell", "PCH_PWROK", off1)
  BY <1>1, HaswellMayTurnOff DEF off1
<1>5. MayTurnOff("haswell", "VCORE_EN", off2)
  BY <1>1, HaswellMayTurnOff DEF off2, off1
<1>6. MayTurnOff("haswell", "PP3300_DX_EN", off3)
  BY <1>1, HaswellMayTurnOff DEF off3, off2, off1
<1>7. Enters("haswell", "S3", on4, off4, {"SUSPEND"})
  BY <1>1, HaswellEnters DEF on4, on3, on2, on1, off4, off3, off2, off1
<1>8. Here(<<s6>>, on4, off4, {"SUSPEND"})
  BY <1>7, GoRule, Code1 DEF s6
<1>9. Here(<<s5, s6>>, on3, off3, {"SUSPEND"})
  BY <1>8, <1>6, OffRule, Code2 DEF s5, on4, off4
<1>10. r4 # <<>> /\ Head(r4) = s4 /\ Tail(r4) = <<s5, s6>>
  BY Code3 DEF r4
<1>11. Here(r4, on2, off2, {"SUSPEND"})
  BY <1>9, <1>5, OffRule, <1>10 DEF s4, on3, off3
<1>12. r3 # <<>> /\ Head(r3) = s3 /\ Tail(r3) = r4
  BY Code4 DEF r3, r4
<1>13. Here(r3, on1, off1, {"SUSPEND"})
  BY <1>11, <1>4, OffRule, <1>12 DEF s3, on2, off2
<1>14. r2 # <<>> /\ Head(r2) = s2 /\ Tail(r2) = r3
  BY Code5 DEF r2, r3
<1>15. Here(r2, on, off, {"SUSPEND"})
  BY <1>13, <1>3, OffRule, <1>14 DEF s2, on1, off1
<1>16. r1 # <<>> /\ Head(r1) = s1 /\ Tail(r1) = r2
  BY Code6 DEF r1, r2
<1>17. Here(r1, on, off, heard)
  BY <1>15, <1>2, NotifyRule, <1>16 DEF s1
<1> QED BY <1>17, HaswellIsS0S3 DEF s1, s2, s3, s4, s5, s6, r1, r2, r3, r4

\* POWER_S3S5
LEMMA HaswellS3S5 ==
  ASSUME NEW on, NEW off, NEW heard, Enters("haswell", "S3S5", on, off, heard)
  PROVE  Fine("haswell", "S3S5", Haswell("S3S5"), on, off, heard)
<1> DEFINE Here(todo, on_, off_, heard_) == Fine("haswell", "S3S5", todo, on_, off_, heard_)
           s1 == Notify("SHUTDOWN")
           s2 == Off("PP1350_EN")
           s3 == Off("PP5000_EN")
           s4 == Go("S5")
           b1 == <<s4>>
           s5 == Go("S5G3")
           b2 == <<s5>>
           s6 == If("pause_in_s5", b1, b2)
           r1 == <<s1, s2, s3, s6>>
           r2 == <<s2, s3, s6>>
           on1 == on \ {"PP1350_EN"}
           off1 == off \cup {"PP1350_EN"}
           on2 == on1 \ {"PP5000_EN"}
           off2 == off1 \cup {"PP5000_EN"}
           off3 == off2 \cup {"pause_in_s5"}
<1> HIDE DEF s1, s2, s3, s4, b1, s5, b2, s6, r1, r2, on1, off1, on2, off2,
             off3
<1>1. "PP3300_DX_EN" \in off /\ "VCORE_EN" \in off /\ "PP1350_EN" \in on /\
         heard \subseteq {"STARTUP", "SUSPEND"}
  BY HaswellEnters
<1>2. \A h \in heard : <<h, "SHUTDOWN">> \in HookOrder
  BY <1>1, HooksInOrder
<1>3. MayTurnOff("haswell", "PP1350_EN", off)
  BY <1>1, HaswellMayTurnOff
<1>4. MayTurnOff("haswell", "PP5000_EN", off1)
  BY <1>1, HaswellMayTurnOff DEF off1
<1>5. Enters("haswell", "S5", on2, off2, {"SHUTDOWN"})
  BY <1>1, HaswellEnters DEF on2, on1, off2, off1
<1>6. Here(<<s4>>, on2, off2, {"SHUTDOWN"})
  BY <1>5, GoRule, Code1 DEF s4
<1>7. Here(b1, on2, off2, {"SHUTDOWN"})
  BY <1>6 DEF b1
<1>8. Here(b1 \o <<>>, on2, off2, {"SHUTDOWN"})
  BY <1>7, Code1 DEF b1
<1>9. Enters("haswell", "S5G3", on2, off3, {"SHUTDOWN"})
  BY <1>1, HaswellEnters DEF on2, on1, off3, off2, off1
<1>10. Here(<<s5>>, on2, off3, {"SHUTDOWN"})
  BY <1>9, GoRule, Code1 DEF s5
<1>11. Here(b2, on2, off3, {"SHUTDOWN"})
  BY <1>10 DEF b2
<1>12. Here(b2 \o <<>>, on2, off3, {"SHUTDOWN"})
  BY <1>11, Code1 DEF b2
<1>13. "pause_in_s5" \in Flags
  BY DEF Flags
<1>14. Here(<<s6>>, on2, off2, {"SHUTDOWN"})
  BY <1>8, <1>12, <1>13, IfLast DEF s6, off3
<1>15. Here(<<s3, s6>>, on1, off1, {"SHUTDOWN"})
  BY <1>14, <1>4, OffRule, Code2 DEF s3, on2, off2
<1>16. r2 # <<>> /\ Head(r2) = s2 /\ Tail(r2) = <<s3, s6>>
  BY Code3 DEF r2
<1>17. Here(r2, on, off, {"SHUTDOWN"})
  BY <1>15, <1>3, OffRule, <1>16 DEF s2, on1, off1
<1>18. r1 # <<>> /\ Head(r1) = s1 /\ Tail(r1) = r2
  BY Code4 DEF r1, r2
<1>19. Here(r1, on, off, heard)
  BY <1>17, <1>2, NotifyRule, <1>18 DEF s1
<1> QED BY <1>19, HaswellIsS3S5 DEF s1, s2, s3, s4, b1, s5, b2, s6, r1, r2

\* POWER_S5G3
LEMMA HaswellS5G3 ==
  ASSUME NEW on, NEW off, NEW heard, Enters("haswell", "S5G3", on, off, heard)
  PROVE  Fine("haswell", "S5G3", Haswell("S5G3"), on, off, heard)
<1> DEFINE Here(todo, on_, off_, heard_) == Fine("haswell", "S5G3", todo, on_, off_, heard_)
           s1 == Off("DPWROK")
           s2 == Off("RSMRST_L")
           s3 == Off("SUSP_VR_EN")
           s4 == Go("G3")
           r1 == <<s1, s2, s3, s4>>
           r2 == <<s2, s3, s4>>
           on1 == on \ {"DPWROK"}
           off1 == off \cup {"DPWROK"}
           on2 == on1 \ {"RSMRST_L"}
           off2 == off1 \cup {"RSMRST_L"}
           on3 == on2 \ {"SUSP_VR_EN"}
           off3 == off2 \cup {"SUSP_VR_EN"}
<1> HIDE DEF s1, s2, s3, s4, r1, r2, on1, off1, on2, off2, on3, off3
<1>1. "PP3300_DX_EN" \in off /\ "VCORE_EN" \in off /\ heard \subseteq
         {"SHUTDOWN"}
  BY HaswellEnters
<1>2. MayTurnOff("haswell", "DPWROK", off)
  BY <1>1, HaswellMayTurnOff
<1>3. MayTurnOff("haswell", "RSMRST_L", off1)
  BY <1>1, HaswellMayTurnOff DEF off1
<1>4. MayTurnOff("haswell", "SUSP_VR_EN", off2)
  BY <1>1, HaswellMayTurnOff DEF off2, off1
<1>5. Enters("haswell", "G3", on3, off3, heard)
  BY <1>1, HaswellEnters DEF on3, on2, on1, off3, off2, off1
<1>6. Here(<<s4>>, on3, off3, heard)
  BY <1>5, GoRule, Code1 DEF s4
<1>7. Here(<<s3, s4>>, on2, off2, heard)
  BY <1>6, <1>4, OffRule, Code2 DEF s3, on3, off3
<1>8. r2 # <<>> /\ Head(r2) = s2 /\ Tail(r2) = <<s3, s4>>
  BY Code3 DEF r2
<1>9. Here(r2, on1, off1, heard)
  BY <1>7, <1>3, OffRule, <1>8 DEF s2, on2, off2
<1>10. r1 # <<>> /\ Head(r1) = s1 /\ Tail(r1) = r2
  BY Code4 DEF r1, r2
<1>11. Here(r1, on, off, heard)
  BY <1>9, <1>2, OffRule, <1>10 DEF s1, on1, off1
<1> QED BY <1>11, HaswellIsS5G3 DEF s1, s2, s3, s4, r1, r2

-----------------------------------------------------------------------------
(* Bay Trail                                                               *)

LEMMA BaytrailOrder ==
  \A o : o \in RailOrder("baytrail") <=> \/ o = <<"RSMRST_L", "SUSP_VR_EN">>
         \/ o = <<"PP3300_DX_EN", "PP1350_EN">>
         \/ o = <<"PP3300_DX_EN", "PP5000_EN">>
         \/ o = <<"VCORE_EN", "PP3300_DX_EN">>
         \/ o = <<"CORE_PWROK", "VCORE_EN">>
         \/ o = <<"SYS_PWROK", "VCORE_EN">>
  BY DEF RailOrder

\* What must be known to turn an output on, or off
LEMMA BaytrailMayTurnOn ==
  ASSUME NEW on, NEW off
  PROVE  /\ MayTurnOn("baytrail", "SUSP_VR_EN", on, off)
         /\ "SUSP_VR_EN" \in on /\ "restart_from_s5" \in off => MayTurnOn("baytrail", "RSMRST_L", on, off)
         /\ MayTurnOn("baytrail", "PP1350_EN", on, off)
         /\ MayTurnOn("baytrail", "PP5000_EN", on, off)
         /\ "PP1350_EN" \in on /\ "PP5000_EN" \in on => MayTurnOn("baytrail", "PP3300_DX_EN", on, off)
         /\ "PP3300_DX_EN" \in on => MayTurnOn("baytrail", "VCORE_EN", on, off)
         /\ "VCORE_EN" \in on => MayTurnOn("baytrail", "SYS_PWROK", on, off)
         /\ "VCORE_EN" \in on => MayTurnOn("baytrail", "CORE_PWROK", on, off)
  BY BaytrailOrder DEF MayTurnOn, Kept, Flags

LEMMA BaytrailMayTurnOff ==
  ASSUME NEW off
  PROVE  /\ "RSMRST_L" \in off => MayTurnOff("baytrail", "SUSP_VR_EN", off)
         /\ MayTurnOff("baytrail", "RSMRST_L", off)
         /\ "PP3300_DX_EN" \in off => MayTurnOff("baytrail", "PP1350_EN", off)
         /\ "PP3300_DX_EN" \in off => MayTurnOff("baytrail", "PP5000_EN", off)
         /\ "VCORE_EN" \in off => MayTurnOff("baytrail", "PP3300_DX_EN", off)
         /\ "CORE_PWROK" \in off /\ "SYS_PWROK" \in off => MayTurnOff("baytrail", "VCORE_EN", off)
         /\ MayTurnOff("baytrail", "SYS_PWROK", off)
         /\ MayTurnOff("baytrail", "CORE_PWROK", off)
  BY BaytrailOrder DEF MayTurnOff, Flags

\* What is known when a pass begins
LEMMA BaytrailEnters ==
  ASSUME NEW on, NEW off, NEW heard
  PROVE  /\ Enters("baytrail", "G3", on, off, heard) <=>
              /\ "PP3300_DX_EN" \in off
              /\ "VCORE_EN" \in off
              /\ "RSMRST_L" \in off
              /\ "restart_from_s5" \in off
              /\ heard \subseteq {"SHUTDOWN"}
         /\ Enters("baytrail", "S5", on, off, heard) <=>
              /\ "PP3300_DX_EN" \in off
              /\ "VCORE_EN" \in off
              /\ "restart_from_s5" \in off
              /\ heard \subseteq {"SHUTDOWN"}
         /\ Enters("baytrail", "S3", on, off, heard) <=>
              /\ "PP3300_DX_EN" \in off
              /\ "VCORE_EN" \in off
              /\ "PP1350_EN" \in on
              /\ heard \subseteq {"STARTUP", "SUSPEND"}
         /\ Enters("baytrail", "S0", on, off, heard) <=>
              /\ "PP1350_EN" \in on
              /\ heard \subseteq {"RESUME"}
         /\ Enters("baytrail", "G3S5", on, off, heard) <=>
              /\ "PP3300_DX_EN" \in off
              /\ "VCORE_EN" \in off
              /\ "RSMRST_L" \in off
              /\ "restart_from_s5" \in off
              /\ heard \subseteq {"SHUTDOWN"}
         /\ Enters("baytrail", "S5S3", on, off, heard) <=>
              /\ "PP3300_DX_EN" \in off
              /\ "VCORE_EN" \in off
              /\ "restart_from_s5" \in off
              /\ heard \subseteq {"SHUTDOWN"}
         /\ Enters("baytrail", "S3S0", on, off, heard) <=>
              /\ "PP3300_DX_EN" \in off
              /\ "VCORE_EN" \in off
              /\ "PP1350_EN" \in on
              /\ heard \subseteq {"STARTUP", "SUSPEND"}
         /\ Enters("baytrail", "S0S3", on, off, heard) <=>
              /\ "PP1350_EN" \in on
              /\ heard \subseteq {"RESUME"}
         /\ Enters("baytrail", "S3S5", on, off, heard) <=>
              /\ "PP3300_DX_EN" \in off
              /\ "VCORE_EN" \in off
              /\ "PP1350_EN" \in on
              /\ heard \subseteq {"STARTUP", "SUSPEND"}
         /\ Enters("baytrail", "S5G3", on, off, heard) <=>
              /\ "PP3300_DX_EN" \in off
              /\ "VCORE_EN" \in off
              /\ "restart_from_s5" \in off
              /\ heard \subseteq {"SHUTDOWN"}
  BY DEF Enters, States, OffStates, UpStates, HeardIn, HighIn, LowIn, Sequenced

\* A forced shutdown and what is done after it
LEMMA BaytrailShutdownThen ==
  ASSUME NEW st, NEW rest, IsCode(rest), NEW on, NEW off, NEW heard,
         Fine("baytrail", st, rest, (on \ {"SYS_PWROK"}) \ {"RSMRST_L"},
              (off \cup {"SYS_PWROK"}) \cup {"RSMRST_L"}, heard)
  PROVE  Fine("baytrail", st, BaytrailShutdown \o rest, on, off, heard)
<1>1. /\ MayTurnOff("baytrail", "SYS_PWROK", off)
      /\ MayTurnOff("baytrail", "RSMRST_L", off \cup {"SYS_PWROK"})
  BY BaytrailMayTurnOff
<1>2. Fine("baytrail", st, <<Off("RSMRST_L")>> \o rest, on \ {"SYS_PWROK"}, off \cup {"SYS_PWROK"}, heard)
  BY <1>1, OffRule, Prepend1
<1>3. Fine("baytrail", st, <<Off("SYS_PWROK"), Off("RSMRST_L")>> \o rest, on, off, heard)
  BY <1>1, <1>2, OffRule, Prepend2
<1> QED BY <1>3 DEF BaytrailShutdown

LEMMA BaytrailShutdownIsCode == IsCode(BaytrailShutdown)
  BY Code2 DEF BaytrailShutdown

LEMMA BaytrailShutdownEnd ==
  ASSUME NEW rest, IsCode(rest)
  PROVE  (BaytrailShutdown \o rest) \o <<>> = BaytrailShutdown \o rest
<1>1. IsCode(BaytrailShutdown \o rest)
  BY JoinCode, BaytrailShutdownIsCode
<1> QED BY <1>1, CodeAround

LEMMA BaytrailShutdownAfter ==
  ASSUME NEW rest, IsCode(rest), NEW s, IsCode(s)
  PROVE  /\ (s \o BaytrailShutdown) \o rest = s \o (BaytrailShutdown \o rest)
         /\ (BaytrailShutdown \o s) \o rest = BaytrailShutdown \o (s \o rest)
         /\ IsCode(BaytrailShutdown \o rest) /\ IsCode((s \o BaytrailShutdown) \o rest)
<1>1. (s \o BaytrailShutdown) \o rest = s \o (BaytrailShutdown \o rest)
  BY JoinAssociative, BaytrailShutdownIsCode
<1>2. (BaytrailShutdown \o s) \o rest = BaytrailShutdown \o (s \o rest)
  BY JoinAssociative, BaytrailShutdownIsCode
<1>3. IsCode(BaytrailShutdown \o rest) /\ IsCode((s \o BaytrailShutdown) \o rest)
  BY JoinCode, BaytrailShutdownIsCode
<1> QED BY <1>1, <1>2, <1>3

\* The statements of each state
LEMMA BaytrailIsG3 ==
  Baytrail("G3") =
    <<Stay>>
  BY DEF Baytrail, BaytrailResume

LEMMA BaytrailIsS5 ==
  Baytrail("S5") =
    <<High("SLP_S4", <<Go("S5S3")>>, <<Stay>>)>>
  BY DEF Baytrail, BaytrailResume

LEMMA BaytrailIsS3 ==
  Baytrail("S3") =
    <<Has({"PGOOD_S5"}, <<High("SLP_S3", <<Go("S3S0")>>, <<High("SLP_S4",
      <<Stay>>, <<Go("S3S5")>>)>>)>>, BaytrailShutdown \o
      <<Go("S3S5")>>)>>
  BY DEF Baytrail, BaytrailResume

LEMMA BaytrailIsS0 ==
  Baytrail("S0") =
    <<Has({"PGOOD_S5", "PP5000"}, <<High("SLP_S3", <<Stay>>,
      <<Go("S0S3")>>)>>, BaytrailShutdown \o <<Go("S0S3")>>)>>
  BY DEF Baytrail, BaytrailResume

LEMMA BaytrailIsG3S5 ==
  Baytrail("G3S5") =
    <<On("SUSP_VR_EN"), Wait({"PGOOD_S5"}, <<Off("SUSP_VR_EN")>> \o
      BaytrailShutdown \o <<Go("G3")>>), On("RSMRST_L"), Go("S5")>>
  BY DEF Baytrail, BaytrailResume

LEMMA BaytrailIsS5S3 ==
  Baytrail("S5S3") =
    <<Wait({"PGOOD_S5"}, BaytrailShutdown \o <<Go("S5G3")>>),
      On("PP1350_EN"), Wait({"PGOOD_S5"}, BaytrailShutdown \o
      <<Go("S5G3")>>), Notify("STARTUP"), Go("S3")>>
  BY DEF Baytrail, BaytrailResume

LEMMA BaytrailIsS3S0 ==
  Baytrail("S3S0") =
    <<On("PP5000_EN"), On("PP3300_DX_EN"), Wait({"PGOOD_S5", "PP5000"},
      BaytrailShutdown \o <<Off("PP3300_DX_EN"), Off("PP5000_EN"),
      Go("S3")>>), On("VCORE_EN"), Notify("RESUME"), On("SYS_PWROK"),
      On("CORE_PWROK"), Either(<<>>, BaytrailShutdown \o
      <<Raise("restart_from_s5")>>), Go("S0")>>
  BY DEF Baytrail, BaytrailResume

LEMMA BaytrailIsS0S3 ==
  Baytrail("S0S3") =
    <<Notify("SUSPEND"), Off("SYS_PWROK"), Off("CORE_PWROK"),
      Off("VCORE_EN"), Off("PP3300_DX_EN"), Off("PP5000_EN"), Go("S3")>>
  BY DEF Baytrail, BaytrailResume

LEMMA BaytrailIsS3S5 ==
  Baytrail("S3S5") =
    <<Notify("SHUTDOWN"), Off("PP5000_EN"), Off("PP1350_EN"),
      If("restart_from_s5", <<Lower("restart_from_s5"), Go("G3S5")>>,
      <<>>), If("pause_in_s5", <<Go("S5")>>, <<Go("S5G3")>>)>>
  BY DEF Baytrail, BaytrailResume

LEMMA BaytrailIsS5G3 ==
  Baytrail("S5G3") =
    <<Off("RSMRST_L"), Off("SUSP_VR_EN"), Go("G3")>>
  BY DEF Baytrail, BaytrailResume

\* POWER_G3
LEMMA BaytrailG3 ==
  ASSUME NEW on, NEW off, NEW heard, Enters("baytrail", "G3", on, off, heard)
  PROVE  Fine("baytrail", "G3", Baytrail("G3"), on, off, heard)
<1> DEFINE Here(todo, on_, off_, heard_) == Fine("baytrail", "G3", todo, on_, off_, heard_)
           s1 == Stay
<1> HIDE DEF s1
<1>1. "PP3300_DX_EN" \in off /\ "VCORE_EN" \in off /\ "RSMRST_L" \in off /\
         "restart_from_s5" \in off /\ heard \subseteq {"SHUTDOWN"}
  BY BaytrailEnters
<1>2. Enters("baytrail", "G3", on, off, heard)
  BY <1>1, BaytrailEnters
<1>3. Here(<<s1>>, on, off, heard)
  BY <1>2, StayFine DEF s1
<1> QED BY <1>3, BaytrailIsG3 DEF s1

\* POWER_S5
LEMMA BaytrailS5 ==
  ASSUME NEW on, NEW off, NEW heard, Enters("baytrail", "S5", on, off, heard)
  PROVE  Fine("baytrail", "S5", Baytrail("S5"), on, off, heard)
<1> DEFINE Here(todo, on_, off_, heard_) == Fine("baytrail", "S5", todo, on_, off_, heard_)
           s1 == Go("S5S3")
           b1 == <<s1>>
           s2 == Stay
           b2 == <<s2>>
           s3 == High("SLP_S4", b1, b2)
<1> HIDE DEF s1, b1, s2, b2, s3
<1>1. "PP3300_DX_EN" \in off /\ "VCORE_EN" \in off /\ "restart_from_s5" \in
         off /\ heard \subseteq {"SHUTDOWN"}
  BY BaytrailEnters
<1>2. Enters("baytrail", "S5S3", on, off, heard)
  BY <1>1, BaytrailEnters
<1>3. Here(<<s1>>, on, off, heard)
  BY <1>2, GoRule, Code1 DEF s1
<1>4. Here(b1, on, off, heard)
  BY <1>3 DEF b1
<1>5. Here(b1 \o <<>>, on, off, heard)
  BY <1>4, Code1 DEF b1
<1>6. Enters("baytrail", "S5", on, off, heard)
  BY <1>1, BaytrailEnters
<1>7. Here(<<s2>>, on, off, heard)
  BY <1>6, StayFine DEF s2
<1>8. Here(b2, on, off, heard)
  BY <1>7 DEF b2
<1>9. Here(b2 \o <<>>, on, off, heard)
  BY <1>8, Code1 DEF b2
<1>10. Here(<<s3>>, on, off, heard)
  BY <1>5, <1>9, HighLast DEF s3
<1> QED BY <1>10, BaytrailIsS5 DEF s1, b1, s2, b2, s3

\* POWER_S3
LEMMA BaytrailS3 ==
  ASSUME NEW on, NEW off, NEW heard, Enters("baytrail", "S3", on, off, heard)
  PROVE  Fine("baytrail", "S3", Baytrail("S3"), on, off, heard)
<1> DEFINE Here(todo, on_, off_, heard_) == Fine("baytrail", "S3", todo, on_, off_, heard_)
           s1 == Go("S3S0")
           b1 == <<s1>>
           s2 == Stay
           b2 == <<s2>>
           s3 == Go("S3S5")
           b3 == <<s3>>
           s4 == High("SLP_S4", b2, b3)
           b4 == <<s4>>
           s5 == High("SLP_S3", b1, b4)
           b5 == <<s5>>
           b6 == BaytrailShutdown \o <<s3>>
           s6 == Has({"PGOOD_S5"}, b5, b6)
           on1 == on \ {"SYS_PWROK"}
           off1 == off \cup {"SYS_PWROK"}
           on2 == on1 \ {"RSMRST_L"}
           off2 == off1 \cup {"RSMRST_L"}
<1> HIDE DEF s1, b1, s2, b2, s3, b3, s4, b4, s5, b5, b6, s6, on1, off1, on2,
             off2
<1>1. "PP3300_DX_EN" \in off /\ "VCORE_EN" \in off /\ "PP1350_EN" \in on /\
         heard \subseteq {"STARTUP", "SUSPEND"}
  BY BaytrailEnters
<1>2. Enters("baytrail", "S3S0", on, off, heard)
  BY <1>1, BaytrailEnters
<1>3. Here(<<s1>>, on, off, heard)
  BY <1>2, GoRule, Code1 DEF s1
<1>4. Here(b1, on, off, heard)
  BY <1>3 DEF b1
<1>5. Here(b1 \o <<>>, on, off, heard)
  BY <1>4, Code1 DEF b1
<1>6. Enters("baytrail", "S3", on, off, heard)
  BY <1>1, BaytrailEnters
<1>7. Here(<<s2>>, on, off, heard)
  BY <1>6, StayFine DEF s2
<1>8. Here(b2, on, off, heard)
  BY <1>7 DEF b2
<1>9. Here(b2 \o <<>>, on, off, heard)
  BY <1>8, Code1 DEF b2
<1>10. Enters("baytrail", "S3S5", on, off, heard)
  BY <1>1, BaytrailEnters
<1>11. Here(<<s3>>, on, off, heard)
  BY <1>10, GoRule, Code1 DEF s3
<1>12. Here(b3, on, off, heard)
  BY <1>11 DEF b3
<1>13. Here(b3 \o <<>>, on, off, heard)
  BY <1>12, Code1 DEF b3
<1>14. Here(<<s4>>, on, off, heard)
  BY <1>9, <1>13, HighLast DEF s4
<1>15. Here(b4, on, off, heard)
  BY <1>14 DEF b4
<1>16. Here(b4 \o <<>>, on, off, heard)
  BY <1>15, Code1 DEF b4
<1>17. Here(<<s5>>, on, off, heard)
  BY <1>5, <1>16, HighLast DEF s5
<1>18. Here(b5, on, off, heard)
  BY <1>17 DEF b5
<1>19. Here(b5 \o <<>>, on, off, heard)
  BY <1>18, Code1 DEF b5
<1>20. Enters("baytrail", "S3S5", on2, off2, heard)
  BY <1>1, BaytrailEnters DEF on2, on1, off2, off1
<1>21. Here(<<s3>>, on2, off2, heard)
  BY <1>20, GoRule, Code1 DEF s3
<1>22. Here(BaytrailShutdown \o <<s3>>, on, off, heard)
  BY <1>21, BaytrailShutdownThen, Code1 DEF on1, off1, on2, off2
<1>23. Here(b6, on, off, heard)
  BY <1>22 DEF b6
<1>24. Here(b6 \o <<>>, on, off, heard)
  BY <1>23, BaytrailShutdownEnd, Code1 DEF b6
<1>25. Here(<<s6>>, on, off, heard)
  BY <1>19, <1>24, HasLast DEF s6
<1> QED BY <1>25, BaytrailIsS3 DEF s1, b1, s2, b2, s3, b3, s4, b4, s5, b5, b6,
         s6

\* POWER_S0
LEMMA BaytrailS0 ==
  ASSUME NEW on, NEW off, NEW heard, Enters("baytrail", "S0", on, off, heard)
  PROVE  Fine("baytrail", "S0", Baytrail("S0"), on, off, heard)
<1> DEFINE Here(todo, on_, off_, heard_) == Fine("baytrail", "S0", todo, on_, off_, heard_)
           s1 == Stay
           b1 == <<s1>>
           s2 == Go("S0S3")
           b2 == <<s2>>
           s3 == High("SLP_S3", b1, b2)
           b3 == <<s3>>
           b4 == BaytrailShutdown \o <<s2>>
           s4 == Has({"PGOOD_S5", "PP5000"}, b3, b4)
           on1 == on \ {"SYS_PWROK"}
           off1 == off \cup {"SYS_PWROK"}
           on2 == on1 \ {"RSMRST_L"}
           off2 == off1 \cup {"RSMRST_L"}
<1> HIDE DEF s1, b1, s2, b2, s3, b3, b4, s4, on1, off1, on2, off2
<1>1. "PP1350_EN" \in on /\ heard \subseteq {"RESUME"}
  BY BaytrailEnters
<1>2. Enters("baytrail", "S0", on, off, heard)
  BY <1>1, BaytrailEnters
<1>3. Here(<<s1>>, on, off, heard)
  BY <1>2, StayFine DEF s1
<1>4. Here(b1, on, off, heard)
  BY <1>3 DEF b1
<1>5. Here(b1 \o <<>>, on, off, heard)
  BY <1>4, Code1 DEF b1
<1>6. Enters("baytrail", "S0S3", on, off, heard)
  BY <1>1, BaytrailEnters
<1>7. Here(<<s2>>, on, off, heard)
  BY <1>6, GoRule, Code1 DEF s2
<1>8. Here(b2, on, off, heard)
  BY <1>7 DEF b2
<1>9. Here(b2 \o <<>>, on, off, heard)
  BY <1>8, Code1 DEF b2
<1>10. Here(<<s3>>, on, off, heard)
  BY <1>5, <1>9, HighLast DEF s3
<1>11. Here(b3, on, off, heard)
  BY <1>10 DEF b3
<1>12. Here(b3 \o <<>>, on, off, heard)
  BY <1>11, Code1 DEF b3
<1>13. Enters("baytrail", "S0S3", on2, off2, heard)
  BY <1>1, BaytrailEnters DEF on2, on1, off2, off1
<1>14. Here(<<s2>>, on2, off2, heard)
  BY <1>13, GoRule, Code1 DEF s2
<1>15. Here(BaytrailShutdown \o <<s2>>, on, off, heard)
  BY <1>14, BaytrailShutdownThen, Code1 DEF on1, off1, on2, off2
<1>16. Here(b4, on, off, heard)
  BY <1>15 DEF b4
<1>17. Here(b4 \o <<>>, on, off, heard)
  BY <1>16, BaytrailShutdownEnd, Code1 DEF b4
<1>18. Here(<<s4>>, on, off, heard)
  BY <1>12, <1>17, HasLast DEF s4
<1> QED BY <1>18, BaytrailIsS0 DEF s1, b1, s2, b2, s3, b3, b4, s4

\* POWER_G3S5
LEMMA BaytrailG3S5 ==
  ASSUME NEW on, NEW off, NEW heard, Enters("baytrail", "G3S5", on, off, heard)
  PROVE  Fine("baytrail", "G3S5", Baytrail("G3S5"), on, off, heard)
<1> DEFINE Here(todo, on_, off_, heard_) == Fine("baytrail", "G3S5", todo, on_, off_, heard_)
           s1 == On("SUSP_VR_EN")
           s2 == Off("SUSP_VR_EN")
           s3 == Go("G3")
           b1 == <<s2>> \o BaytrailShutdown \o <<s3>>
           s4 == Wait({"PGOOD_S5"}, b1)
           s5 == On("RSMRST_L")
           s6 == Go("S5")
           r1 == <<s1, s4, s5, s6>>
           r2 == <<s4, s5, s6>>
           on1 == on \cup {"SUSP_VR_EN"}
           off1 == off \ {"SUSP_VR_EN"}
           on2 == on1 \cup {"RSMRST_L"}
           off2 == off1 \ {"RSMRST_L"}
           on3 == on1 \ {"SUSP_VR_EN"}
           off3 == off1 \cup {"SUSP_VR_EN"}
           on4 == on3 \ {"SYS_PWROK"}
           off4 == off3 \cup {"SYS_PWROK"}
           on5 == on4 \ {"RSMRST_L"}
           off5 == off4 \cup {"RSMRST_L"}
<1> HIDE DEF s1, s2, s3, b1, s4, s5, s6, r1, r2, on1, off1, on2, off2, on3,
             off3, on4, off4, on5, off5
<1>1. "PP3300_DX_EN" \in off /\ "VCORE_EN" \in off /\ "RSMRST_L" \in off /\
         "restart_from_s5" \in off /\ heard \subseteq {"SHUTDOWN"}
  BY BaytrailEnters
<1>2. MayTurnOn("baytrail", "SUSP_VR_EN", on, off)
  BY <1>1, BaytrailMayTurnOn
<1>3. MayTurnOn("baytrail", "RSMRST_L", on1, off1)
  BY <1>1, BaytrailMayTurnOn DEF on1, off1
<1>4. Enters("baytrail", "S5", on2, off2, heard)
  BY <1>1, BaytrailEnters DEF on2, on1, off2, off1
<1>5. Here(<<s6>>, on2, off2, heard)
  BY <1>4, GoRule, Code1 DEF s6
<1>6. Here(<<s5, s6>>, on1, off1, heard)
  BY <1>5, <1>3, OnRule, Code2 DEF s5, on2, off2
<1>7. MayTurnOff("baytrail", "SUSP_VR_EN", off1)
  BY <1>1, BaytrailMayTurnOff DEF off1
<1>8. Enters("baytrail", "G3", on5, off5, heard)
  BY <1>1, BaytrailEnters DEF on5, on4, on3, on1, off5, off4, off3, off1
<1>9. Here(<<s3>>, on5, off5, heard)
  BY <1>8, GoRule, Code1 DEF s3
<1>10. Here(BaytrailShutdown \o <<s3>>, on3, off3, heard)
  BY <1>9, BaytrailShutdownThen, Code1 DEF on4, off4, on5, off5
<1>11. IsCode(BaytrailShutdown \o <<s3>>)
  BY BaytrailShutdownAfter, Code1
<1>12. Here(<<s2>> \o (BaytrailShutdown \o <<s3>>), on1, off1, heard)
  BY <1>10, <1>11, <1>7, OffRule, Prepend1 DEF s2, on3, off3
<1>13. Here(b1, on1, off1, heard)
  BY <1>12, BaytrailShutdownAfter, Code1 DEF b1
<1>14. IsCode(b1)
  BY BaytrailShutdownAfter, Code1 DEF b1
<1>15. IsCode(r2)
  BY Code3 DEF r2
<1>16. r2 # <<>> /\ Head(r2) = s4 /\ Tail(r2) = <<s5, s6>>
  BY Code3 DEF r2
<1>17. Here(r2, on1, off1, heard)
  BY <1>6, <1>13, <1>14, WaitRule, <1>16, <1>15 DEF s4
<1>18. r1 # <<>> /\ Head(r1) = s1 /\ Tail(r1) = r2
  BY Code4 DEF r1, r2
<1>19. Here(r1, on, off, heard)
  BY <1>17, <1>2, OnRule, <1>18 DEF s1, on1, off1
<1> QED BY <1>19, BaytrailIsG3S5 DEF s1, s2, s3, b1, s4, s5, s6, r1, r2

\* POWER_S5S3
LEMMA BaytrailS5S3 ==
  ASSUME NEW on, NEW off, NEW heard, Enters("baytrail", "S5S3", on, off, heard)
  PROVE  Fine("baytrail", "S5S3", Baytrail("S5S3"), on, off, heard)
<1> DEFINE Here(todo, on_, off_, heard_) == Fine("baytrail", "S5S3", todo, on_, off_, heard_)
           s1 == Go("S5G3")
           b1 == BaytrailShutdown \o <<s1>>
           s2 == Wait({"PGOOD_S5"}, b1)
           s3 == On("PP1350_EN")
           s4 == Notify("STARTUP")
           s5 == Go("S3")
           r1 == <<s2, s3, s2, s4, s5>>
           r2 == <<s3, s2, s4, s5>>
           r3 == <<s2, s4, s5>>
           on1 == on \cup {"PP1350_EN"}
           off1 == off \ {"PP1350_EN"}
           on2 == on1 \ {"SYS_PWROK"}
           off2 == off1 \cup {"SYS_PWROK"}
           on3 == on2 \ {"RSMRST_L"}
           off3 == off2 \cup {"RSMRST_L"}
           on4 == on \ {"SYS_PWROK"}
           off4 == off \cup {"SYS_PWROK"}
           on5 == on4 \ {"RSMRST_L"}
           off5 == off4 \cup {"RSMRST_L"}
<1> HIDE DEF s1, b1, s2, s3, s4, s5, r1, r2, r3, on1, off1, on2, off2, on3,
             off3, on4, off4, on5, off5
<1>1. "PP3300_DX_EN" \in off /\ "VCORE_EN" \in off /\ "restart_from_s5" \in
         off /\ heard \subseteq {"SHUTDOWN"}
  BY BaytrailEnters
<1>2. MayTurnOn("baytrail", "PP1350_EN", on, off)
  BY <1>1, BaytrailMayTurnOn
<1>3. \A h \in heard : <<h, "STARTUP">> \in HookOrder
  BY <1>1, HooksInOrder
<1>4. Enters("baytrail", "S3", on1, off1, {"STARTUP"})
  BY <1>1, BaytrailEnters DEF on1, off1
<1>5. Here(<<s5>>, on1, off1, {"STARTUP"})
  BY <1>4, GoRule, Code1 DEF s5
<1>6. Here(<<s4, s5>>, on1, off1, heard)
  BY <1>5, <1>3, NotifyRule, Code2 DEF s4
<1>7. Enters("baytrail", "S5G3", on3, off3, heard)
  BY <1>1, BaytrailEnters DEF on3, on2, on1, off3, off2, off1
<1>8. Here(<<s1>>, on3, off3, heard)
  BY <1>7, GoRule, Code1 DEF s1
<1>9. Here(BaytrailShutdown \o <<s1>>, on1, off1, heard)
  BY <1>8, BaytrailShutdownThen, Code1 DEF on2, off2, on3, off3
<1>10. Here(b1, on1, off1, heard)
  BY <1>9 DEF b1
<1>11. IsCode(b1)
  BY Code1, BaytrailShutdownAfter DEF b1
<1>12. IsCode(r3)
  BY Code3 DEF r3
<1>13. r3 # <<>> /\ Head(r3) = s2 /\ Tail(r3) = <<s4, s5>>
  BY Code3 DEF r3
<1>14. Here(r3, on1, off1, heard)
  BY <1>6, <1>10, <1>11, WaitRule, <1>13, <1>12 DEF s2
<1>15. r2 # <<>> /\ Head(r2) = s3 /\ Tail(r2) = r3
  BY Code4 DEF r2, r3
<1>16. Here(r2, on, off, heard)
  BY <1>14, <1>2, OnRule, <1>15 DEF s3, on1, off1
<1>17. Enters("baytrail", "S5G3", on5, off5, heard)
  BY <1>1, BaytrailEnters DEF on5, on4, off5, off4
<1>18. Here(<<s1>>, on5, off5, heard)
  BY <1>17, GoRule, Code1 DEF s1
<1>19. Here(BaytrailShutdown \o <<s1>>, on, off, heard)
  BY <1>18, BaytrailShutdownThen, Code1 DEF on4, off4, on5, off5
<1>20. Here(b1, on, off, heard)
  BY <1>19 DEF b1
<1>21. IsCode(r1)
  BY Code5 DEF r1
<1>22. r1 # <<>> /\ Head(r1) = s2 /\ Tail(r1) = r2
  BY Code5 DEF r1, r2
<1>23. Here(r1, on, off, heard)
  BY <1>16, <1>20, <1>11, WaitRule, <1>22, <1>21 DEF s2
<1> QED BY <1>23, BaytrailIsS5S3 DEF s1, b1, s2, s3, s4, s5, r1, r2, r3

\* POWER_S3S0
LEMMA BaytrailS3S0 ==
  ASSUME NEW on, NEW off, NEW heard, Enters("baytrail", "S3S0", on, off, heard)
  PROVE  Fine("baytrail", "S3S0", Baytrail("S3S0"), on, off, heard)
<1> DEFINE Here(todo, on_, off_, heard_) == Fine("baytrail", "S3S0", todo, on_, off_, heard_)
           s1 == On("PP5000_EN")
           s2 == On("PP3300_DX_EN")
           s3 == Off("PP3300_DX_EN")
           s4 == Off("PP5000_EN")
           s5 == Go("S3")
           r1 == <<s3, s4, s5>>
           b1 == BaytrailShutdown \o r1
           s6 == Wait({"PGOOD_S5", "PP5000"}, b1)
           s7 == On("VCORE_EN")
           s8 == Notify("RESUME")
           s9 == On("SYS_PWROK")
           s10 == On("CORE_PWROK")
           s11 == Raise("restart_from_s5")
           b2 == BaytrailShutdown \o <<s11>>
           s12 == Either(<<>>, b2)
           s13 == Go("S0")
           r2 == <<s1, s2, s6, s7, s8, s9, s10, s12, s13>>
           r3 == <<s2, s6, s7, s8, s9, s10, s12, s13>>
           r4 == <<s6, s7, s8, s9, s10, s12, s13>>
           r5 == <<s7, s8, s9, s10, s12, s13>>
           r6 == <<s8, s9, s10, s12, s13>>
           r7 == <<s9, s10, s12, s13>>
           r8 == <<s10, s12, s13>>
           on1 == on \cup {"PP5000_EN"}
           off1 == off \ {"PP5000_EN"}
           on2 == on1 \cup {"PP3300_DX_EN"}
           off2 == off1 \ {"PP3300_DX_EN"}
           on3 == on2 \cup {"VCORE_EN"}
           off3 == off2 \ {"VCORE_EN"}
           on4 == on3 \cup {"SYS_PWROK"}
           off4 == off3 \ {"SYS_PWROK"}
           on5 == on4 \cup {"CORE_PWROK"}
           off5 == off4 \ {"CORE_PWROK"}
           on6 == on5 \ {"SYS_PWROK"}
           off6 == off5 \cup {"SYS_PWROK"}
           on7 == on6 \ {"RSMRST_L"}
           off7 == off6 \cup {"RSMRST_L"}
           off8 == off7 \ {"restart_from_s5"}
           on8 == on2 \ {"SYS_PWROK"}
           off9 == off2 \cup {"SYS_PWROK"}
           on9 == on8 \ {"RSMRST_L"}
           off10 == off9 \cup {"RSMRST_L"}
           on10 == on9 \ {"PP3300_DX_EN"}
           off11 == off10 \cup {"PP3300_DX_EN"}
           on11 == on10 \ {"PP5000_EN"}
           off12 == off11 \cup {"PP5000_EN"}
<1> HIDE DEF s1, s2, s3, s4, s5, r1, b1, s6, s7, s8, s9, s10, s11, b2, s12,
             s13, r2, r3, r4, r5, r6, r7, r8, on1, off1, on2, off2, on3, off3,
             on4, off4, on5, off5, on6, off6, on7, off7, off8, on8, off9, on9,
             off10, on10, off11, on11, off12
<1>1. "PP3300_DX_EN" \in off /\ "VCORE_EN" \in off /\ "PP1350_EN" \in on /\
         heard \subseteq {"STARTUP", "SUSPEND"}
  BY BaytrailEnters
<1>2. MayTurnOn("baytrail", "PP5000_EN", on, off)
  BY <1>1, BaytrailMayTurnOn
<1>3. MayTurnOn("baytrail", "PP3300_DX_EN", on1, off1)
  BY <1>1, BaytrailMayTurnOn DEF on1, off1
<1>4. MayTurnOn("baytrail", "VCORE_EN", on2, off2)
  BY <1>1, BaytrailMayTurnOn DEF on2, on1, off2, off1
<1>5. \A h \in heard : <<h, "RESUME">> \in HookOrder
  BY <1>1, HooksInOrder
<1>6. MayTurnOn("baytrail", "SYS_PWROK", on3, off3)
  BY <1>1, BaytrailMayTurnOn DEF on3, on2, on1, off3, off2, off1
<1>7. MayTurnOn("baytrail", "CORE_PWROK", on4, off4)
  BY <1>1, BaytrailMayTurnOn DEF on4, on3, on2, on1, off4, off3, off2, off1
<1>8. Enters("baytrail", "S0", on5, off5, {"RESUME"})
  BY <1>1, BaytrailEnters DEF on5, on4, on3, on2, on1, off5, off4, off3, off2,
     off1
<1>9. Here(<<s13>>, on5, off5, {"RESUME"})
  BY <1>8, GoRule, Code1 DEF s13
<1>10. Here(<<>> \o <<s13>>, on5, off5, {"RESUME"})
  BY <1>9, Code1
<1>11. MayRaise("baytrail", "restart_from_s5", off7)
  BY <1>1 DEF off7, off6, off5, off4, off3, off2, off1, MayRaise, Flags
<1>12. Enters("baytrail", "S0", on7, off8, {"RESUME"})
  BY <1>1, BaytrailEnters DEF on7, on6, on5, on4, on3, on2, on1, off8, off7,
     off6, off5, off4, off3, off2, off1
<1>13. Here(<<s13>>, on7, off8, {"RESUME"})
  BY <1>12, GoRule, Code1 DEF s13
<1>14. Here(<<s11>> \o <<s13>>, on7, off7, {"RESUME"})
  BY <1>13, <1>11, RaiseRule, Prepend1, Code1 DEF s11, off8
<1>15. Here(BaytrailShutdown \o (<<s11>> \o <<s13>>), on5, off5, {"RESUME"})
  BY <1>14, BaytrailShutdownThen, Code1, Prepend1 DEF on6, off6, on7, off7
<1>16. Here(b2 \o <<s13>>, on5, off5, {"RESUME"})
  BY <1>15, Code1, BaytrailShutdownAfter DEF b2
<1>17. Here(<<s12, s13>>, on5, off5, {"RESUME"})
  BY <1>10, <1>16, EitherRule, Code2 DEF s12
<1>18. r8 # <<>> /\ Head(r8) = s10 /\ Tail(r8) = <<s12, s13>>
  BY Code3 DEF r8
<1>19. Here(r8, on4, off4, {"RESUME"})
  BY <1>17, <1>7, OnRule, <1>18 DEF s10, on5, off5
<1>20. r7 # <<>> /\ Head(r7) = s9 /\ Tail(r7) = r8
  BY Code4 DEF r7, r8
<1>21. Here(r7, on3, off3, {"RESUME"})
  BY <1>19, <1>6, OnRule, <1>20 DEF s9, on4, off4
<1>22. r6 # <<>> /\ Head(r6) = s8 /\ Tail(r6) = r7
  BY Code5 DEF r6, r7
<1>23. Here(r6, on3, off3, heard)
  BY <1>21, <1>5, NotifyRule, <1>22 DEF s8
<1>24. r5 # <<>> /\ Head(r5) = s7 /\ Tail(r5) = r6
  BY Code6 DEF r5, r6
<1>25. Here(r5, on2, off2, heard)
  BY <1>23, <1>4, OnRule, <1>24 DEF s7, on3, off3
<1>26. MayTurnOff("baytrail", "PP3300_DX_EN", off10)
  BY <1>1, BaytrailMayTurnOff DEF off10, off9, off2, off1
<1>27. MayTurnOff("baytrail", "PP5000_EN", off11)
  BY <1>1, BaytrailMayTurnOff DEF off11, off10, off9, off2, off1
<1>28. Enters("baytrail", "S3", on11, off12, heard)
  BY <1>1, BaytrailEnters DEF on11, on10, on9, on8, on2, on1, off12, off11,
     off10, off9, off2, off1
<1>29. Here(<<s5>>, on11, off12, heard)
  BY <1>28, GoRule, Code1 DEF s5
<1>30. Here(<<s4, s5>>, on10, off11, heard)
  BY <1>29, <1>27, OffRule, Code2 DEF s4, on11, off12
<1>31. r1 # <<>> /\ Head(r1) = s3 /\ Tail(r1) = <<s4, s5>>
  BY Code3 DEF r1
<1>32. Here(r1, on9, off10, heard)
  BY <1>30, <1>26, OffRule, <1>31 DEF s3, on10, off11
<1>33. IsCode(r1)
  BY Code3 DEF r1
<1>34. Here(BaytrailShutdown \o r1, on2, off2, heard)
  BY <1>32, BaytrailShutdownThen, <1>33 DEF on8, off9, on9, off10
<1>35. Here(b1, on2, off2, heard)
  BY <1>34 DEF b1
<1>36. IsCode(b1)
  BY <1>33, BaytrailShutdownAfter, Code1 DEF b1
<1>37. IsCode(r4)
  BY Code7 DEF r4
<1>38. r4 # <<>> /\ Head(r4) = s6 /\ Tail(r4) = r5
  BY Code7 DEF r4, r5
<1>39. Here(r4, on2, off2, heard)
  BY <1>25, <1>35, <1>36, WaitRule, <1>38, <1>37 DEF s6
<1>40. r3 # <<>> /\ Head(r3) = s2 /\ Tail(r3) = r4
  BY Code8 DEF r3, r4
<1>41. Here(r3, on1, off1, heard)
  BY <1>39, <1>3, OnRule, <1>40 DEF s2, on2, off2
<1>42. r2 # <<>> /\ Head(r2) = s1 /\ Tail(r2) = r3
  BY Code9 DEF r2, r3
<1>43. Here(r2, on, off, heard)
  BY <1>41, <1>2, OnRule, <1>42 DEF s1, on1, off1
<1> QED BY <1>43, BaytrailIsS3S0 DEF s1, s2, s3, s4, s5, r1, b1, s6, s7, s8,
         s9, s10, s11, b2, s12, s13, r2, r3, r4, r5, r6, r7, r8

\* POWER_S0S3
LEMMA BaytrailS0S3 ==
  ASSUME NEW on, NEW off, NEW heard, Enters("baytrail", "S0S3", on, off, heard)
  PROVE  Fine("baytrail", "S0S3", Baytrail("S0S3"), on, off, heard)
<1> DEFINE Here(todo, on_, off_, heard_) == Fine("baytrail", "S0S3", todo, on_, off_, heard_)
           s1 == Notify("SUSPEND")
           s2 == Off("SYS_PWROK")
           s3 == Off("CORE_PWROK")
           s4 == Off("VCORE_EN")
           s5 == Off("PP3300_DX_EN")
           s6 == Off("PP5000_EN")
           s7 == Go("S3")
           r1 == <<s1, s2, s3, s4, s5, s6, s7>>
           r2 == <<s2, s3, s4, s5, s6, s7>>
           r3 == <<s3, s4, s5, s6, s7>>
           r4 == <<s4, s5, s6, s7>>
           r5 == <<s5, s6, s7>>
           on1 == on \ {"SYS_PWROK"}
           off1 == off \cup {"SYS_PWROK"}
           on2 == on1 \ {"CORE_PWROK"}
           off2 == off1 \cup {"CORE_PWROK"}
           on3 == on2 \ {"VCORE_EN"}
           off3 == off2 \cup {"VCORE_EN"}
           on4 == on3 \ {"PP3300_DX_EN"}
           off4 == off3 \cup {"PP3300_DX_EN"}
           on5 == on4 \ {"PP5000_EN"}
           off5 == off4 \cup {"PP5000_EN"}
<1> HIDE DEF s1, s2, s3, s4, s5, s6, s7, r1, r2, r3, r4, r5, on1, off1, on2,
             off2, on3, off3, on4, off4, on5, off5
<1>1. "PP1350_EN" \in on /\ heard \subseteq {"RESUME"}
  BY BaytrailEnters
<1>2. \A h \in heard : <<h, "SUSPEND">> \in HookOrder
  BY <1>1, HooksInOrder
<1>3. MayTurnOff("baytrail", "SYS_PWROK", off)
  BY <1>1, BaytrailMayTurnOff
<1>4. MayTurnOff("baytrail", "CORE_PWROK", off1)
  BY <1>1, BaytrailMayTurnOff DEF off1
<1>5. MayTurnOff("baytrail", "VCORE_EN", off2)
  BY <1>1, BaytrailMayTurnOff DEF off2, off1
<1>6. MayTurnOff("baytrail", "PP3300_DX_EN", off3)
  BY <1>1, BaytrailMayTurnOff DEF off3, off2, off1
<1>7. MayTurnOff("baytrail", "PP5000_EN", off4)
  BY <1>1, BaytrailMayTurnOff DEF off4, off3, off2, off1
<1>8. Enters("baytrail", "S3", on5, off5, {"SUSPEND"})
  BY <1>1, BaytrailEnters DEF on5, on4, on3, on2, on1, off5, off4, off3, off2,
     off1
<1>9. Here(<<s7>>, on5, off5, {"SUSPEND"})
  BY <1>8, GoRule, Code1 DEF s7
<1>10. Here(<<s6, s7>>, on4, off4, {"SUSPEND"})
  BY <1>9, <1>7, OffRule, Code2 DEF s6, on5, off5
<1>11. r5 # <<>> /\ Head(r5) = s5 /\ Tail(r5) = <<s6, s7>>
  BY Code3 DEF r5
<1>12. Here(r5, on3, off3, {"SUSPEND"})
  BY <1>10, <1>6, OffRule, <1>11 DEF s5, on4, off4
<1>13. r4 # <<>> /\ Head(r4) = s4 /\ Tail(r4) = r5
  BY Code4 DEF r4, r5
<1>14. Here(r4, on2, off2, {"SUSPEND"})
  BY <1>12, <1>5, OffRule, <1>13 DEF s4, on3, off3
<1>15. r3 # <<>> /\ Head(r3) = s3 /\ Tail(r3) = r4
  BY Code5 DEF r3, r4
<1>16. Here(r3, on1, off1, {"SUSPEND"})
  BY <1>14, <1>4, OffRule, <1>15 DEF s3, on2, off2
<1>17. r2 # <<>> /\ Head(r2) = s2 /\ Tail(r2) = r3
  BY Code6 DEF r2, r3
<1>18. Here(r2, on, off, {"SUSPEND"})
  BY <1>16, <1>3, OffRule, <1>17 DEF s2, on1, off1
<1>19. r1 # <<>> /\ Head(r1) = s1 /\ Tail(r1) = r2
  BY Code7 DEF r1, r2
<1>20. Here(r1, on, off, heard)
  BY <1>18, <1>2, NotifyRule, <1>19 DEF s1
<1> QED BY <1>20, BaytrailIsS0S3 DEF s1, s2, s3, s4, s5, s6, s7, r1, r2, r3,
         r4, r5

\* POWER_S3S5
LEMMA BaytrailS3S5 ==
  ASSUME NEW on, NEW off, NEW heard, Enters("baytrail", "S3S5", on, off, heard)
  PROVE  Fine("baytrail", "S3S5", Baytrail("S3S5"), on, off, heard)
<1> DEFINE Here(todo, on_, off_, heard_) == Fine("baytrail", "S3S5", todo, on_, off_, heard_)
           s1 == Notify("SHUTDOWN")
           s2 == Off("PP5000_EN")
           s3 == Off("PP1350_EN")
           s4 == Lower("restart_from_s5")
           s5 == Go("G3S5")
           b1 == <<s4, s5>>
           s6 == If("restart_from_s5", b1, <<>>)
           s7 == Go("S5")
           b2 == <<s7>>
           s8 == Go("S5G3")
           b3 == <<s8>>
           s9 == If("pause_in_s5", b2, b3)
           r1 == <<s1, s2, s3, s6, s9>>
           r2 == <<s2, s3, s6, s9>>
           r3 == <<s3, s6, s9>>
           on1 == on \ {"PP5000_EN"}
           off1 == off \cup {"PP5000_EN"}
           on2 == on1 \ {"PP1350_EN"}
           off2 == off1 \cup {"PP1350_EN"}
           off3 == off2 \cup {"RSMRST_L"}
           off4 == off2 \cup {"restart_from_s5"}
           off5 == off3 \cup {"restart_from_s5"}
           off6 == off4 \cup {"pause_in_s5"}
<1> HIDE DEF s1, s2, s3, s4, s5, b1, s6, s7, b2, s8, b3, s9, r1, r2, r3, on1,
             off1, on2, off2, off3, off4, off5, off6
<1>1. "PP3300_DX_EN" \in off /\ "VCORE_EN" \in off /\ "PP1350_EN" \in on /\
         heard \subseteq {"STARTUP", "SUSPEND"}
  BY BaytrailEnters
<1>2. \A h \in heard : <<h, "SHUTDOWN">> \in HookOrder
  BY <1>1, HooksInOrder
<1>3. MayTurnOff("baytrail", "PP5000_EN", off)
  BY <1>1, BaytrailMayTurnOff
<1>4. MayTurnOff("baytrail", "PP1350_EN", off1)
  BY <1>1, BaytrailMayTurnOff DEF off1
<1>5. <<s4, s5>> \o <<s9>> # <<>> /\ Head(<<s4, s5>> \o <<s9>>) = s4 /\
         Tail(<<s4, s5>> \o <<s9>>) = <<s5>> \o <<s9>>
  BY Prepend2, Code1
<1>6. "restart_from_s5" \in Flags
  BY DEF Flags
<1>7. Enters("baytrail", "G3S5", on2, off5, {"SHUTDOWN"})
  BY <1>1, BaytrailEnters DEF on2, on1, off5, off3, off2, off1
<1>8. Here(<<s5>> \o <<s9>>, on2, off5, {"SHUTDOWN"})
  BY <1>7, GoRule, Prepend1, Code1 DEF s5
<1>9. Here(<<s4, s5>> \o <<s9>>, on2, off3, {"SHUTDOWN"})
  BY <1>8, <1>6, LowerRule, <1>5 DEF s4, off5
<1>10. Here(b1 \o <<s9>>, on2, off3, {"SHUTDOWN"})
  BY <1>9 DEF b1
<1>11. Enters("baytrail", "S5", on2, off4, {"SHUTDOWN"})
  BY <1>1, BaytrailEnters DEF on2, on1, off4, off2, off1
<1>12. Here(<<s7>>, on2, off4, {"SHUTDOWN"})
  BY <1>11, GoRule, Code1 DEF s7
<1>13. Here(b2, on2, off4, {"SHUTDOWN"})
  BY <1>12 DEF b2
<1>14. Here(b2 \o <<>>, on2, off4, {"SHUTDOWN"})
  BY <1>13, Code1 DEF b2
<1>15. Enters("baytrail", "S5G3", on2, off6, {"SHUTDOWN"})
  BY <1>1, BaytrailEnters DEF on2, on1, off6, off4, off2, off1
<1>16. Here(<<s8>>, on2, off6, {"SHUTDOWN"})
  BY <1>15, GoRule, Code1 DEF s8
<1>17. Here(b3, on2, off6, {"SHUTDOWN"})
  BY <1>16 DEF b3
<1>18. Here(b3 \o <<>>, on2, off6, {"SHUTDOWN"})
  BY <1>17, Code1 DEF b3
<1>19. "pause_in_s5" \in Flags
  BY DEF Flags
<1>20. Here(<<s9>>, on2, off4, {"SHUTDOWN"})
  BY <1>14, <1>18, <1>19, IfLast DEF s9, off6
<1>21. Here(<<>> \o <<s9>>, on2, off4, {"SHUTDOWN"})
  BY <1>20, Code1
<1>22. Here(<<s6, s9>>, on2, off2, {"SHUTDOWN"})
  BY <1>10, <1>21, <1>6, RestartRule, Code2 DEF s6, off3, off4
<1>23. r3 # <<>> /\ Head(r3) = s3 /\ Tail(r3) = <<s6, s9>>
  BY Code3 DEF r3
<1>24. Here(r3, on1, off1, {"SHUTDOWN"})
  BY <1>22, <1>4, OffRule, <1>23 DEF s3, on2, off2
<1>25. r2 # <<>> /\ Head(r2) = s2 /\ Tail(r2) = r3
  BY Code4 DEF r2, r3
<1>26. Here(r2, on, off, {"SHUTDOWN"})
  BY <1>24, <1>3, OffRule, <1>25 DEF s2, on1, off1
<1>27. r1 # <<>> /\ Head(r1) = s1 /\ Tail(r1) = r2
  BY Code5 DEF r1, r2
<1>28. Here(r1, on, off, heard)
  BY <1>26, <1>2, NotifyRule, <1>27 DEF s1
<1> QED BY <1>28, BaytrailIsS3S5 DEF s1, s2, s3, s4, s5, b1, s6, s7, b2, s8,
         b3, s9, r1, r2, r3

\* POWER_S5G3
LEMMA BaytrailS5G3 ==
  ASSUME NEW on, NEW off, NEW heard, Enters("baytrail", "S5G3", on, off, heard)
  PROVE  Fine("baytrail", "S5G3", Baytrail("S5G3"), on, off, heard)
<1> DEFINE Here(todo, on_, off_, heard_) == Fine("baytrail", "S5G3", todo, on_, off_, heard_)
           s1 == Off("RSMRST_L")
           s2 == Off("SUSP_VR_EN")
           s3 == Go("G3")
           r1 == <<s1, s2, s3>>
           on1 == on \ {"RSMRST_L"}
           off1 == off \cup {"RSMRST_L"}
           on2 == on1 \ {"SUSP_VR_EN"}
           off2 == off1 \cup {"SUSP_VR_EN"}
<1> HIDE DEF s1, s2, s3, r1, on1, off1, on2, off2
<1>1. "PP3300_DX_EN" \in off /\ "VCORE_EN" \in off /\ "restart_from_s5" \in
         off /\ heard \subseteq {"SHUTDOWN"}
  BY BaytrailEnters
<1>2. MayTurnOff("baytrail", "RSMRST_L", off)
  BY <1>1, BaytrailMayTurnOff
<1>3. MayTurnOff("baytrail", "SUSP_VR_EN", off1)
  BY <1>1, BaytrailMayTurnOff DEF off1
<1>4. Enters("baytrail", "G3", on2, off2, heard)
  BY <1>1, BaytrailEnters DEF on2, on1, off2, off1
<1>5. Here(<<s3>>, on2, off2, heard)
  BY <1>4, GoRule, Code1 DEF s3
<1>6. Here(<<s2, s3>>, on1, off1, heard)
  BY <1>5, <1>3, OffRule, Code2 DEF s2, on2, off2
<1>7. r1 # <<>> /\ Head(r1) = s1 /\ Tail(r1) = <<s2, s3>>
  BY Code3 DEF r1
<1>8. Here(r1, on, off, heard)
  BY <1>6, <1>2, OffRule, <1>7 DEF s1, on1, off1
<1> QED BY <1>8, BaytrailIsS5G3 DEF s1, s2, s3, r1

-----------------------------------------------------------------------------
(* Braswell                                                                *)

\* A forced shutdown and what is done after it
LEMMA BraswellShutdownThen ==
  ASSUME NEW st, NEW rest, IsCode(rest), NEW heard, Fine("braswell", st, rest, {}, {}, heard)
  PROVE  Fine("braswell", st, BraswellShutdown \o rest, {}, {}, heard)
<1> "braswell" \in Loose
  BY DEF Loose
<1>0. "SYS_PWROK" \notin Flags /\ "RSMRST_L" \notin Flags /\ "forcing_shutdown" \in Flags
  BY DEF Flags
<1>1. Fine("braswell", st, <<Raise("forcing_shutdown")>> \o rest, {}, {}, heard)
  BY <1>0, LooseRaise, Prepend1
<1> DEFINE two == <<Off("RSMRST_L"), Raise("forcing_shutdown")>> \o rest
           all == <<Off("SYS_PWROK"), Off("RSMRST_L"), Raise("forcing_shutdown")>> \o rest
<1>2. /\ two # <<>> /\ Head(two) = Off("RSMRST_L")
      /\ Tail(two) = <<Raise("forcing_shutdown")>> \o rest
      /\ all # <<>> /\ Head(all) = Off("SYS_PWROK") /\ Tail(all) = two
  BY Prepend2, Prepend3
<1>3. all = BraswellShutdown \o rest
  BY DEF BraswellShutdown
<1> HIDE DEF two, all
<1>4. Fine("braswell", st, two, {}, {}, heard)
  BY <1>0, <1>1, <1>2, LooseOff
<1> QED BY <1>0, <1>2, <1>3, <1>4, LooseOff

LEMMA BraswellShutdownIsCode == IsCode(BraswellShutdown)
  BY Code3 DEF BraswellShutdown

LEMMA BraswellShutdownEnd ==
  ASSUME NEW rest, IsCode(rest)
  PROVE  (BraswellShutdown \o rest) \o <<>> = BraswellShutdown \o rest
<1>1. IsCode(BraswellShutdown \o rest)
  BY JoinCode, BraswellShutdownIsCode
<1> QED BY <1>1, CodeAround

LEMMA BraswellShutdownAfter ==
  ASSUME NEW rest, IsCode(rest), NEW s, IsCode(s)
  PROVE  /\ (s \o BraswellShutdown) \o rest = s \o (BraswellShutdown \o rest)
         /\ (BraswellShutdown \o s) \o rest = BraswellShutdown \o (s \o rest)
         /\ IsCode(BraswellShutdown \o rest) /\ IsCode((s \o BraswellShutdown) \o rest)
<1>1. (s \o BraswellShutdown) \o rest = s \o (BraswellShutdown \o rest)
  BY JoinAssociative, BraswellShutdownIsCode
<1>2. (BraswellShutdown \o s) \o rest = BraswellShutdown \o (s \o rest)
  BY JoinAssociative, BraswellShutdownIsCode
<1>3. IsCode(BraswellShutdown \o rest) /\ IsCode((s \o BraswellShutdown) \o rest)
  BY JoinCode, BraswellShutdownIsCode
<1> QED BY <1>1, <1>2, <1>3

\* The statements of each state
LEMMA BraswellIsG3 ==
  Braswell("G3") =
    <<Stay>>
  BY DEF Braswell

LEMMA BraswellIsS5 ==
  Braswell("S5") =
    <<High("SLP_S4", <<Go("S5S3")>>, <<Stay>>)>>
  BY DEF Braswell

LEMMA BraswellIsS3 ==
  Braswell("S3") =
    <<Has({"RSMRST_PWRGD"}, <<High("SLP_S3", <<Go("S3S0")>>,
      <<High("SLP_S4", <<Stay>>, <<Go("S3S5")>>)>>)>>, BraswellShutdown
      \o <<Go("S3S5")>>)>>
  BY DEF Braswell

LEMMA BraswellIsS0 ==
  Braswell("S0") =
    <<Has({"RSMRST_PWRGD"}, <<Has({"RSMRST_PWRGD", "ALL_SYS_PWRGD",
      "SLP_S3", "SLP_S4"}, <<Stay>>, <<Go("S0S3")>>)>>, BraswellShutdown
      \o <<Go("S0S3")>>)>>
  BY DEF Braswell

LEMMA BraswellIsG3S5 ==
  Braswell("G3S5") =
    <<Off("SUSPWRDNACK_SOC_EC"), Wait({"RSMRST_PWRGD"}, BraswellShutdown \o
      <<Go("G3")>>), On("RSMRST_L"), Go("S5")>>
  BY DEF Braswell

LEMMA BraswellIsS5S3 ==
  Braswell("S5S3") =
    <<Notify("STARTUP"), Go("S3")>>
  BY DEF Braswell

LEMMA BraswellIsS3S0 ==
  Braswell("S3S0") =
    <<Has({"RSMRST_PWRGD"}, <<>>, BraswellShutdown \o <<Go("S3S5")>>),
      Notify("RESUME"), On("SYS_PWROK"), Go("S0")>>
  BY DEF Braswell

LEMMA BraswellIsS0S3 ==
  Braswell("S0S3") =
    <<Notify("SUSPEND"), Off("SYS_PWROK"), Go("S3")>>
  BY DEF Braswell

LEMMA BraswellIsS3S5 ==
  Braswell("S3S5") =
    <<Notify("SHUTDOWN"), If("pause_in_s5", <<Go("S5")>>, <<Go("S5G3")>>)>>
  BY DEF Braswell

LEMMA BraswellIsS5G3 ==
  Braswell("S5G3") =
    <<If("forcing_shutdown", <<On("SUSPWRDNACK_SOC_EC"),
      Lower("forcing_shutdown"), Go("G3")>>, <<Either(<<Off("RSMRST_L"),
      On("SUSPWRDNACK_SOC_EC"), Go("G3")>>, <<Go("S5")>>)>>)>>
  BY DEF Braswell

\* POWER_G3
LEMMA BraswellG3 ==
  ASSUME NEW on, NEW off, NEW heard, Enters("braswell", "G3", on, off, heard)
  PROVE  Fine("braswell", "G3", Braswell("G3"), on, off, heard)
<1> DEFINE Here(todo, on_, off_, heard_) == Fine("braswell", "G3", todo, on_, off_, heard_)
           s1 == Stay
<1> HIDE DEF s1
<1>1. Enters("braswell", "G3", {}, {}, {"SHUTDOWN"})
  BY LooseEnters DEF Loose, OffStates, UpStates
<1>2. Here(<<s1>>, {}, {}, {"SHUTDOWN"})
  BY <1>1, StayFine DEF s1
<1>3. Here(Braswell("G3"), {}, {}, {"SHUTDOWN"})
  BY <1>2, BraswellIsG3 DEF s1
<1>4. heard \subseteq {"SHUTDOWN"}
  BY DEF Enters, HeardIn, OffStates, UpStates
<1> QED BY <1>3, <1>4, LooseWeakens

\* POWER_S5
LEMMA BraswellS5 ==
  ASSUME NEW on, NEW off, NEW heard, Enters("braswell", "S5", on, off, heard)
  PROVE  Fine("braswell", "S5", Braswell("S5"), on, off, heard)
<1> DEFINE Here(todo, on_, off_, heard_) == Fine("braswell", "S5", todo, on_, off_, heard_)
           s1 == Go("S5S3")
           b1 == <<s1>>
           s2 == Stay
           b2 == <<s2>>
           s3 == High("SLP_S4", b1, b2)
<1> HIDE DEF s1, b1, s2, b2, s3
<1>1. Enters("braswell", "S5S3", {}, {}, {"SHUTDOWN"})
  BY LooseEnters DEF Loose, OffStates, UpStates
<1>2. Here(<<s1>>, {}, {}, {"SHUTDOWN"})
  BY <1>1, GoRule, Code1 DEF s1
<1>3. Here(b1, {}, {}, {"SHUTDOWN"})
  BY <1>2 DEF b1
<1>4. Here(b1 \o <<>>, {}, {}, {"SHUTDOWN"})
  BY <1>3, Code1 DEF b1
<1>5. Enters("braswell", "S5", {}, {}, {"SHUTDOWN"})
  BY LooseEnters DEF Loose, OffStates, UpStates
<1>6. Here(<<s2>>, {}, {}, {"SHUTDOWN"})
  BY <1>5, StayFine DEF s2
<1>7. Here(b2, {}, {}, {"SHUTDOWN"})
  BY <1>6 DEF b2
<1>8. Here(b2 \o <<>>, {}, {}, {"SHUTDOWN"})
  BY <1>7, Code1 DEF b2
<1>9. Here(<<s3>>, {}, {}, {"SHUTDOWN"})
  BY <1>4, <1>8, HighLast DEF s3
<1>10. Here(Braswell("S5"), {}, {}, {"SHUTDOWN"})
  BY <1>9, BraswellIsS5 DEF s1, b1, s2, b2, s3
<1>11. heard \subseteq {"SHUTDOWN"}
  BY DEF Enters, HeardIn, OffStates, UpStates
<1> QED BY <1>10, <1>11, LooseWeakens

\* POWER_S3
LEMMA BraswellS3 ==
  ASSUME NEW on, NEW off, NEW heard, Enters("braswell", "S3", on, off, heard)
  PROVE  Fine("braswell", "S3", Braswell("S3"), on, off, heard)
<1> DEFINE Here(todo, on_, off_, heard_) == Fine("braswell", "S3", todo, on_, off_, heard_)
           s1 == Go("S3S0")
           b1 == <<s1>>
           s2 == Stay
           b2 == <<s2>>
           s3 == Go("S3S5")
           b3 == <<s3>>
           s4 == High("SLP_S4", b2, b3)
           b4 == <<s4>>
           s5 == High("SLP_S3", b1, b4)
           b5 == <<s5>>
           b6 == BraswellShutdown \o <<s3>>
           s6 == Has({"RSMRST_PWRGD"}, b5, b6)
<1> HIDE DEF s1, b1, s2, b2, s3, b3, s4, b4, s5, b5, b6, s6
<1>1. Enters("braswell", "S3S0", {}, {}, {"STARTUP", "SUSPEND"})
  BY LooseEnters DEF Loose, OffStates, UpStates
<1>2. Here(<<s1>>, {}, {}, {"STARTUP", "SUSPEND"})
  BY <1>1, GoRule, Code1 DEF s1
<1>3. Here(b1, {}, {}, {"STARTUP", "SUSPEND"})
  BY <1>2 DEF b1
<1>4. Here(b1 \o <<>>, {}, {}, {"STARTUP", "SUSPEND"})
  BY <1>3, Code1 DEF b1
<1>5. Enters("braswell", "S3", {}, {}, {"STARTUP", "SUSPEND"})
  BY LooseEnters DEF Loose, OffStates, UpStates
<1>6. Here(<<s2>>, {}, {}, {"STARTUP", "SUSPEND"})
  BY <1>5, StayFine DEF s2
<1>7. Here(b2, {}, {}, {"STARTUP", "SUSPEND"})
  BY <1>6 DEF b2
<1>8. Here(b2 \o <<>>, {}, {}, {"STARTUP", "SUSPEND"})
  BY <1>7, Code1 DEF b2
<1>9. Enters("braswell", "S3S5", {}, {}, {"STARTUP", "SUSPEND"})
  BY LooseEnters DEF Loose, OffStates, UpStates
<1>10. Here(<<s3>>, {}, {}, {"STARTUP", "SUSPEND"})
  BY <1>9, GoRule, Code1 DEF s3
<1>11. Here(b3, {}, {}, {"STARTUP", "SUSPEND"})
  BY <1>10 DEF b3
<1>12. Here(b3 \o <<>>, {}, {}, {"STARTUP", "SUSPEND"})
  BY <1>11, Code1 DEF b3
<1>13. Here(<<s4>>, {}, {}, {"STARTUP", "SUSPEND"})
  BY <1>8, <1>12, HighLast DEF s4
<1>14. Here(b4, {}, {}, {"STARTUP", "SUSPEND"})
  BY <1>13 DEF b4
<1>15. Here(b4 \o <<>>, {}, {}, {"STARTUP", "SUSPEND"})
  BY <1>14, Code1 DEF b4
<1>16. Here(<<s5>>, {}, {}, {"STARTUP", "SUSPEND"})
  BY <1>4, <1>15, HighLast DEF s5
<1>17. Here(b5, {}, {}, {"STARTUP", "SUSPEND"})
  BY <1>16 DEF b5
<1>18. Here(b5 \o <<>>, {}, {}, {"STARTUP", "SUSPEND"})
  BY <1>17, Code1 DEF b5
<1>19. Here(BraswellShutdown \o <<s3>>, {}, {}, {"STARTUP", "SUSPEND"})
  BY <1>10, BraswellShutdownThen, Code1
<1>20. Here(b6, {}, {}, {"STARTUP", "SUSPEND"})
  BY <1>19 DEF b6
<1>21. Here(b6 \o <<>>, {}, {}, {"STARTUP", "SUSPEND"})
  BY <1>20, BraswellShutdownEnd, Code1 DEF b6
<1>22. Here(<<s6>>, {}, {}, {"STARTUP", "SUSPEND"})
  BY <1>18, <1>21, HasLast DEF s6
<1>23. Here(Braswell("S3"), {}, {}, {"STARTUP", "SUSPEND"})
  BY <1>22, BraswellIsS3 DEF s1, b1, s2, b2, s3, b3, s4, b4, s5, b5, b6, s6
<1>24. heard \subseteq {"STARTUP", "SUSPEND"}
  BY DEF Enters, HeardIn, OffStates, UpStates
<1> QED BY <1>23, <1>24, LooseWeakens

\* POWER_S0
LEMMA BraswellS0 ==
  ASSUME NEW on, NEW off, NEW heard, Enters("braswell", "S0", on, off, heard)
  PROVE  Fine("braswell", "S0", Braswell("S0"), on, off, heard)
<1> DEFINE Here(todo, on_, off_, heard_) == Fine("braswell", "S0", todo, on_, off_, heard_)
           s1 == Stay
           b1 == <<s1>>
           s2 == Go("S0S3")
           b2 == <<s2>>
           s3 == Has({"RSMRST_PWRGD", "ALL_SYS_PWRGD", "SLP_S3", "SLP_S4"},
                 b1, b2)
           b3 == <<s3>>
           b4 == BraswellShutdown \o <<s2>>
           s4 == Has({"RSMRST_PWRGD"}, b3, b4)
<1> HIDE DEF s1, b1, s2, b2, s3, b3, b4, s4
<1>1. Enters("braswell", "S0", {}, {}, {"RESUME"})
  BY LooseEnters DEF Loose, OffStates, UpStates
<1>2. Here(<<s1>>, {}, {}, {"RESUME"})
  BY <1>1, StayFine DEF s1
<1>3. Here(b1, {}, {}, {"RESUME"})
  BY <1>2 DEF b1
<1>4. Here(b1 \o <<>>, {}, {}, {"RESUME"})
  BY <1>3, Code1 DEF b1
<1>5. Enters("braswell", "S0S3", {}, {}, {"RESUME"})
  BY LooseEnters DEF Loose, OffStates, UpStates
<1>6. Here(<<s2>>, {}, {}, {"RESUME"})
  BY <1>5, GoRule, Code1 DEF s2
<1>7. Here(b2, {}, {}, {"RESUME"})
  BY <1>6 DEF b2
<1>8. Here(b2 \o <<>>, {}, {}, {"RESUME"})
  BY <1>7, Code1 DEF b2
<1>9. Here(<<s3>>, {}, {}, {"RESUME"})
  BY <1>4, <1>8, HasLast DEF s3
<1>10. Here(b3, {}, {}, {"RESUME"})
  BY <1>9 DEF b3
<1>11. Here(b3 \o <<>>, {}, {}, {"RESUME"})
  BY <1>10, Code1 DEF b3
<1>12. Here(BraswellShutdown \o <<s2>>, {}, {}, {"RESUME"})
  BY <1>6, BraswellShutdownThen, Code1
<1>13. Here(b4, {}, {}, {"RESUME"})
  BY <1>12 DEF b4
<1>14. Here(b4 \o <<>>, {}, {}, {"RESUME"})
  BY <1>13, BraswellShutdownEnd, Code1 DEF b4
<1>15. Here(<<s4>>, {}, {}, {"RESUME"})
  BY <1>11, <1>14, HasLast DEF s4
<1>16. Here(Braswell("S0"), {}, {}, {"RESUME"})
  BY <1>15, BraswellIsS0 DEF s1, b1, s2, b2, s3, b3, b4, s4
<1>17. heard \subseteq {"RESUME"}
  BY DEF Enters, HeardIn, OffStates, UpStates
<1> QED BY <1>16, <1>17, LooseWeakens

\* POWER_G3S5
LEMMA BraswellG3S5 ==
  ASSUME NEW on, NEW off, NEW heard, Enters("braswell", "G3S5", on, off, heard)
  PROVE  Fine("braswell", "G3S5", Braswell("G3S5"), on, off, heard)
<1> DEFINE Here(todo, on_, off_, heard_) == Fine("braswell", "G3S5", todo, on_, off_, heard_)
           s1 == Off("SUSPWRDNACK_SOC_EC")
           s2 == Go("G3")
           b1 == BraswellShutdown \o <<s2>>
           s3 == Wait({"RSMRST_PWRGD"}, b1)
           s4 == On("RSMRST_L")
           s5 == Go("S5")
           r1 == <<s1, s3, s4, s5>>
           r2 == <<s3, s4, s5>>
<1> HIDE DEF s1, s2, b1, s3, s4, s5, r1, r2
<1>1. "braswell" \in Loose
  BY DEF Loose
<1>2. "SUSPWRDNACK_SOC_EC" \notin Flags
  BY DEF Flags
<1>3. "RSMRST_L" \notin Flags
  BY DEF Flags
<1>4. Enters("braswell", "S5", {}, {}, {"SHUTDOWN"})
  BY LooseEnters DEF Loose, OffStates, UpStates
<1>5. Here(<<s5>>, {}, {}, {"SHUTDOWN"})
  BY <1>4, GoRule, Code1 DEF s5
<1>6. Here(<<s4, s5>>, {}, {}, {"SHUTDOWN"})
  BY <1>5, <1>1, <1>3, LooseOn, Code2 DEF s4
<1>7. Enters("braswell", "G3", {}, {}, {"SHUTDOWN"})
  BY LooseEnters DEF Loose, OffStates, UpStates
<1>8. Here(<<s2>>, {}, {}, {"SHUTDOWN"})
  BY <1>7, GoRule, Code1 DEF s2
<1>9. Here(BraswellShutdown \o <<s2>>, {}, {}, {"SHUTDOWN"})
  BY <1>8, BraswellShutdownThen, Code1
<1>10. Here(b1, {}, {}, {"SHUTDOWN"})
  BY <1>9 DEF b1
<1>11. IsCode(b1)
  BY Code1, BraswellShutdownAfter DEF b1
<1>12. IsCode(r2)
  BY Code3 DEF r2
<1>13. r2 # <<>> /\ Head(r2) = s3 /\ Tail(r2) = <<s4, s5>>
  BY Code3 DEF r2
<1>14. Here(r2, {}, {}, {"SHUTDOWN"})
  BY <1>6, <1>10, <1>11, WaitRule, <1>13, <1>12 DEF s3
<1>15. r1 # <<>> /\ Head(r1) = s1 /\ Tail(r1) = r2
  BY Code4 DEF r1, r2
<1>16. Here(r1, {}, {}, {"SHUTDOWN"})
  BY <1>14, <1>1, <1>2, LooseOff, <1>15 DEF s1
<1>17. Here(Braswell("G3S5"), {}, {}, {"SHUTDOWN"})
  BY <1>16, BraswellIsG3S5 DEF s1, s2, b1, s3, s4, s5, r1, r2
<1>18. heard \subseteq {"SHUTDOWN"}
  BY DEF Enters, HeardIn, OffStates, UpStates
<1> QED BY <1>17, <1>18, LooseWeakens

\* POWER_S5S3
LEMMA BraswellS5S3 ==
  ASSUME NEW on, NEW off, NEW heard, Enters("braswell", "S5S3", on, off, heard)
  PROVE  Fine("braswell", "S5S3", Braswell("S5S3"), on, off, heard)
<1> DEFINE Here(todo, on_, off_, heard_) == Fine("braswell", "S5S3", todo, on_, off_, heard_)
           s1 == Notify("STARTUP")
           s2 == Go("S3")
<1> HIDE DEF s1, s2
<1>1. \A h \in {"SHUTDOWN"} : <<h, "STARTUP">> \in HookOrder
  BY HooksInOrder
<1>2. Enters("braswell", "S3", {}, {}, {"STARTUP"})
  BY LooseEnters DEF Loose, OffStates, UpStates
<1>3. Here(<<s2>>, {}, {}, {"STARTUP"})
  BY <1>2, GoRule, Code1 DEF s2
<1>4. Here(<<s1, s2>>, {}, {}, {"SHUTDOWN"})
  BY <1>3, <1>1, NotifyRule, Code2 DEF s1
<1>5. Here(Braswell("S5S3"), {}, {}, {"SHUTDOWN"})
  BY <1>4, BraswellIsS5S3 DEF s1, s2
<1>6. heard \subseteq {"SHUTDOWN"}
  BY DEF Enters, HeardIn, OffStates, UpStates
<1> QED BY <1>5, <1>6, LooseWeakens

\* POWER_S3S0
LEMMA BraswellS3S0 ==
  ASSUME NEW on, NEW off, NEW heard, Enters("braswell", "S3S0", on, off, heard)
  PROVE  Fine("braswell", "S3S0", Braswell("S3S0"), on, off, heard)
<1> DEFINE Here(todo, on_, off_, heard_) == Fine("braswell", "S3S0", todo, on_, off_, heard_)
           s1 == Go("S3S5")
           b1 == BraswellShutdown \o <<s1>>
           s2 == Has({"RSMRST_PWRGD"}, <<>>, b1)
           s3 == Notify("RESUME")
           s4 == On("SYS_PWROK")
           s5 == Go("S0")
           r1 == <<s2, s3, s4, s5>>
           r2 == <<s3, s4, s5>>
<1> HIDE DEF s1, b1, s2, s3, s4, s5, r1, r2
<1>1. \A h \in {"STARTUP", "SUSPEND"} : <<h, "RESUME">> \in HookOrder
  BY HooksInOrder
<1>2. "braswell" \in Loose
  BY DEF Loose
<1>3. "SYS_PWROK" \notin Flags
  BY DEF Flags
<1>4. Enters("braswell", "S0", {}, {}, {"RESUME"})
  BY LooseEnters DEF Loose, OffStates, UpStates
<1>5. Here(<<s5>>, {}, {}, {"RESUME"})
  BY <1>4, GoRule, Code1 DEF s5
<1>6. Here(<<s4, s5>>, {}, {}, {"RESUME"})
  BY <1>5, <1>2, <1>3, LooseOn, Code2 DEF s4
<1>7. r2 # <<>> /\ Head(r2) = s3 /\ Tail(r2) = <<s4, s5>>
  BY Code3 DEF r2
<1>8. Here(r2, {}, {}, {"STARTUP", "SUSPEND"})
  BY <1>6, <1>1, NotifyRule, <1>7 DEF s3
<1>9. Here(<<>> \o r2, {}, {}, {"STARTUP", "SUSPEND"})
  BY <1>8, Code3
<1>10. IsCode(r2)
  BY Code3 DEF r2
<1>11. <<s1>> \o r2 # <<>> /\ Head(<<s1>> \o r2) = s1 /\ Tail(<<s1>> \o r2) =
         r2
  BY Prepend1, <1>10
<1>12. Enters("braswell", "S3S5", {}, {}, {"STARTUP", "SUSPEND"})
  BY LooseEnters DEF Loose, OffStates, UpStates
<1>13. Here(<<s1>> \o r2, {}, {}, {"STARTUP", "SUSPEND"})
  BY <1>12, <1>11, GoRule DEF s1
<1>14. Here(BraswellShutdown \o (<<s1>> \o r2), {}, {}, {"STARTUP",
         "SUSPEND"})
  BY <1>13, BraswellShutdownThen, <1>10, Prepend1
<1>15. Here(b1 \o r2, {}, {}, {"STARTUP", "SUSPEND"})
  BY <1>14, <1>10, BraswellShutdownAfter, Code1 DEF b1
<1>16. r1 # <<>> /\ Head(r1) = s2 /\ Tail(r1) = r2
  BY Code4 DEF r1, r2
<1>17. Here(r1, {}, {}, {"STARTUP", "SUSPEND"})
  BY <1>9, <1>15, HasRule, <1>16 DEF s2
<1>18. Here(Braswell("S3S0"), {}, {}, {"STARTUP", "SUSPEND"})
  BY <1>17, BraswellIsS3S0 DEF s1, b1, s2, s3, s4, s5, r1, r2
<1>19. heard \subseteq {"STARTUP", "SUSPEND"}
  BY DEF Enters, HeardIn, OffStates, UpStates
<1> QED BY <1>18, <1>19, LooseWeakens

\* POWER_S0S3
LEMMA BraswellS0S3 ==
  ASSUME NEW on, NEW off, NEW heard, Enters("braswell", "S0S3", on, off, heard)
  PROVE  Fine("braswell", "S0S3", Braswell("S0S3"), on, off, heard)
<1> DEFINE Here(todo, on_, off_, heard_) == Fine("braswell", "S0S3", todo, on_, off_, heard_)
           s1 == Notify("SUSPEND")
           s2 == Off("SYS_PWROK")
           s3 == Go("S3")
           r1 == <<s1, s2, s3>>
<1> HIDE DEF s1, s2, s3, r1
<1>1. \A h \in {"RESUME"} : <<h, "SUSPEND">> \in HookOrder
  BY HooksInOrder
<1>2. "braswell" \in Loose
  BY DEF Loose
<1>3. "SYS_PWROK" \notin Flags
  BY DEF Flags
<1>4. Enters("braswell", "S3", {}, {}, {"SUSPEND"})
  BY LooseEnters DEF Loose, OffStates, UpStates
<1>5. Here(<<s3>>, {}, {}, {"SUSPEND"})
  BY <1>4, GoRule, Code1 DEF s3
<1>6. Here(<<s2, s3>>, {}, {}, {"SUSPEND"})
  BY <1>5, <1>2, <1>3, LooseOff, Code2 DEF s2
<1>7. r1 # <<>> /\ Head(r1) = s1 /\ Tail(r1) = <<s2, s3>>
  BY Code3 DEF r1
<1>8. Here(r1, {}, {}, {"RESUME"})
  BY <1>6, <1>1, NotifyRule, <1>7 DEF s1
<1>9. Here(Braswell("S0S3"), {}, {}, {"RESUME"})
  BY <1>8, BraswellIsS0S3 DEF s1, s2, s3, r1
<1>10. heard \subseteq {"RESUME"}
  BY DEF Enters, HeardIn, OffStates, UpStates
<1> QED BY <1>9, <1>10, LooseWeakens

\* POWER_S3S5
LEMMA BraswellS3S5 ==
  ASSUME NEW on, NEW off, NEW heard, Enters("braswell", "S3S5", on, off, heard)
  PROVE  Fine("braswell", "S3S5", Braswell("S3S5"), on, off, heard)
<1> DEFINE Here(todo, on_, off_, heard_) == Fine("braswell", "S3S5", todo, on_, off_, heard_)
           s1 == Notify("SHUTDOWN")
           s2 == Go("S5")
           b1 == <<s2>>
           s3 == Go("S5G3")
           b2 == <<s3>>
           s4 == If("pause_in_s5", b1, b2)
<1> HIDE DEF s1, s2, b1, s3, b2, s4
<1>0. "braswell" \in Loose
  BY DEF Loose
<1>1. \A h \in {"STARTUP", "SUSPEND"} : <<h, "SHUTDOWN">> \in HookOrder
  BY HooksInOrder
<1>2. Enters("braswell", "S5", {}, {}, {"SHUTDOWN"})
  BY LooseEnters DEF Loose, OffStates, UpStates
<1>3. Here(<<s2>>, {}, {}, {"SHUTDOWN"})
  BY <1>2, GoRule, Code1 DEF s2
<1>4. Here(b1, {}, {}, {"SHUTDOWN"})
  BY <1>3 DEF b1
<1>5. Here(b1 \o <<>>, {}, {}, {"SHUTDOWN"})
  BY <1>4, Code1 DEF b1
<1>6. Enters("braswell", "S5G3", {}, {}, {"SHUTDOWN"})
  BY LooseEnters DEF Loose, OffStates, UpStates
<1>7. Here(<<s3>>, {}, {}, {"SHUTDOWN"})
  BY <1>6, GoRule, Code1 DEF s3
<1>8. Here(b2, {}, {}, {"SHUTDOWN"})
  BY <1>7 DEF b2
<1>9. Here(b2 \o <<>>, {}, {}, {"SHUTDOWN"})
  BY <1>8, Code1 DEF b2
<1>10. "pause_in_s5" \in Flags
  BY DEF Flags
<1>11. Here(<<s4>>, {}, {}, {"SHUTDOWN"})
  BY <1>0, <1>5, <1>9, <1>10, LooseIfLast DEF s4
<1>12. Here(<<s1, s4>>, {}, {}, {"STARTUP", "SUSPEND"})
  BY <1>11, <1>1, NotifyRule, Code2 DEF s1
<1>14. Here(Braswell("S3S5"), {}, {}, {"STARTUP", "SUSPEND"})
  BY <1>12, BraswellIsS3S5 DEF s1, s2, b1, s3, b2, s4
<1>15. heard \subseteq {"STARTUP", "SUSPEND"}
  BY DEF Enters, HeardIn, OffStates, UpStates
<1> QED BY <1>14, <1>15, LooseWeakens

\* POWER_S5G3
LEMMA BraswellS5G3 ==
  ASSUME NEW on, NEW off, NEW heard, Enters("braswell", "S5G3", on, off, heard)
  PROVE  Fine("braswell", "S5G3", Braswell("S5G3"), on, off, heard)
<1> DEFINE Here(todo, on_, off_, heard_) == Fine("braswell", "S5G3", todo, on_, off_, heard_)
           s1 == On("SUSPWRDNACK_SOC_EC")
           s2 == Lower("forcing_shutdown")
           s3 == Go("G3")
           r1 == <<s1, s2, s3>>
           b1 == r1
           s4 == Off("RSMRST_L")
           r2 == <<s4, s1, s3>>
           b2 == r2
           s5 == Go("S5")
           b3 == <<s5>>
           s6 == Either(b2, b3)
           b4 == <<s6>>
           s7 == If("forcing_shutdown", b1, b4)
<1> HIDE DEF s1, s2, s3, r1, b1, s4, r2, b2, s5, b3, s6, b4, s7
<1>0. "braswell" \in Loose
  BY DEF Loose
<1>2. "SUSPWRDNACK_SOC_EC" \notin Flags
  BY DEF Flags
<1>3. "forcing_shutdown" \in Flags
  BY DEF Flags
<1>4. Enters("braswell", "G3", {}, {}, {"SHUTDOWN"})
  BY LooseEnters DEF Loose, OffStates, UpStates
<1>5. Here(<<s3>>, {}, {}, {"SHUTDOWN"})
  BY <1>4, GoRule, Code1 DEF s3
<1>6. Here(<<s2, s3>>, {}, {}, {"SHUTDOWN"})
  BY <1>5, <1>0, <1>3, LooseLower, Code2 DEF s2
<1>7. r1 # <<>> /\ Head(r1) = s1 /\ Tail(r1) = <<s2, s3>>
  BY Code3 DEF r1
<1>8. Here(r1, {}, {}, {"SHUTDOWN"})
  BY <1>6, <1>0, <1>2, LooseOn, <1>7 DEF s1
<1>9. Here(b1, {}, {}, {"SHUTDOWN"})
  BY <1>8 DEF b1
<1>10. Here(b1 \o <<>>, {}, {}, {"SHUTDOWN"})
  BY <1>9, Code3 DEF b1
<1>11. "RSMRST_L" \notin Flags
  BY DEF Flags
<1>12. Here(<<s1, s3>>, {}, {}, {"SHUTDOWN"})
  BY <1>5, <1>0, <1>2, LooseOn, Code2 DEF s1
<1>13. r2 # <<>> /\ Head(r2) = s4 /\ Tail(r2) = <<s1, s3>>
  BY Code3 DEF r2
<1>14. Here(r2, {}, {}, {"SHUTDOWN"})
  BY <1>12, <1>0, <1>11, LooseOff, <1>13 DEF s4
<1>15. Here(b2, {}, {}, {"SHUTDOWN"})
  BY <1>14 DEF b2
<1>16. Here(b2 \o <<>>, {}, {}, {"SHUTDOWN"})
  BY <1>15, Code3 DEF b2
<1>17. Enters("braswell", "S5", {}, {}, {"SHUTDOWN"})
  BY LooseEnters DEF Loose, OffStates, UpStates
<1>18. Here(<<s5>>, {}, {}, {"SHUTDOWN"})
  BY <1>17, GoRule, Code1 DEF s5
<1>19. Here(b3, {}, {}, {"SHUTDOWN"})
  BY <1>18 DEF b3
<1>20. Here(b3 \o <<>>, {}, {}, {"SHUTDOWN"})
  BY <1>19, Code1 DEF b3
<1>21. Here(<<s6>>, {}, {}, {"SHUTDOWN"})
  BY <1>16, <1>20, EitherLast DEF s6
<1>22. Here(b4, {}, {}, {"SHUTDOWN"})
  BY <1>21 DEF b4
<1>23. Here(b4 \o <<>>, {}, {}, {"SHUTDOWN"})
  BY <1>22, Code1 DEF b4
<1>24. Here(<<s7>>, {}, {}, {"SHUTDOWN"})
  BY <1>0, <1>10, <1>23, <1>3, LooseIfLast DEF s7
<1>25. Here(Braswell("S5G3"), {}, {}, {"SHUTDOWN"})
  BY <1>24, BraswellIsS5G3 DEF s1, s2, s3, r1, b1, s4, r2, b2, s5, b3, s6, b4,
     s7
<1>26. heard \subseteq {"SHUTDOWN"}
  BY DEF Enters, HeardIn, OffStates, UpStates
<1> QED BY <1>25, <1>26, LooseWeakens

-----------------------------------------------------------------------------
(* Skylake                                                                 *)

\* A forced shutdown and what is done after it
LEMMA SkylakeShutdownThen ==
  ASSUME NEW st, NEW rest, IsCode(rest), NEW heard, Fine("skylake", st, rest, {}, {}, heard)
  PROVE  Fine("skylake", st, SkylakeShutdown \o rest, {}, {}, heard)
<1> DEFINE b == <<Raise("forcing_shutdown"), Off("PWRBTN_L")>>
           s == InState("G3", <<>>, b)
<1> "skylake" \in Loose
  BY DEF Loose
<1>0. "PWRBTN_L" \notin Flags /\ "forcing_shutdown" \in Flags
  BY DEF Flags
<1>1. Fine("skylake", st, <<Off("PWRBTN_L")>> \o rest, {}, {}, heard)
  BY <1>0, LooseOff, Prepend1
<1>2. Fine("skylake", st, b \o rest, {}, {}, heard)
  <2>1. /\ b \o rest # <<>> /\ Head(b \o rest) = Raise("forcing_shutdown")
        /\ Tail(b \o rest) = <<Off("PWRBTN_L")>> \o rest
    BY Prepend2
  <2> HIDE DEF b
  <2> QED BY <1>0, <1>1, <2>1, LooseRaise
<1>3. Fine("skylake", st, <<>> \o rest, {}, {}, heard)
  BY CodeAround
<1> HIDE DEF b
<1>4. <<s>> \o rest # <<>> /\ Head(<<s>> \o rest) = s /\ Tail(<<s>> \o rest) = rest
  BY Prepend1
<1>5. Fine("skylake", st, <<s>> \o rest, {}, {}, heard)
  BY <1>2, <1>3, <1>4, InStateRule
<1> QED BY <1>5 DEF SkylakeShutdown, b

LEMMA SkylakeShutdownIsCode == IsCode(SkylakeShutdown)
  BY Code1 DEF SkylakeShutdown

\* Each pass begins with RSMRST#, which follows its power-good signal.
SkylakeFirst == High("RSMRST_PGOOD", <<On("RSMRST_L")>>, <<Off("RSMRST_L")>>)

LEMMA SkylakeThen ==
  ASSUME NEW st, NEW rest, IsCode(rest), NEW heard, Fine("skylake", st, rest, {}, {}, heard)
  PROVE  Fine("skylake", st, <<SkylakeFirst>> \o rest, {}, {}, heard)
<1> DEFINE b1 == <<On("RSMRST_L")>>
           b2 == <<Off("RSMRST_L")>>
<1> "skylake" \in Loose
  BY DEF Loose
<1>0. "RSMRST_L" \notin Flags
  BY DEF Flags
<1>1. Fine("skylake", st, b1 \o rest, {}, {}, heard)
  BY <1>0, LooseOn, Prepend1
<1>2. Fine("skylake", st, b2 \o rest, {}, {}, heard)
  BY <1>0, LooseOff, Prepend1
<1>3. SkylakeFirst = High("RSMRST_PGOOD", b1, b2)
  BY DEF SkylakeFirst
<1> HIDE DEF b1, b2
<1>4. <<SkylakeFirst>> \o rest # <<>> /\ Head(<<SkylakeFirst>> \o rest) = SkylakeFirst
      /\ Tail(<<SkylakeFirst>> \o rest) = rest
  BY Prepend1
<1> QED BY <1>1, <1>2, <1>3, <1>4, HighRule

LEMMA SkylakeShutdownEnd ==
  ASSUME NEW rest, IsCode(rest)
  PROVE  (SkylakeShutdown \o rest) \o <<>> = SkylakeShutdown \o rest
<1>1. IsCode(SkylakeShutdown \o rest)
  BY JoinCode, SkylakeShutdownIsCode
<1> QED BY <1>1, CodeAround

LEMMA SkylakeShutdownAfter ==
  ASSUME NEW rest, IsCode(rest), NEW s, IsCode(s)
  PROVE  /\ (s \o SkylakeShutdown) \o rest = s \o (SkylakeShutdown \o rest)
         /\ (SkylakeShutdown \o s) \o rest = SkylakeShutdown \o (s \o rest)
         /\ IsCode(SkylakeShutdown \o rest) /\ IsCode((s \o SkylakeShutdown) \o rest)
<1>1. (s \o SkylakeShutdown) \o rest = s \o (SkylakeShutdown \o rest)
  BY JoinAssociative, SkylakeShutdownIsCode
<1>2. (SkylakeShutdown \o s) \o rest = SkylakeShutdown \o (s \o rest)
  BY JoinAssociative, SkylakeShutdownIsCode
<1>3. IsCode(SkylakeShutdown \o rest) /\ IsCode((s \o SkylakeShutdown) \o rest)
  BY JoinCode, SkylakeShutdownIsCode
<1> QED BY <1>1, <1>2, <1>3

\* The statements of each state
LEMMA SkylakeIsG3 ==
  Skylake("G3") =
    <<SkylakeFirst>> \o <<If("forcing_shutdown", <<On("PWRBTN_L"),
      Lower("forcing_shutdown")>>, <<>>), Stay>>
  BY DEF Skylake, SkylakeFirst

LEMMA SkylakeIsS5 ==
  Skylake("S5") =
    <<SkylakeFirst>> \o <<High("SLP_S4", <<Go("S5S3")>>, <<Stay>>)>>
  BY DEF Skylake, SkylakeFirst

LEMMA SkylakeIsS3 ==
  Skylake("S3") =
    <<SkylakeFirst>> \o <<High("SLP_S3", <<Go("S3S0")>>, <<High("SLP_S4",
      <<Stay>>, <<Go("S3S5")>>)>>)>>
  BY DEF Skylake, SkylakeFirst

LEMMA SkylakeIsS0 ==
  Skylake("S0") =
    <<SkylakeFirst>> \o <<High("SLP_S3", <<Stay>>, <<Go("S0S3")>>)>>
  BY DEF Skylake, SkylakeFirst

LEMMA SkylakeIsG3S5 ==
  Skylake("G3S5") =
    <<SkylakeFirst>> \o <<Wait({"SLP_SUS"}, SkylakeShutdown \o
      <<Go("G3")>>), Go("S5")>>
  BY DEF Skylake, SkylakeFirst

LEMMA SkylakeIsS5S3 ==
  Skylake("S5S3") =
    <<SkylakeFirst>> \o <<Notify("STARTUP"), Go("S3")>>
  BY DEF Skylake, SkylakeFirst

LEMMA SkylakeIsS3S0 ==
  Skylake("S3S0") =
    <<SkylakeFirst>> \o <<Notify("RESUME"), Go("S0")>>
  BY DEF Skylake, SkylakeFirst

LEMMA SkylakeIsS0S3 ==
  Skylake("S0S3") =
    <<SkylakeFirst>> \o <<Notify("SUSPEND"), Go("S3")>>
  BY DEF Skylake, SkylakeFirst

LEMMA SkylakeIsS3S5 ==
  Skylake("S3S5") =
    <<SkylakeFirst>> \o <<Notify("SHUTDOWN"), Go("S5G3")>>
  BY DEF Skylake, SkylakeFirst

LEMMA SkylakeIsS5G3 ==
  Skylake("S5G3") =
    <<SkylakeFirst>> \o <<Go("G3")>>
  BY DEF Skylake, SkylakeFirst

\* POWER_G3
LEMMA SkylakeG3 ==
  ASSUME NEW on, NEW off, NEW heard, Enters("skylake", "G3", on, off, heard)
  PROVE  Fine("skylake", "G3", Skylake("G3"), on, off, heard)
<1> DEFINE Here(todo, on_, off_, heard_) == Fine("skylake", "G3", todo, on_, off_, heard_)
           s1 == On("PWRBTN_L")
           s2 == Lower("forcing_shutdown")
           b1 == <<s1, s2>>
           s3 == If("forcing_shutdown", b1, <<>>)
           s4 == Stay
<1> HIDE DEF s1, s2, b1, s3, s4
<1>0. "skylake" \in Loose
  BY DEF Loose
<1>1. <<s1, s2>> \o <<s4>> # <<>> /\ Head(<<s1, s2>> \o <<s4>>) = s1 /\
         Tail(<<s1, s2>> \o <<s4>>) = <<s2>> \o <<s4>>
  BY Prepend2, Code1
<1>3. "PWRBTN_L" \notin Flags
  BY DEF Flags
<1>4. <<s2>> \o <<s4>> # <<>> /\ Head(<<s2>> \o <<s4>>) = s2 /\ Tail(<<s2>> \o
         <<s4>>) = <<s4>>
  BY Prepend1, Code1
<1>5. "forcing_shutdown" \in Flags
  BY DEF Flags
<1>6. Enters("skylake", "G3", {}, {}, {"SHUTDOWN"})
  BY LooseEnters DEF Loose, OffStates, UpStates
<1>7. Here(<<s4>>, {}, {}, {"SHUTDOWN"})
  BY <1>6, StayFine DEF s4
<1>8. Here(<<s2>> \o <<s4>>, {}, {}, {"SHUTDOWN"})
  BY <1>7, <1>4, <1>0, <1>5, LooseLower DEF s2
<1>9. Here(<<s1, s2>> \o <<s4>>, {}, {}, {"SHUTDOWN"})
  BY <1>8, <1>1, <1>0, <1>3, LooseOn DEF s1
<1>10. Here(b1 \o <<s4>>, {}, {}, {"SHUTDOWN"})
  BY <1>9 DEF b1
<1>11. Here(<<>> \o <<s4>>, {}, {}, {"SHUTDOWN"})
  BY <1>7, Code1
<1>12. <<s3, s4>> # <<>> /\ Head(<<s3, s4>>) = s3 /\ Tail(<<s3, s4>>) = <<s4>>
  BY Code2
<1>13. Here(<<s3, s4>>, {}, {}, {"SHUTDOWN"})
  BY <1>0, <1>10, <1>11, <1>5, LooseIf, <1>12 DEF s3
<1>14. IsCode(<<s3, s4>>)
  BY Code2
<1>15. Here(<<SkylakeFirst>> \o <<s3, s4>>, {}, {}, {"SHUTDOWN"})
  BY <1>13, <1>14, SkylakeThen
<1>16. Here(Skylake("G3"), {}, {}, {"SHUTDOWN"})
  BY <1>15, SkylakeIsG3 DEF s1, s2, b1, s3, s4
<1>17. heard \subseteq {"SHUTDOWN"}
  BY DEF Enters, HeardIn, OffStates, UpStates
<1> QED BY <1>16, <1>17, LooseWeakens

\* POWER_S5
LEMMA SkylakeS5 ==
  ASSUME NEW on, NEW off, NEW heard, Enters("skylake", "S5", on, off, heard)
  PROVE  Fine("skylake", "S5", Skylake("S5"), on, off, heard)
<1> DEFINE Here(todo, on_, off_, heard_) == Fine("skylake", "S5", todo, on_, off_, heard_)
           s1 == Go("S5S3")
           b1 == <<s1>>
           s2 == Stay
           b2 == <<s2>>
           s3 == High("SLP_S4", b1, b2)
<1> HIDE DEF s1, b1, s2, b2, s3
<1>1. Enters("skylake", "S5S3", {}, {}, {"SHUTDOWN"})
  BY LooseEnters DEF Loose, OffStates, UpStates
<1>2. Here(<<s1>>, {}, {}, {"SHUTDOWN"})
  BY <1>1, GoRule, Code1 DEF s1
<1>3. Here(b1, {}, {}, {"SHUTDOWN"})
  BY <1>2 DEF b1
<1>4. Here(b1 \o <<>>, {}, {}, {"SHUTDOWN"})
  BY <1>3, Code1 DEF b1
<1>5. Enters("skylake", "S5", {}, {}, {"SHUTDOWN"})
  BY LooseEnters DEF Loose, OffStates, UpStates
<1>6. Here(<<s2>>, {}, {}, {"SHUTDOWN"})
  BY <1>5, StayFine DEF s2
<1>7. Here(b2, {}, {}, {"SHUTDOWN"})
  BY <1>6 DEF b2
<1>8. Here(b2 \o <<>>, {}, {}, {"SHUTDOWN"})
  BY <1>7, Code1 DEF b2
<1>9. Here(<<s3>>, {}, {}, {"SHUTDOWN"})
  BY <1>4, <1>8, HighLast DEF s3
<1>10. IsCode(<<s3>>)
  BY Code1
<1>11. Here(<<SkylakeFirst>> \o <<s3>>, {}, {}, {"SHUTDOWN"})
  BY <1>9, <1>10, SkylakeThen
<1>12. Here(Skylake("S5"), {}, {}, {"SHUTDOWN"})
  BY <1>11, SkylakeIsS5 DEF s1, b1, s2, b2, s3
<1>13. heard \subseteq {"SHUTDOWN"}
  BY DEF Enters, HeardIn, OffStates, UpStates
<1> QED BY <1>12, <1>13, LooseWeakens

\* POWER_S3
LEMMA SkylakeS3 ==
  ASSUME NEW on, NEW off, NEW heard, Enters("skylake", "S3", on, off, heard)
  PROVE  Fine("skylake", "S3", Skylake("S3"), on, off, heard)
<1> DEFINE Here(todo, on_, off_, heard_) == Fine("skylake", "S3", todo, on_, off_, heard_)
           s1 == Go("S3S0")
           b1 == <<s1>>
           s2 == Stay
           b2 == <<s2>>
           s3 == Go("S3S5")
           b3 == <<s3>>
           s4 == High("SLP_S4", b2, b3)
           b4 == <<s4>>
           s5 == High("SLP_S3", b1, b4)
<1> HIDE DEF s1, b1, s2, b2, s3, b3, s4, b4, s5
<1>1. Enters("skylake", "S3S0", {}, {}, {"STARTUP", "SUSPEND"})
  BY LooseEnters DEF Loose, OffStates, UpStates
<1>2. Here(<<s1>>, {}, {}, {"STARTUP", "SUSPEND"})
  BY <1>1, GoRule, Code1 DEF s1
<1>3. Here(b1, {}, {}, {"STARTUP", "SUSPEND"})
  BY <1>2 DEF b1
<1>4. Here(b1 \o <<>>, {}, {}, {"STARTUP", "SUSPEND"})
  BY <1>3, Code1 DEF b1
<1>5. Enters("skylake", "S3", {}, {}, {"STARTUP", "SUSPEND"})
  BY LooseEnters DEF Loose, OffStates, UpStates
<1>6. Here(<<s2>>, {}, {}, {"STARTUP", "SUSPEND"})
  BY <1>5, StayFine DEF s2
<1>7. Here(b2, {}, {}, {"STARTUP", "SUSPEND"})
  BY <1>6 DEF b2
<1>8. Here(b2 \o <<>>, {}, {}, {"STARTUP", "SUSPEND"})
  BY <1>7, Code1 DEF b2
<1>9. Enters("skylake", "S3S5", {}, {}, {"STARTUP", "SUSPEND"})
  BY LooseEnters DEF Loose, OffStates, UpStates
<1>10. Here(<<s3>>, {}, {}, {"STARTUP", "SUSPEND"})
  BY <1>9, GoRule, Code1 DEF s3
<1>11. Here(b3, {}, {}, {"STARTUP", "SUSPEND"})
  BY <1>10 DEF b3
<1>12. Here(b3 \o <<>>, {}, {}, {"STARTUP", "SUSPEND"})
  BY <1>11, Code1 DEF b3
<1>13. Here(<<s4>>, {}, {}, {"STARTUP", "SUSPEND"})
  BY <1>8, <1>12, HighLast DEF s4
<1>14. Here(b4, {}, {}, {"STARTUP", "SUSPEND"})
  BY <1>13 DEF b4
<1>15. Here(b4 \o <<>>, {}, {}, {"STARTUP", "SUSPEND"})
  BY <1>14, Code1 DEF b4
<1>16. Here(<<s5>>, {}, {}, {"STARTUP", "SUSPEND"})
  BY <1>4, <1>15, HighLast DEF s5
<1>17. IsCode(<<s5>>)
  BY Code1
<1>18. Here(<<SkylakeFirst>> \o <<s5>>, {}, {}, {"STARTUP", "SUSPEND"})
  BY <1>16, <1>17, SkylakeThen
<1>19. Here(Skylake("S3"), {}, {}, {"STARTUP", "SUSPEND"})
  BY <1>18, SkylakeIsS3 DEF s1, b1, s2, b2, s3, b3, s4, b4, s5
<1>20. heard \subseteq {"STARTUP", "SUSPEND"}
  BY DEF Enters, HeardIn, OffStates, UpStates
<1> QED BY <1>19, <1>20, LooseWeakens

\* POWER_S0
LEMMA SkylakeS0 ==
  ASSUME NEW on, NEW off, NEW heard, Enters("skylake", "S0", on, off, heard)
  PROVE  Fine("skylake", "S0", Skylake("S0"), on, off, heard)
<1> DEFINE Here(todo, on_, off_, heard_) == Fine("skylake", "S0", todo, on_, off_, heard_)
           s1 == Stay
           b1 == <<s1>>
           s2 == Go("S0S3")
           b2 == <<s2>>
           s3 == High("SLP_S3", b1, b2)
<1> HIDE DEF s1, b1, s2, b2, s3
<1>1. Enters("skylake", "S0", {}, {}, {"RESUME"})
  BY LooseEnters DEF Loose, OffStates, UpStates
<1>2. Here(<<s1>>, {}, {}, {"RESUME"})
  BY <1>1, StayFine DEF s1
<1>3. Here(b1, {}, {}, {"RESUME"})
  BY <1>2 DEF b1
<1>4. Here(b1 \o <<>>, {}, {}, {"RESUME"})
  BY <1>3, Code1 DEF b1
<1>5. Enters("skylake", "S0S3", {}, {}, {"RESUME"})
  BY LooseEnters DEF Loose, OffStates, UpStates
<1>6. Here(<<s2>>, {}, {}, {"RESUME"})
  BY <1>5, GoRule, Code1 DEF s2
<1>7. Here(b2, {}, {}, {"RESUME"})
  BY <1>6 DEF b2
<1>8. Here(b2 \o <<>>, {}, {}, {"RESUME"})
  BY <1>7, Code1 DEF b2
<1>9. Here(<<s3>>, {}, {}, {"RESUME"})
  BY <1>4, <1>8, HighLast DEF s3
<1>10. IsCode(<<s3>>)
  BY Code1
<1>11. Here(<<SkylakeFirst>> \o <<s3>>, {}, {}, {"RESUME"})
  BY <1>9, <1>10, SkylakeThen
<1>12. Here(Skylake("S0"), {}, {}, {"RESUME"})
  BY <1>11, SkylakeIsS0 DEF s1, b1, s2, b2, s3
<1>13. heard \subseteq {"RESUME"}
  BY DEF Enters, HeardIn, OffStates, UpStates
<1> QED BY <1>12, <1>13, LooseWeakens

\* POWER_G3S5
LEMMA SkylakeG3S5 ==
  ASSUME NEW on, NEW off, NEW heard, Enters("skylake", "G3S5", on, off, heard)
  PROVE  Fine("skylake", "G3S5", Skylake("G3S5"), on, off, heard)
<1> DEFINE Here(todo, on_, off_, heard_) == Fine("skylake", "G3S5", todo, on_, off_, heard_)
           s1 == Go("G3")
           b1 == SkylakeShutdown \o <<s1>>
           s2 == Wait({"SLP_SUS"}, b1)
           s3 == Go("S5")
<1> HIDE DEF s1, b1, s2, s3
<1>1. Enters("skylake", "S5", {}, {}, {"SHUTDOWN"})
  BY LooseEnters DEF Loose, OffStates, UpStates
<1>2. Here(<<s3>>, {}, {}, {"SHUTDOWN"})
  BY <1>1, GoRule, Code1 DEF s3
<1>3. Enters("skylake", "G3", {}, {}, {"SHUTDOWN"})
  BY LooseEnters DEF Loose, OffStates, UpStates
<1>4. Here(<<s1>>, {}, {}, {"SHUTDOWN"})
  BY <1>3, GoRule, Code1 DEF s1
<1>5. Here(SkylakeShutdown \o <<s1>>, {}, {}, {"SHUTDOWN"})
  BY <1>4, SkylakeShutdownThen, Code1
<1>6. Here(b1, {}, {}, {"SHUTDOWN"})
  BY <1>5 DEF b1
<1>7. IsCode(b1)
  BY Code1, SkylakeShutdownAfter DEF b1
<1>8. Here(<<s2, s3>>, {}, {}, {"SHUTDOWN"})
  BY <1>2, <1>6, <1>7, WaitRule, Code2 DEF s2
<1>9. IsCode(<<s2, s3>>)
  BY Code2
<1>10. Here(<<SkylakeFirst>> \o <<s2, s3>>, {}, {}, {"SHUTDOWN"})
  BY <1>8, <1>9, SkylakeThen
<1>11. Here(Skylake("G3S5"), {}, {}, {"SHUTDOWN"})
  BY <1>10, SkylakeIsG3S5 DEF s1, b1, s2, s3
<1>12. heard \subseteq {"SHUTDOWN"}
  BY DEF Enters, HeardIn, OffStates, UpStates
<1> QED BY <1>11, <1>12, LooseWeakens

\* POWER_S5S3
LEMMA SkylakeS5S3 ==
  ASSUME NEW on, NEW off, NEW heard, Enters("skylake", "S5S3", on, off, heard)
  PROVE  Fine("skylake", "S5S3", Skylake("S5S3"), on, off, heard)
<1> DEFINE Here(todo, on_, off_, heard_) == Fine("skylake", "S5S3", todo, on_, off_, heard_)
           s1 == Notify("STARTUP")
           s2 == Go("S3")
<1> HIDE DEF s1, s2
<1>1. \A h \in {"SHUTDOWN"} : <<h, "STARTUP">> \in HookOrder
  BY HooksInOrder
<1>2. Enters("skylake", "S3", {}, {}, {"STARTUP"})
  BY LooseEnters DEF Loose, OffStates, UpStates
<1>3. Here(<<s2>>, {}, {}, {"STARTUP"})
  BY <1>2, GoRule, Code1 DEF s2
<1>4. Here(<<s1, s2>>, {}, {}, {"SHUTDOWN"})
  BY <1>3, <1>1, NotifyRule, Code2 DEF s1
<1>5. IsCode(<<s1, s2>>)
  BY Code2
<1>6. Here(<<SkylakeFirst>> \o <<s1, s2>>, {}, {}, {"SHUTDOWN"})
  BY <1>4, <1>5, SkylakeThen
<1>7. Here(Skylake("S5S3"), {}, {}, {"SHUTDOWN"})
  BY <1>6, SkylakeIsS5S3 DEF s1, s2
<1>8. heard \subseteq {"SHUTDOWN"}
  BY DEF Enters, HeardIn, OffStates, UpStates
<1> QED BY <1>7, <1>8, LooseWeakens

\* POWER_S3S0
LEMMA SkylakeS3S0 ==
  ASSUME NEW on, NEW off, NEW heard, Enters("skylake", "S3S0", on, off, heard)
  PROVE  Fine("skylake", "S3S0", Skylake("S3S0"), on, off, heard)
<1> DEFINE Here(todo, on_, off_, heard_) == Fine("skylake", "S3S0", todo, on_, off_, heard_)
           s1 == Notify("RESUME")
           s2 == Go("S0")
<1> HIDE DEF s1, s2
<1>1. \A h \in {"STARTUP", "SUSPEND"} : <<h, "RESUME">> \in HookOrder
  BY HooksInOrder
<1>2. Enters("skylake", "S0", {}, {}, {"RESUME"})
  BY LooseEnters DEF Loose, OffStates, UpStates
<1>3. Here(<<s2>>, {}, {}, {"RESUME"})
  BY <1>2, GoRule, Code1 DEF s2
<1>4. Here(<<s1, s2>>, {}, {}, {"STARTUP", "SUSPEND"})
  BY <1>3, <1>1, NotifyRule, Code2 DEF s1
<1>5. IsCode(<<s1, s2>>)
  BY Code2
<1>6. Here(<<SkylakeFirst>> \o <<s1, s2>>, {}, {}, {"STARTUP", "SUSPEND"})
  BY <1>4, <1>5, SkylakeThen
<1>7. Here(Skylake("S3S0"), {}, {}, {"STARTUP", "SUSPEND"})
  BY <1>6, SkylakeIsS3S0 DEF s1, s2
<1>8. heard \subseteq {"STARTUP", "SUSPEND"}
  BY DEF Enters, HeardIn, OffStates, UpStates
<1> QED BY <1>7, <1>8, LooseWeakens

\* POWER_S0S3
LEMMA SkylakeS0S3 ==
  ASSUME NEW on, NEW off, NEW heard, Enters("skylake", "S0S3", on, off, heard)
  PROVE  Fine("skylake", "S0S3", Skylake("S0S3"), on, off, heard)
<1> DEFINE Here(todo, on_, off_, heard_) == Fine("skylake", "S0S3", todo, on_, off_, heard_)
           s1 == Notify("SUSPEND")
           s2 == Go("S3")
<1> HIDE DEF s1, s2
<1>1. \A h \in {"RESUME"} : <<h, "SUSPEND">> \in HookOrder
  BY HooksInOrder
<1>2. Enters("skylake", "S3", {}, {}, {"SUSPEND"})
  BY LooseEnters DEF Loose, OffStates, UpStates
<1>3. Here(<<s2>>, {}, {}, {"SUSPEND"})
  BY <1>2, GoRule, Code1 DEF s2
<1>4. Here(<<s1, s2>>, {}, {}, {"RESUME"})
  BY <1>3, <1>1, NotifyRule, Code2 DEF s1
<1>5. IsCode(<<s1, s2>>)
  BY Code2
<1>6. Here(<<SkylakeFirst>> \o <<s1, s2>>, {}, {}, {"RESUME"})
  BY <1>4, <1>5, SkylakeThen
<1>7. Here(Skylake("S0S3"), {}, {}, {"RESUME"})
  BY <1>6, SkylakeIsS0S3 DEF s1, s2
<1>8. heard \subseteq {"RESUME"}
  BY DEF Enters, HeardIn, OffStates, UpStates
<1> QED BY <1>7, <1>8, LooseWeakens

\* POWER_S3S5
LEMMA SkylakeS3S5 ==
  ASSUME NEW on, NEW off, NEW heard, Enters("skylake", "S3S5", on, off, heard)
  PROVE  Fine("skylake", "S3S5", Skylake("S3S5"), on, off, heard)
<1> DEFINE Here(todo, on_, off_, heard_) == Fine("skylake", "S3S5", todo, on_, off_, heard_)
           s1 == Notify("SHUTDOWN")
           s2 == Go("S5G3")
<1> HIDE DEF s1, s2
<1>1. \A h \in {"STARTUP", "SUSPEND"} : <<h, "SHUTDOWN">> \in HookOrder
  BY HooksInOrder
<1>2. Enters("skylake", "S5G3", {}, {}, {"SHUTDOWN"})
  BY LooseEnters DEF Loose, OffStates, UpStates
<1>3. Here(<<s2>>, {}, {}, {"SHUTDOWN"})
  BY <1>2, GoRule, Code1 DEF s2
<1>4. Here(<<s1, s2>>, {}, {}, {"STARTUP", "SUSPEND"})
  BY <1>3, <1>1, NotifyRule, Code2 DEF s1
<1>5. IsCode(<<s1, s2>>)
  BY Code2
<1>6. Here(<<SkylakeFirst>> \o <<s1, s2>>, {}, {}, {"STARTUP", "SUSPEND"})
  BY <1>4, <1>5, SkylakeThen
<1>7. Here(Skylake("S3S5"), {}, {}, {"STARTUP", "SUSPEND"})
  BY <1>6, SkylakeIsS3S5 DEF s1, s2
<1>8. heard \subseteq {"STARTUP", "SUSPEND"}
  BY DEF Enters, HeardIn, OffStates, UpStates
<1> QED BY <1>7, <1>8, LooseWeakens

\* POWER_S5G3
LEMMA SkylakeS5G3 ==
  ASSUME NEW on, NEW off, NEW heard, Enters("skylake", "S5G3", on, off, heard)
  PROVE  Fine("skylake", "S5G3", Skylake("S5G3"), on, off, heard)
<1> DEFINE Here(todo, on_, off_, heard_) == Fine("skylake", "S5G3", todo, on_, off_, heard_)
           s1 == Go("G3")
<1> HIDE DEF s1
<1>1. Enters("skylake", "G3", {}, {}, {"SHUTDOWN"})
  BY LooseEnters DEF Loose, OffStates, UpStates
<1>2. Here(<<s1>>, {}, {}, {"SHUTDOWN"})
  BY <1>1, GoRule, Code1 DEF s1
<1>3. IsCode(<<s1>>)
  BY Code1
<1>4. Here(<<SkylakeFirst>> \o <<s1>>, {}, {}, {"SHUTDOWN"})
  BY <1>2, <1>3, SkylakeThen
<1>5. Here(Skylake("S5G3"), {}, {}, {"SHUTDOWN"})
  BY <1>4, SkylakeIsS5G3 DEF s1
<1>6. heard \subseteq {"SHUTDOWN"}
  BY DEF Enters, HeardIn, OffStates, UpStates
<1> QED BY <1>5, <1>6, LooseWeakens

-----------------------------------------------------------------------------
(* What a point that is fine allows                                        *)

LEMMA FineOf ==
  ASSUME NEW c, NEW st, NEW S, Closed(c, st, S),
         NEW todo, NEW on, NEW off, NEW heard, Follows(S, todo, on, off, heard)
  PROVE  Fine(c, st, todo, on, off, heard)
  BY DEF Fine

\* What a point that is fine allows
LEMMA FinePoints ==
  ASSUME NEW c, NEW st, NEW todo, NEW on, NEW off, NEW heard, Fine(c, st, todo, on, off, heard)
  PROVE  \E S, p : /\ Closed(c, st, S) /\ PointOk(c, st, S, p) /\ p.todo = todo
                   /\ p.on \subseteq on /\ p.off \subseteq off /\ heard \subseteq p.heard
  BY DEF Fine, Follows, Closed

\* What follows is fine, and so it is for who knows more.
LEMMA FollowedFine ==
  ASSUME NEW c, NEW st, NEW S, Closed(c, st, S),
         NEW todo, NEW on1, NEW off1, NEW heard1, Follows(S, todo, on1, off1, heard1),
         NEW on2, NEW off2, NEW heard2,
         on1 \subseteq on2, off1 \subseteq off2, heard2 \subseteq heard1
  PROVE  Fine(c, st, todo, on2, off2, heard2)
  BY FineWeakens DEF Fine

LEMMA EntersGrows ==
  ASSUME NEW c, NEW st, NEW on1, NEW off1, NEW heard1, Enters(c, st, on1, off1, heard1),
         NEW on2, NEW off2, NEW heard2,
         on1 \subseteq on2, off1 \subseteq off2, heard2 \subseteq heard1
  PROVE  Enters(c, st, on2, off2, heard2)
  BY DEF Enters

\* A pass that has ended enters its state.
LEMMA FineEnd ==
  ASSUME NEW c, NEW st, NEW on, NEW off, NEW heard, Fine(c, st, <<>>, on, off, heard)
  PROVE  Enters(c, st, on, off, heard)
<1>1. PICK S, p : /\ PointOk(c, st, S, p) /\ p.todo = <<>>
                  /\ p.on \subseteq on /\ p.off \subseteq off /\ heard \subseteq p.heard
  BY FinePoints
<1> QED BY <1>1, EntersGrows DEF PointOk

LEMMA FineStay ==
  ASSUME NEW c, NEW st, NEW on, NEW off, NEW heard, Fine(c, st, <<Stay>>, on, off, heard)
  PROVE  Fine(c, st, power_common_state(st), on, off, heard)
<1>1. PICK S, p : /\ Closed(c, st, S) /\ PointOk(c, st, S, p) /\ p.todo = <<Stay>>
                  /\ p.on \subseteq on /\ p.off \subseteq off /\ heard \subseteq p.heard
  BY FinePoints
<1> QED BY <1>1, FollowedFine DEF PointOk

\* Outputs, flags and hooks
LEMMA FineOutput ==
  ASSUME NEW c, NEW st, NEW todo, NEW on, NEW off, NEW heard,
         Fine(c, st, todo, on, off, heard), todo # <<>>,
         NEW s, s = Head(todo)
  PROVE  /\ s.do = "on" =>
              /\ MayTurnOn(c, s.pin, on, off)
              /\ Fine(c, st, Tail(todo), on \cup {s.pin}, off \ {s.pin}, heard)
         /\ s.do = "off" =>
              /\ MayTurnOff(c, s.pin, off)
              /\ Fine(c, st, Tail(todo), on \ {s.pin}, off \cup {s.pin}, heard)
         /\ s.do = "raise" =>
              /\ MayRaise(c, s.flag, off)
              /\ Fine(c, st, Tail(todo), on, off \ {s.flag}, heard)
         /\ s.do = "lower" =>
              /\ s.flag \in Flags
              /\ Fine(c, st, Tail(todo), on, off \cup {s.flag}, heard)
         /\ s.do = "notify" =>
              /\ \A h \in heard : <<h, s.hook>> \in HookOrder
              /\ Fine(c, st, Tail(todo), on, off, {s.hook})
<1>1. PICK S, p : /\ Closed(c, st, S) /\ PointOk(c, st, S, p) /\ p.todo = todo
                  /\ p.on \subseteq on /\ p.off \subseteq off /\ heard \subseteq p.heard
  BY FinePoints
<1>2. StatementOk(c, S, p, s, Tail(todo))
  BY <1>1 DEF PointOk
<1>3. CASE s.do = "on"
  <2>1. MayTurnOn(c, s.pin, on, off)
    BY <1>1, <1>2, <1>3 DEF StatementOk, MayTurnOn
  <2>2. Follows(S, Tail(todo), p.on \cup {s.pin}, p.off \ {s.pin}, p.heard)
    BY <1>2, <1>3 DEF StatementOk
  <2>3. Fine(c, st, Tail(todo), on \cup {s.pin}, off \ {s.pin}, heard)
    BY <1>1, <2>2, FollowedFine
  <2> QED BY <1>3, <2>1, <2>3
<1>4. CASE s.do = "off"
  <2>1. MayTurnOff(c, s.pin, off)
    BY <1>1, <1>2, <1>4 DEF StatementOk, MayTurnOff
  <2>2. Follows(S, Tail(todo), p.on \ {s.pin}, p.off \cup {s.pin}, p.heard)
    BY <1>2, <1>4 DEF StatementOk
  <2>3. Fine(c, st, Tail(todo), on \ {s.pin}, off \cup {s.pin}, heard)
    BY <1>1, <2>2, FollowedFine
  <2> QED BY <1>4, <2>1, <2>3
<1>5. CASE s.do = "raise"
  <2>1. MayRaise(c, s.flag, off)
    BY <1>1, <1>2, <1>5 DEF StatementOk, MayRaise
  <2>2. Follows(S, Tail(todo), p.on, p.off \ {s.flag}, p.heard)
    BY <1>2, <1>5 DEF StatementOk
  <2>3. Fine(c, st, Tail(todo), on, off \ {s.flag}, heard)
    BY <1>1, <2>2, FollowedFine
  <2> QED BY <1>5, <2>1, <2>3
<1>6. CASE s.do = "lower"
  <2>1. s.flag \in Flags /\ Follows(S, Tail(todo), p.on, p.off \cup {s.flag}, p.heard)
    BY <1>2, <1>6 DEF StatementOk
  <2>2. Fine(c, st, Tail(todo), on, off \cup {s.flag}, heard)
    BY <1>1, <2>1, FollowedFine
  <2> QED BY <1>6, <2>1, <2>2
<1>7. CASE s.do = "notify"
  <2>1. /\ \A h \in p.heard : <<h, s.hook>> \in HookOrder
        /\ Follows(S, Tail(todo), p.on, p.off, {s.hook})
    BY <1>2, <1>7 DEF StatementOk
  <2>2. Fine(c, st, Tail(todo), on, off, {s.hook})
    BY <1>1, <2>1, FollowedFine
  <2> QED BY <1>1, <1>7, <2>1, <2>2
<1> QED BY <1>3, <1>4, <1>5, <1>6, <1>7

\* Tests
LEMMA FineTest ==
  ASSUME NEW c, NEW st, NEW todo, NEW on, NEW off, NEW heard,
         Fine(c, st, todo, on, off, heard), todo # <<>>,
         NEW s, s = Head(todo)
  PROVE  /\ s.do \in {"has", "high", "in", "either"} =>
              /\ Fine(c, st, s.then \o Tail(todo), on, off, heard)
              /\ Fine(c, st, s.else \o Tail(todo), on, off, heard)
         /\ s.do = "if" =>
              /\ s.flag \in Flags
              /\ Fine(c, st, s.then \o Tail(todo), on,
                      off \cup (IF c = "baytrail" /\ s.flag = "restart_from_s5"
                                THEN {"RSMRST_L"} ELSE {}), heard)
              /\ Fine(c, st, s.else \o Tail(todo), on, off \cup {s.flag}, heard)
<1>1. PICK S, p : /\ Closed(c, st, S) /\ PointOk(c, st, S, p) /\ p.todo = todo
                  /\ p.on \subseteq on /\ p.off \subseteq off /\ heard \subseteq p.heard
  BY FinePoints
<1>2. StatementOk(c, S, p, s, Tail(todo))
  BY <1>1 DEF PointOk
<1>3. CASE s.do \in {"has", "high", "in", "either"}
  <2>1. /\ Follows(S, s.then \o Tail(todo), p.on, p.off, p.heard)
        /\ Follows(S, s.else \o Tail(todo), p.on, p.off, p.heard)
    BY <1>2, <1>3 DEF StatementOk
  <2>2. s.do # "if"
    BY <1>3
  <2>3. Fine(c, st, s.then \o Tail(todo), on, off, heard)
    BY <1>1, <2>1, FollowedFine
  <2>4. Fine(c, st, s.else \o Tail(todo), on, off, heard)
    BY <1>1, <2>1, FollowedFine
  <2> QED BY <2>2, <2>3, <2>4
<1>4. CASE s.do = "if"
  <2> DEFINE known == IF c = "baytrail" /\ s.flag = "restart_from_s5" THEN {"RSMRST_L"} ELSE {}
  <2>1. /\ s.flag \in Flags
        /\ Follows(S, s.then \o Tail(todo), p.on, p.off \cup known, p.heard)
        /\ Follows(S, s.else \o Tail(todo), p.on, p.off \cup {s.flag}, p.heard)
    BY <1>2, <1>4 DEF StatementOk
  <2> HIDE DEF known
  <2>2. Fine(c, st, s.then \o Tail(todo), on, off \cup known, heard)
    BY <1>1, <2>1, FollowedFine
  <2>3. Fine(c, st, s.else \o Tail(todo), on, off \cup {s.flag}, heard)
    BY <1>1, <2>1, FollowedFine
  <2> QED BY <1>4, <2>1, <2>2, <2>3 DEF known
<1> QED BY <1>3, <1>4

\* State changes, waits and sleeps
LEMMA FineControl ==
  ASSUME NEW c, NEW st, NEW todo, NEW on, NEW off, NEW heard,
         Fine(c, st, todo, on, off, heard), todo # <<>>,
         NEW s, s = Head(todo)
  PROVE  /\ s.do = "go" => Enters(c, s.to, on, off, heard)
         /\ s.do = "wait" =>
              /\ Fine(c, st, Tail(todo), on, off, heard)
              /\ Fine(c, st, <<Sleep(<<LookAgain(s)>>)>> \o todo, on, off, heard)
         /\ s.do = "sleep" =>
              /\ Fine(c, st, Tail(todo), on, off, heard)
              /\ s.late # <<>> => Fine(c, st, s.late, on, off, heard)
         /\ s.do = "look" => IsCode(s.failed) /\ Fine(c, st, s.failed, on, off, heard)
         /\ s.do \in {"store", "start"} => Fine(c, st, Tail(todo), on, off, heard)
<1>1. PICK S, p : /\ Closed(c, st, S) /\ PointOk(c, st, S, p) /\ p.todo = todo
                  /\ p.on \subseteq on /\ p.off \subseteq off /\ heard \subseteq p.heard
  BY FinePoints
<1>2. StatementOk(c, S, p, s, Tail(todo))
  BY <1>1 DEF PointOk
<1>3. s.do = "go" => Enters(c, s.to, on, off, heard)
  BY <1>1, <1>2, EntersGrows DEF StatementOk
<1>4. \A next : Follows(S, next, p.on, p.off, p.heard) => Fine(c, st, next, on, off, heard)
  BY <1>1, FollowedFine
<1> QED BY <1>1, <1>2, <1>3, <1>4 DEF StatementOk

\* Every handler is fine, whatever is known beyond the entry of its state.
LEMMA HandlerFine ==
  ASSUME NEW c \in Chipset, NEW st, NEW on, NEW off, NEW heard, Enters(c, st, on, off, heard)
  PROVE  Fine(c, st, power_handle_state(c, st), on, off, heard)
<1>1. st \in {"G3", "G3S5", "S5", "S5S3", "S5G3", "S3", "S3S0", "S3S5", "S0", "S0S3"}
  BY DEF Enters, States, OffStates, UpStates
<1>2. CASE c = "haswell"
  <2>1. Fine("haswell", st, Haswell(st), on, off, heard)
    BY <1>1, <1>2, HaswellG3, HaswellG3S5, HaswellS5, HaswellS5S3, HaswellS5G3,
       HaswellS3, HaswellS3S0, HaswellS3S5, HaswellS0, HaswellS0S3
  <2> QED BY <1>2, <2>1 DEF power_handle_state
<1>3. CASE c = "baytrail"
  <2>1. Fine("baytrail", st, Baytrail(st), on, off, heard)
    BY <1>1, <1>3, BaytrailG3, BaytrailG3S5, BaytrailS5, BaytrailS5S3, BaytrailS5G3,
       BaytrailS3, BaytrailS3S0, BaytrailS3S5, BaytrailS0, BaytrailS0S3
  <2> QED BY <1>3, <2>1 DEF power_handle_state
<1>4. CASE c = "braswell"
  <2>1. Fine("braswell", st, Braswell(st), on, off, heard)
    BY <1>1, <1>4, BraswellG3, BraswellG3S5, BraswellS5, BraswellS5S3, BraswellS5G3,
       BraswellS3, BraswellS3S0, BraswellS3S5, BraswellS0, BraswellS0S3
  <2> QED BY <1>4, <2>1 DEF power_handle_state
<1>5. CASE c = "skylake"
  <2>1. Fine("skylake", st, Skylake(st), on, off, heard)
    BY <1>1, <1>5, SkylakeG3, SkylakeG3S5, SkylakeS5, SkylakeS5S3, SkylakeS5G3,
       SkylakeS3, SkylakeS3S0, SkylakeS3S5, SkylakeS0, SkylakeS0S3
  <2> QED BY <1>5, <2>1 DEF power_handle_state
<1> QED BY <1>2, <1>3, <1>4, <1>5 DEF Chipset

LEMMA RunFine ==
  ASSUME NEW c, NEW todo, NEW on, NEW off, NEW heard, Fine(c, state, todo, on, off, heard)
  PROVE  Fine(c, state, Run(todo), on, off, heard)
  BY FineStay DEF Run

-----------------------------------------------------------------------------
(* Forced shutdowns                                                        *)

\* What a lower task may have left of chipset_force_shutdown()
Forcing(c) ==
  CASE c = "haswell"  -> {HaswellShutdown, <<Off("RSMRST_L")>>, <<>>}
    [] c = "baytrail" -> {BaytrailShutdown, <<Off("RSMRST_L")>>, <<>>}
    [] c = "braswell" -> {BraswellShutdown, <<Off("RSMRST_L"), Raise("forcing_shutdown")>>,
                          <<Raise("forcing_shutdown")>>, <<>>}
    [] c = "skylake"  -> {SkylakeShutdown, <<Raise("forcing_shutdown"), Off("PWRBTN_L")>>,
                          <<Off("PWRBTN_L")>>, <<>>}

\* The outputs it turns off, and the flag it raises
Forced == {"DPWROK", "RSMRST_L", "SYS_PWROK", "PWRBTN_L"}

\* No output depends on one that is forced.
LEMMA NothingOnForced ==
  ASSUME NEW c \in Chipset, NEW o \in RailOrder(c)
  PROVE  o[2] \in Kept /\ o[2] \notin Forced /\ o[1] \notin Flags
<1>1. CASE c = "haswell"
  BY <1>1, HaswellOrder DEF Kept, Forced, Flags
<1>2. CASE c = "baytrail"
  BY <1>2, BaytrailOrder DEF Kept, Forced, Flags
<1>3. CASE c \in {"braswell", "skylake"}
  BY <1>3 DEF RailOrder
<1> QED BY <1>1, <1>2, <1>3 DEF Chipset

LEMMA ForcingStarts ==
  ASSUME NEW c \in Chipset
  PROVE  chipset_force_shutdown(c) \in Forcing(c) /\ <<>> \in Forcing(c)
<1>1. CASE c = "haswell"
  BY <1>1 DEF chipset_force_shutdown, Forcing
<1>2. CASE c = "baytrail"
  BY <1>2 DEF chipset_force_shutdown, Forcing
<1>3. CASE c = "braswell"
  BY <1>3 DEF chipset_force_shutdown, Forcing
<1>4. CASE c = "skylake"
  BY <1>4 DEF chipset_force_shutdown, Forcing
<1> QED BY <1>1, <1>2, <1>3, <1>4 DEF Chipset

\* A forced shutdown does nothing else
ForcingOk(c, todo) ==
  LET s == Head(todo) IN
  \/ s.do = "off" /\ s.pin \in Forced /\ Tail(todo) \in Forcing(c)
  \/ s.do = "raise" /\ s.flag = "forcing_shutdown" /\ Tail(todo) \in Forcing(c)
  \/ s.do = "in" /\ s.then \o Tail(todo) \in Forcing(c) /\ s.else \o Tail(todo) \in Forcing(c)

LEMMA ForcingGoesOn ==
  ASSUME NEW c \in Chipset, NEW todo \in Forcing(c), todo # <<>>
  PROVE  ForcingOk(c, todo)
<1>1. ASSUME NEW pin \in Forced, NEW rest \in Forcing(c), Head(todo) = Off(pin), Tail(todo) = rest
      PROVE  ForcingOk(c, todo)
  <2>1. Head(todo).do = "off" /\ Head(todo).pin = pin
    BY <1>1 DEF Off
  <2> QED BY <1>1, <2>1 DEF ForcingOk
<1>2. ASSUME NEW rest \in Forcing(c), Head(todo) = Raise("forcing_shutdown"), Tail(todo) = rest
      PROVE  ForcingOk(c, todo)
  <2>1. Head(todo).do = "raise" /\ Head(todo).flag = "forcing_shutdown"
    BY <1>2 DEF Raise
  <2> QED BY <1>2, <2>1 DEF ForcingOk
<1>3. "DPWROK" \in Forced /\ "RSMRST_L" \in Forced /\ "SYS_PWROK" \in Forced /\ "PWRBTN_L" \in Forced
  BY DEF Forced
<1>4. CASE c = "haswell"
  <2>1. Forcing(c) = {HaswellShutdown, <<Off("RSMRST_L")>>, <<>>}
    BY <1>4 DEF Forcing
  <2>2. CASE todo = HaswellShutdown
    <3>1. Head(todo) = Off("DPWROK") /\ Tail(todo) = <<Off("RSMRST_L")>>
      BY <2>2, Code2 DEF HaswellShutdown
    <3> QED BY <1>1, <1>3, <2>1, <3>1
  <2>3. CASE todo = <<Off("RSMRST_L")>>
    <3>1. Head(todo) = Off("RSMRST_L") /\ Tail(todo) = <<>>
      BY <2>3, Code1
    <3> QED BY <1>1, <1>3, <2>1, <3>1
  <2> QED BY <2>1, <2>2, <2>3
<1>5. CASE c = "baytrail"
  <2>1. Forcing(c) = {BaytrailShutdown, <<Off("RSMRST_L")>>, <<>>}
    BY <1>5 DEF Forcing
  <2>2. CASE todo = BaytrailShutdown
    <3>1. Head(todo) = Off("SYS_PWROK") /\ Tail(todo) = <<Off("RSMRST_L")>>
      BY <2>2, Code2 DEF BaytrailShutdown
    <3> QED BY <1>1, <1>3, <2>1, <3>1
  <2>3. CASE todo = <<Off("RSMRST_L")>>
    <3>1. Head(todo) = Off("RSMRST_L") /\ Tail(todo) = <<>>
      BY <2>3, Code1
    <3> QED BY <1>1, <1>3, <2>1, <3>1
  <2> QED BY <2>1, <2>2, <2>3
<1>6. CASE c = "braswell"
  <2>1. Forcing(c) = {BraswellShutdown, <<Off("RSMRST_L"), Raise("forcing_shutdown")>>,
                      <<Raise("forcing_shutdown")>>, <<>>}
    BY <1>6 DEF Forcing
  <2>2. CASE todo = BraswellShutdown
    <3>1. /\ Head(todo) = Off("SYS_PWROK")
          /\ Tail(todo) = <<Off("RSMRST_L"), Raise("forcing_shutdown")>>
      BY <2>2, Code3 DEF BraswellShutdown
    <3> QED BY <1>1, <1>3, <2>1, <3>1
  <2>3. CASE todo = <<Off("RSMRST_L"), Raise("forcing_shutdown")>>
    <3>1. Head(todo) = Off("RSMRST_L") /\ Tail(todo) = <<Raise("forcing_shutdown")>>
      BY <2>3, Code2
    <3> QED BY <1>1, <1>3, <2>1, <3>1
  <2>4. CASE todo = <<Raise("forcing_shutdown")>>
    <3>1. Head(todo) = Raise("forcing_shutdown") /\ Tail(todo) = <<>>
      BY <2>4, Code1
    <3> QED BY <1>2, <2>1, <3>1
  <2> QED BY <2>1, <2>2, <2>3, <2>4
<1>7. CASE c = "skylake"
  <2> DEFINE hold == <<Raise("forcing_shutdown"), Off("PWRBTN_L")>>
  <2>1. Forcing(c) = {SkylakeShutdown, hold, <<Off("PWRBTN_L")>>, <<>>}
    BY <1>7 DEF Forcing
  <2>2. CASE todo = SkylakeShutdown
    <3>1. Head(todo) = InState("G3", <<>>, hold) /\ Tail(todo) = <<>>
      BY <2>2, Code1 DEF SkylakeShutdown
    <3>2. hold \o <<>> = hold /\ <<>> \o <<>> = <<>>
      BY Code2
    <3> HIDE DEF hold
    <3>3. Head(todo).do = "in" /\ Head(todo).then = <<>> /\ Head(todo).else = hold
      BY <3>1 DEF InState
    <3>4. /\ Head(todo).then \o Tail(todo) \in Forcing(c)
          /\ Head(todo).else \o Tail(todo) \in Forcing(c)
      BY <2>1, <3>1, <3>2, <3>3
    <3> QED BY <3>3, <3>4 DEF ForcingOk
  <2>3. CASE todo = hold
    <3>1. Head(todo) = Raise("forcing_shutdown") /\ Tail(todo) = <<Off("PWRBTN_L")>>
      BY <2>3, Code2
    <3> QED BY <1>2, <2>1, <3>1
  <2>4. CASE todo = <<Off("PWRBTN_L")>>
    <3>1. Head(todo) = Off("PWRBTN_L") /\ Tail(todo) = <<>>
      BY <2>4, Code1
    <3> QED BY <1>1, <1>3, <2>1, <3>1
  <2> QED BY <2>1, <2>2, <2>3, <2>4
<1> QED BY <1>4, <1>5, <1>6, <1>7 DEF Chipset

-----------------------------------------------------------------------------
(* The inductive invariant                                                 *)

\* What is known at a point holds
Knows(on, off, heard) ==
  /\ on \cap Kept \subseteq pins
  /\ off \cap (Lit \cup flags) \subseteq Shared
  /\ told \in heard

\* Outputs and flags have different names.
Names == flags \subseteq Flags /\ pins \cap Flags = {}

\* While Bay Trail is to restart from S5, RSMRST# is low.
RestartIsDown ==
  chip = "baytrail" /\ "restart_from_s5" \in flags => "RSMRST_L" \notin Lit

\* The outputs are in order, a forced shutdown is one of those of the chipset,
\* and what is left of the pass is fine with something that is true.
PowerIInv ==
  /\ chip \in Chipset
  /\ Names /\ RailsInOrder /\ RestartIsDown
  /\ caller \in Forcing(chip)
  /\ \E on, off, heard : /\ Knows(on, off, heard)
                         /\ Fine(chip, state, code, on, off, heard)

\* The outputs that depend on others, and what is low when a pass begins in G3:
\* all this is low as long as this image has driven nothing high.
Low(c) == {o[1] : o \in RailOrder(c)} \cup LowIn(c, "G3")

\* Before the tasks run, an output that is driven low is not missed.
LEMMA StartOff ==
  ASSUME NEW c, NEW todo, todo # <<>>, NEW pin, pin \notin Flags, Head(todo) = Off(pin),
         Fine(c, "G3", Tail(todo), {}, Low(c), {"SHUTDOWN"})
  PROVE  Fine(c, "G3", todo, {}, Low(c), {"SHUTDOWN"})
<1>1. MayTurnOff(c, pin, Low(c))
  BY DEF MayTurnOff, Low
<1>2. Fine(c, "G3", Tail(todo), {} \ {pin}, Low(c) \cup {pin}, {"SHUTDOWN"})
  BY FineWeakens
<1> QED BY <1>1, <1>2, OffRule

\* Then they run, in G3.
LEMMA StartEnd ==
  ASSUME NEW c
  PROVE  Fine(c, "G3", <<StartTasks>>, {}, Low(c), {"SHUTDOWN"})
<1> DEFINE p == Point(<<StartTasks>>, {}, Low(c), {"SHUTDOWN"})
<1>1. Enters(c, "G3", {}, Low(c), {"SHUTDOWN"})
  BY DEF Enters, Low, HighIn, HeardIn, States, OffStates
<1>2. PICK S : Closed(c, "G3", S) /\ Follows(S, <<>>, {}, Low(c), {"SHUTDOWN"})
  BY <1>1, EndRule DEF Fine
<1>3. StatementOk(c, S, p, StartTasks, <<>>)
  BY <1>2 DEF StatementOk, Point, StartTasks
<1>4. <<StartTasks>> # <<Stay>>
  BY DEF StartTasks, Stay
<1>5. PointOk(c, "G3", S, p)
  BY <1>3, <1>4, Code1 DEF PointOk, Point
<1> QED BY <1>2, <1>5, FinePoint

LEMMA StartTwo ==
  ASSUME NEW c, NEW p1, NEW p2, {p1, p2} \cap Flags = {}
  PROVE  Fine(c, "G3", <<Off(p1), Off(p2), StartTasks>>, {}, Low(c), {"SHUTDOWN"})
<1> DEFINE Here(todo) == Fine(c, "G3", todo, {}, Low(c), {"SHUTDOWN"})
           s1 == Off(p1)
           s2 == Off(p2)
           e == StartTasks
<1>0. p1 \notin Flags /\ p2 \notin Flags
  OBVIOUS
<1>1. Here(<<e>>)
  BY StartEnd
<1> HIDE DEF s1, s2, e
<1>2. Here(<<s2, e>>)
  <2> DEFINE r == <<s2, e>>
  <2>1. r # <<>> /\ Head(r) = s2 /\ Tail(r) = <<e>>
    BY Code2
  <2> HIDE DEF r
  <2>2. Here(r)
    BY <1>0, <1>1, <2>1, StartOff DEF s2
  <2> QED BY <2>2 DEF r
<1>3. Here(<<s1, s2, e>>)
  <2> DEFINE r == <<s1, s2, e>>
  <2>1. r # <<>> /\ Head(r) = s1 /\ Tail(r) = <<s2, e>>
    BY Code3
  <2> HIDE DEF r
  <2>2. Here(r)
    BY <1>0, <1>2, <2>1, StartOff DEF s1
  <2> QED BY <2>2 DEF r
<1> QED BY <1>3 DEF s1, s2, e

LEMMA StartEight ==
  ASSUME NEW c, NEW p1, NEW p2, NEW p3, NEW p4, NEW p5, NEW p6, NEW p7, NEW p8,
         {p1, p2, p3, p4, p5, p6, p7, p8} \cap Flags = {}
  PROVE  Fine(c, "G3", <<Off(p1), Off(p2), Off(p3), Off(p4), Off(p5), Off(p6), Off(p7),
                         Off(p8), StartTasks>>, {}, Low(c), {"SHUTDOWN"})
<1> DEFINE Here(todo) == Fine(c, "G3", todo, {}, Low(c), {"SHUTDOWN"})
           s1 == Off(p1)
           s2 == Off(p2)
           s3 == Off(p3)
           s4 == Off(p4)
           s5 == Off(p5)
           s6 == Off(p6)
           s7 == Off(p7)
           s8 == Off(p8)
           e == StartTasks
<1>0. /\ p1 \notin Flags /\ p2 \notin Flags /\ p3 \notin Flags
      /\ p4 \notin Flags /\ p5 \notin Flags /\ p6 \notin Flags
  OBVIOUS
<1>1. Here(<<s7, s8, e>>)
  BY StartTwo
<1> HIDE DEF s1, s2, s3, s4, s5, s6, s7, s8, e
<1>2. Here(<<s6, s7, s8, e>>)
  <2> DEFINE r == <<s6, s7, s8, e>>
  <2>1. r # <<>> /\ Head(r) = s6 /\ Tail(r) = <<s7, s8, e>>
    BY Code4
  <2> HIDE DEF r
  <2>2. Here(r)
    BY <1>0, <1>1, <2>1, StartOff DEF s6
  <2> QED BY <2>2 DEF r
<1>3. Here(<<s5, s6, s7, s8, e>>)
  <2> DEFINE r == <<s5, s6, s7, s8, e>>
  <2>1. r # <<>> /\ Head(r) = s5 /\ Tail(r) = <<s6, s7, s8, e>>
    BY Code5
  <2> HIDE DEF r
  <2>2. Here(r)
    BY <1>0, <1>2, <2>1, StartOff DEF s5
  <2> QED BY <2>2 DEF r
<1>4. Here(<<s4, s5, s6, s7, s8, e>>)
  <2> DEFINE r == <<s4, s5, s6, s7, s8, e>>
  <2>1. r # <<>> /\ Head(r) = s4 /\ Tail(r) = <<s5, s6, s7, s8, e>>
    BY Code6
  <2> HIDE DEF r
  <2>2. Here(r)
    BY <1>0, <1>3, <2>1, StartOff DEF s4
  <2> QED BY <2>2 DEF r
<1>5. Here(<<s3, s4, s5, s6, s7, s8, e>>)
  <2> DEFINE r == <<s3, s4, s5, s6, s7, s8, e>>
  <2>1. r # <<>> /\ Head(r) = s3 /\ Tail(r) = <<s4, s5, s6, s7, s8, e>>
    BY Code7
  <2> HIDE DEF r
  <2>2. Here(r)
    BY <1>0, <1>4, <2>1, StartOff DEF s3
  <2> QED BY <2>2 DEF r
<1>6. Here(<<s2, s3, s4, s5, s6, s7, s8, e>>)
  <2> DEFINE r == <<s2, s3, s4, s5, s6, s7, s8, e>>
  <2>1. r # <<>> /\ Head(r) = s2 /\ Tail(r) = <<s3, s4, s5, s6, s7, s8, e>>
    BY Code8
  <2> HIDE DEF r
  <2>2. Here(r)
    BY <1>0, <1>5, <2>1, StartOff DEF s2
  <2> QED BY <2>2 DEF r
<1>7. Here(<<s1, s2, s3, s4, s5, s6, s7, s8, e>>)
  <2> DEFINE r == <<s1, s2, s3, s4, s5, s6, s7, s8, e>>
  <2>1. r # <<>> /\ Head(r) = s1 /\ Tail(r) = <<s2, s3, s4, s5, s6, s7, s8, e>>
    BY Code9
  <2> HIDE DEF r
  <2>2. Here(r)
    BY <1>0, <1>6, <2>1, StartOff DEF s1
  <2> QED BY <2>2 DEF r
<1> QED BY <1>7 DEF s1, s2, s3, s4, s5, s6, s7, s8, e

\* So power_chipset_init() of each chipset may force G3.
LEMMA ForceG3Fine ==
  ASSUME NEW c \in Chipset
  PROVE  Fine(c, "G3", ForceG3(c), {}, Low(c), {"SHUTDOWN"})
<1>1. CASE c = "haswell"
  BY <1>1, StartEight DEF ForceG3, Flags
<1>2. CASE c = "baytrail"
  BY <1>2, StartEight DEF ForceG3, Flags
<1>3. CASE c = "braswell"
  BY <1>3, StartTwo DEF ForceG3, Flags
<1>4. CASE c = "skylake"
  BY <1>4, StartEnd DEF ForceG3
<1> QED BY <1>1, <1>2, <1>3, <1>4 DEF Chipset

\* Outputs and flags have different names.
LEMMA PinsNotFlags ==
  ASSUME chip \in Chipset
  PROVE  S0Pins \cap Flags = {}
<1>1. CASE chip = "haswell"
  BY <1>1 DEF S0Pins, Flags
<1>2. CASE chip = "baytrail"
  BY <1>2 DEF S0Pins, Flags
<1>3. CASE chip \in {"braswell", "skylake"}
  BY <1>3 DEF S0Pins, Flags
<1> QED BY <1>1, <1>2, <1>3 DEF Chipset

\* After a reset, and after a jump in whatever state
LEMMA PowerInit == Init => PowerIInv
<1> SUFFICES ASSUME Init PROVE PowerIInv
  OBVIOUS
<1>1. chip \in Chipset
  BY PowerAssumption DEF Init
<1>2. caller \in Forcing(chip)
  BY <1>1, ForcingStarts DEF Init
<1>3. flags \subseteq {"pause_in_s5"}
  BY DEF Init
<1>4. pins \subseteq S0Pins
  BY DEF Init, JumpedInS0, JumpedOutsideS0, WasReset, Left
<1>5. Names /\ RestartIsDown
  BY <1>1, <1>3, <1>4, PinsNotFlags DEF Names, RestartIsDown, Flags
<1>6. ASSUME JumpedInS0
      PROVE  PowerIInv
  <2> DEFINE on == HighIn(chip, "S0")
             off == LowIn(chip, "S0")
  <2>1. Fine(chip, state, code, on, off, {"RESUME"})
    <3>1. Enters(chip, "S0", on, off, {"RESUME"})
      BY DEF Enters, States, OffStates, UpStates, HeardIn
    <3> QED BY <3>1, <1>6, EndRule DEF JumpedInS0
  <2>2. off = {}
    BY DEF LowIn, OffStates, UpStates
  <2>3. on \subseteq pins
    <3>1. chip \in Sequenced => "PP1350_EN" \in S0Pins
      BY DEF S0Pins, Sequenced
    <3> QED BY <1>6, <3>1 DEF HighIn, JumpedInS0
  <2>4. RailsInOrder
    BY <1>6 DEF RailsInOrder, Lit, JumpedInS0
  <2>5. Knows(on, off, {"RESUME"})
    BY <1>6, <2>2, <2>3 DEF Knows, JumpedInS0
  <2> QED BY <1>1, <1>2, <1>5, <2>1, <2>4, <2>5 DEF PowerIInv
<1>7. ASSUME state = "G3", told = "SHUTDOWN", Lit \subseteq {"PWRBTN_L"},
             Fine(chip, state, code, {}, Low(chip), {"SHUTDOWN"})
      PROVE  PowerIInv
  <2>1. Low(chip) \cap (Lit \cup flags) \subseteq Shared /\ RailsInOrder
    <3>1. \A o \in RailOrder(chip) : o[1] # "PWRBTN_L" /\ o[1] # "pause_in_s5"
      <4>1. CASE chip = "haswell"
        BY <4>1, HaswellOrder
      <4>2. CASE chip = "baytrail"
        BY <4>2, BaytrailOrder
      <4>3. CASE chip \in {"braswell", "skylake"}
        BY <4>3 DEF RailOrder
      <4> QED BY <1>1, <4>1, <4>2, <4>3 DEF Chipset
    <3>2. "PWRBTN_L" \notin LowIn(chip, "G3") /\ "pause_in_s5" \notin LowIn(chip, "G3")
      BY DEF LowIn
    <3>3. RailsInOrder
      BY <1>7, <3>1 DEF RailsInOrder
    <3> QED BY <1>3, <1>7, <3>1, <3>2, <3>3 DEF Low
  <2>2. Knows({}, Low(chip), {"SHUTDOWN"})
    BY <1>7, <2>1 DEF Knows
  <2> QED BY <1>1, <1>2, <1>5, <1>7, <2>1, <2>2 DEF PowerIInv
<1>8. CASE JumpedOutsideS0
  <2>1. Lit = {}
    BY <1>8 DEF JumpedOutsideS0, Lit
  <2> QED BY <1>1, <1>7, <1>8, <2>1, ForceG3Fine DEF JumpedOutsideS0
<1>9. CASE WasReset
  <2>1. Lit \subseteq {"PWRBTN_L"}
    BY <1>9 DEF WasReset, Lit
  <2>2. Enters(chip, "G3", {}, Low(chip), {"SHUTDOWN"})
    BY DEF Enters, Low, HighIn, HeardIn, States, OffStates
  <2> QED BY <1>7, <1>9, <2>1, <2>2, EndRule DEF WasReset
<1> QED BY <1>6, <1>8, <1>9 DEF Init

\* Steps that leave the outputs, the hooks and the task alone, and write at
\* most the shared flags
LEMMA SharedFlags ==
  ASSUME PowerIInv, UNCHANGED <<chip, state, pins, undriven, code, told>>, caller' \in Forcing(chip),
         flags' \subseteq flags \cup Shared
  PROVE  PowerIInv'
<1>1. PICK on, off, heard : /\ Knows(on, off, heard)
                            /\ Fine(chip, state, code, on, off, heard)
  BY DEF PowerIInv
<1>0. Lit' = Lit
  BY DEF Lit
<1>2. Knows(on, off, heard)'
  BY <1>0, <1>1 DEF Knows
<1>3. Fine(chip, state, code, on, off, heard)'
  BY <1>1
<1>4. Names' /\ RestartIsDown' /\ RailsInOrder'
  BY <1>0 DEF PowerIInv, Names, RestartIsDown, RailsInOrder, Flags, Shared
<1> QED BY <1>2, <1>3, <1>4 DEF PowerIInv

LEMMA EffectOf ==
  ASSUME NEW s, Effect(s)
  PROVE  /\ s.do = "on" => /\ pins' = pins \cup {s.pin} /\ Lit' = Lit \cup {s.pin}
                           /\ UNCHANGED <<flags, told>>
         /\ s.do = "off" => /\ pins' = pins \ {s.pin} /\ Lit' = Lit \ {s.pin}
                            /\ UNCHANGED <<flags, told>>
         /\ s.do = "raise" => flags' = flags \cup {s.flag} /\ UNCHANGED <<pins, undriven, told>>
         /\ s.do = "lower" => flags' = flags \ {s.flag} /\ UNCHANGED <<pins, undriven, told>>
         /\ s.do = "notify" => told' = s.hook /\ UNCHANGED <<pins, undriven, flags>>
<1>1. CASE s.do = "on"
  BY <1>1 DEF Effect, Lit
<1>2. CASE s.do = "off"
  BY <1>2 DEF Effect, Lit
<1>3. CASE s.do \notin {"on", "off"}
  BY <1>3 DEF Effect
<1> QED BY <1>1, <1>2, <1>3

\* A forced shutdown by a lower task takes away nothing the chipset task counts on.
LEMMA LowerTaskSound == PowerIInv /\ LowerTask => PowerIInv'
<1> SUFFICES ASSUME PowerIInv, LowerTask PROVE PowerIInv'
  OBVIOUS
<1> DEFINE s == Head(caller)
<1>1. chip \in Chipset /\ caller \in Forcing(chip) /\ caller # <<>>
  BY DEF PowerIInv, LowerTask
<1>2. ForcingOk(chip, caller)
  BY <1>1, ForcingGoesOn
<1>3. UNCHANGED <<chip, state, code>>
  BY DEF LowerTask
<1>4. CASE s.do \in Outputs /\ Effect(s) /\ caller' = Tail(caller)
  <2>1. CASE s.do = "off" /\ s.pin \in Forced /\ Tail(caller) \in Forcing(chip)
    <3>1. pins' = pins \ {s.pin} /\ Lit' = Lit \ {s.pin} /\ UNCHANGED <<flags, told>>
      BY <1>4, <2>1, EffectOf
    <3>2. PICK on, off, heard : /\ Knows(on, off, heard)
                                /\ Fine(chip, state, code, on, off, heard)
      BY DEF PowerIInv
    <3>3. s.pin \notin Kept
      BY <2>1 DEF Forced, Kept
    <3>4. Knows(on, off, heard)'
      BY <3>1, <3>2, <3>3 DEF Knows
    <3>5. Fine(chip, state, code, on, off, heard)'
      BY <3>2, <1>3
    <3>6. RailsInOrder'
      <4>1. \A o \in RailOrder(chip) : o[2] # s.pin
        BY <1>1, <2>1, NothingOnForced
      <4> QED BY <1>3, <3>1, <4>1 DEF PowerIInv, RailsInOrder
    <3>7. Names' /\ RestartIsDown'
      BY <1>3, <3>1 DEF PowerIInv, Names, RestartIsDown
    <3> QED BY <1>1, <1>3, <1>4, <2>1, <3>4, <3>5, <3>6, <3>7 DEF PowerIInv
  <2>2. CASE s.do = "raise" /\ s.flag = "forcing_shutdown" /\ Tail(caller) \in Forcing(chip)
    <3>1. flags' = flags \cup {"forcing_shutdown"} /\ UNCHANGED <<pins, undriven, told>>
      BY <1>4, <2>2, EffectOf
    <3>2. "forcing_shutdown" \in Shared
      BY DEF Shared, Flags
    <3> QED BY <1>3, <1>4, <2>2, <3>1, <3>2, SharedFlags
  <2>3. s.do # "in"
    BY <1>4 DEF Outputs
  <2> QED BY <1>2, <2>1, <2>2, <2>3 DEF ForcingOk
<1>5. CASE /\ \E b \in Branches(s) : caller' = b \o Tail(caller)
           /\ UNCHANGED <<pins, undriven, flags, told>>
  <2>1. PICK b \in Branches(s) : caller' = b \o Tail(caller)
    BY <1>5
  <2>2. s.do = "in" /\ s.then \o Tail(caller) \in Forcing(chip) /\ s.else \o Tail(caller) \in Forcing(chip)
    <3>1. s.do \notin {"off", "raise"}
      BY <2>1 DEF Branches
    <3> QED BY <1>2, <3>1 DEF ForcingOk
  <2>3. b \in {s.then, s.else}
    BY <2>1, <2>2 DEF Branches
  <2>4. caller' \in Forcing(chip)
    BY <2>1, <2>2, <2>3
  <2> QED BY <1>3, <1>5, <2>4, SharedFlags
<1> QED BY <1>4, <1>5 DEF LowerTask

\* The hardware and the other tasks
LEMMA OtherTaskSound == PowerIInv /\ (Hardware \/ OtherTask) => PowerIInv'
<1> SUFFICES ASSUME PowerIInv, Hardware \/ OtherTask PROVE PowerIInv'
  OBVIOUS
<1>0. chip \in Chipset /\ caller \in Forcing(chip)
  BY DEF PowerIInv
<1>1. CASE Hardware
  <2>1. Untouched
    BY <1>1 DEF Hardware, RailComesUp, RailGoesDown, RailFails, PchWakes, PchSleeps
  <2> QED BY <1>0, <2>1, SharedFlags DEF Untouched
<1>2. CASE chipset_exit_hard_off \/ Wake \/ host_command_pause_in_s5
  <2>1. "want_g3_exit" \in Shared /\ "pause_in_s5" \in Shared
    BY DEF Shared, Flags
  <2>2. flags' \subseteq flags \cup Shared /\ caller' = caller
    BY <1>2, <2>1 DEF chipset_exit_hard_off, Wake, host_command_pause_in_s5
  <2>3. Call
    BY <1>2 DEF chipset_exit_hard_off, Wake, host_command_pause_in_s5
  <2> QED BY <1>0, <2>2, <2>3, SharedFlags DEF Call
<1>3. CASE StartForceShutdown
  <2>1. caller' \in Forcing(chip)
    BY <1>0, <1>3, ForcingStarts DEF StartForceShutdown
  <2> QED BY <1>3, <2>1, SharedFlags DEF StartForceShutdown, Call
<1>4. CASE LowerTask
  BY <1>4, LowerTaskSound
<1> QED BY <1>1, <1>2, <1>3, <1>4 DEF OtherTask

\* A step of the task that leaves the outputs, the flags and the hooks alone
LEMMA TaskGoesOn ==
  ASSUME PowerIInv, UNCHANGED <<chip, pins, undriven, flags, told, caller>>,
         \A on, off, heard :
           Knows(on, off, heard) /\ Fine(chip, state, code, on, off, heard)
             => Fine(chip, state', code', on, off, heard)
  PROVE  PowerIInv'
<1>1. PICK on, off, heard : /\ Knows(on, off, heard)
                            /\ Fine(chip, state, code, on, off, heard)
  BY DEF PowerIInv
<1>2. Fine(chip, state', code', on, off, heard)
  BY <1>1
<1>0. Lit' = Lit
  BY DEF Lit
<1>3. Knows(on, off, heard)'
  BY <1>0, <1>1 DEF Knows
<1>4. Fine(chip, state, code, on, off, heard)'
  BY <1>2
<1>5. Names' /\ RestartIsDown' /\ RailsInOrder' /\ chip' \in Chipset /\ caller' \in Forcing(chip)'
  BY <1>0 DEF PowerIInv, Names, RestartIsDown, RailsInOrder
<1> QED BY <1>3, <1>4, <1>5 DEF PowerIInv

\* The chipset task
LEMMA HandleStateSound == PowerIInv /\ HandleState => PowerIInv'
<1> SUFFICES ASSUME PowerIInv, HandleState PROVE PowerIInv'
  OBVIOUS
<1>1. ASSUME NEW on, NEW off, NEW heard, Fine(chip, state, code, on, off, heard)
      PROVE  Fine(chip, state', code', on, off, heard)
  <2>1. Enters(chip, state, on, off, heard)
    BY <1>1, FineEnd DEF HandleState
  <2>2. Fine(chip, state, power_handle_state(chip, state), on, off, heard)
    BY <2>1, HandlerFine DEF PowerIInv
  <2>3. Fine(chip, state, Run(power_handle_state(chip, state)), on, off, heard)
    BY <2>2, RunFine
  <2> QED BY <2>3 DEF HandleState
<1> QED BY <1>1, TaskGoesOn DEF HandleState, Others

LEMMA OutputSound == PowerIInv /\ Output => PowerIInv'
<1> SUFFICES ASSUME PowerIInv, Output PROVE PowerIInv'
  OBVIOUS
<1>0. PICK s, rest : s = Head(code) /\ rest = Tail(code)
  OBVIOUS
<1>1. PICK on, off, heard : /\ Knows(on, off, heard)
                            /\ Fine(chip, state, code, on, off, heard)
  BY DEF PowerIInv
<1>2. /\ code # <<>> /\ s.do \in Outputs /\ Effect(s) /\ code' = Run(rest)
      /\ UNCHANGED <<chip, state, caller>>
  BY <1>0 DEF Output, Others
<1>3. chip \in Chipset /\ caller' \in Forcing(chip')
  BY <1>2 DEF PowerIInv
<1>4. ASSUME NEW on1, NEW off1, NEW heard1, Fine(chip, state, rest, on1, off1, heard1),
             Knows(on1, off1, heard1)', Names', RailsInOrder', RestartIsDown'
      PROVE  PowerIInv'
  <2>1. Fine(chip, state, Run(rest), on1, off1, heard1)
    BY <1>4, RunFine
  <2>2. Fine(chip, state, code, on1, off1, heard1)'
    BY <1>2, <2>1
  <2> QED BY <1>2, <1>3, <1>4, <2>2 DEF PowerIInv
<1>5. /\ on \cap Kept \subseteq pins /\ off \cap (Lit \cup flags) \subseteq Shared /\ told \in heard
      /\ Lit \subseteq pins
      /\ flags \subseteq Flags /\ pins \cap Flags = {}
  BY <1>1 DEF PowerIInv, Knows, Names, Lit
<1>6. /\ \A o \in RailOrder(chip) : o[1] \in Lit => o[2] \in pins
      /\ \A o \in RailOrder(chip) : o[1] \notin Flags /\ o[2] \in Kept
  BY <1>3, NothingOnForced DEF PowerIInv, RailsInOrder
<1>7. "restart_from_s5" \notin Shared /\ "RSMRST_L" \notin Flags /\ Shared \subseteq Flags
  BY DEF Shared, Flags
<1>8. CASE s.do = "on"
  <2>1. /\ MayTurnOn(chip, s.pin, on, off)
        /\ Fine(chip, state, rest, on \cup {s.pin}, off \ {s.pin}, heard)
    BY <1>1, <1>2, <1>8, <1>0, FineOutput
  <2>2. pins' = pins \cup {s.pin} /\ Lit' = Lit \cup {s.pin} /\ UNCHANGED <<flags, told>>
    BY <1>2, <1>8, EffectOf
  <2>3. s.pin \notin Flags
    BY <2>1 DEF MayTurnOn
  <2>4. Knows(on \cup {s.pin}, off \ {s.pin}, heard)'
    BY <1>5, <2>2, <2>3 DEF Knows
  <2>5. Names'
    BY <1>5, <2>2, <2>3 DEF Names
  <2>6. RailsInOrder'
    <3>1. \A o \in RailOrder(chip) : o[1] = s.pin => o[2] \in pins
      BY <1>5, <2>1 DEF MayTurnOn
    <3> QED BY <1>2, <1>6, <2>2, <3>1 DEF RailsInOrder
  <2>7. RestartIsDown'
    <3>1. chip = "baytrail" /\ s.pin = "RSMRST_L" => "restart_from_s5" \notin flags
      BY <1>5, <1>7, <2>1 DEF MayTurnOn
    <3> QED BY <1>2, <2>2, <3>1 DEF PowerIInv, RestartIsDown
  <2> QED BY <1>4, <2>1, <2>4, <2>5, <2>6, <2>7
<1>9. CASE s.do = "off"
  <2>1. /\ MayTurnOff(chip, s.pin, off)
        /\ Fine(chip, state, rest, on \ {s.pin}, off \cup {s.pin}, heard)
    BY <1>1, <1>2, <1>9, <1>0, FineOutput
  <2>2. pins' = pins \ {s.pin} /\ Lit' = Lit \ {s.pin} /\ UNCHANGED <<flags, told>>
    BY <1>2, <1>9, EffectOf
  <2>3. s.pin \notin flags
    BY <1>5, <2>1 DEF MayTurnOff
  <2>4. Knows(on \ {s.pin}, off \cup {s.pin}, heard)'
    BY <1>5, <2>2, <2>3 DEF Knows
  <2>5. Names'
    BY <1>5, <2>2 DEF Names
  <2>6. RailsInOrder'
    <3>1. \A o \in RailOrder(chip) : o[2] = s.pin => o[1] \notin Lit
      BY <1>5, <1>6, <1>7, <2>1 DEF MayTurnOff
    <3> QED BY <1>2, <1>6, <2>2, <3>1 DEF RailsInOrder
  <2>7. RestartIsDown'
    BY <1>2, <2>2 DEF PowerIInv, RestartIsDown
  <2> QED BY <1>4, <2>1, <2>4, <2>5, <2>6, <2>7
<1>10. CASE s.do = "raise"
  <2>1. /\ MayRaise(chip, s.flag, off)
        /\ Fine(chip, state, rest, on, off \ {s.flag}, heard)
    BY <1>1, <1>2, <1>10, <1>0, FineOutput
  <2>2. flags' = flags \cup {s.flag} /\ UNCHANGED <<pins, told>> /\ Lit' = Lit
    BY <1>2, <1>10, EffectOf DEF Lit
  <2>3. Knows(on, off \ {s.flag}, heard)'
    BY <1>5, <2>2 DEF Knows
  <2>4. Names'
    BY <1>5, <2>1, <2>2 DEF Names, MayRaise
  <2>5. RailsInOrder'
    BY <1>2, <1>6, <2>2 DEF RailsInOrder
  <2>6. RestartIsDown'
    <3>1. chip = "baytrail" /\ s.flag = "restart_from_s5" => "RSMRST_L" \notin Lit
      BY <1>5, <1>7, <2>1 DEF MayRaise
    <3> QED BY <1>2, <2>2, <3>1 DEF PowerIInv, RestartIsDown
  <2> QED BY <1>4, <2>1, <2>3, <2>4, <2>5, <2>6
<1>11. CASE s.do = "lower"
  <2>1. /\ s.flag \in Flags
        /\ Fine(chip, state, rest, on, off \cup {s.flag}, heard)
    BY <1>1, <1>2, <1>11, <1>0, FineOutput
  <2>2. flags' = flags \ {s.flag} /\ UNCHANGED <<pins, told>> /\ Lit' = Lit
    BY <1>2, <1>11, EffectOf DEF Lit
  <2>3. Knows(on, off \cup {s.flag}, heard)'
    BY <1>5, <2>1, <2>2 DEF Knows
  <2>4. Names' /\ RailsInOrder'
    BY <1>2, <1>5, <1>6, <2>2 DEF Names, RailsInOrder
  <2>5. RestartIsDown'
    BY <1>2, <2>2 DEF PowerIInv, RestartIsDown
  <2> QED BY <1>4, <2>1, <2>3, <2>4, <2>5
<1>12. CASE s.do = "notify"
  <2>1. Fine(chip, state, rest, on, off, {s.hook})
    BY <1>1, <1>2, <1>12, <1>0, FineOutput
  <2>2. told' = s.hook /\ UNCHANGED <<pins, flags>> /\ Lit' = Lit
    BY <1>2, <1>12, EffectOf DEF Lit
  <2>3. Knows(on, off, {s.hook})'
    BY <1>5, <2>2 DEF Knows
  <2>4. Names' /\ RailsInOrder'
    BY <1>2, <1>5, <1>6, <2>2 DEF Names, RailsInOrder
  <2>5. RestartIsDown'
    BY <1>2, <2>2 DEF PowerIInv, RestartIsDown
  <2> QED BY <1>4, <2>1, <2>3, <2>4, <2>5
<1> QED BY <1>2, <1>8, <1>9, <1>10, <1>11, <1>12 DEF Outputs

LEMMA BranchSound == PowerIInv /\ Branch => PowerIInv'
<1> SUFFICES ASSUME PowerIInv, Branch PROVE PowerIInv'
  OBVIOUS
<1> DEFINE s == Head(code)
<1>1. /\ code # <<>> /\ UNCHANGED <<chip, state, pins, undriven, flags, told, caller>>
  BY DEF Branch, Others
<1>2. PICK b \in Branches(s) : code' = Run(b \o Tail(code))
  BY DEF Branch
<1>3. ASSUME NEW on, NEW off, NEW heard, Knows(on, off, heard),
             Fine(chip, state, b \o Tail(code), on, off, heard)
      PROVE  PowerIInv'
  <2>1. Fine(chip, state, code', on, off, heard)
    BY <1>2, <1>3, RunFine
  <2>0. Lit' = Lit
    BY <1>1 DEF Lit
  <2>2. Fine(chip, state, code, on, off, heard)' /\ Knows(on, off, heard)'
    BY <1>1, <1>3, <2>0, <2>1 DEF Knows
  <2>3. Names' /\ RestartIsDown' /\ RailsInOrder' /\ chip' \in Chipset /\ caller' \in Forcing(chip)'
    BY <1>1, <2>0 DEF PowerIInv, Names, RestartIsDown, RailsInOrder
  <2> QED BY <2>2, <2>3 DEF PowerIInv
<1>4. PICK on, off, heard : /\ Knows(on, off, heard)
                            /\ Fine(chip, state, code, on, off, heard)
  BY DEF PowerIInv
<1>5. CASE s.do \in {"has", "high", "in", "either"}
  <2>1. b \in {s.then, s.else}
    BY <1>2, <1>5 DEF Branches
  <2>2. /\ Fine(chip, state, s.then \o Tail(code), on, off, heard)
        /\ Fine(chip, state, s.else \o Tail(code), on, off, heard)
    BY <1>1, <1>4, <1>5, FineTest
  <2> QED BY <1>3, <1>4, <2>1, <2>2
<1>6. CASE s.do = "if"
  <2> DEFINE known == IF chip = "baytrail" /\ s.flag = "restart_from_s5" THEN {"RSMRST_L"} ELSE {}
  <2>1. /\ s.flag \in Flags
        /\ Fine(chip, state, s.then \o Tail(code), on, off \cup known, heard)
        /\ Fine(chip, state, s.else \o Tail(code), on, off \cup {s.flag}, heard)
    BY <1>1, <1>4, <1>6, FineTest
  <2>2. b = IF s.flag \in flags THEN s.then ELSE s.else
    BY <1>2, <1>6 DEF Branches
  <2>3. CASE s.flag \in flags
    <3>1. "RSMRST_L" \notin Flags
      BY DEF Flags
    <3>2. known \cap (Lit \cup flags) = {}
      BY <2>3, <3>1 DEF PowerIInv, RestartIsDown, Names
    <3> HIDE DEF known
    <3>3. Knows(on, off \cup known, heard)
      BY <1>4, <3>2 DEF Knows
    <3> QED BY <1>3, <2>1, <2>2, <2>3, <3>3
  <2>4. CASE s.flag \notin flags
    <3>0. s.flag \notin Lit \cup flags
      BY <2>1, <2>4 DEF PowerIInv, Names, Lit
    <3>1. Knows(on, off \cup {s.flag}, heard)
      BY <1>4, <3>0 DEF Knows
    <3> QED BY <1>3, <2>1, <2>2, <2>4, <3>1
  <2> QED BY <2>3, <2>4
<1> QED BY <1>2, <1>5, <1>6 DEF Branches

LEMMA ControlSound ==
  PowerIInv /\ (power_set_state \/ power_wait_signals \/ AwakeByEvent \/ AwakeByTimer) => PowerIInv'
<1> SUFFICES ASSUME PowerIInv,
                    power_set_state \/ power_wait_signals \/ AwakeByEvent \/ AwakeByTimer
             PROVE  PowerIInv'
  OBVIOUS
<1> DEFINE s == Head(code)
<1>1. code # <<>> /\ UNCHANGED <<chip, pins, undriven, flags, told, caller>>
  BY DEF power_set_state, power_wait_signals, AwakeByEvent, AwakeByTimer, Others
<1>2. ASSUME NEW on, NEW off, NEW heard, Fine(chip, state, code, on, off, heard)
      PROVE  Fine(chip, state', code', on, off, heard)
  <2>1. CASE power_set_state
    <3>1. s.do = "go" /\ state' = s.to /\ code' = <<>>
      BY <2>1 DEF power_set_state
    <3>2. Enters(chip, s.to, on, off, heard)
      BY <1>1, <1>2, <3>1, FineControl
    <3> QED BY <3>1, <3>2, EndRule
  <2>2. CASE power_wait_signals
    <3>1. /\ s.do = "wait" /\ state' = state
          /\ code' \in {Tail(code), <<Sleep(<<LookAgain(s)>>)>> \o code}
      BY <2>2 DEF power_wait_signals, LookAgain
    <3>2. /\ Fine(chip, state, Tail(code), on, off, heard)
          /\ Fine(chip, state, <<Sleep(<<LookAgain(s)>>)>> \o code, on, off, heard)
      BY <1>1, <1>2, <3>1, FineControl
    <3> QED BY <3>1, <3>2
  <2>3. CASE AwakeByEvent
    <3>1. s.do = "sleep" /\ state' = state /\ code' = Tail(code)
      BY <2>3 DEF AwakeByEvent
    <3> QED BY <1>1, <1>2, <3>1, FineControl
  <2>4. CASE AwakeByTimer
    <3>1. s.do = "sleep" /\ s.late # <<>> /\ state' = state /\ code' = s.late
      BY <2>4 DEF AwakeByTimer
    <3> QED BY <1>1, <1>2, <3>1, FineControl
  <2> QED BY <2>1, <2>2, <2>3, <2>4
<1> QED BY <1>1, <1>2, TaskGoesOn

LEMMA LookSound == PowerIInv /\ Look => PowerIInv'
<1> SUFFICES ASSUME PowerIInv, Look PROVE PowerIInv'
  OBVIOUS
<1> DEFINE s == Head(code)
<1>1. /\ code # <<>> /\ UNCHANGED <<chip, state, pins, undriven, flags, told, caller>>
      /\ s.do = "look" /\ code' = <<[do |-> "store", seen |-> level]>> \o s.failed
  BY DEF Look, Others
<1>2. ASSUME NEW on, NEW off, NEW heard, Fine(chip, state, code, on, off, heard)
      PROVE  Fine(chip, state', code', on, off, heard)
  <2>1. IsCode(s.failed) /\ Fine(chip, state, s.failed, on, off, heard)
    BY <1>1, <1>2, FineControl
  <2>2. [do |-> "store", seen |-> level].do = "store"
    OBVIOUS
  <2> QED BY <1>1, <2>1, <2>2, StoreRule
<1> QED BY <1>1, <1>2, TaskGoesOn

LEMMA StoreSound == PowerIInv /\ Store => PowerIInv'
<1> SUFFICES ASSUME PowerIInv, Store PROVE PowerIInv'
  OBVIOUS
<1>1. /\ code # <<>> /\ UNCHANGED <<chip, state, pins, undriven, flags, told, caller>>
      /\ Head(code).do = "store" /\ code' = Tail(code)
  BY DEF Store, Others
<1>2. ASSUME NEW on, NEW off, NEW heard, Fine(chip, state, code, on, off, heard)
      PROVE  Fine(chip, state', code', on, off, heard)
  BY <1>1, <1>2, FineControl
<1> QED BY <1>1, <1>2, TaskGoesOn

LEMMA StartSound == PowerIInv /\ power_common_init => PowerIInv'
<1> SUFFICES ASSUME PowerIInv, power_common_init PROVE PowerIInv'
  OBVIOUS
<1>1. /\ code # <<>> /\ UNCHANGED <<chip, state, pins, undriven, flags, told, caller>>
      /\ Head(code).do = "start" /\ code' = Tail(code)
  BY DEF power_common_init, Others
<1>2. ASSUME NEW on, NEW off, NEW heard, Fine(chip, state, code, on, off, heard)
      PROVE  Fine(chip, state', code', on, off, heard)
  BY <1>1, <1>2, FineControl
<1> QED BY <1>1, <1>2, TaskGoesOn

LEMMA PowerStep == PowerIInv /\ [Next]_vars => PowerIInv'
<1> SUFFICES ASSUME PowerIInv, [Next]_vars PROVE PowerIInv'
  OBVIOUS
<1>1. CASE Next
  BY <1>1, OtherTaskSound, HandleStateSound, OutputSound, BranchSound, ControlSound,
     LookSound, StoreSound, StartSound DEF Next, ChipsetTask
<1>2. CASE UNCHANGED vars
  <2>1. UNCHANGED <<chip, state, pins, undriven, flags, code, told, caller>>
    BY <1>2 DEF vars
  <2>2. caller' \in Forcing(chip)
    BY <2>1 DEF PowerIInv
  <2> QED BY <2>1, <2>2, SharedFlags
<1> QED BY <1>1, <1>2

LEMMA HooksFollow == PowerIInv => HooksAlternate
<1> SUFFICES ASSUME PowerIInv, code # <<>>, Head(code).do = "notify"
             PROVE  <<told, Head(code).hook>> \in HookOrder
  BY DEF HooksAlternate
<1>1. PICK on, off, heard : /\ Knows(on, off, heard)
                            /\ Fine(chip, state, code, on, off, heard)
  BY DEF PowerIInv
<1>2. \A h \in heard : <<h, Head(code).hook>> \in HookOrder
  BY <1>1, FineOutput
<1> QED BY <1>1, <1>2 DEF Knows

\* Whatever fails, whoever forces a shutdown and whenever the PCH wakes or
\* sleeps, an output that depends on another is high only while that one is
\* (power_handle_state() of power/haswell.c and power/baytrail.c).
THEOREM RailsStayInOrder == Spec => []RailsInOrder
<1>1. PowerIInv => RailsInOrder
  BY DEF PowerIInv
<1> QED BY <1>1, PowerInit, PowerStep, PTL DEF Spec

\* The chipset hooks are notified in an order their users rely on, on every
\* path through the handlers of the four chipsets (hook_notify() in
\* power/haswell.c, baytrail.c, braswell.c and skylake.c).
THEOREM HooksDoAlternate == Spec => []HooksAlternate
  BY HooksFollow, PowerInit, PowerStep, PTL DEF Spec

-----------------------------------------------------------------------------
(* PowerButton                                                             *)

\* What HOOKS and CHIPSET may have left to do
Pulses == {power_button_pch_pulse, <<"LID_OPEN", "next_in_200_ms", "wake">>,
           <<"next_in_200_ms", "wake">>, <<"wake">>}
Releases == {power_button_pch_release, <<"eat_or_idle">>}
Changes == {<<"changed">>, <<"IDLE">>, power_button_pressed,
            power_button_released, <<"next_now", "wake">>, <<"wake">>}

HooksCode == {<<>>, power_button_pch_press} \cup Pulses \cup Changes
ChipsetCode == {<<>>, power_button_pch_press} \cup Pulses \cup Releases

\* The PCH sees the button up, or the press is excused
Up == high \/ forced \/ torn \/ inherited

\* A routine is about to start the lid's pulse, which ends with the button up
Pulsing(todo) == todo # <<>> /\ Head(todo) = "LID_OPEN"

\* The change of the button that HOOKS has seen will end its press
Noticed ==
  hooks # <<>> /\ Head(hooks) \in {"changed", "RELEASED"}

\* The machine at rest leaves a press behind only while a routine is on its
\* way to end it; a routine about to put the machine to rest leaves none.
ButtonIInv ==
  /\ hooks \in HooksCode /\ chipset \in ChipsetCode
  /\ pwrbtn_state = "EAT_RELEASE" => Up \/ Pulsing(hooks) \/ Pulsing(chipset)
  /\ pwrbtn_state = "IDLE" /\ ~pressed =>
       Up \/ Pulsing(hooks) \/ Pulsing(chipset) \/ Noticed
  /\ Ending(hooks) \/ Ending(chipset) => Up

\* At reset no routine is under way.
LEMMA ButtonInitSound == ButtonInit => ButtonIInv
BY DEF ButtonInit, ButtonIInv, HooksCode, ChipsetCode, Up, Ending

(***************************************************************************)
(* The statements of the routines                                          *)
(***************************************************************************)

\* The ends of the routines, one by one
LEMMA Members ==
  /\ HooksCode = {<<>>, <<"press_unless_pressed">>,
       <<"low", "LID_OPEN", "next_in_200_ms", "wake">>,
       <<"LID_OPEN", "next_in_200_ms", "wake">>,
       <<"next_in_200_ms", "wake">>,
       <<"wake">>,
       <<"changed">>,
       <<"IDLE">>,
       <<"PRESSED", "next_now", "wake">>,
       <<"RELEASED", "next_now", "wake">>,
       <<"next_now", "wake">>}
  /\ ChipsetCode = {<<>>, <<"press_unless_pressed">>,
       <<"low", "LID_OPEN", "next_in_200_ms", "wake">>,
       <<"LID_OPEN", "next_in_200_ms", "wake">>,
       <<"next_in_200_ms", "wake">>,
       <<"wake">>,
       <<"high", "eat_or_idle">>,
       <<"eat_or_idle">>}
BY DEF HooksCode, ChipsetCode, Pulses, Releases, Changes,
       power_button_pch_pulse, power_button_pch_release,
       power_button_pch_press, power_button_pressed, power_button_released

\* What is left of a routine is again one of its ends.
LEMMA RestOfRoutine ==
  ASSUME NEW todo, todo # <<>>, todo \in HooksCode \cup ChipsetCode
  PROVE  /\ todo \in HooksCode => Tail(todo) \in HooksCode
         /\ todo \in ChipsetCode => Tail(todo) \in ChipsetCode
         /\ Head(todo) = "low" => Pulsing(Tail(todo))
         /\ Ending(Tail(todo)) => Head(todo) = "high"
         /\ Head(todo) = "IDLE" => todo \in HooksCode
<1>1. CASE todo = <<"press_unless_pressed">>
  <2>1. Head(todo) = "press_unless_pressed" /\ Tail(todo) = <<>>
    BY ONLY <1>1
  <2> QED
    BY <1>1, <2>1, Members DEF Ending, Pulsing
<1>2. CASE todo = <<"wake">>
  <2>1. Head(todo) = "wake" /\ Tail(todo) = <<>>
    BY ONLY <1>2
  <2> QED
    BY <1>2, <2>1, Members DEF Ending, Pulsing
<1>3. CASE todo = <<"changed">>
  <2>1. Head(todo) = "changed" /\ Tail(todo) = <<>>
    BY ONLY <1>3
  <2> QED
    BY <1>3, <2>1, Members DEF Ending, Pulsing
<1>4. CASE todo = <<"IDLE">>
  <2>1. Head(todo) = "IDLE" /\ Tail(todo) = <<>>
    BY ONLY <1>4
  <2> QED
    BY <1>4, <2>1, Members DEF Ending, Pulsing
<1>5. CASE todo = <<"eat_or_idle">>
  <2>1. Head(todo) = "eat_or_idle" /\ Tail(todo) = <<>>
    BY ONLY <1>5
  <2> QED
    BY <1>5, <2>1, Members DEF Ending, Pulsing
<1>6. CASE todo = <<"low", "LID_OPEN", "next_in_200_ms", "wake">>
  <2>1. /\ Head(todo) = "low" /\ Tail(todo) = <<"LID_OPEN", "next_in_200_ms", "wake">>
        /\ Head(Tail(todo)) = "LID_OPEN" /\ Tail(todo) # <<>>
    BY ONLY <1>6
  <2> QED
    BY <1>6, <2>1, Members DEF Ending, Pulsing
<1>7. CASE todo = <<"high", "eat_or_idle">>
  <2>1. /\ Head(todo) = "high" /\ Tail(todo) = <<"eat_or_idle">>
        /\ Head(Tail(todo)) = "eat_or_idle" /\ Tail(todo) # <<>>
    BY ONLY <1>7
  <2> QED
    BY <1>7, <2>1, Members DEF Ending, Pulsing
<1>8. CASE todo = <<"PRESSED", "next_now", "wake">>
  <2>1. /\ Head(todo) = "PRESSED" /\ Tail(todo) = <<"next_now", "wake">>
        /\ Head(Tail(todo)) = "next_now" /\ Tail(todo) # <<>>
    BY ONLY <1>8
  <2> QED
    BY <1>8, <2>1, Members DEF Ending, Pulsing
<1>9. CASE todo = <<"RELEASED", "next_now", "wake">>
  <2>1. /\ Head(todo) = "RELEASED" /\ Tail(todo) = <<"next_now", "wake">>
        /\ Head(Tail(todo)) = "next_now" /\ Tail(todo) # <<>>
    BY ONLY <1>9
  <2> QED
    BY <1>9, <2>1, Members DEF Ending, Pulsing
<1>10. CASE todo = <<"LID_OPEN", "next_in_200_ms", "wake">>
  <2>1. /\ Head(todo) = "LID_OPEN" /\ Tail(todo) = <<"next_in_200_ms", "wake">>
        /\ Head(Tail(todo)) = "next_in_200_ms" /\ Tail(todo) # <<>>
    BY ONLY <1>10
  <2> QED
    BY <1>10, <2>1, Members DEF Ending, Pulsing
<1>11. CASE todo = <<"next_in_200_ms", "wake">>
  <2>1. /\ Head(todo) = "next_in_200_ms" /\ Tail(todo) = <<"wake">>
        /\ Head(Tail(todo)) = "wake" /\ Tail(todo) # <<>>
    BY ONLY <1>11
  <2> QED
    BY <1>11, <2>1, Members DEF Ending, Pulsing
<1>12. CASE todo = <<"next_now", "wake">>
  <2>1. /\ Head(todo) = "next_now" /\ Tail(todo) = <<"wake">>
        /\ Head(Tail(todo)) = "wake" /\ Tail(todo) # <<>>
    BY ONLY <1>12
  <2> QED
    BY <1>12, <2>1, Members DEF Ending, Pulsing
<1> QED
  BY <1>1, <1>2, <1>3, <1>4, <1>5, <1>6, <1>7, <1>8, <1>9, <1>10, <1>11, <1>12
  DEF HooksCode, ChipsetCode, Pulses, Releases, Changes,
      power_button_pch_pulse, power_button_pch_release,
      power_button_pch_press, power_button_pressed, power_button_released

\* What a statement does to the machine, for what the invariant asks.
LEMMA RoutineStatement ==
  ASSUME NEW todo, NEW rest, Do(todo, rest)
  PROVE  /\ rest = Tail(todo)
         /\ \/ high' = high /\ forced' = forced
            \/ high' = TRUE
            \/ forced' = TRUE
            \/ Head(todo) = "low"
         /\ \/ pwrbtn_state' = pwrbtn_state /\ ~Pulsing(todo) /\ ~Ending(todo)
               /\ (todo # <<>> => Head(todo) # "RELEASED")
            \/ pwrbtn_state' \notin {"EAT_RELEASE", "IDLE"}
            \/ /\ Head(todo) \in {"eat_or_idle", "IDLE"}
               /\ high' = high /\ forced' = forced
         /\ Head(todo) = "high" => high' = TRUE
         /\ todo # <<>> => ~Ending(todo) \/ (high' = high /\ forced' = forced)
BY DEF Do, Pulsing, Ending

\* A press that the last image left behind lasts until the pin is raised.
LEMMA StillInherited ==
  ASSUME inherited, ~high', inherited' = (inherited /\ ~high')
  PROVE  inherited'
<1>1. inherited /\ ~high'
  OBVIOUS
<1> QED
  BY <1>1, Zenon

LEMMA RoutineInherits ==
  ASSUME NEW todo, NEW rest, Do(todo, rest), high' = high, forced' = forced,
         torn => torn', Up
  PROVE  Up'
<1>1. inherited' = (inherited /\ ~high')
  BY DEF Do
<1>2. inherited /\ ~high' => inherited'
  BY <1>1, StillInherited
<1> QED
  BY <1>2 DEF Up

(***************************************************************************)
(* The steps                                                               *)
(***************************************************************************)

\* A step that leaves the machine and the routines alone, or starts a
\* routine where there was none, keeps the invariant.
LEMMA Outside ==
  ASSUME ButtonIInv, UNCHANGED <<pwrbtn_state, high, inherited, forced, torn>>,
         \/ hooks' = hooks
         \/ hooks = <<>> /\ hooks' \in HooksCode /\ ~Ending(hooks'),
         \/ chipset' = chipset
         \/ chipset = <<>> /\ chipset' \in ChipsetCode /\ ~Ending(chipset'),
         \/ pressed' = pressed
         \/ hooks = <<>> /\ hooks' = <<"changed">>
  PROVE  ButtonIInv'
<1>1. hooks = <<>> => ~Pulsing(hooks) /\ ~Noticed
  BY DEF Pulsing, Noticed
<1>2. chipset = <<>> => ~Pulsing(chipset)
  BY DEF Pulsing
<1>3. hooks' = <<"changed">> => Noticed'
  BY DEF Noticed
<1>4. Noticed /\ hooks' = hooks => Noticed'
  BY DEF Noticed
<1>5. (pressed' = pressed /\ hooks' = hooks) \/ hooks' = <<"changed">>
      \/ pressed' = pressed
  OBVIOUS
<1>6. Up' <=> Up
  BY DEF Up
<1>7. (Ending(hooks'))  => Up
  BY DEF ButtonIInv
<1> QED
  BY <1>1, <1>2, <1>3, <1>4, <1>5, <1>6, <1>7 DEF ButtonIInv

\* The button, the chipset, the charger, time and the lid
LEMMA Environment ==
  ASSUME ButtonIInv, Button \/ ChipsetState \/ ChargeReady \/ Tick \/ Lid \/ Thermal
  PROVE  ButtonIInv'
<1>1. CASE Button \/ ChipsetState \/ ChargeReady \/ Tick
  BY <1>1, Outside DEF Button, ChipsetState, ChargeReady, Tick, machine
<1>2. CASE Lid
  <2>1. hooks' \in HooksCode /\ ~Ending(hooks')
    BY <1>2, Members DEF Lid, Ending, power_button_pch_pulse
  <2> QED
    BY <1>2, <2>1, Outside DEF Lid, machine
<1>3. CASE Thermal
  <2>1. hooks' \in HooksCode /\ ~Ending(hooks')
    BY <1>3, Members DEF Thermal, Ending, power_button_pch_press
  <2> QED
    BY <1>3, <2>1, Outside DEF Thermal, machine
<1> QED
  BY <1>1, <1>2, <1>3

\* A change of the button is noticed when it is seen.
LEMMA NextDebounced == ASSUME ButtonIInv, Debounced PROVE ButtonIInv'
<1>1. hooks' \in {<<>>, <<"changed">>} /\ hooks = <<>>
  BY DEF Debounced
<1>2. hooks' \in HooksCode /\ ~Ending(hooks')
  BY <1>1, Members DEF Ending
<1>3. pressed' = pressed \/ hooks' = <<"changed">>
  BY DEF Debounced
<1> QED
  BY <1>1, <1>2, <1>3, Outside DEF Debounced, machine

\* CHIPSET starts a routine.
LEMMA NextChipsetCalls == ASSUME ButtonIInv, ChipsetCalls PROVE ButtonIInv'
<1>1. chipset' \in ChipsetCode /\ ~Ending(chipset')
  BY Members
  DEF ChipsetCalls, Ending, power_button_pch_press, power_button_pch_pulse,
      power_button_pch_release
<1> QED
  BY <1>1, Outside DEF ChipsetCalls, machine

\* HOOKS decides what a change of the button means, or does a statement.
LEMMA NextHooks == ASSUME ButtonIInv, HooksRoutine PROVE ButtonIInv'
<1>1. /\ hooks \in HooksCode /\ hooks # <<>> /\ chipset = <<>>
      /\ UNCHANGED <<pressed, chipset, torn>>
  BY DEF HooksRoutine, ButtonIInv
<1>2. ~Pulsing(chipset) /\ ~Ending(chipset) /\ ~Ending(chipset')
      /\ chipset' \in ChipsetCode
  BY <1>1 DEF Pulsing, Ending, ButtonIInv
<1>3. CASE Head(hooks) = "changed"
  <2>1. hooks' = changed /\ UNCHANGED <<pwrbtn_state, high, inherited, forced>>
    BY <1>3 DEF HooksRoutine, machine
  <2>2. \/ /\ hooks' = <<>>
           /\ pwrbtn_state \notin {"EAT_RELEASE", "IDLE"}
        \/ hooks' = <<"PRESSED", "next_now", "wake">> /\ pressed
        \/ hooks' = <<"IDLE">> /\ pwrbtn_state = "EAT_RELEASE" /\ ~pressed
        \/ /\ hooks' = <<"RELEASED", "next_now", "wake">>
           /\ pwrbtn_state # "EAT_RELEASE"
    BY <2>1
    DEF changed, power_button_pressed, power_button_released
  <2>3. hooks' \in HooksCode
    BY <2>2, Members
  <2>4. ~Pulsing(hooks)
    BY <1>3 DEF Pulsing
  <2>5. Up' <=> Up
    BY <1>1, <2>1 DEF Up
  <2>6. CASE pwrbtn_state = "EAT_RELEASE"
    <3>1. Up
      BY <1>2, <2>4, <2>6 DEF ButtonIInv
    <3> QED
      BY <1>2, <2>1, <2>3, <2>5, <2>6, <3>1 DEF ButtonIInv
  <2>7. CASE hooks' = <<"RELEASED", "next_now", "wake">>
             /\ pwrbtn_state # "EAT_RELEASE"
    <3>1. Noticed' /\ ~Ending(hooks')
      BY <2>7 DEF Noticed, Ending
    <3> QED
      BY <1>2, <2>1, <2>3, <2>7, <3>1 DEF ButtonIInv
  <2>8. CASE hooks' = <<"PRESSED", "next_now", "wake">> /\ pressed
             /\ pwrbtn_state # "EAT_RELEASE"
    <3>1. ~Ending(hooks')
      BY <2>8 DEF Ending
    <3> QED
      BY <1>1, <1>2, <2>1, <2>3, <2>8, <3>1 DEF ButtonIInv
  <2>9. CASE hooks' = <<>> /\ pwrbtn_state \notin {"EAT_RELEASE", "IDLE"}
    BY <1>2, <2>1, <2>3, <2>9 DEF ButtonIInv, Ending
  <2> QED
    BY <2>2, <2>6, <2>7, <2>8, <2>9
<1>4. CASE Head(hooks) # "changed"
  <2>1. Do(hooks, hooks')
    BY <1>4 DEF HooksRoutine
  <2>2. hooks' = Tail(hooks) /\ hooks' \in HooksCode
    BY <1>1, <2>1, RoutineStatement, RestOfRoutine
  <2>3. Ending(hooks') => Head(hooks) = "high"
    BY <1>1, <2>2, RestOfRoutine
  <2>4. Ending(hooks') => Up'
    BY <2>1, <2>3, RoutineStatement DEF Up
  <2>5. CASE high' = TRUE \/ forced' = TRUE
    BY <1>1, <1>2, <2>2, <2>5 DEF ButtonIInv, Up
  <2>6. CASE Head(hooks) = "low"
    <3>1. Pulsing(hooks')
      BY <1>1, <2>2, <2>6, RestOfRoutine
    <3> QED
      BY <1>2, <2>2, <2>4, <3>1 DEF ButtonIInv
  <2>7. CASE high' = high /\ forced' = forced
    <3>1. Up => Up'
      BY <1>1, <2>1, <2>7, RoutineInherits
    <3>2. CASE pwrbtn_state' \notin {"EAT_RELEASE", "IDLE"}
      BY <1>2, <2>2, <2>4, <3>2 DEF ButtonIInv
    <3>3. CASE Head(hooks) \in {"eat_or_idle", "IDLE"}
      <4>1. Up
        BY <1>1, <3>3 DEF ButtonIInv, Ending
      <4> QED
        BY <1>2, <2>2, <3>1, <4>1 DEF ButtonIInv
    <3>4. CASE /\ pwrbtn_state' = pwrbtn_state /\ ~Pulsing(hooks)
               /\ Head(hooks) # "RELEASED"
      <4>1. ~Noticed
        BY <1>4, <3>4 DEF Noticed
      <4> QED
        BY <1>1, <1>2, <2>2, <2>4, <3>1, <3>4, <4>1 DEF ButtonIInv
    <3> QED
      BY <1>1, <2>1, <3>2, <3>3, <3>4, RoutineStatement
  <2> QED
    BY <2>1, <2>5, <2>6, <2>7, RoutineStatement
<1> QED
  BY <1>3, <1>4

\* CHIPSET does a statement; what HOOKS was about to do it may undo.
LEMMA NextChipset == ASSUME ButtonIInv, ChipsetRoutine PROVE ButtonIInv'
<1>1. /\ chipset \in ChipsetCode /\ chipset # <<>> /\ hooks \in HooksCode
      /\ UNCHANGED <<pressed, hooks>> /\ Do(chipset, chipset')
      /\ torn \/ Ending(hooks) => torn'
  BY DEF ChipsetRoutine, ButtonIInv
<1>2. chipset' = Tail(chipset) /\ chipset' \in ChipsetCode
  <2>1. chipset' = Tail(chipset)
    BY <1>1, RoutineStatement
  <2> QED
    BY <1>1, <2>1, RestOfRoutine
<1>3. Ending(chipset') => Up'
  <2>1. Ending(chipset') => Head(chipset) = "high"
    BY <1>1, <1>2, RestOfRoutine
  <2> QED
    BY <1>1, <2>1, RoutineStatement DEF Up
<1>4. Ending(hooks') => Up'
  BY <1>1 DEF Up
<1>5. hooks' \in HooksCode /\ (Pulsing(hooks) => Pulsing(hooks'))
      /\ (Noticed => Noticed')
  BY <1>1 DEF Noticed
<1>6. CASE high' = TRUE \/ forced' = TRUE
  BY <1>2, <1>5, <1>6 DEF ButtonIInv, Up
<1>7. CASE Head(chipset) = "low"
  <2>1. Pulsing(chipset')
    BY <1>1, <1>2, <1>7, RestOfRoutine
  <2> QED
    BY <1>2, <1>3, <1>4, <1>5, <2>1 DEF ButtonIInv
<1>8. CASE high' = high /\ forced' = forced
  <2>1. Up => Up'
    BY <1>1, <1>8, RoutineInherits
  <2>2. CASE pwrbtn_state' \notin {"EAT_RELEASE", "IDLE"}
    BY <1>2, <1>3, <1>4, <1>5, <2>2 DEF ButtonIInv
  <2>3. CASE Head(chipset) \in {"eat_or_idle", "IDLE"}
    <3>1. Up
      BY <1>1, <2>3 DEF ButtonIInv, Ending
    <3> QED
      BY <1>2, <1>5, <2>1, <3>1 DEF ButtonIInv
  <2>4. CASE pwrbtn_state' = pwrbtn_state /\ ~Pulsing(chipset)
    BY <1>1, <1>2, <1>3, <1>4, <1>5, <2>1, <2>4 DEF ButtonIInv
  <2> QED
    BY <1>1, <2>2, <2>3, <2>4, RoutineStatement
<1> QED
  BY <1>1, <1>6, <1>7, <1>8, RoutineStatement

\* A pass of the task ends at rest with the button up, unless it began there.
LEMMA NextTask == ASSUME ButtonIInv, PowerButtonTask PROVE ButtonIInv'
<1>1. /\ UNCHANGED <<pressed, hooks, chipset, forced>>
      /\ torn \/ Ending(chipset) \/ Ending(hooks) => torn'
  BY DEF PowerButtonTask
<1>2. \/ pwrbtn_state' = pwrbtn_state /\ high' = high
      \/ pwrbtn_state' \notin {"EAT_RELEASE", "IDLE"}
      \/ high' = TRUE
  BY DEF PowerButtonTask, state_machine, press, t0, t1, release, init_on,
         kb_reset, was_off, nothing, Becomes, machine
<1>3. Ending(hooks') \/ Ending(chipset') => Up'
  BY <1>1 DEF Up
<1>4. Noticed' <=> Noticed
  BY <1>1 DEF Noticed
<1>5. CASE pwrbtn_state' = pwrbtn_state /\ high' = high
  <2>1. inherited' = inherited \/ inherited' = (inherited /\ ~high')
    BY DEF PowerButtonTask, state_machine, machine
  <2>2. inherited /\ ~high' => inherited'
    BY <2>1, StillInherited
  <2>3. Up => Up'
    BY <1>1, <1>5, <2>2 DEF Up
  <2> QED
    BY <1>1, <1>3, <1>4, <1>5, <2>3 DEF ButtonIInv
<1>6. CASE pwrbtn_state' \notin {"EAT_RELEASE", "IDLE"}
  BY <1>1, <1>3, <1>6 DEF ButtonIInv
<1>7. CASE high' = TRUE
  BY <1>1, <1>7 DEF ButtonIInv, Up
<1> QED
  BY <1>2, <1>5, <1>6, <1>7

\* The invariant holds in every reachable state.
THEOREM ButtonInvariance == ButtonSpec => []ButtonIInv
<1>1. ButtonIInv /\ [ButtonNext]_button_vars => ButtonIInv'
  <2> SUFFICES ASSUME ButtonIInv, [ButtonNext]_button_vars PROVE ButtonIInv'
    OBVIOUS
  <2>1. CASE UNCHANGED button_vars
    BY <2>1, Outside DEF button_vars, machine
  <2> QED
    BY <2>1, Environment, NextDebounced, NextChipsetCalls, NextHooks,
       NextChipset, NextTask DEF ButtonNext
<1> QED
  BY <1>1, ButtonInitSound, PTL DEF ButtonSpec

\* No press is left behind, however many times the lid, the thermal control
\* and the chipset intervene: when the machine rests with the button up and
\* no routine is under way, the PCH sees the button up.
THEOREM RestsUp == ButtonSpec => []IdleIsUp
<1>1. ButtonIInv => IdleIsUp
  BY DEF ButtonIInv, IdleIsUp, Up, Pulsing, Noticed
<1> QED
  BY <1>1, ButtonInvariance, PTL
=============================================================================
