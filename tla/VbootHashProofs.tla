---------------------------- MODULE VbootHashProofs ----------------------------
(***************************************************************************)
(* Theorems about VbootHash: a hash that is reported as done is current.   *)
(* Nothing in the code is locked; what holds is that a task that is in the *)
(* middle of something knows what the tasks below it can no longer do, and *)
(* that a hash that is started while another task is between two steps of  *)
(* a start or of an abort is, until that task is through, at its beginning.*)
(***************************************************************************)
EXTENDS VbootHash, TLAPS

ClearSteps == {"clear", "clear_size", "clear_hash"}
HooksSteps == {"idle", "abort", "read", "advance", "final", "check"} \cup ClearSteps
ClientSteps == {"idle", "abort", "start", "save", "restart", "wait",
                "in_progress", "overlap", "program", "asleep"} \cup ClearSteps

\* A region is inside the flash.
Inside(r) == \A i \in Nat : i < r.size => r.off + i \in Blocks

PcTypes ==
  /\ pc \in [Tasks -> HooksSteps \cup ClientSteps]
  /\ pc["hooks"] \in HooksSteps
  /\ \A c \in Clients : pc[c] \in ClientSteps

CommandNames == {"none", "start", "recalc", "abort", "write", "erase"}

ArgTypes ==
  /\ arg \in [Clients -> [cmd : CommandNames, off : Nat, size : Nat]]
  /\ \A c \in Clients : Inside(arg[c])

DataTypes ==
  /\ mapped \in BOOLEAN /\ want_abort \in BOOLEAN /\ in_progress \in BOOLEAN
  /\ deferred \in BOOLEAN /\ buf_in_use \in BOOLEAN
  /\ busy \in BOOLEAN /\ disturbed \in BOOLEAN
  /\ flash \in [Blocks -> Contents]
  /\ region \in [off : Nat, size : Nat] /\ Inside(region) /\ curr_pos \in Nat
  /\ hash \in Seq(Contents) \cup {None} /\ ctx \in Seq(Contents)

Types == PcTypes /\ ArgTypes /\ DataTypes

\* Nothing of the region has been hashed.
Fresh == curr_pos = 0 /\ ctx = << >>

\* The steps of a client that has found no hash in progress
PastTest == {"save", "restart", "overlap"} \cup ClearSteps

\* What a hash in progress says of where the tasks are.  The console is above
\* all others: past its test there is none in progress.  A hash that the client
\* below it, or HOOKS, sees in progress past its test is one by which it was
\* overtaken, and is at its beginning.
Busy ==
  /\ deferred => in_progress
  /\ pc["hooks"] \in {"read", "advance", "final"} => in_progress /\ ~deferred
  /\ pc["console"] \in PastTest => ~in_progress
  /\ pc["hostcmd"] \in PastTest =>
       pc["hooks"] \notin {"read", "advance", "final"} /\ (in_progress => Fresh)
  /\ pc["hooks"] \in {"check"} \cup ClearSteps => (in_progress => Fresh)
  /\ \A c \in Clients : pc[c] = "restart" => curr_pos = 0
  /\ in_progress => curr_pos <= region.size

\* The blocks hashed are the first n of the region.
Matches(n) ==
  /\ Len(ctx) = n
  /\ \A i \in 1 .. n : ctx[i] = flash[region.off + i - 1]

HashedSize == IF pc["hooks"] = "advance" THEN curr_pos + ChunkSize ELSE curr_pos

\* A hash in progress that nobody asked to abort is right so far, unless it was
\* disturbed.
RightSoFar ==
  /\ in_progress /\ ~want_abort /\ ~disturbed => Matches(HashedSize)
  /\ pc["hooks"] = "final" => hash = ctx /\ curr_pos >= region.size

\* What client c has still to change is not in the first n blocks of the region.
Apart(c, n) ==
  \/ n = 0 \/ arg[c].size = 0
  \/ arg[c].off + arg[c].size <= region.off \/ region.off + n <= arg[c].off

\* While a client changes the flash, a hash in progress will be aborted, or has
\* not hashed what is still to be changed, and a hash that is done will be
\* cleared, or is of something else.
ChangingBy(c) ==
  pc[c] \in {"program", "asleep"} =>
    /\ in_progress => want_abort \/ disturbed \/ Apart(c, HashedSize)
    /\ ~in_progress => \/ hash = None \/ want_abort \/ disturbed
                       \/ \E t \in Tasks : pc[t] = "clear_size"
                       \/ Apart(c, region.size)

Changing == \A c \in Clients : ChangingBy(c)

\* A hash that is done, and that nobody is about to clear, is right.
Right ==
  /\ ~in_progress /\ ~want_abort /\ ~disturbed /\ hash # None
  /\ \A t \in Tasks : pc[t] \notin {"clear_size", "clear_hash"}
  => /\ Len(hash) = region.size
     /\ \A i \in 1 .. region.size : hash[i] = flash[region.off + i - 1]

IInv == Types /\ Busy /\ RightSoFar /\ Changing /\ Right

\* The three tasks
LEMMA TaskNames ==
  /\ Clients = {"hostcmd", "console"} /\ Tasks = {"hooks", "hostcmd", "console"}
BY DEF Clients, Tasks

\* A task takes a step only while those above it do nothing.
LEMMA Ranks ==
  /\ \A p : At("hooks", p) =>
       pc["hooks"] = p /\ \A c \in Clients : pc[c] \in {"idle", "asleep", "wait"}
  /\ \A p : At("hostcmd", p) =>
       pc["hostcmd"] = p /\ pc["console"] \in {"idle", "asleep", "wait"}
  /\ \A p : At("console", p) => pc["console"] = p
BY DEF At, Above, Clients

\* A step moves one task.
LEMMA Moves ==
  ASSUME Types, NEW t \in Tasks, NEW p, Goto(t, p)
  PROVE  /\ pc'[t] = p
         /\ \A u \in Tasks : u # t => pc'[u] = pc[u]
BY DEF Types, PcTypes, Goto

(***************************************************************************)
(* Types                                                                   *)
(***************************************************************************)

\* A task that goes to one of its own steps stays within them.
LEMMA PcType ==
  ASSUME PcTypes, NEW t \in Tasks, NEW p, Goto(t, p),
         t = "hooks" => p \in HooksSteps,
         t # "hooks" => p \in ClientSteps
  PROVE  PcTypes'
<1>1. p \in HooksSteps \cup ClientSteps
  BY TaskNames DEF HooksSteps, ClientSteps
<1>2. pc' \in [Tasks -> HooksSteps \cup ClientSteps]
  BY <1>1 DEF PcTypes, Goto
<1>3. \A u \in Tasks : pc'[u] = IF u = t THEN p ELSE pc[u]
  BY DEF PcTypes, Goto
<1> QED
  BY <1>2, <1>3, TaskNames DEF PcTypes

\* The regions asked for are inside the flash.
LEMMA RegionsInside ==
  /\ RW \in [off : Nat, size : Nat] /\ Inside(RW)
  /\ \A c \in Clients : \A a \in Commands[c] : a \in Command /\ Inside(a)
<1>1. RW \in [off : Nat, size : Nat] /\ Inside(RW)
  BY VbootHashAssumption DEF Region, Inside
<1>2. ASSUME NEW c \in Clients, NEW a \in Commands[c] PROVE a \in Command /\ Inside(a)
  <2>1. a \in Command
    BY VbootHashAssumption
  <2>2. a.size \in Nat /\ \A i \in 0 .. a.size - 1 : a.off + i \in Blocks
    BY <2>1, VbootHashAssumption DEF Command
  <2> QED
    BY <2>1, <2>2 DEF Inside
<1> QED
  BY <1>1, <1>2

LEMMA NothingAsked ==
  NoCommand \in [cmd : CommandNames, off : Nat, size : Nat] /\ Inside(NoCommand)
<1>1. NoCommand.size = 0
  BY DEF NoCommand
<1>2. Inside(NoCommand)
  BY <1>1 DEF Inside
<1> QED
  BY <1>2 DEF NoCommand, CommandNames

\* At reset nobody has asked for anything.
LEMMA NothingType ==
  ASSUME NEW a, a = [c \in Clients |-> NoCommand]
  PROVE  /\ a \in [Clients -> [cmd : CommandNames, off : Nat, size : Nat]]
         /\ \A c \in Clients : Inside(a[c])
BY NothingAsked

\* A task that goes on keeps its command, unless it is over.
LEMMA GoesOn ==
  ASSUME Types, NEW t \in Tasks, NEW p, GoOn(t, p)
  PROVE  /\ Goto(t, p) /\ ArgTypes'
         /\ \A c \in Clients : c # t \/ p # "idle" => arg'[c] = arg[c]
<1>1. Goto(t, p)
  BY DEF GoOn
<1>2. CASE arg' = arg
  <2>1. ArgTypes'
    BY <1>2 DEF Types, ArgTypes, Inside
  <2> QED
    BY <1>1, <1>2, <2>1
<1>3. CASE p = "idle" /\ t \in Clients /\ arg' = [arg EXCEPT ![t] = NoCommand]
  <2>1. /\ arg' \in [Clients -> [cmd : CommandNames, off : Nat, size : Nat]]
        /\ arg'[t] = NoCommand
        /\ \A c \in Clients : c # t => arg'[c] = arg[c]
    BY <1>3, NothingAsked DEF Types, ArgTypes
  <2>2. \A c \in Clients : Inside(arg'[c])
    <3> SUFFICES ASSUME NEW c \in Clients PROVE Inside(arg'[c])
      OBVIOUS
    <3>1. CASE c = t
      BY <2>1, <3>1, NothingAsked
    <3>2. CASE c # t
      <4>1. arg'[c] = arg[c] /\ Inside(arg[c])
        BY <2>1, <3>2 DEF Types, ArgTypes
      <4> QED
        BY <4>1
    <3> QED
      BY <3>1, <3>2
  <2>3. ArgTypes'
    BY <2>1, <2>2 DEF ArgTypes, Inside
  <2> QED
    BY <1>1, <1>3, <2>1, <2>3
<1> QED
  BY <1>2, <1>3 DEF GoOn

LEMMA InitTypes == Init => Types
<1> SUFFICES ASSUME Init PROVE Types
  OBVIOUS
<1>1. ArgTypes
  BY NothingType DEF Init, ArgTypes
<1>2. PcTypes
  BY TaskNames DEF Init, PcTypes, HooksSteps, ClientSteps
<1>3. DataTypes
  <2>1. hash \in Seq(Contents) \cup {None} /\ ctx \in Seq(Contents)
    BY DEF Init
  <2>2. region \in [off : Nat, size : Nat] /\ Inside(region)
    BY RegionsInside DEF Init
  <2>3. mapped \in BOOLEAN
    BY VbootHashAssumption DEF Init
  <2> QED
    BY <2>1, <2>2, <2>3 DEF Init, DataTypes, Contents
<1> QED
  BY <1>1, <1>2, <1>3 DEF Types

LEMMA RestartTypes == ASSUME Types, Restart PROVE Types'
<1>1. ArgTypes'
  <2>1. arg' = [c \in Clients |-> NoCommand]
    BY DEF Restart
  <2>2. /\ arg' \in [Clients -> [cmd : CommandNames, off : Nat, size : Nat]]
        /\ \A c \in Clients : Inside(arg'[c])
    BY <2>1, NothingType
  <2> QED
    BY <2>2 DEF ArgTypes, Inside
<1>2. PcTypes'
  BY TaskNames DEF Restart, PcTypes, HooksSteps, ClientSteps
<1>3. DataTypes'
  <2>1. hash' \in Seq(Contents) \cup {None} /\ ctx' \in Seq(Contents)
    BY DEF Restart, Started
  <2>2. region' \in [off : Nat, size : Nat] /\ Inside(region)'
    BY RegionsInside DEF Restart, Started, Inside
  <2> QED
    BY <2>1, <2>2 DEF Restart, Started, Types, DataTypes
<1> QED
  BY <1>1, <1>2, <1>3 DEF Types

\* What a step of HOOKS may do to the position
LEMMA ChunkInside ==
  ASSUME DataTypes, curr_pos <= region.size
  PROVE  /\ ChunkSize \in {0, 1} /\ curr_pos + ChunkSize <= region.size
         /\ ChunkSize = 0 <=> region.size = curr_pos
BY DEF ChunkSize, DataTypes

LEMMA HooksTypes == ASSUME Types, Busy, Hooks PROVE Types'
<1> USE TaskNames DEF Types
<1>1. arg' = arg
  BY DEF Hooks, NextChunk, ReadAndHash, ReadBusy, ReadFailed, Advance, Final
<1>2. ArgTypes'
  BY <1>1 DEF ArgTypes, Inside
<1>3. PcTypes'
  <2>1. \E p \in HooksSteps : Goto("hooks", p)
    BY DEF Hooks, NextChunk, ReadAndHash, ReadBusy, ReadFailed, Advance, Final, HooksSteps, ClearSteps
  <2> QED
    BY <2>1, PcType
<1>4. DataTypes'
  <2>1. CASE NextChunk
    BY <2>1 DEF NextChunk, DataTypes, Inside
  <2>2. CASE ReadAndHash
    <3>1. ctx' = ctx \/ \E x \in Contents : ctx' = Append(ctx, x)
      BY <2>2 DEF ReadAndHash
    <3>2. ctx' \in Seq(Contents)
      BY <3>1 DEF DataTypes
    <3>3. disturbed' = disturbed \/ disturbed' \in BOOLEAN
      BY <2>2 DEF ReadAndHash
    <3>4. disturbed' \in BOOLEAN
      BY <3>3, Zenon DEF DataTypes
    <3> QED
      BY <2>2, <3>2, <3>4 DEF ReadAndHash, DataTypes, Inside
  <2>3. CASE ReadBusy \/ ReadFailed
    BY <2>3 DEF ReadBusy, ReadFailed, request, DataTypes, Inside
  <2>4. CASE Advance
    <3>1. curr_pos' \in Nat
      BY <2>4 DEF Advance, DataTypes, ChunkSize
    <3>2. hash' \in Seq(Contents) \cup {None}
      BY <2>4 DEF Advance, DataTypes
    <3> QED
      BY <2>4, <3>1, <3>2 DEF Advance, DataTypes, Inside
  <2>5. CASE Final
    BY <2>5 DEF Final, DataTypes, Inside
  <2> QED
    BY <2>1, <2>2, <2>3, <2>4, <2>5 DEF Hooks
<1> QED
  BY <1>2, <1>3, <1>4

\* Aborting is the same for all tasks.
LEMMA AbortTypes ==
  ASSUME Types, NEW t \in Tasks, Abort(t) \/ Clear(t)
  PROVE  Types'
<1>1. PICK p \in {"idle", "program"} \cup ClearSteps :
        GoOn(t, p) /\ (p = "program" => t \in Clients)
  BY DEF Abort, Clear, Caller, ClearSteps
<1>2. ArgTypes' /\ Goto(t, p)
  BY <1>1, GoesOn
<1>3. PcTypes'
  BY <1>1, <1>2, PcType, TaskNames DEF Types, HooksSteps, ClientSteps, ClearSteps
<1>4. DataTypes'
  <2>1. CASE Abort(t)
    BY <2>1 DEF Abort, Types, DataTypes, Inside
  <2>2. CASE Clear(t)
    <3>1. region' = region \/ region' = [region EXCEPT !.size = 0]
      BY <2>2 DEF Clear
    <3>2. region' \in [off : Nat, size : Nat] /\ Inside(region)'
      BY <2>2, <3>1 DEF Clear, Types, DataTypes, Inside
    <3>3. want_abort' \in BOOLEAN /\ hash' \in Seq(Contents) \cup {None}
      BY <2>2 DEF Clear, Types, DataTypes
    <3> QED
      BY <2>2, <3>2, <3>3 DEF Clear, Types, DataTypes
  <2> QED
    BY <2>1, <2>2
<1> QED
  BY <1>2, <1>3, <1>4 DEF Types

LEMMA CallTypes == ASSUME Types, NEW c \in Clients, Call(c) PROVE Types'
<1> USE TaskNames DEF Types
<1>1. PICK a \in Commands[c] : arg' = [arg EXCEPT ![c] = a] /\ Goto(c, Entry(a.cmd))
  BY DEF Call
<1>2. a \in Command /\ Inside(a)
  BY RegionsInside
<1>3. a.cmd \in {"start", "recalc", "abort", "write", "erase"}
  BY <1>2 DEF Command
<1>4. ArgTypes'
  <2>1. a \in [cmd : CommandNames, off : Nat, size : Nat]
    BY <1>2 DEF CommandNames, Command
  <2>2. arg' \in [Clients -> [cmd : CommandNames, off : Nat, size : Nat]]
    BY <1>1, <2>1 DEF ArgTypes
  <2>3. ASSUME NEW d \in Clients PROVE Inside(arg'[d])
    <3>1. CASE d = c
      BY <1>1, <1>2, <3>1 DEF ArgTypes, Inside
    <3>2. CASE d # c
      BY <1>1, <3>2 DEF ArgTypes
    <3> QED
      BY <3>1, <3>2
  <2> QED
    BY <2>2, <2>3 DEF ArgTypes, Inside
<1>5. PcTypes'
  <2>1. Entry(a.cmd) \in {"abort", "start", "in_progress"}
    BY <1>3 DEF Entry
  <2> QED
    BY <1>1, <2>1, PcType DEF ClientSteps
<1>6. DataTypes'
  BY DEF Call, request, DataTypes, Inside
<1> QED
  BY <1>4, <1>5, <1>6

LEMMA StartTypes == ASSUME Types, NEW c \in Clients, Start(c) PROVE Types'
<1> USE TaskNames DEF Types
<1>1. PICK p \in {"idle", "save", "restart", "wait"} : GoOn(c, p)
  BY DEF Start
<1>2. ArgTypes' /\ Goto(c, p)
  BY <1>1, GoesOn
<1>3. PcTypes'
  BY <1>2, PcType DEF ClientSteps
<1>4. region' = region \/ region' = [off |-> arg[c].off, size |-> arg[c].size]
  BY DEF Start, request
<1>5. arg[c] \in [cmd : CommandNames, off : Nat, size : Nat] /\ Inside(arg[c])
  BY DEF ArgTypes
<1>6. region' \in [off : Nat, size : Nat] /\ Inside(region)'
  BY <1>4, <1>5 DEF DataTypes, Inside
<1>7. hash' \in Seq(Contents) \cup {None} /\ ctx' \in Seq(Contents)
  <2>1. (hash' = hash \/ hash' = None) /\ (ctx' = ctx \/ ctx' = << >>)
    BY DEF Start, request
  <2>2. << >> \in Seq(Contents)
    OBVIOUS
  <2> QED
    BY <2>1, <2>2 DEF DataTypes
<1>8. /\ want_abort' \in BOOLEAN /\ in_progress' \in BOOLEAN
      /\ deferred' \in BOOLEAN /\ disturbed' \in BOOLEAN /\ curr_pos' \in Nat
      /\ UNCHANGED <<mapped, flash, busy, buf_in_use>>
  <2>1. /\ want_abort' = want_abort \/ want_abort' = FALSE
        /\ in_progress' = in_progress \/ in_progress' = TRUE
        /\ deferred' = deferred \/ deferred' = TRUE
        /\ disturbed' = disturbed \/ disturbed' = FALSE
        /\ curr_pos' = curr_pos \/ curr_pos' = 0
        /\ UNCHANGED <<mapped, flash, busy, buf_in_use>>
    BY DEF Start, request
  <2>2. /\ want_abort' \in BOOLEAN /\ in_progress' \in BOOLEAN
        /\ deferred' \in BOOLEAN /\ disturbed' \in BOOLEAN
    BY <2>1, Zenon DEF DataTypes
  <2> QED
    BY <2>1, <2>2 DEF DataTypes
<1> QED
  BY <1>2, <1>3, <1>6, <1>7, <1>8 DEF DataTypes

LEMMA ProgramTypes == ASSUME Types, NEW c \in Clients, Program(c) PROVE Types'
<1> USE TaskNames DEF Types
<1>1. CASE \E p \in {"idle", "asleep"} : GoOn(c, p) /\ UNCHANGED <<flash, busy>>
  <2>1. PICK p \in {"idle", "asleep"} : GoOn(c, p)
    BY <1>1
  <2>2. ArgTypes' /\ Goto(c, p)
    BY <2>1, GoesOn
  <2>3. PcTypes'
    BY <2>2, PcType DEF ClientSteps
  <2>4. DataTypes'
    BY <1>1 DEF Program, request, DataTypes, Inside
  <2> QED
    BY <2>2, <2>3, <2>4
<1>2. CASE /\ arg[c].size # 0
           /\ flash' = [flash EXCEPT ![arg[c].off] =
                          IF arg[c].cmd = "erase" THEN "erased" ELSE "update"]
           /\ arg' = [arg EXCEPT ![c].off = @ + 1, ![c].size = @ - 1]
           /\ \/ UNCHANGED <<busy, pc>>
              \/ busy' = TRUE /\ \E p \in {"asleep", "program"} : Goto(c, p)
  <2>1. PcTypes'
    <3>1. CASE UNCHANGED pc
      BY <3>1 DEF PcTypes
    <3>2. CASE \E p \in {"asleep", "program"} : Goto(c, p)
      BY <3>2, PcType DEF ClientSteps
    <3> QED
      BY <1>2, <3>1, <3>2
  <2>2. DataTypes'
    <3>1. flash' \in [Blocks -> Contents] /\ busy' \in BOOLEAN
      BY <1>2 DEF DataTypes, Contents
    <3> QED
      BY <3>1 DEF Program, request, DataTypes, Inside
  <2>3. ArgTypes'
    <3>1. /\ arg'[c].off = arg[c].off + 1 /\ arg'[c].size = arg[c].size - 1
          /\ arg' \in [Clients -> [cmd : CommandNames, off : Nat, size : Nat]]
          /\ \A d \in Clients : d # c => arg'[d] = arg[d]
      BY <1>2 DEF ArgTypes
    <3>2. arg[c].off \in Nat /\ arg[c].size \in Nat
      BY DEF ArgTypes
    <3>3. ASSUME NEW i \in Nat, i < arg'[c].size PROVE arg'[c].off + i \in Blocks
      <4>1. i + 1 < arg[c].size
        BY <3>1, <3>2, <3>3
      <4>2. arg[c].off + (i + 1) \in Blocks
        BY <4>1 DEF ArgTypes, Inside
      <4>3. arg'[c].off + i = arg[c].off + (i + 1)
        BY <3>1, <3>2
      <4> QED
        BY <4>2, <4>3
    <3>4. ASSUME NEW d \in Clients, d # c PROVE Inside(arg'[d])
      BY <3>1, <3>4 DEF ArgTypes
    <3> QED
      BY <3>1, <3>3, <3>4 DEF ArgTypes, Inside
  <2> QED
    BY <2>1, <2>2, <2>3
<1> QED
  BY <1>1, <1>2 DEF Program

LEMMA OtherTypes ==
  ASSUME Types, NEW c \in Clients, Recalculated(c) \/ Wake(c) \/ Invalidate(c)
  PROVE  Types'
<1> USE TaskNames DEF Types
<1>1. CASE Recalculated(c)
  <2>1. ArgTypes' /\ Goto(c, "idle")
    BY <1>1, GoesOn DEF Recalculated
  <2>2. PcTypes'
    BY <2>1, PcType DEF ClientSteps
  <2> QED
    BY <1>1, <2>1, <2>2 DEF Recalculated, request, DataTypes, Inside
<1>2. CASE Wake(c) \/ Invalidate(c)
  <2>1. \E p \in {"program", "abort", "overlap"} : Goto(c, p)
    BY <1>2 DEF Wake, Invalidate
  <2>2. PcTypes'
    BY <2>1, PcType DEF ClientSteps
  <2> QED
    BY <1>2, <2>2 DEF Wake, Invalidate, request, ArgTypes, DataTypes, Inside
<1> QED
  BY <1>1, <1>2

LEMMA NextTypes ==
  ASSUME Types, Busy, [Next]_vars
  PROVE  Types'
<1>1. CASE Ready \/ SharedMem \/ UNCHANGED vars
  <2>1. /\ UNCHANGED <<mapped, flash, request, deferred, pc, arg>>
        /\ buf_in_use' = buf_in_use \/ buf_in_use' \in BOOLEAN
        /\ busy' = busy \/ busy' \in BOOLEAN
    BY <1>1 DEF Ready, SharedMem, vars
  <2> QED
    BY <2>1 DEF request, Types, PcTypes, ArgTypes, DataTypes, Inside
<1> QED
  BY <1>1, HooksTypes, AbortTypes, CallTypes, StartTypes, ProgramTypes, OtherTypes,
     RestartTypes, TaskNames
  DEF Next, Client

(***************************************************************************)
(* The hash                                                                *)
(***************************************************************************)

Good == Busy /\ RightSoFar /\ Changing /\ Right

LEMMA Numbers ==
  ASSUME Types
  PROVE  /\ region.off \in Nat /\ region.size \in Nat /\ curr_pos \in Nat
         /\ ctx \in Seq(Contents)
         /\ \A c \in Clients : arg[c].off \in Nat /\ arg[c].size \in Nat
BY DEF Types, DataTypes, ArgTypes

\* A step that touches none of the request, and moves no task into or out of
\* the steps the invariant names, keeps it.
LEMMA Elsewhere ==
  ASSUME Types, Good, UNCHANGED <<flash, request, deferred>>,
         NEW t \in Tasks, NEW p, Goto(t, p),
         \A c \in Clients : c # t \/ p # "idle" => arg'[c] = arg[c],
         pc[t] \notin ClearSteps \cup {"final", "advance"},
         t = "hooks" => p \in {"idle", "abort"},
         t # "hooks" => \/ p \in {"idle", "abort", "start", "in_progress", "wait"}
                        \/ pc[t] \in {"asleep", "program"} /\ p \in {"asleep", "program"}
  PROVE  Good'
<1> USE TaskNames, Moves DEF Good, request
<1>1. Busy'
  BY DEF Busy, ClearSteps, PastTest, Fresh
<1>2. RightSoFar'
  BY DEF RightSoFar, HashedSize, ChunkSize, Matches, ClearSteps
<1>3. Changing'
  <2> SUFFICES ASSUME NEW c \in Clients, pc'[c] \in {"program", "asleep"}
               PROVE  ChangingBy(c)'
    BY DEF Changing, ChangingBy
  <2>1. pc[c] \in {"program", "asleep"} /\ arg'[c] = arg[c]
    OBVIOUS
  <2>2. HashedSize' = HashedSize
    BY DEF HashedSize, ChunkSize
  <2>3. (\E u \in Tasks : pc[u] = "clear_size") => \E u \in Tasks : pc'[u] = "clear_size"
    BY DEF ClearSteps
  <2>4. (Apart(c, HashedSize) => Apart(c, HashedSize)')
        /\ (Apart(c, region.size) => Apart(c, region.size)')
    BY <2>1, <2>2 DEF Apart
  <2>5. ChangingBy(c)
    BY DEF Changing
  <2> QED
    BY <2>1, <2>3, <2>4, <2>5 DEF ChangingBy
<1>4. Right'
  BY DEF Right, ClearSteps
<1> QED
  BY <1>1, <1>2, <1>3, <1>4

LEMMA StartedGood ==
  ASSUME in_progress, ~want_abort, curr_pos = 0, ctx = << >>, region.size \in Nat,
         \A t \in Tasks : pc[t] = "idle"
  PROVE  Good
<1> USE TaskNames DEF Good
<1>1. Busy
  BY DEF Busy, ClearSteps, PastTest
<1>2. RightSoFar
  BY DEF RightSoFar, HashedSize, Matches
<1>3. Changing
  BY DEF Changing, ChangingBy
<1>4. Right
  BY DEF Right
<1> QED
  BY <1>1, <1>2, <1>3, <1>4

\* An abort of a hash in progress
LEMMA AbortInProgress ==
  ASSUME Types, Good, NEW t \in Tasks, Abort(t), in_progress
  PROVE  Good'
<1> USE TaskNames, Moves DEF Good
<1>1. /\ pc[t] = "abort" /\ want_abort' = TRUE /\ GoOn(t, Caller(t))
      /\ UNCHANGED <<flash, region, curr_pos, hash, in_progress, ctx, disturbed, deferred>>
  BY DEF Abort, At
<1>2. Goto(t, Caller(t)) /\ Caller(t) \in {"idle", "program"}
      /\ (t = "hooks" => Caller(t) = "idle")
  BY <1>1 DEF Caller, Clients, GoOn
<1>3. Busy'
  BY <1>1, <1>2 DEF Busy, ClearSteps, PastTest, Fresh
<1>4. RightSoFar'
  BY <1>1, <1>2 DEF RightSoFar
<1>5. Changing'
  BY <1>1 DEF Changing, ChangingBy
<1>6. Right'
  BY <1>1 DEF Right
<1> QED
  BY <1>3, <1>4, <1>5, <1>6

\* An abort that finds no hash in progress goes on to clear the last one.
LEMMA AbortDone ==
  ASSUME Types, Good, NEW t \in Tasks, Abort(t), ~in_progress
  PROVE  Good'
<1> USE TaskNames, Moves DEF Good
<1>1. /\ pc[t] = "abort" /\ Goto(t, "clear") /\ UNCHANGED arg
      /\ UNCHANGED <<flash, region, curr_pos, hash, want_abort, in_progress, ctx,
                     disturbed, deferred>>
  BY DEF Abort, At, GoOn
<1>2. pc["hooks"] \notin {"read", "advance", "final"}
  BY DEF Busy
<1>3. Busy'
  BY <1>1, <1>2 DEF Busy, ClearSteps, PastTest
<1>4. RightSoFar'
  BY <1>1 DEF RightSoFar
<1>5. Changing'
  <2>1. (\E u \in Tasks : pc[u] = "clear_size") => \E u \in Tasks : pc'[u] = "clear_size"
    BY <1>1
  <2> QED
    BY <1>1, <2>1 DEF Changing, ChangingBy, Apart
<1>6. Right'
  BY <1>1 DEF Right
<1> QED
  BY <1>3, <1>4, <1>5, <1>6

\* Clearing, an assignment at a time.  A hash that overtook it is not yet begun.
LEMMA ClearGood ==
  ASSUME Types, Good, NEW t \in Tasks, Clear(t)
  PROVE  Good'
<1> USE TaskNames, Moves, Numbers DEF Good
<1>1. UNCHANGED <<flash, curr_pos, in_progress, ctx, disturbed, deferred>>
  BY DEF Clear
<1>2. pc[t] \in ClearSteps
  BY DEF Clear, At, ClearSteps
<1>3. in_progress => Fresh /\ t # "console"
  BY <1>2 DEF Busy, PastTest
<1>4. pc["hooks"] \notin {"read", "advance", "final"}
  <2>1. CASE t = "hooks"
    BY <1>2, <2>1 DEF ClearSteps
  <2>2. CASE t # "hooks"
    BY <1>2, <2>2 DEF Busy, PastTest
  <2> QED
    BY <2>1, <2>2
<1>5. pc["console"] \in PastTest => ~in_progress
  BY DEF Busy
<1>6. PICK p \in {"clear_size", "clear_hash", "idle", "program"} :
        /\ GoOn(t, p) /\ Goto(t, p) /\ (t = "hooks" => p # "program")
        /\ \/ /\ p = "clear_size" /\ want_abort' = FALSE /\ UNCHANGED <<region, hash>>
           \/ /\ p = "clear_hash" /\ region' = [region EXCEPT !.size = 0]
              /\ UNCHANGED <<want_abort, hash>>
           \/ /\ p \in {"idle", "program"} /\ hash' = None
              /\ UNCHANGED <<want_abort, region>>
  BY DEF Clear, Caller, Clients, GoOn
<1>7. region'.size = region.size \/ region'.size = 0
  BY <1>6 DEF Types, DataTypes
<1>8. region'.size = 0 \/ p # "clear_hash"
  BY <1>6 DEF Types, DataTypes
<1>9. /\ pc'[t] = p /\ \A u \in Tasks : u # t => pc'[u] = pc[u]
  BY <1>6
<1>10. Busy'
  BY <1>1, <1>2, <1>3, <1>4, <1>5, <1>6, <1>7, <1>9 DEF Busy, ClearSteps, PastTest, Fresh
<1>11. pc'["hooks"] \notin {"read", "advance", "final"}
  BY <1>4, <1>6, <1>9
<1>12. HashedSize' = curr_pos
  BY <1>1, <1>11 DEF HashedSize
<1>13. RightSoFar'
  BY <1>1, <1>3, <1>11, <1>12 DEF RightSoFar, Matches, Fresh
<1>14. Changing'
  <2> SUFFICES ASSUME NEW c \in Clients PROVE ChangingBy(c)'
    BY DEF Changing
  <2>1. CASE in_progress
    BY <1>1, <1>3, <1>12, <2>1 DEF ChangingBy, Apart, Fresh
  <2>2. CASE ~in_progress
    BY <1>1, <1>6, <1>8, <1>9, <2>2 DEF ChangingBy, Apart
  <2> QED
    BY <2>1, <2>2
<1>15. Right'
  BY <1>6, <1>9 DEF Right
<1> QED
  BY <1>10, <1>13, <1>14, <1>15

\* HOOKS looks for an abort, and goes on otherwise.
LEMMA NextChunkGood == ASSUME Types, Good, NextChunk PROVE Good'
<1> USE TaskNames, Moves DEF Good
<1>1. /\ pc["hooks"] = "idle" /\ deferred /\ deferred' = FALSE
      /\ UNCHANGED <<flash, region, curr_pos, hash, want_abort, ctx, disturbed, arg>>
  BY DEF NextChunk, At
<1>2. in_progress /\ pc["hostcmd"] \notin PastTest /\ pc["console"] \notin PastTest
  BY <1>1, Ranks DEF NextChunk, Busy, PastTest, ClearSteps
<1>3. CASE want_abort
  <2>1. in_progress' = FALSE /\ Goto("hooks", "abort")
    BY <1>3 DEF NextChunk
  <2>2. Busy'
    BY <1>1, <1>2, <2>1 DEF Busy, ClearSteps
  <2>3. RightSoFar'
    BY <1>1, <2>1 DEF RightSoFar
  <2>4. Changing'
    BY <1>1, <1>3, <2>1 DEF Changing, ChangingBy
  <2>5. Right'
    BY <1>1, <1>3, <2>1 DEF Right
  <2> QED
    BY <2>2, <2>3, <2>4, <2>5
<1>4. CASE ~want_abort
  <2>1. in_progress' = in_progress /\ Goto("hooks", "read")
    BY <1>4 DEF NextChunk
  <2>2. Busy'
    BY <1>1, <1>2, <2>1 DEF Busy, ClearSteps
  <2>3. RightSoFar'
    BY <1>1, <2>1 DEF RightSoFar, HashedSize, Matches
  <2>4. Changing'
    BY <1>1, <1>2, <2>1 DEF Changing, ChangingBy, Apart, HashedSize
  <2>5. Right'
    BY <1>2, <2>1 DEF Right
  <2> QED
    BY <2>2, <2>3, <2>4, <2>5
<1> QED
  BY <1>3, <1>4

\* Apart from the first n blocks, and from the next
LEMMA OneMore ==
  ASSUME Types, NEW c \in Clients, NEW n \in Nat, Apart(c, n),
         ~(arg[c].off <= region.off + n /\ region.off + n < arg[c].off + arg[c].size)
  PROVE  Apart(c, n + 1)
<1> DEFINE o == arg[c].off
           s == arg[c].size
           r == region.off
<1>1. o \in Nat /\ s \in Nat /\ r \in Nat
  BY Numbers
<1>2. n = 0 \/ s = 0 \/ o + s <= r \/ r + n <= o
  BY DEF Apart
<1>3. ~(o <= r + n /\ r + n < o + s)
  OBVIOUS
<1> HIDE DEF o, s, r
<1>4. s = 0 \/ o + s <= r \/ r + (n + 1) <= o
  BY <1>1, <1>2, <1>3
<1> QED
  BY <1>4 DEF Apart, o, s, r

\* A chunk is added to the digest: of a block that nobody has still to change,
\* or the hash is disturbed.
LEMMA ReadGood == ASSUME Types, Good, ReadAndHash PROVE Good'
<1> USE TaskNames, Moves, Numbers DEF Good
<1>1. /\ pc["hooks"] = "read" /\ Goto("hooks", "advance")
      /\ \A c \in Clients : pc[c] \in {"idle", "asleep", "wait"}
      /\ UNCHANGED <<flash, region, curr_pos, hash, want_abort, in_progress, deferred, arg>>
  BY Ranks DEF ReadAndHash
<1>2. in_progress /\ ~deferred /\ curr_pos <= region.size
  BY <1>1 DEF Busy
<1>3. HashedSize = curr_pos /\ HashedSize' = curr_pos + ChunkSize
  BY <1>1 DEF HashedSize, ChunkSize
<1>4. Busy'
  BY <1>1, <1>2 DEF Busy, ClearSteps, PastTest
<1>5. CASE ChunkSize = 0
  <2>1. UNCHANGED <<ctx, disturbed>>
    BY <1>5 DEF ReadAndHash
  <2>2. RightSoFar'
    BY <1>1, <1>3, <1>5, <2>1 DEF RightSoFar, Matches
  <2>3. Changing'
    BY <1>1, <1>2, <1>3, <1>5, <2>1 DEF Changing, ChangingBy, Apart
  <2>4. Right'
    BY <1>1, <1>2 DEF Right
  <2> QED
    BY <1>4, <2>2, <2>3, <2>4
<1>6. CASE ChunkSize # 0
  <2>1. /\ ChunkSize = 1
        /\ disturbed' = (disturbed \/ StillToChange(region.off + curr_pos)
                         \/ (~mapped /\ busy))
        /\ \E x : /\ mapped \/ ~busy => x = flash[region.off + curr_pos]
                  /\ ctx' = Append(ctx, x)
    BY <1>6 DEF ReadAndHash, ChunkSize
  <2>2. Right'
    BY <1>1, <1>2 DEF Right
  <2>3. Changing'
    <3> SUFFICES ASSUME NEW c \in Clients, pc'[c] \in {"program", "asleep"},
                        ~want_abort, ~disturbed'
                 PROVE  Apart(c, HashedSize)'
      BY <1>1, <1>2 DEF Changing, ChangingBy
    <3>1. pc[c] = "asleep" /\ Apart(c, curr_pos) /\ arg'[c] = arg[c]
      BY <1>1, <1>2, <1>3, <2>1 DEF Changing, ChangingBy
    <3>2. ~(arg[c].off <= region.off + curr_pos
            /\ region.off + curr_pos < arg[c].off + arg[c].size)
      BY <2>1, <3>1 DEF StillToChange
    <3>3. Apart(c, curr_pos + 1)
      BY <3>1, <3>2, OneMore
    <3> QED
      BY <1>1, <1>3, <2>1, <3>1, <3>3 DEF Apart
  <2>4. RightSoFar'
    <3>1. SUFFICES ASSUME ~want_abort, ~disturbed' PROVE Matches(HashedSize)'
      BY <1>1 DEF RightSoFar
    <3>2. /\ Len(ctx) = curr_pos
          /\ \A i \in 1 .. curr_pos : ctx[i] = flash[region.off + i - 1]
      BY <1>2, <1>3, <2>1, <3>1 DEF RightSoFar, Matches
    <3>3. ctx' = Append(ctx, flash[region.off + curr_pos])
      BY <2>1, <3>1
    <3>4. Len(ctx') = curr_pos + 1
      BY <3>2, <3>3
    <3>5. ASSUME NEW i \in 1 .. curr_pos + 1
          PROVE  ctx'[i] = flash[region.off + i - 1]
      <4>1. CASE i = curr_pos + 1
        <5>1. ctx'[i] = flash[region.off + curr_pos]
          BY <3>2, <3>3, <4>1
        <5>2. region.off + i - 1 = region.off + curr_pos
          BY <4>1
        <5> QED
          BY <5>1, <5>2
      <4>2. CASE i # curr_pos + 1
        <5>1. i \in 1 .. curr_pos /\ ctx'[i] = ctx[i]
          BY <3>2, <3>3, <4>2
        <5> QED
          BY <3>2, <5>1
      <4> QED
        BY <4>1, <4>2
    <3> QED
      BY <1>1, <1>3, <2>1, <3>4, <3>5 DEF Matches
  <2> QED
    BY <1>4, <2>2, <2>3, <2>4
<1> QED
  BY <1>5, <1>6

\* A chunk that cannot be read now is tried again, or is the end.
LEMMA NotReadGood == ASSUME Types, Good, ReadBusy \/ ReadFailed PROVE Good'
<1> USE TaskNames, Moves DEF Good
<1>1. /\ pc["hooks"] = "read" /\ in_progress
      /\ \E p \in {"idle", "abort"} : Goto("hooks", p)
      /\ deferred' = deferred \/ deferred' = TRUE
      /\ UNCHANGED <<flash, region, curr_pos, hash, want_abort, in_progress, ctx,
                     disturbed, arg>>
  BY DEF ReadBusy, ReadFailed, request, At, Busy
<1>2. Busy'
  BY <1>1 DEF Busy, ClearSteps, PastTest
<1>3. RightSoFar'
  BY <1>1 DEF RightSoFar, HashedSize, Matches
<1>4. Changing'
  BY <1>1 DEF Changing, ChangingBy, HashedSize, Apart
<1>5. Right'
  BY <1>1 DEF Right
<1> QED
  BY <1>2, <1>3, <1>4, <1>5

\* The last chunk makes the digest the hash.
LEMMA AdvanceGood == ASSUME Types, Good, Advance PROVE Good'
<1> USE TaskNames, Moves, Numbers DEF Good
<1>1. /\ pc["hooks"] = "advance" /\ curr_pos' = curr_pos + ChunkSize
      /\ \A c \in Clients : pc[c] \in {"idle", "asleep", "wait"}
      /\ UNCHANGED <<flash, region, want_abort, in_progress, ctx, disturbed, arg>>
  BY Ranks DEF Advance
<1>2. in_progress /\ ~deferred /\ curr_pos <= region.size
  BY <1>1 DEF Busy
<1>3. curr_pos' \in Nat /\ curr_pos' <= region.size
  BY <1>1, <1>2 DEF ChunkSize
<1>4. \/ /\ curr_pos' >= region.size /\ hash' = ctx
         /\ Goto("hooks", "final") /\ UNCHANGED deferred
      \/ deferred' = TRUE /\ Goto("hooks", "idle") /\ UNCHANGED hash
  BY DEF Advance
<1>5. HashedSize = curr_pos' /\ HashedSize' = curr_pos'
  BY <1>1, <1>4 DEF HashedSize
<1>6. Busy'
  BY <1>1, <1>2, <1>3, <1>4 DEF Busy, ClearSteps, PastTest
<1>7. RightSoFar'
  <2>1. in_progress' /\ ~want_abort' /\ ~disturbed' => Matches(HashedSize)'
    BY <1>1, <1>5 DEF RightSoFar, Matches
  <2>2. pc'["hooks"] = "final" => hash' = ctx' /\ curr_pos' >= region'.size
    BY <1>1, <1>4
  <2> QED
    BY <2>1, <2>2 DEF RightSoFar
<1>8. Changing'
  BY <1>1, <1>2, <1>4, <1>5 DEF Changing, ChangingBy, Apart
<1>9. Right'
  BY <1>1, <1>2 DEF Right
<1> QED
  BY <1>6, <1>7, <1>8, <1>9

\* The hash is no longer in progress, and then an abort is looked for.
LEMMA FinalGood == ASSUME Types, Good, Final PROVE Good'
<1> USE TaskNames, Moves, Numbers DEF Good
<1>1. UNCHANGED <<flash, region, curr_pos, hash, want_abort, ctx, disturbed, deferred, arg>>
  BY DEF Final
<1>2. CASE pc["hooks"] = "final"
  <2>1. in_progress' = FALSE /\ Goto("hooks", "check") /\ in_progress /\ ~deferred
    BY <1>2 DEF Final, At, Busy
  <2>2. \A c \in Clients : pc[c] \in {"idle", "asleep", "wait"}
    BY <1>2, Ranks DEF Final, At
  <2>3. curr_pos = region.size /\ HashedSize = region.size
    BY <1>2, <2>1 DEF Busy, RightSoFar, HashedSize
  <2>4. Busy'
    BY <1>1, <2>1, <2>2 DEF Busy, ClearSteps, PastTest
  <2>5. RightSoFar'
    BY <2>1 DEF RightSoFar
  <2>6. Changing'
    BY <1>1, <2>1, <2>3 DEF Changing, ChangingBy, Apart
  <2>7. Right'
    <3>1. SUFFICES ASSUME ~want_abort, ~disturbed
                   PROVE  /\ Len(hash) = region.size
                          /\ \A i \in 1 .. region.size : hash[i] = flash[region.off + i - 1]
      BY <1>1 DEF Right
    <3>2. Matches(region.size) /\ hash = ctx
      BY <1>2, <2>1, <2>3, <3>1 DEF RightSoFar
    <3> QED
      BY <3>2 DEF Matches
  <2> QED
    BY <2>4, <2>5, <2>6, <2>7
<1>3. CASE pc["hooks"] = "check"
  <2>1. UNCHANGED in_progress /\ \E p \in {"idle", "abort"} : Goto("hooks", p)
    BY <1>3 DEF Final, At
  <2> QED
    BY <1>1, <1>3, <2>1, Elsewhere DEF request, ClearSteps
<1> QED
  BY <1>2, <1>3 DEF Final, At

\* Arithmetic of the block a and the m after it, and of the n at r
LEMMA NoOverlap ==
  \A a, m, r, n \in Nat : ~(m > 0 /\ a + m > r /\ a < r + n)
    => n = 0 \/ m = 0 \/ a + m <= r \/ r + n <= a
OBVIOUS

LEMMA NotWithin ==
  \A a, r, n \in Nat, m \in Nat \ {0} : \A i \in 1 .. n :
    (n = 0 \/ m = 0 \/ a + m <= r \/ r + n <= a) => r + i - 1 # a
OBVIOUS

\* Commands begin, wait and end without a word to the hash.
LEMMA CommandGood ==
  ASSUME Types, Good, NEW c \in Clients, Call(c) \/ Recalculated(c) \/ Wake(c)
  PROVE  Good'
<1>1. CASE Recalculated(c)
  <2>1. /\ Goto(c, "idle") /\ pc[c] = "wait" /\ UNCHANGED <<flash, request, deferred>>
        /\ \A d \in Clients : d # c => arg'[d] = arg[d]
    BY <1>1, GoesOn, TaskNames DEF Recalculated, At
  <2> QED
    BY <2>1, Elsewhere, TaskNames DEF ClearSteps
<1>2. CASE Wake(c)
  BY <1>2, Elsewhere, TaskNames DEF Wake, At, ClearSteps
<1>3. CASE Call(c)
  <2>1. /\ pc[c] = "idle" /\ UNCHANGED <<flash, request, deferred>>
        /\ \E p \in {"abort", "start", "in_progress"} : Goto(c, p)
        /\ \A d \in Clients : d # c => arg'[d] = arg[d]
    <3>1. PICK a \in Commands[c] : arg' = [arg EXCEPT ![c] = a] /\ Goto(c, Entry(a.cmd))
      BY <1>3 DEF Call
    <3>2. Entry(a.cmd) \in {"abort", "start", "in_progress"}
      BY RegionsInside DEF Command, Entry
    <3> QED BY <1>3, <3>1, <3>2 DEF Call, At, Types, ArgTypes
  <2>2. Busy'
    BY <2>1, TaskNames, Moves DEF Good, Busy, ClearSteps, PastTest, Fresh, request
  <2>3. RightSoFar'
    BY <2>1, TaskNames, Moves
    DEF Good, RightSoFar, HashedSize, ChunkSize, Matches, request
  <2>4. Changing'
    <3> SUFFICES ASSUME NEW d \in Clients, pc'[d] \in {"program", "asleep"}
                 PROVE  ChangingBy(d)'
      BY DEF Changing, ChangingBy
    <3>1. d # c /\ pc'[d] = pc[d] /\ arg'[d] = arg[d] /\ ChangingBy(d)
      BY <2>1, TaskNames, Moves DEF Good, Changing
    <3>2. (\E u \in Tasks : pc[u] = "clear_size") => \E u \in Tasks : pc'[u] = "clear_size"
      BY <2>1, TaskNames, Moves
    <3>3. HashedSize' = HashedSize
      BY <2>1, TaskNames, Moves DEF HashedSize, ChunkSize, request
    <3> QED
      BY <2>1, <3>1, <3>2, <3>3 DEF ChangingBy, Apart, request
  <2>5. Right'
    BY <2>1, TaskNames, Moves DEF Good, Right, request
  <2> QED
    BY <2>2, <2>3, <2>4, <2>5 DEF Good
<1> QED
  BY <1>1, <1>2, <1>3

\* A start.  One that was overtaken by that of the console makes its hash void
\* before it has begun.
LEMMA StartGood ==
  ASSUME Types, Good, NEW c \in Clients, Start(c)
  PROVE  Good'
<1> USE TaskNames, Moves, Numbers DEF Good
<1>1. pc["console"] \notin PastTest \/ c = "console"
  BY Ranks DEF Start, PastTest, ClearSteps
<1>2. CASE pc[c] = "start"
  <2>1. /\ UNCHANGED <<flash, request, deferred>>
        /\ GoOn(c, IF in_progress THEN "idle" ELSE "save")
    BY <1>2 DEF Start, At
  <2>2. Goto(c, IF in_progress THEN "idle" ELSE "save")
        /\ \A d \in Clients : d # c => arg'[d] = arg[d]
    BY <2>1, GoesOn
  <2>3. CASE in_progress
    BY <1>2, <2>1, <2>2, <2>3, Elsewhere DEF ClearSteps
  <2>4. CASE ~in_progress
    <3>1. Busy'
      BY <1>2, <2>1, <2>2, <2>4 DEF Busy, ClearSteps, PastTest, request
    <3>2. RightSoFar'
      BY <2>1, <2>2, <2>4 DEF RightSoFar, request, Busy
    <3>3. Changing'
      <4> SUFFICES ASSUME NEW d \in Clients, pc'[d] \in {"program", "asleep"}
                   PROVE  ChangingBy(d)'
        BY DEF Changing, ChangingBy
      <4>1. d # c /\ pc'[d] = pc[d] /\ arg'[d] = arg[d] /\ ChangingBy(d)
        BY <2>2, <2>4 DEF Changing
      <4>2. (\E u \in Tasks : pc[u] = "clear_size") => \E u \in Tasks : pc'[u] = "clear_size"
        BY <1>2, <2>2
      <4> QED
        BY <2>1, <2>4, <4>1, <4>2 DEF ChangingBy, Apart, request
    <3>4. Right'
      BY <1>2, <2>1, <2>2 DEF Right, request
    <3> QED
      BY <3>1, <3>2, <3>3, <3>4
  <2> QED
    BY <2>3, <2>4
<1>3. CASE pc[c] = "save"
  <2>1. /\ UNCHANGED <<flash, in_progress, ctx, disturbed, deferred>>
        /\ curr_pos' = 0 /\ hash' = None /\ want_abort' = FALSE
        /\ GoOn(c, "restart")
    BY <1>3 DEF Start, At
  <2>2. /\ Goto(c, "restart") /\ pc["hooks"] \notin {"read", "advance", "final"}
        /\ in_progress => Fresh
    BY <1>3, <2>1, GoesOn DEF Busy, PastTest
  <2>3. region'.size \in Nat
    BY <1>3, StartTypes DEF Types, DataTypes
  <2>4. Busy'
    BY <1>1, <1>3, <2>1, <2>2, <2>3 DEF Busy, ClearSteps, PastTest, Fresh
  <2>5. HashedSize' = 0
    BY <2>1, <2>2 DEF HashedSize
  <2>6. RightSoFar'
    BY <2>1, <2>2, <2>5 DEF RightSoFar, Fresh, Matches
  <2>7. Changing'
    BY <2>1, <2>5 DEF Changing, ChangingBy, Apart
  <2>8. Right'
    BY <2>1 DEF Right
  <2> QED
    BY <2>4, <2>6, <2>7, <2>8
<1>4. CASE pc[c] = "restart"
  <2>1. /\ UNCHANGED <<flash, region, curr_pos, hash, want_abort>>
        /\ in_progress' = TRUE /\ ctx' = << >> /\ deferred' = TRUE
        /\ \E p \in {"wait", "idle"} : GoOn(c, p)
    BY <1>4 DEF Start, At
  <2>2. /\ \E p \in {"wait", "idle"} : Goto(c, p)
        /\ pc["hooks"] \notin {"read", "advance", "final"} /\ curr_pos = 0
    BY <1>4, <2>1, GoesOn DEF Busy, PastTest
  <2>3. Busy'
    BY <1>1, <1>4, <2>1, <2>2 DEF Busy, ClearSteps, PastTest, Fresh
  <2>4. HashedSize' = 0
    BY <2>1, <2>2 DEF HashedSize
  <2>5. RightSoFar'
    BY <2>1, <2>2, <2>4 DEF RightSoFar, Matches
  <2>6. Changing'
    BY <2>1, <2>4 DEF Changing, ChangingBy, Apart
  <2>7. Right'
    BY <2>1 DEF Right
  <2> QED
    BY <2>3, <2>5, <2>6, <2>7
<1> QED
  BY <1>2, <1>3, <1>4 DEF Start, At

\* Before it changes the flash a client has the hash aborted, or finds that it
\* is of something else, or that it has not begun.
LEMMA InvalidateGood ==
  ASSUME Types, Good, NEW c \in Clients, Invalidate(c)
  PROVE  Good'
<1> USE TaskNames, Moves, Numbers DEF Good
<1>1. /\ UNCHANGED <<flash, request, deferred, arg>>
      /\ pc[c] \in {"in_progress", "overlap"}
  BY DEF Invalidate, At
<1>2. PICK p \in {"abort", "overlap", "program"} :
        /\ Goto(c, p)
        /\ p = "overlap" => ~in_progress
        /\ p = "program" => pc[c] = "overlap" /\ (hash = None \/ ~Overlap(c))
  BY DEF Invalidate, At
<1>3. pc[c] = "overlap" => /\ pc["hooks"] \notin {"read", "advance", "final"}
                           /\ in_progress => Fresh
  BY DEF Busy, PastTest
<1>4. HashedSize' = HashedSize
  BY <1>1, <1>2 DEF HashedSize, ChunkSize, request
<1>5. Busy'
  BY <1>1, <1>2 DEF Busy, ClearSteps, PastTest, Fresh, request
<1>6. RightSoFar'
  BY <1>1, <1>2, <1>4 DEF RightSoFar, Matches, request
<1>7. Changing'
  <2> SUFFICES ASSUME NEW d \in Clients, pc'[d] \in {"program", "asleep"}
               PROVE  ChangingBy(d)'
    BY DEF Changing, ChangingBy
  <2>1. (\E u \in Tasks : pc[u] = "clear_size") => \E u \in Tasks : pc'[u] = "clear_size"
    BY <1>1, <1>2
  <2>2. CASE d = c
    <3>1. p = "program" /\ pc[c] = "overlap"
      BY <1>2, <2>2
    <3>2. in_progress => HashedSize = 0
      BY <1>3, <3>1 DEF HashedSize, Fresh
    <3>3. ~Overlap(c) => Apart(c, region.size)
      <4>1. /\ arg[c].off \in Nat /\ arg[c].size \in Nat
            /\ region.off \in Nat /\ region.size \in Nat
        OBVIOUS
      <4> QED
        BY <4>1, NoOverlap DEF Overlap, Apart
    <3> QED
      BY <1>1, <1>2, <1>4, <2>2, <3>1, <3>2, <3>3 DEF ChangingBy, Apart, request
  <2>3. CASE d # c
    <3>1. pc'[d] = pc[d] /\ ChangingBy(d)
      BY <1>2, <2>3 DEF Changing
    <3> QED
      BY <1>1, <1>4, <2>1, <3>1 DEF ChangingBy, Apart, request
  <2> QED
    BY <2>2, <2>3
<1>8. Right'
  BY <1>1, <1>2 DEF Right, request
<1> QED
  BY <1>5, <1>6, <1>7, <1>8

\* A block that is changed is not one of a hash that is, or will be, done.
LEMMA ProgramGood ==
  ASSUME Types, Good, NEW c \in Clients, Program(c)
  PROVE  Good'
<1> USE TaskNames, Numbers DEF Good
<1>1. /\ UNCHANGED <<request, deferred>> /\ pc[c] = "program"
  BY DEF Program, At
<1>2. CASE \E p \in {"idle", "asleep"} : GoOn(c, p) /\ UNCHANGED <<flash, busy>>
  <2>1. PICK p \in {"idle", "asleep"} : GoOn(c, p)
    BY <1>2
  <2>2. Goto(c, p) /\ \A d \in Clients : d # c \/ p # "idle" => arg'[d] = arg[d]
    BY <2>1, GoesOn
  <2> QED
    BY <1>1, <1>2, <2>2, Elsewhere DEF ClearSteps
<1>3. CASE /\ arg[c].size # 0
           /\ flash' = [flash EXCEPT ![arg[c].off] =
                          IF arg[c].cmd = "erase" THEN "erased" ELSE "update"]
           /\ arg' = [arg EXCEPT ![c].off = @ + 1, ![c].size = @ - 1]
           /\ \/ UNCHANGED <<busy, pc>>
              \/ busy' = TRUE /\ \E p \in {"asleep", "program"} : Goto(c, p)
  <2>1. /\ pc'[c] \in {"asleep", "program"}
        /\ \A t \in Tasks : t # c => pc'[t] = pc[t]
    <3>1. CASE UNCHANGED pc
      BY <1>1, <3>1
    <3>2. CASE \E p \in {"asleep", "program"} : Goto(c, p)
      BY <3>2, Moves
    <3> QED
      BY <1>3, <3>1, <3>2
  <2>2. \A b \in Blocks : b # arg[c].off => flash'[b] = flash[b]
    BY <1>3 DEF Types, DataTypes
  <2>3. /\ arg'[c].off = arg[c].off + 1 /\ arg'[c].size = arg[c].size - 1
        /\ \A d \in Clients : d # c => arg'[d] = arg[d]
    BY <1>3 DEF Types, ArgTypes
  <2>4. Busy'
    BY <1>1, <2>1 DEF Busy, ClearSteps, PastTest, Fresh, request
  <2>5. HashedSize' = HashedSize
    BY <1>1, <2>1 DEF HashedSize, ChunkSize, request
  <2>6. \A d \in Clients, n \in Nat : Apart(d, n) => Apart(d, n)'
    <3> SUFFICES ASSUME NEW d \in Clients, NEW n \in Nat, Apart(d, n)
                 PROVE  Apart(d, n)'
      OBVIOUS
    <3>1. region' = region
      BY <1>1 DEF request
    <3>2. CASE d # c
      BY <2>3, <3>1, <3>2 DEF Apart
    <3>3. CASE d = c
      <4>1. /\ arg[c].off \in Nat /\ arg[c].size \in Nat /\ region.off \in Nat
        OBVIOUS
      <4> QED
        BY <1>3, <2>3, <3>1, <3>3, <4>1 DEF Apart
    <3> QED
      BY <3>2, <3>3
  <2>7. ASSUME NEW n \in Nat, n <= region.size, Apart(c, n), NEW i \in 1 .. n
        PROVE  flash'[region.off + i - 1] = flash[region.off + i - 1]
    <3>1. region.off + i - 1 # arg[c].off
      <4>1. arg[c].off \in Nat /\ arg[c].size \in Nat \ {0} /\ region.off \in Nat
        BY <1>3
      <4> QED
        BY <2>7, <4>1, NotWithin DEF Apart
    <3>2. region.off + i - 1 \in Blocks
      <4>1. i - 1 \in Nat /\ i - 1 < region.size /\ region.off + i - 1 = region.off + (i - 1)
        BY <2>7
      <4> QED
        BY <4>1 DEF Types, DataTypes, Inside
    <3> QED
      BY <2>2, <3>1, <3>2
  <2>8. in_progress => HashedSize \in Nat /\ HashedSize <= region.size
    BY DEF HashedSize, ChunkSize, Busy
  <2>9. RightSoFar'
    <3>1. SUFFICES ASSUME in_progress, ~want_abort, ~disturbed
                   PROVE  Matches(HashedSize)'
      BY <1>1, <2>1 DEF RightSoFar, request
    <3>2. Apart(c, HashedSize) /\ Matches(HashedSize)
      BY <1>1, <3>1 DEF Changing, ChangingBy, RightSoFar
    <3>3. \A i \in 1 .. HashedSize :
            flash'[region.off + i - 1] = flash[region.off + i - 1]
      BY <2>7, <2>8, <3>1, <3>2
    <3> QED
      BY <1>1, <2>5, <3>2, <3>3 DEF Matches, request
  <2>10. Changing'
    <3> SUFFICES ASSUME NEW d \in Clients, pc'[d] \in {"program", "asleep"}
                 PROVE  ChangingBy(d)'
      BY DEF Changing, ChangingBy
    <3>1. pc[d] \in {"program", "asleep"} /\ ChangingBy(d)
      BY <1>1, <2>1 DEF Changing
    <3>2. (\E u \in Tasks : pc[u] = "clear_size") => \E u \in Tasks : pc'[u] = "clear_size"
      BY <1>1, <2>1
    <3>3. /\ in_progress /\ Apart(d, HashedSize) => Apart(d, HashedSize)'
          /\ Apart(d, region.size) => Apart(d, region.size)'
      BY <1>1, <2>5, <2>6, <2>8 DEF request
    <3> QED
      BY <1>1, <3>1, <3>2, <3>3 DEF ChangingBy, request
  <2>11. Right'
    <3>1. SUFFICES ASSUME ~in_progress, ~want_abort, ~disturbed, hash # None,
                          \A t \in Tasks : pc[t] \notin {"clear_size", "clear_hash"}
                   PROVE  /\ Len(hash) = region.size
                          /\ \A i \in 1 .. region.size :
                               hash[i] = flash'[region.off + i - 1]
      BY <1>1, <2>1 DEF Right, request
    <3>2. Apart(c, region.size)
      BY <1>1, <3>1 DEF Changing, ChangingBy
    <3>3. /\ Len(hash) = region.size
          /\ \A i \in 1 .. region.size : hash[i] = flash[region.off + i - 1]
      BY <3>1 DEF Right
    <3>4. \A i \in 1 .. region.size :
            flash'[region.off + i - 1] = flash[region.off + i - 1]
      BY <2>7, <3>2
    <3> QED
      BY <3>3, <3>4
  <2> QED
    BY <2>4, <2>9, <2>10, <2>11
<1> QED
  BY <1>2, <1>3 DEF Program

(***************************************************************************)
(* Theorems                                                                *)
(***************************************************************************)

LEMMA NextInv == IInv /\ [Next]_vars => IInv'
<1> SUFFICES ASSUME IInv, [Next]_vars PROVE IInv'
  OBVIOUS
<1>1. Types /\ Good
  BY DEF IInv, Good
<1>2. Types'
  BY <1>1, NextTypes DEF Good
<1>3. Good'
  <2>1. CASE Hooks
    BY <1>1, <2>1, NextChunkGood, ReadGood, NotReadGood, AdvanceGood, FinalGood DEF Hooks
  <2>2. ASSUME NEW t \in Tasks, Abort(t) \/ Clear(t) PROVE Good'
    BY <1>1, <2>2, AbortInProgress, AbortDone, ClearGood
  <2>3. ASSUME NEW c \in Clients, Call(c) \/ Client(c) PROVE Good'
    BY <1>1, <2>2, <2>3, TaskNames, CommandGood, StartGood, InvalidateGood, ProgramGood
    DEF Client
  <2>4. CASE Ready \/ SharedMem \/ UNCHANGED vars
    <3>1. UNCHANGED <<flash, request, deferred, pc, arg>>
      BY <2>4 DEF Ready, SharedMem, vars
    <3> QED
      BY <1>1, <3>1
      DEF Good, Busy, Fresh, RightSoFar, HashedSize, ChunkSize, Matches, Changing,
          ChangingBy, Apart, Right, request
  <2>5. CASE Restart
    <3>1. /\ in_progress' /\ ~want_abort' /\ curr_pos' = 0 /\ ctx' = << >>
          /\ \A t \in Tasks : pc'[t] = "idle"
      BY <2>5 DEF Restart, Started
    <3>2. region'.size \in Nat
      BY <1>2 DEF Types, DataTypes
    <3> QED
      BY <3>1, <3>2, TaskNames
      DEF Good, Busy, RightSoFar, HashedSize, Matches, Changing, ChangingBy, Right,
          ClearSteps, PastTest
  <2> QED
    BY <2>1, <2>2, <2>3, <2>4, <2>5, TaskNames DEF Next
<1> QED
  BY <1>1, <1>2, <1>3 DEF IInv, Good

LEMMA InitInv == Init => IInv
<1> SUFFICES ASSUME Init PROVE IInv
  OBVIOUS
<1>1. Types
  BY InitTypes
<1>2. Good
  BY <1>1, StartedGood DEF Init, Types, DataTypes
<1> QED
  BY <1>1, <1>2 DEF IInv, Good

\* The invariant holds in every reachable state.
THEOREM Invariance == Spec => []IInv
BY InitInv, NextInv, PTL DEF Spec

\* Every variable has its type.
THEOREM TypeCorrect == Spec => []TypeOK
<1>1. IInv => TypeOK
  <2> SUFFICES ASSUME IInv PROVE TypeOK
    OBVIOUS
  <2>1. region \in Region
    BY DEF IInv, Types, DataTypes, Region
  <2> QED
    BY <2>1, TaskNames
    DEF IInv, Types, PcTypes, ArgTypes, DataTypes, TypeOK, HooksSteps, ClientSteps,
        ClearSteps, CommandNames
<1> QED
  BY <1>1, Invariance, PTL

\* A hash that is reported as done, and was not disturbed, is that of what the
\* flash holds now, whatever the two clients ask for.
THEOREM HashIsCurrent == Spec => []DoneIsCurrent
<1>1. IInv => DoneIsCurrent
  <2> SUFFICES ASSUME IInv, Status = "DONE", ~disturbed,
                      \A t \in Tasks : pc[t] \notin {"clear_size", "clear_hash"}
               PROVE  hash = Digest
    BY DEF DoneIsCurrent
  <2>1. ~in_progress /\ hash # None /\ ~want_abort
    BY DEF Status
  <2>2. /\ Len(hash) = region.size
        /\ \A i \in 1 .. region.size : hash[i] = flash[region.off + i - 1]
    BY <2>1, TaskNames DEF IInv, Right
  <2>3. hash \in Seq(Contents)
    BY <2>1 DEF IInv, Types, DataTypes
  <2>4. hash = [i \in 1 .. region.size |-> hash[i]]
    BY <2>2, <2>3
  <2> QED
    BY <2>2, <2>4 DEF Digest
<1> QED
  BY <1>1, Invariance, PTL
=============================================================================
