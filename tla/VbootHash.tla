------------------------------ MODULE VbootHash ------------------------------
(***************************************************************************)
(* The hash of the RW image, common/vboot_hash.c, and the flash operations *)
(* that make it void, common/flash.c.                                      *)
(*                                                                         *)
(* HOOKS computes the hash in deferred calls, a chunk each.  The clients,  *)
(* HOSTCMD below CONSOLE, start and abort it and change the flash.  A task *)
(* runs while those above it sleep or have nothing to do, so that each may *)
(* come between two steps of a lower one; nothing is locked.               *)
(*                                                                         *)
(* A chunk is a block of the flash, and a digest the sequence of blocks    *)
(* that it was computed from.                                              *)
(*                                                                         *)
(* flash_write() and flash_erase() look for a hash in progress once, when  *)
(* they begin.  One that is started later, while they sleep, they neither  *)
(* abort nor invalidate, and a flash behind SPI is read even while it is   *)
(* busy: the history variable disturbed says that this befell the hash.    *)
(***************************************************************************)
EXTENDS Integers, Sequences

CONSTANTS
  Blocks,    \* blocks of the flash, an interval from 0
  RW,        \* the region of the RW image
  Commands,  \* per client: what it may ask for, with the region (of an abort, any)
  Builds,    \* is CONFIG_FLASH_MAPPED defined: the builds to look at
  MaxEvents  \* bound: commands, reads of the flash that fail, resets and jumps to
             \* another image, and uses of the shared memory by others, in all

Clients == {"hostcmd", "console"}
Tasks   == {"hooks"} \cup Clients

Region  == [off : Nat, size : Nat]
Command == [cmd : {"start", "recalc", "abort", "write", "erase"}, off : Nat, size : Nat]

ASSUME VbootHashAssumption ==
  /\ Blocks \subseteq Nat
  /\ RW \in Region /\ Commands \in [Clients -> SUBSET Command]
  /\ \A i \in 0 .. RW.size - 1 : RW.off + i \in Blocks
  /\ \A c \in Clients : \A a \in Commands[c] :
       \A i \in 0 .. a.size - 1 : a.off + i \in Blocks
  /\ Builds \subseteq BOOLEAN
  /\ MaxEvents \in Nat

VARIABLES
  mapped,                    \* CONFIG_FLASH_MAPPED
  flash,                     \* content of each block
  busy,                      \* the flash is at work on an operation
  region,                    \* data_offset, data_size
  curr_pos, hash, want_abort, in_progress,
  ctx,                       \* the blocks hashed so far
  deferred,                  \* vboot_hash_next_chunk() is to be called
  buf_in_use,                \* another task has the shared memory
  pc, arg,                   \* per task where it is; per client its command
  events,                    \* how many of MaxEvents there have been
  failed,                    \* history: a read of the flash has failed
  disturbed                  \* history: see ReadAndHash

request == <<region, curr_pos, hash, want_abort, in_progress, ctx, disturbed>>
counts  == <<events, failed>>
vars == <<mapped, flash, busy, request, deferred, buf_in_use, pc, arg, counts>>

\* One more event is within the bound.
Event == events < MaxEvents /\ events' = events + 1

None == <<"none">>  \* hash == NULL

Contents == {"image", "erased", "update"}

Above(t) == CASE t = "hooks"   -> Clients
              [] t = "hostcmd" -> {"console"}
              [] t = "console" -> {}

\* Nothing above task t wants the processor, and t is at step p.
At(t, p) == /\ pc[t] = p
            /\ \A u \in Above(t) : pc[u] \in {"idle", "asleep", "wait"}

Goto(t, p) == pc' = [pc EXCEPT ![t] = p]

\* vboot_hash_start(), once it has accepted the request
Started(r) ==
  /\ region' = r /\ curr_pos' = 0 /\ hash' = None /\ want_abort' = FALSE
  /\ in_progress' = TRUE /\ ctx' = << >> /\ deferred' = TRUE
  /\ disturbed' = FALSE

NoCommand == [cmd |-> "none", off |-> 0, size |-> 0]

\* Task t goes to p; the command of a client that becomes idle is over.
GoOn(t, p) ==
  /\ Goto(t, p)
  /\ arg' = IF p = "idle" /\ t \in Clients THEN [arg EXCEPT ![t] = NoCommand] ELSE arg

\* vboot_hash_init() has started on the RW image.
Init ==
  /\ mapped \in Builds
  /\ flash = [b \in Blocks |-> "image"] /\ busy = FALSE
  /\ region = RW /\ curr_pos = 0 /\ hash = None /\ want_abort = FALSE
  /\ in_progress = TRUE /\ ctx = << >> /\ deferred = TRUE /\ disturbed = FALSE
  /\ buf_in_use = FALSE
  /\ pc = [t \in Tasks |-> "idle"] /\ arg = [c \in Clients |-> NoCommand]
  /\ events = 0 /\ failed = FALSE

\* A reset or a jump to another image, whatever the tasks were doing.
\* The boards do not define CONFIG_SAVE_VBOOT_HASH: the hash starts again.
Restart ==
  /\ Event
  /\ Started(RW)
  /\ buf_in_use' = FALSE /\ busy' = FALSE
  /\ pc' = [t \in Tasks |-> "idle"] /\ arg' = [c \in Clients |-> NoCommand]
  /\ UNCHANGED <<mapped, flash, failed>>

-----------------------------------------------------------------------------
(* vboot_hash_abort(), which HOOKS and the clients call                    *)

\* Where a task goes on when it returns
Caller(t) ==
  IF t \in Clients /\ arg[t].cmd \in {"write", "erase"} THEN "program" ELSE "idle"

Abort(t) ==
  /\ At(t, "abort")
  /\ IF in_progress
       THEN want_abort' = TRUE /\ GoOn(t, Caller(t))
       ELSE GoOn(t, "clear") /\ UNCHANGED want_abort
  /\ UNCHANGED <<mapped, flash, busy, region, curr_pos, hash, in_progress, ctx,
                 disturbed, deferred, buf_in_use, counts>>

\* The three assignments of its other branch
Clear(t) ==
  /\ \/ /\ At(t, "clear") /\ GoOn(t, "clear_size")
        /\ want_abort' = FALSE /\ UNCHANGED <<region, hash>>
     \/ /\ At(t, "clear_size") /\ GoOn(t, "clear_hash")
        /\ region' = [region EXCEPT !.size = 0] /\ UNCHANGED <<want_abort, hash>>
     \/ /\ At(t, "clear_hash") /\ GoOn(t, Caller(t))
        /\ hash' = None /\ UNCHANGED <<want_abort, region>>
  /\ UNCHANGED <<mapped, flash, busy, curr_pos, in_progress, ctx, disturbed, deferred,
                 buf_in_use, counts>>

-----------------------------------------------------------------------------
(* HOOKS: vboot_hash_next_chunk()                                          *)

NextChunk ==
  /\ At("hooks", "idle") /\ deferred
  /\ deferred' = FALSE
  /\ IF want_abort
       THEN in_progress' = FALSE /\ Goto("hooks", "abort")
       ELSE Goto("hooks", "read") /\ UNCHANGED in_progress
  /\ UNCHANGED <<mapped, flash, busy, region, curr_pos, hash, want_abort, ctx,
                 disturbed, buf_in_use, arg, counts>>

\* MIN(CHUNK_SIZE, data_size - curr_pos), in units of a chunk; both are unsigned.
ChunkSize == IF region.size = curr_pos THEN 0 ELSE 1

\* A client that sleeps in the middle of a change has yet to change block b.
StillToChange(b) ==
  \E c \in Clients : /\ pc[c] = "asleep"
                      /\ arg[c].off <= b /\ b < arg[c].off + arg[c].size

\* SHA256_update() on the mapped flash, which holds the processor until the
\* flash is ready, or through the shared memory and SPI, where a chip that is
\* busy answers with anything.
ReadAndHash ==
  /\ At("hooks", "read")
  /\ mapped \/ (~buf_in_use /\ ChunkSize > 0)
  /\ IF ChunkSize = 0
       THEN UNCHANGED <<ctx, disturbed>>
       ELSE LET block == region.off + curr_pos
            IN /\ \E x \in Contents : /\ mapped \/ ~busy => x = flash[block]
                                      /\ ctx' = Append(ctx, x)
               /\ disturbed' = (disturbed \/ StillToChange(block) \/ (~mapped /\ busy))
  /\ Goto("hooks", "advance")
  /\ UNCHANGED <<mapped, flash, busy, region, curr_pos, hash, want_abort, in_progress,
                 deferred, buf_in_use, arg, counts>>

\* Mutant: a chunk that finds the shared memory in use is not tried again
ReadBusy_dropped ==
  /\ At("hooks", "read") /\ ~mapped /\ ChunkSize > 0 /\ buf_in_use
  /\ Goto("hooks", "idle")
  /\ UNCHANGED <<mapped, flash, busy, request, deferred, buf_in_use, arg, counts>>

\* shared_mem_acquire() finds the memory in use: try again later.
ReadBusy ==
  /\ At("hooks", "read") /\ ~mapped /\ ChunkSize > 0 /\ buf_in_use
  /\ deferred' = TRUE
  /\ Goto("hooks", "idle")
  /\ UNCHANGED <<mapped, flash, busy, request, buf_in_use, arg, counts>>

\* It refuses a size of 0, or flash_read() fails: abort, and call nothing back.
ReadFailed ==
  /\ At("hooks", "read") /\ ~mapped
  /\ \/ ChunkSize = 0 /\ UNCHANGED counts
     \/ ChunkSize > 0 /\ ~buf_in_use /\ Event /\ failed' = TRUE
  /\ Goto("hooks", "abort")
  /\ UNCHANGED <<mapped, flash, busy, request, deferred, buf_in_use, arg>>

Advance ==
  /\ At("hooks", "advance")
  /\ curr_pos' = curr_pos + ChunkSize
  /\ IF curr_pos' >= region.size
       THEN /\ hash' = ctx
            /\ Goto("hooks", "final") /\ UNCHANGED deferred
       ELSE /\ deferred' = TRUE
            /\ Goto("hooks", "idle") /\ UNCHANGED hash
  /\ UNCHANGED <<mapped, flash, busy, region, want_abort, in_progress, ctx, disturbed,
                 buf_in_use, arg, counts>>

\* The hash is stored and printed: no longer in progress, then look for an
\* abort received meanwhile.
Final ==
  /\ \/ /\ At("hooks", "final")
        /\ in_progress' = FALSE
        /\ Goto("hooks", "check")
     \/ /\ At("hooks", "check")
        /\ Goto("hooks", IF want_abort THEN "abort" ELSE "idle")
        /\ UNCHANGED in_progress
  /\ UNCHANGED <<mapped, flash, busy, region, curr_pos, hash, want_abort, ctx, disturbed,
                 deferred, buf_in_use, arg, counts>>

Hooks == NextChunk \/ ReadAndHash \/ ReadBusy \/ ReadFailed \/ Advance \/ Final

-----------------------------------------------------------------------------
(* The clients: host_command_vboot_hash(), command_hash(), flash_write(),  *)
(* flash_erase()                                                           *)

Entry(cmd) == CASE cmd = "abort" -> "abort"
                [] cmd \in {"start", "recalc"} -> "start"
                [] cmd \in {"write", "erase"}  -> "in_progress"

Call(c) ==
  /\ At(c, "idle") /\ Event
  /\ \E a \in Commands[c] : arg' = [arg EXCEPT ![c] = a] /\ Goto(c, Entry(a.cmd))
  /\ UNCHANGED <<mapped, flash, busy, request, deferred, buf_in_use, failed>>

\* vboot_hash_start(): busy, or the request is saved, and then started.
Start(c) ==
  /\ \/ /\ At(c, "start")
        /\ GoOn(c, IF in_progress THEN "idle" ELSE "save")
        /\ UNCHANGED <<request, deferred>>
     \/ /\ At(c, "save")
        /\ region' = [off |-> arg[c].off, size |-> arg[c].size]
        /\ curr_pos' = 0 /\ hash' = None /\ want_abort' = FALSE
        /\ GoOn(c, "restart")
        /\ UNCHANGED <<in_progress, ctx, disturbed, deferred>>
     \/ /\ At(c, "restart")
        /\ in_progress' = TRUE /\ ctx' = << >> /\ deferred' = TRUE
        /\ disturbed' = FALSE
        /\ GoOn(c, IF arg[c].cmd = "recalc" THEN "wait" ELSE "idle")
        /\ UNCHANGED <<region, curr_pos, hash, want_abort>>
  /\ UNCHANGED <<mapped, flash, busy, buf_in_use, counts>>

\* EC_VBOOT_HASH_RECALC sleeps until the hash is no longer in progress.
Recalculated(c) ==
  /\ At(c, "wait") /\ ~in_progress
  /\ GoOn(c, "idle")
  /\ UNCHANGED <<mapped, flash, busy, request, deferred, buf_in_use, counts>>

Overlap(c) == /\ arg[c].size > 0
              /\ arg[c].off + arg[c].size > region.off
              /\ arg[c].off < region.off + region.size

\* Mutant: a hash in progress is left to go on
Invalidate_done_only(c) ==
  /\ At(c, "in_progress")
  /\ Goto(c, IF hash # None /\ Overlap(c) THEN "abort" ELSE "program")
  /\ UNCHANGED <<mapped, flash, busy, request, deferred, buf_in_use, arg, counts>>

\* What flash_write() and flash_erase() do first: abort a hash in progress, or
\* vboot_hash_invalidate().
Invalidate(c) ==
  /\ \/ At(c, "in_progress") /\ Goto(c, IF in_progress THEN "abort" ELSE "overlap")
     \/ /\ At(c, "overlap")
        /\ Goto(c, IF hash # None /\ Overlap(c) THEN "abort" ELSE "program")
  /\ UNCHANGED <<mapped, flash, busy, request, deferred, buf_in_use, arg, counts>>

\* Mutant: goes on while the size left is not negative
Program_one_more(c) ==
  /\ At(c, "program")
  /\ IF arg[c].size < 0
       THEN GoOn(c, "idle") /\ UNCHANGED <<flash, busy>>
     ELSE IF busy /\ ~mapped
       THEN GoOn(c, "asleep") /\ UNCHANGED <<flash, busy>>
     ELSE
       /\ flash' = [flash EXCEPT ![arg[c].off] = IF arg[c].cmd = "erase" THEN "erased"
                                                ELSE "update"]
       /\ arg' = [arg EXCEPT ![c].off = @ + 1, ![c].size = @ - 1]
       /\ IF mapped /\ arg[c].cmd = "write"
            THEN UNCHANGED <<busy, pc>>
            ELSE busy' = TRUE /\ Goto(c, IF mapped THEN "asleep" ELSE "program")
  /\ UNCHANGED <<mapped, request, deferred, buf_in_use, counts>>

\* The physical operation, a block at a time.  On the mapped flash an erasure is
\* waited for asleep, and a write without sleeping.  A chip behind SPI is given
\* an operation when it is ready, and is left to it.
Program(c) ==
  /\ At(c, "program")
  /\ IF arg[c].size = 0
       THEN GoOn(c, "idle") /\ UNCHANGED <<flash, busy>>
     ELSE IF busy /\ ~mapped
       THEN GoOn(c, "asleep") /\ UNCHANGED <<flash, busy>>
     ELSE
       /\ flash' = [flash EXCEPT ![arg[c].off] = IF arg[c].cmd = "erase" THEN "erased"
                                                ELSE "update"]
       /\ arg' = [arg EXCEPT ![c].off = @ + 1, ![c].size = @ - 1]
       /\ IF mapped /\ arg[c].cmd = "write"
            THEN UNCHANGED <<busy, pc>>
            ELSE busy' = TRUE /\ Goto(c, IF mapped THEN "asleep" ELSE "program")
  /\ UNCHANGED <<mapped, request, deferred, buf_in_use, counts>>

Wake(c) ==
  /\ At(c, "asleep") /\ ~busy
  /\ Goto(c, "program")
  /\ UNCHANGED <<mapped, flash, busy, request, deferred, buf_in_use, arg, counts>>

Client(c) == \/ Abort(c) \/ Clear(c) \/ Start(c) \/ Recalculated(c)
             \/ Invalidate(c) \/ Program(c) \/ Wake(c)

\* The flash has done what it was asked for.
Ready ==
  /\ busy /\ busy' = FALSE
  /\ UNCHANGED <<mapped, flash, request, deferred, buf_in_use, pc, arg, counts>>

\* Other users of the shared memory, where the hash needs it: console commands,
\* which give it back.
SharedMem ==
  /\ ~mapped
  /\ \/ ~buf_in_use /\ Event /\ buf_in_use' = TRUE
     \/ buf_in_use /\ buf_in_use' = FALSE /\ UNCHANGED events
  /\ UNCHANGED <<mapped, flash, busy, request, deferred, pc, arg, failed>>

-----------------------------------------------------------------------------

Next ==
  \/ Hooks \/ Abort("hooks") \/ Clear("hooks")
  \/ \E c \in Clients : Call(c) \/ Client(c)
  \/ Ready \/ SharedMem \/ Restart

\* While a task is ready the processor runs one, and the shared memory is given
\* back.
Fairness ==
  /\ WF_vars(Hooks \/ Abort("hooks") \/ Clear("hooks") \/ \E c \in Clients : Client(c))
  /\ WF_vars(buf_in_use /\ SharedMem)

Spec == Init /\ [][Next]_vars /\ Fairness

-----------------------------------------------------------------------------
(* Properties                                                              *)

\* The variables have their types.
TypeOK ==
  /\ mapped \in BOOLEAN
  /\ flash \in [Blocks -> Contents]
  /\ region \in Region /\ curr_pos \in Nat
  /\ hash \in Seq(Contents) \cup {None} /\ ctx \in Seq(Contents)
  /\ {want_abort, in_progress, deferred, buf_in_use, busy, disturbed} \subseteq BOOLEAN
  /\ pc["hooks"] \in {"idle", "abort", "clear", "clear_size", "clear_hash", "read",
                      "advance", "final", "check"}
  /\ \A c \in Clients :
    /\ arg[c].cmd \in {"none", "start", "recalc", "abort", "write", "erase"}
    /\ {arg[c].off, arg[c].size} \subseteq Nat
    /\ pc[c] \in {"idle", "abort", "clear", "clear_size", "clear_hash", "start",
                  "save", "restart", "wait", "in_progress", "overlap", "program",
                  "asleep"}

\* fill_response()
Status == IF in_progress THEN "BUSY"
          ELSE IF hash # None /\ ~want_abort THEN "DONE" ELSE "NONE"

Digest == [i \in 1 .. region.size |-> flash[region.off + i - 1]]

\* A hash that is reported as done is that of what the flash holds now, whatever
\* both clients started, aborted, wrote and erased before and while it was
\* computed - except while vboot_hash_abort() is between its assignments, and
\* unless a block was hashed that a client asleep in flash_write() or
\* flash_erase(), begun before the hash, had still to change, or that was read
\* over SPI from a busy chip.
DoneIsCurrent ==
  /\ Status = "DONE" /\ ~disturbed
  /\ \A t \in Tasks : pc[t] \notin {"clear_size", "clear_hash"}
  => hash = Digest

\* A hash that was started ends, unless a read failed or an abort has disturbed
\* the request and made it empty (vboot_hash_next_chunk()).
HashEnds == in_progress ~> (~in_progress \/ failed \/ region.size = 0)

=============================================================================
