-------------------------------- MODULE Queue --------------------------------
(***************************************************************************)
(* The generic queue of common/queue.c, with one producer and one consumer *)
(* that run in different contexts (tasks, deferred calls, interrupts): a   *)
(* step of either may come between two steps of the other.  Nothing locks; *)
(* the producer writes the tail only and the consumer the head only.       *)
(*                                                                         *)
(* Head and tail are counters of type size_t that are wrapped to an index  *)
(* when the buffer is accessed.                                            *)
(***************************************************************************)
EXTENDS Naturals, Sequences

CONSTANTS
  Units,         \* what the queue holds
  buffer_units,  \* its size
  W,             \* values of a size_t: a multiple of the size
  MaxCount       \* bound: largest number of units in a call

ASSUME QueueAssumption ==
  /\ buffer_units \in Nat \ {0} /\ W \in Nat /\ MaxCount \in Nat
  /\ W % buffer_units = 0 /\ W > buffer_units
  /\ Units # {}

VARIABLES
  head, tail,     \* queue_state
  buffer,
  prod,           \* the producer: where it is, its arguments and locals
  cons,           \* the consumer: the same
  delivered       \* what the last removal returned to its caller

vars == <<head, tail, buffer, prod, cons, delivered>>

smaller(a, b) == IF a <= b THEN a ELSE b
index(counter) == counter % buffer_units    \* counter & (buffer_units - 1)

queue_count == IF tail >= head THEN tail - head ELSE W + tail - head
queue_space == buffer_units - queue_count

\* Mutant: lets the counter reach the limit of its type
advance_to_limit(counter, count) ==
  IF counter + count <= W THEN counter + count ELSE counter + count - W

\* counter += count, of type size_t
advance(counter, count) == IF counter + count < W THEN counter + count
                                                  ELSE counter + count - W

\* Units 1 .. n of src, written from an index on; that many units fit
copied(src, from, n) ==
  [k \in 0 .. buffer_units - 1 |->
     IF k >= from /\ k < from + n THEN src[k - from + 1] ELSE buffer[k]]
\* n units read from an index on
slice(from, n) == [k \in 1 .. n |-> buffer[from + k - 1]]

idle == [at |-> "idle", data |-> <<>>, transfer |-> 0]

Init ==
  /\ head = 0 /\ tail = 0
  /\ buffer \in [0 .. buffer_units - 1 -> {CHOOSE u \in Units : TRUE}]
  /\ prod = idle /\ cons = idle
  /\ delivered = <<>>

-----------------------------------------------------------------------------
(* Producer: queue_add_unit() and queue_add_units()                        *)

\* transfer = MIN(count, queue_space(q)); a full queue takes no unit
queue_add_units ==
  /\ prod.at = "idle"
  /\ \E count \in 1 .. MaxCount : \E src \in [1 .. count -> Units] :
       /\ queue_space > 0
       /\ prod' = [at |-> "first", data |-> src,
                   transfer |-> smaller(count, queue_space)]
  /\ UNCHANGED <<head, tail, buffer, cons, delivered>>

\* The part of the units that comes before the end of the buffer
add_first ==
  LET first == smaller(prod.transfer, buffer_units - index(tail))
  IN /\ prod.at = "first"
     /\ buffer' = copied(prod.data, index(tail), first)
     /\ prod' = [prod EXCEPT !.at = IF first < prod.transfer THEN "second"
                                    ELSE "advance"]
     /\ UNCHANGED <<head, tail, cons, delivered>>

\* Mutant: the rest of the units is taken from the start of the source
add_second_restart ==
  LET first == buffer_units - index(tail)
  IN /\ prod.at = "second"
     /\ buffer' = copied(prod.data, 0, prod.transfer - first)
     /\ prod' = [prod EXCEPT !.at = "advance"]
     /\ UNCHANGED <<head, tail, cons, delivered>>

\* The rest, from the start of the buffer
add_second ==
  LET first == buffer_units - index(tail)
  IN /\ prod.at = "second"
     /\ buffer' = copied(SubSeq(prod.data, first + 1, prod.transfer), 0,
                         prod.transfer - first)
     /\ prod' = [prod EXCEPT !.at = "advance"]
     /\ UNCHANGED <<head, tail, cons, delivered>>

\* Mutant: advances by what the caller asked for
queue_advance_tail_count ==
  /\ prod.at = "advance"
  /\ tail' = advance(tail, Len(prod.data))
  /\ prod' = idle
  /\ UNCHANGED <<head, buffer, cons, delivered>>

\* queue_advance_tail() looks at the space again
queue_advance_tail ==
  /\ prod.at = "advance"
  /\ tail' = advance(tail, smaller(prod.transfer, queue_space))
  /\ prod' = idle
  /\ UNCHANGED <<head, buffer, cons, delivered>>

Producer == queue_add_units \/ add_first \/ add_second \/ queue_advance_tail

-----------------------------------------------------------------------------
(* Consumer: queue_remove_unit(), queue_remove_units(), queue_peek_units()  *)
(* and the chunks                                                          *)

\* transfer = MIN(count, queue_count(q))
queue_remove_units ==
  /\ cons.at = "idle"
  /\ queue_count > 0
  /\ \E count \in 1 .. MaxCount :
       cons' = [at |-> "first", data |-> <<>>,
                transfer |-> smaller(count, queue_count)]
  /\ UNCHANGED <<head, tail, buffer, prod, delivered>>

\* queue_read_safe(): up to the end of the buffer ..
read_first ==
  LET first == smaller(cons.transfer, buffer_units - index(head))
  IN /\ cons.at = "first"
     /\ cons' = [cons EXCEPT
                   !.data = slice(index(head), first),
                   !.at = IF first < cons.transfer THEN "second" ELSE "advance"]
     /\ UNCHANGED <<head, tail, buffer, prod, delivered>>

\* .. and from its start
read_second ==
  LET first == buffer_units - index(head)
  IN /\ cons.at = "second"
     /\ cons' = [cons EXCEPT !.data = @ \o slice(0, cons.transfer - first),
                             !.at = "advance"]
     /\ UNCHANGED <<head, tail, buffer, prod, delivered>>

\* queue_get_read_chunk(): the units up to the tail or the end of the buffer.
\* Its only caller (usart_tx_dma.c) runs in an interrupt, so its reads are one
\* step; it takes a limited part of the chunk, reads it in place, and then
\* advances the head.
read_chunk_length ==
  LET last == IF queue_count = 0 THEN index(head)
              ELSE IF index(head) < index(tail) THEN index(tail)
              ELSE buffer_units
  IN last - index(head)

\* Mutant: always up to the end of the buffer
queue_get_read_chunk_to_end ==
  /\ cons.at = "idle"
  /\ queue_count > 0
  /\ \E count \in 1 .. smaller(buffer_units - index(head), MaxCount) :
       cons' = [at |-> "first", data |-> <<>>, transfer |-> count]
  /\ UNCHANGED <<head, tail, buffer, prod, delivered>>

queue_get_read_chunk ==
  /\ cons.at = "idle"
  /\ read_chunk_length > 0
  /\ \E count \in 1 .. smaller(read_chunk_length, MaxCount) :
       cons' = [at |-> "first", data |-> <<>>, transfer |-> count]
  /\ UNCHANGED <<head, tail, buffer, prod, delivered>>

\* queue_advance_head(): the units are handed over and their space is free
queue_advance_head ==
  /\ cons.at = "advance"
  /\ head' = advance(head, smaller(cons.transfer, queue_count))
  /\ delivered' = cons.data
  /\ cons' = idle
  /\ UNCHANGED <<tail, buffer, prod>>

\* queue_advance_head() on its own discards units
discard ==
  /\ cons.at = "idle" /\ queue_count > 0
  /\ \E count \in 1 .. MaxCount :
       head' = advance(head, smaller(count, queue_count))
  /\ UNCHANGED <<tail, buffer, prod, cons, delivered>>

Consumer == \/ queue_remove_units \/ read_first \/ read_second
            \/ queue_get_read_chunk \/ queue_advance_head \/ discard

Next == Producer \/ Consumer

Spec == Init /\ [][Next]_vars

-----------------------------------------------------------------------------
Arguments == {s \in Seq(Units) : Len(s) <= MaxCount}
Activity == [at : {"idle", "first", "second", "advance"},
             data : Arguments, transfer : 0 .. MaxCount]

\* Every variable has its type; in particular a counter fits a size_t.
TypeOK ==
  /\ head \in 0 .. W - 1 /\ tail \in 0 .. W - 1
  /\ buffer \in [0 .. buffer_units - 1 -> Units]
  /\ prod \in Activity /\ cons \in Activity
  /\ delivered \in Arguments

\* The counters never get further apart than the size of the buffer, also
\* when the tail has wrapped and the head has not.
NeverOverfull == queue_count <= buffer_units

\* What an addition has claimed is still free, and what a removal has claimed
\* is still there, when the counters are advanced: the second look at the
\* space and at the count changes nothing.
ClaimsHold ==
  /\ prod.at # "idle" => prod.transfer <= queue_space
  /\ cons.at # "idle" => cons.transfer <= queue_count

\* Whatever the interleaving, the queue is a bounded first-in first-out buffer.
items == [k \in 1 .. queue_count |-> buffer[index(advance(head, k - 1))]]

Abstract == INSTANCE Fifo WITH Capacity <- buffer_units,
                               offered <- prod.data

IsFifo == Abstract!Spec
=============================================================================
