-------------------------------- MODULE Fifo --------------------------------
(***************************************************************************)
(* What a queue of include/queue.h promises: a bounded first-in first-out  *)
(* buffer.  An addition takes the first of the units it is called with, as *)
(* they are; units come out once, in the order they went in, or not at all *)
(* when they are discarded from the front.                                 *)
(***************************************************************************)
EXTENDS Naturals, Sequences

CONSTANTS Units, Capacity

VARIABLES items,      \* the units stored, oldest first
          offered,    \* what the addition under way was called with
          delivered   \* what the last removal handed to its caller

Init == items = <<>> /\ offered = <<>> /\ delivered = <<>>

Offer == /\ offered = <<>>
         /\ offered' \in Seq(Units) \ {<<>>}
         /\ UNCHANGED <<items, delivered>>

Add == /\ \E n \in 1 .. Len(offered) :
            /\ Len(items) + n <= Capacity
            /\ items' = items \o SubSeq(offered, 1, n)
       /\ offered' = <<>>
       /\ UNCHANGED delivered

Remove == /\ \E n \in 1 .. Len(items) :
               /\ delivered' = SubSeq(items, 1, n)
               /\ items' = SubSeq(items, n + 1, Len(items))
          /\ UNCHANGED offered

Discard == /\ \E n \in 1 .. Len(items) :
                items' = SubSeq(items, n + 1, Len(items))
           /\ UNCHANGED <<offered, delivered>>

Next == Offer \/ Add \/ Remove \/ Discard

Spec == Init /\ [][Next]_<<items, offered, delivered>>
=============================================================================
