----------------------------- MODULE QueueProofs -----------------------------
(***************************************************************************)
(* Queue, for every size of the buffer and every width of its counters:    *)
(* with one producer and one consumer that interleave freely, and without  *)
(* a lock, the queue never holds more than its buffer does, and what an    *)
(* addition or a removal has claimed is still its own when it ends.        *)
(*                                                                         *)
(* The claims are what makes the bound inductive: between the look at the  *)
(* space and the advance of the tail, the consumer only makes more space;  *)
(* between the look at the count and the advance of the head, the producer *)
(* only adds units.                                                        *)
(*                                                                         *)
(* And Queue implements Fifo: what comes out is what went in, in order,    *)
(* although the producer copies units behind the tail while the consumer   *)
(* copies others from behind the head.  The refinement needs more than     *)
(* Queue's own invariant: where the units are that an addition has copied  *)
(* and not yet published, and that what a removal has copied is still what *)
(* the queue holds first.                                                  *)
(***************************************************************************)
EXTENDS Queue, Integers, SequenceTheorems, TLAPS

-----------------------------------------------------------------------------
(* Arithmetic of the counters                                              *)

\* An index lies in the buffer.
LEMMA IndexInBuffer ==
  ASSUME NEW c \in Nat
  PROVE  index(c) \in 0 .. buffer_units - 1
BY QueueAssumption DEF index

\* The multiples of a number.
Multiples(n) == {q * n : q \in Int}

\* A number is a multiple and a rest.
LEMMA MultipleAndRest ==
  ASSUME NEW n \in Nat \ {0}, NEW c \in Nat
  PROVE  \E a \in Multiples(n) : c = a + (c % n)
<1>1. PICK q \in Int : c - (c % n) = q * n
  OBVIOUS
<1>2. q * n \in Multiples(n)
  BY DEF Multiples
<1>3. c % n \in Nat /\ q * n \in Int
  OBVIOUS
<1>4. c = q * n + (c % n)
  BY <1>1, <1>3
<1> QED BY <1>2, <1>4

\* That rest is what % computes.
LEMMA RestIsModulo ==
  ASSUME NEW n \in Nat \ {0}, NEW a \in Multiples(n), NEW r \in 0 .. n - 1
  PROVE  (a + r) % n = r
<1>1. PICK q \in Int : a = q * n
  BY DEF Multiples
<1>2. (q * n + r) % n = r
  OBVIOUS
<1> QED BY <1>1, <1>2

\* Multiples add up to multiples.
LEMMA MultiplesAdd ==
  ASSUME NEW n \in Nat, NEW a \in Multiples(n), NEW b \in Multiples(n)
  PROVE  a \in Int /\ a + b \in Multiples(n)
<1>1. PICK p \in Int : a = p * n
  BY DEF Multiples
<1>2. PICK q \in Int : b = q * n
  BY DEF Multiples
<1>3. p * n + q * n = (p + q) * n /\ p + q \in Int /\ p * n \in Int
  OBVIOUS
<1> QED BY <1>1, <1>2, <1>3 DEF Multiples

\* A number is a multiple of itself.
LEMMA OneIsMultiple ==
  ASSUME NEW n \in Nat
  PROVE  n \in Multiples(n)
<1>1. n = 1 * n
  OBVIOUS
<1> QED BY <1>1 DEF Multiples

\* An index advanced by at most a whole buffer wraps once at most.
LEMMA IndexAfter ==
  ASSUME NEW c \in Nat, NEW n \in 0 .. buffer_units
  PROVE  index(c + n) = IF index(c) + n < buffer_units THEN index(c) + n
                        ELSE index(c) + n - buffer_units
<1>0. buffer_units \in Nat \ {0} /\ index(c) \in 0 .. buffer_units - 1
  BY QueueAssumption DEF index
<1>1. PICK a \in Multiples(buffer_units) : c = a + index(c)
  BY <1>0, MultipleAndRest DEF index
<1>2. /\ a \in Int /\ a + buffer_units \in Multiples(buffer_units)
  BY <1>0, MultiplesAdd, OneIsMultiple
<1>3. CASE index(c) + n < buffer_units
  <2>1. c + n = a + (index(c) + n) /\ index(c) + n \in 0 .. buffer_units - 1
    BY <1>3, <1>0, <1>1, <1>2
  <2> QED BY <2>1, <1>3, <1>0, RestIsModulo DEF index
<1>4. CASE ~(index(c) + n < buffer_units)
  <2>1. /\ c + n = (a + buffer_units) + (index(c) + n - buffer_units)
        /\ index(c) + n - buffer_units \in 0 .. buffer_units - 1
    BY <1>4, <1>0, <1>1, <1>2
  <2> QED BY <2>1, <1>4, <1>0, <1>2, RestIsModulo DEF index
<1> QED BY <1>3, <1>4

\* The buffer does not notice that a counter wraps.
LEMMA IndexWraps ==
  ASSUME NEW c \in Nat
  PROVE  index(W + c) = index(c)
<1>0. /\ buffer_units \in Nat \ {0} /\ index(c) \in 0 .. buffer_units - 1
      /\ W \in Nat /\ W % buffer_units = 0
  BY QueueAssumption DEF index
<1>1. PICK a \in Multiples(buffer_units) : c = a + index(c)
  BY <1>0, MultipleAndRest DEF index
<1>2. PICK b \in Multiples(buffer_units) : W = b + (W % buffer_units)
  BY <1>0, MultipleAndRest
<1>3. a \in Int /\ b \in Int /\ b + a \in Multiples(buffer_units)
  BY <1>0, MultiplesAdd
<1>4. W + c = (b + a) + index(c)
  BY <1>0, <1>1, <1>2, <1>3
<1>5. ((b + a) + index(c)) % buffer_units = index(c)
  BY <1>0, <1>3, RestIsModulo
<1> QED BY <1>4, <1>5 DEF index

\* How far a head is from a tail.
distance(h, t) == IF t >= h THEN t - h ELSE W + t - h

\* The count of the queue is the distance of its head and tail ..
LEMMA CountIsDistance == queue_count = distance(head, tail)
BY DEF queue_count, distance

\* .. after a step, too.
LEMMA CountIsDistancePrimed == queue_count' = distance(head', tail')
BY DEF queue_count, distance

\* Advancing the tail adds to the count what fits in the buffer.
LEMMA CountAfterTail ==
  ASSUME NEW h \in 0 .. W - 1, NEW t \in 0 .. W - 1, NEW n \in Nat,
         distance(h, t) + n <= buffer_units
  PROVE  /\ advance(t, n) \in 0 .. W - 1
         /\ distance(h, advance(t, n)) = distance(h, t) + n
BY QueueAssumption DEF advance, distance

\* Advancing the head takes from the count what is there.
LEMMA CountAfterHead ==
  ASSUME NEW h \in 0 .. W - 1, NEW t \in 0 .. W - 1, NEW n \in Nat,
         n <= distance(h, t)
  PROVE  /\ advance(h, n) \in 0 .. W - 1
         /\ distance(advance(h, n), t) = distance(h, t) - n
BY QueueAssumption DEF advance, distance

\* What the producer has left to copy is the first part of its source, and
\* what the consumer has read so far is as long as its place says.
ProgressOK ==
  /\ prod.at # "idle" => prod.transfer <= Len(prod.data)
  /\ prod.at = "second" => buffer_units - index(tail) < prod.transfer
  /\ cons.at = "second" => /\ buffer_units - index(head) < cons.transfer
                           /\ Len(cons.data) = buffer_units - index(head)
  /\ cons.at = "advance" => Len(cons.data) = cons.transfer

Inv == TypeOK /\ NeverOverfull /\ ClaimsHold /\ ProgressOK

-----------------------------------------------------------------------------
(* Copying                                                                 *)

\* Copying units of a source into the buffer leaves units in it.
LEMMA CopiedOK ==
  ASSUME NEW src \in Seq(Units), NEW from \in Nat, NEW n \in Nat,
         n <= Len(src), buffer \in [0 .. buffer_units - 1 -> Units]
  PROVE  copied(src, from, n) \in [0 .. buffer_units - 1 -> Units]
BY QueueAssumption DEF copied

\* A slice of the buffer is a sequence of as many units.
LEMMA SliceOK ==
  ASSUME NEW from \in Nat, NEW n \in Nat, from + n <= buffer_units,
         buffer \in [0 .. buffer_units - 1 -> Units]
  PROVE  slice(from, n) \in Seq(Units) /\ Len(slice(from, n)) = n
BY QueueAssumption DEF slice

\* A read chunk holds stored units only: it ends at the tail, or at the end of
\* the buffer when the units go on at its start.
LEMMA ReadChunkHolds ==
  ASSUME head \in 0 .. W - 1, tail \in 0 .. W - 1, NeverOverfull
  PROVE  read_chunk_length \in Nat /\ read_chunk_length <= queue_count
<1> USE QueueAssumption
<1>1. /\ index(head) \in 0 .. buffer_units - 1
      /\ index(tail) \in 0 .. buffer_units - 1
  BY IndexInBuffer
<1>2. queue_count \in 0 .. buffer_units
  BY DEF NeverOverfull, queue_count
<1>3. index(tail) = index(head + queue_count)
  <2>1. CASE tail >= head
    BY <2>1 DEF queue_count
  <2>2. CASE ~(tail >= head)
    BY <2>2, IndexWraps DEF queue_count
  <2> QED BY <2>1, <2>2
<1>4. index(tail) = IF index(head) + queue_count < buffer_units
                    THEN index(head) + queue_count
                    ELSE index(head) + queue_count - buffer_units
  BY <1>2, <1>3, IndexAfter
<1> QED BY <1>1, <1>2, <1>4 DEF read_chunk_length

-----------------------------------------------------------------------------
\* The initial states satisfy the invariant.
LEMMA InvInit == Init => Inv
<1> SUFFICES ASSUME Init PROVE Inv
  OBVIOUS
<1>1. idle \in Activity /\ <<>> \in Arguments
  BY QueueAssumption DEF idle, Activity, Arguments
<1>2. buffer \in [0 .. buffer_units - 1 -> Units]
  BY QueueAssumption DEF Init
<1>3. index(0) \in 0 .. buffer_units - 1
  BY IndexInBuffer
<1>4. TypeOK
  BY <1>1, <1>2, QueueAssumption DEF Init, TypeOK
<1>5. NeverOverfull /\ ClaimsHold
  BY QueueAssumption DEF Init, NeverOverfull, ClaimsHold, queue_count, idle
<1>6. ProgressOK
  BY DEF Init, ProgressOK, idle
<1> QED BY <1>4, <1>5, <1>6 DEF Inv

\* Each step of the producer and of the consumer keeps the invariant.
LEMMA InvNext == Inv /\ [Next]_vars => Inv'
<1> SUFFICES ASSUME Inv, [Next]_vars PROVE Inv'
  OBVIOUS
<1> USE QueueAssumption
<1>0. /\ head \in 0 .. W - 1 /\ tail \in 0 .. W - 1
      /\ buffer \in [0 .. buffer_units - 1 -> Units]
      /\ prod \in Activity /\ cons \in Activity
      /\ delivered \in Arguments
  BY DEF Inv, TypeOK
<1>i. /\ index(head) \in 0 .. buffer_units - 1
      /\ index(tail) \in 0 .. buffer_units - 1
  BY <1>0, IndexInBuffer
<1>c. queue_count \in 0 .. buffer_units /\ queue_space \in 0 .. buffer_units
  BY <1>0 DEF Inv, NeverOverfull, queue_count, queue_space
<1>d. idle \in Activity /\ idle.at = "idle"
  BY DEF idle, Activity, Arguments
<1>1. ASSUME queue_add_units PROVE Inv'
  <2>p. PICK count \in 1 .. MaxCount : \E src \in [1 .. count -> Units] :
          /\ queue_space > 0
          /\ prod' = [at |-> "first", data |-> src,
                      transfer |-> smaller(count, queue_space)]
    BY <1>1 DEF queue_add_units
  <2>1. PICK src \in [1 .. count -> Units] :
          /\ queue_space > 0
          /\ prod' = [at |-> "first", data |-> src,
                      transfer |-> smaller(count, queue_space)]
    BY <2>p
  <2>2. src \in Arguments /\ Len(src) = count
    BY DEF Arguments
  <2>3. /\ smaller(count, queue_space) \in 0 .. MaxCount
        /\ smaller(count, queue_space) <= count
        /\ smaller(count, queue_space) <= queue_space
    BY <1>c DEF smaller
  <2>4. prod' \in Activity
    BY <2>1, <2>2, <2>3 DEF Activity
  <2>5. UNCHANGED <<head, tail, buffer, cons, delivered, queue_count, queue_space>>
    BY <1>1 DEF queue_add_units, queue_count, queue_space
  <2>6. TypeOK' /\ NeverOverfull'
    BY <2>4, <2>5, <1>0 DEF Inv, TypeOK, NeverOverfull
  <2>7. ClaimsHold'
    BY <2>1, <2>3, <2>5 DEF Inv, ClaimsHold
  <2>8. ProgressOK'
    BY <2>1, <2>2, <2>3, <2>5 DEF Inv, ProgressOK, index
  <2> QED BY <2>6, <2>7, <2>8 DEF Inv
<1>2. ASSUME add_first PROVE Inv'
  <2> DEFINE first == smaller(prod.transfer, buffer_units - index(tail))
  <2>1. /\ prod.at = "first"
        /\ buffer' = copied(prod.data, index(tail), first)
        /\ prod' = [prod EXCEPT !.at = IF first < prod.transfer THEN "second"
                                       ELSE "advance"]
        /\ UNCHANGED <<head, tail, cons, delivered>>
    BY <1>2 DEF add_first
  <2>2. /\ prod.data \in Seq(Units) /\ prod.transfer \in 0 .. MaxCount
        /\ prod.transfer <= Len(prod.data)
    BY <1>0, <2>1 DEF Activity, Arguments, Inv, ProgressOK
  <2>3. /\ first \in Nat /\ first <= prod.transfer
        /\ first < prod.transfer => buffer_units - index(tail) < prod.transfer
    BY <2>2, <1>i DEF smaller
  <2> HIDE DEF first
  <2>4. buffer' \in [0 .. buffer_units - 1 -> Units]
    BY <2>1, <2>2, <2>3, <1>i, <1>0, CopiedOK
  <2>5. /\ prod' \in Activity /\ prod'.transfer = prod.transfer
        /\ prod'.data = prod.data
        /\ prod'.at = IF first < prod.transfer THEN "second" ELSE "advance"
    BY <2>1, <1>0 DEF Activity
  <2>6. TypeOK'
    BY <2>1, <2>4, <2>5, <1>0 DEF TypeOK
  <2>7. NeverOverfull' /\ ClaimsHold'
    BY <2>1, <2>5 DEF Inv, NeverOverfull, ClaimsHold, queue_count, queue_space
  <2>8. ProgressOK'
    BY <2>1, <2>2, <2>3, <2>5 DEF Inv, ProgressOK
  <2> QED BY <2>6, <2>7, <2>8 DEF Inv
<1>3. ASSUME add_second PROVE Inv'
  <2> DEFINE first == buffer_units - index(tail)
             rest == SubSeq(prod.data, first + 1, prod.transfer)
  <2>1. /\ prod.at = "second"
        /\ buffer' = copied(rest, 0, prod.transfer - first)
        /\ prod' = [prod EXCEPT !.at = "advance"]
        /\ UNCHANGED <<head, tail, cons, delivered>>
    BY <1>3 DEF add_second
  <2>2. /\ prod.data \in Seq(Units) /\ prod.transfer \in 0 .. MaxCount
        /\ prod.transfer <= Len(prod.data) /\ first < prod.transfer
    BY <1>0, <2>1 DEF Activity, Arguments, Inv, ProgressOK
  <2>3. first \in Nat /\ prod.transfer - first \in Nat
    BY <2>2, <1>i
  <2> HIDE DEF first
  <2>4. rest \in Seq(Units) /\ Len(rest) = prod.transfer - first
    BY <2>2, <2>3
  <2> HIDE DEF rest
  <2>5. buffer' \in [0 .. buffer_units - 1 -> Units]
    <3>1. copied(rest, 0, prod.transfer - first)
            \in [0 .. buffer_units - 1 -> Units]
      BY 0 \in Nat, <2>3, <2>4, <1>0, CopiedOK
    <3> QED BY <2>1, <3>1
  <2>6. /\ prod' \in Activity /\ prod'.transfer = prod.transfer
        /\ prod'.data = prod.data /\ prod'.at = "advance"
    BY <2>1, <1>0 DEF Activity
  <2>7. TypeOK'
    BY <2>1, <2>5, <2>6, <1>0 DEF TypeOK
  <2>8. NeverOverfull' /\ ClaimsHold'
    BY <2>1, <2>6 DEF Inv, NeverOverfull, ClaimsHold, queue_count, queue_space
  <2>9. ProgressOK'
    BY <2>1, <2>2, <2>6 DEF Inv, ProgressOK
  <2> QED BY <2>7, <2>8, <2>9 DEF Inv
<1>4. ASSUME queue_advance_tail PROVE Inv'
  <2>1. /\ prod.at = "advance"
        /\ tail' = advance(tail, smaller(prod.transfer, queue_space))
        /\ prod' = idle
        /\ UNCHANGED <<head, buffer, cons, delivered>>
    BY <1>4 DEF queue_advance_tail
  <2>2. /\ smaller(prod.transfer, queue_space) \in Nat
        /\ queue_count + smaller(prod.transfer, queue_space) <= buffer_units
    BY <1>0, <1>c DEF Activity, smaller, queue_space
  <2>3. /\ tail' \in 0 .. W - 1
        /\ queue_count' = queue_count + smaller(prod.transfer, queue_space)
    BY <2>1, <2>2, <1>0, CountAfterTail, CountIsDistance, CountIsDistancePrimed
  <2>4. TypeOK'
    BY <2>1, <2>3, <1>0, <1>d DEF TypeOK
  <2>5. NeverOverfull'
    BY <2>2, <2>3 DEF NeverOverfull
  <2>6. ClaimsHold'
    BY <2>1, <2>2, <2>3, <1>0, <1>c, <1>d DEF Inv, ClaimsHold, Activity
  <2>7. ProgressOK'
    BY <2>1, <1>d DEF Inv, ProgressOK
  <2> QED BY <2>4, <2>5, <2>6, <2>7 DEF Inv
<1>5. ASSUME queue_remove_units \/ queue_get_read_chunk PROVE Inv'
  <2>1. /\ cons.at = "idle"
        /\ UNCHANGED <<head, tail, buffer, prod, delivered>>
    BY <1>5 DEF queue_remove_units, queue_get_read_chunk
  <2>2. PICK n \in 0 .. MaxCount :
          /\ n <= queue_count
          /\ cons' = [at |-> "first", data |-> <<>>, transfer |-> n]
    <3>1. CASE queue_remove_units
      <4>1. PICK count \in 1 .. MaxCount :
              cons' = [at |-> "first", data |-> <<>>,
                       transfer |-> smaller(count, queue_count)]
        BY <3>1 DEF queue_remove_units
      <4>2. /\ smaller(count, queue_count) \in 0 .. MaxCount
            /\ smaller(count, queue_count) <= queue_count
        BY <1>c DEF smaller
      <4> QED BY <4>1, <4>2
    <3>2. CASE queue_get_read_chunk
      <4>1. PICK count \in 1 .. smaller(read_chunk_length, MaxCount) :
              cons' = [at |-> "first", data |-> <<>>, transfer |-> count]
        BY <3>2 DEF queue_get_read_chunk
      <4>2. read_chunk_length \in Nat /\ read_chunk_length <= queue_count
        BY ReadChunkHolds, <1>0 DEF Inv
      <4>3. count \in 0 .. MaxCount /\ count <= queue_count
        BY <4>2, <1>c DEF smaller
      <4> QED BY <4>1, <4>3
    <3> QED BY <1>5, <3>1, <3>2
  <2>3. cons' \in Activity
    BY <2>2, <1>d DEF Activity, Arguments, idle
  <2>4. TypeOK' /\ NeverOverfull'
    BY <2>1, <2>3, <1>0 DEF Inv, TypeOK, NeverOverfull, queue_count
  <2>5. ClaimsHold'
    BY <2>1, <2>2 DEF Inv, ClaimsHold, queue_count, queue_space
  <2>6. ProgressOK'
    BY <2>1, <2>2 DEF Inv, ProgressOK
  <2> QED BY <2>4, <2>5, <2>6 DEF Inv
<1>6. ASSUME read_first PROVE Inv'
  <2> DEFINE first == smaller(cons.transfer, buffer_units - index(head))
  <2>1. /\ cons.at = "first"
        /\ cons' = [cons EXCEPT
                      !.data = slice(index(head), first),
                      !.at = IF first < cons.transfer THEN "second"
                             ELSE "advance"]
        /\ UNCHANGED <<head, tail, buffer, prod, delivered>>
    BY <1>6 DEF read_first
  <2>2. cons.transfer \in 0 .. MaxCount
    BY <1>0 DEF Activity
  <2>3. /\ first \in Nat /\ first <= cons.transfer
        /\ index(head) + first <= buffer_units
        /\ first < cons.transfer => first = buffer_units - index(head)
        /\ ~(first < cons.transfer) => first = cons.transfer
    BY <2>2, <1>i DEF smaller
  <2> HIDE DEF first
  <2>4. /\ slice(index(head), first) \in Seq(Units)
        /\ Len(slice(index(head), first)) = first
    BY <2>3, <1>i, <1>0, SliceOK
  <2>d. slice(index(head), first) \in Arguments
    BY <2>2, <2>3, <2>4 DEF Arguments
  <2>5. /\ cons' \in Activity /\ cons'.transfer = cons.transfer
        /\ cons'.data = slice(index(head), first)
        /\ cons'.at = IF first < cons.transfer THEN "second" ELSE "advance"
    BY <2>1, <2>d, <1>0 DEF Activity
  <2>6. TypeOK' /\ NeverOverfull'
    BY <2>1, <2>5, <1>0 DEF Inv, TypeOK, NeverOverfull, queue_count
  <2>7. ClaimsHold'
    BY <2>1, <2>5 DEF Inv, ClaimsHold, queue_count, queue_space
  <2>8. ProgressOK'
    BY <2>1, <2>2, <2>3, <2>4, <2>5 DEF Inv, ProgressOK
  <2> QED BY <2>6, <2>7, <2>8 DEF Inv
<1>7. ASSUME read_second PROVE Inv'
  <2> DEFINE rest == cons.transfer - (buffer_units - index(head))
  <2>1. /\ cons.at = "second"
        /\ cons' = [cons EXCEPT !.data = cons.data \o slice(0, rest),
                                !.at = "advance"]
        /\ UNCHANGED <<head, tail, buffer, prod, delivered>>
    BY <1>7 DEF read_second
  <2>2. /\ cons.transfer \in 0 .. MaxCount /\ cons.data \in Seq(Units)
        /\ cons.transfer <= queue_count
        /\ buffer_units - index(head) < cons.transfer
        /\ Len(cons.data) = buffer_units - index(head)
    BY <1>0, <2>1 DEF Activity, Arguments, Inv, ClaimsHold, ProgressOK
  <2>3. rest \in Nat /\ 0 + rest <= buffer_units
    BY <2>2, <1>i, <1>c
  <2>4. cons.transfer = Len(cons.data) + rest
    BY <2>2, <1>i
  <2> HIDE DEF rest
  <2>5. slice(0, rest) \in Seq(Units) /\ Len(slice(0, rest)) = rest
    BY 0 \in Nat, <2>3, <1>0, SliceOK
  <2>6. /\ cons.data \o slice(0, rest) \in Seq(Units)
        /\ Len(cons.data \o slice(0, rest)) = cons.transfer
    BY <2>2, <2>4, <2>5
  <2>d. cons.data \o slice(0, rest) \in Arguments
    BY <2>2, <2>6 DEF Arguments
  <2>7. /\ cons' \in Activity /\ cons'.transfer = cons.transfer
        /\ cons'.data = cons.data \o slice(0, rest) /\ cons'.at = "advance"
    BY <2>1, <2>d, <1>0 DEF Activity
  <2>8. TypeOK' /\ NeverOverfull'
    BY <2>1, <2>7, <1>0 DEF Inv, TypeOK, NeverOverfull, queue_count
  <2>9. ClaimsHold' /\ ProgressOK'
    BY <2>1, <2>6, <2>7
       DEF Inv, ClaimsHold, ProgressOK, queue_count, queue_space
  <2> QED BY <2>8, <2>9 DEF Inv
<1>8. ASSUME queue_advance_head PROVE Inv'
  <2>1. /\ head' = advance(head, smaller(cons.transfer, queue_count))
        /\ delivered' = cons.data /\ cons' = idle
        /\ UNCHANGED <<tail, buffer, prod>>
    BY <1>8 DEF queue_advance_head
  <2>2. /\ smaller(cons.transfer, queue_count) \in Nat
        /\ smaller(cons.transfer, queue_count) <= queue_count
    BY <1>0, <1>c DEF Activity, smaller
  <2>3. /\ head' \in 0 .. W - 1
        /\ queue_count' = queue_count - smaller(cons.transfer, queue_count)
    BY <2>1, <2>2, <1>0, CountAfterHead, CountIsDistance, CountIsDistancePrimed
  <2>4. TypeOK'
    BY <2>1, <2>3, <1>0, <1>d DEF TypeOK, Activity
  <2>5. NeverOverfull' /\ queue_space' >= queue_space
    BY <2>2, <2>3, <1>c DEF NeverOverfull, queue_space
  <2>6. ClaimsHold'
    BY <2>1, <2>3, <2>5, <2>2, <1>0, <1>c, <1>d
       DEF Inv, ClaimsHold, Activity, queue_space
  <2>7. ProgressOK'
    BY <2>1, <1>d DEF Inv, ProgressOK
  <2> QED BY <2>4, <2>5, <2>6, <2>7 DEF Inv
<1>9. ASSUME discard PROVE Inv'
  <2>1. /\ cons.at = "idle"
        /\ UNCHANGED <<tail, buffer, prod, cons, delivered>>
    BY <1>9 DEF discard
  <2>2. PICK count \in 1 .. MaxCount :
          head' = advance(head, smaller(count, queue_count))
    BY <1>9 DEF discard
  <2>3. /\ smaller(count, queue_count) \in Nat
        /\ smaller(count, queue_count) <= queue_count
    BY <1>c DEF smaller
  <2>4. /\ head' \in 0 .. W - 1
        /\ queue_count' = queue_count - smaller(count, queue_count)
    BY <2>1, <2>2, <2>3, <1>0, CountAfterHead, CountIsDistance,
       CountIsDistancePrimed
  <2>5. TypeOK'
    BY <2>1, <2>4, <1>0 DEF TypeOK
  <2>6. NeverOverfull' /\ ClaimsHold'
    BY <2>1, <2>3, <2>4, <1>0, <1>c
       DEF Inv, NeverOverfull, ClaimsHold, Activity, queue_space
  <2>7. ProgressOK'
    BY <2>1 DEF Inv, ProgressOK
  <2> QED BY <2>5, <2>6, <2>7 DEF Inv
<1>10. ASSUME UNCHANGED vars PROVE Inv'
  BY <1>10 DEF Inv, vars, TypeOK, NeverOverfull, ClaimsHold, ProgressOK,
               queue_count, queue_space
<1> QED
  BY <1>1, <1>2, <1>3, <1>4, <1>5, <1>6, <1>7, <1>8, <1>9, <1>10
     DEF Next, Producer, Consumer

-----------------------------------------------------------------------------
\* Every reachable state has the declared types.
THEOREM TypeCorrect == Spec => []TypeOK
<1>1. Inv => TypeOK
  BY DEF Inv
<1> QED BY <1>1, InvInit, InvNext, PTL DEF Spec

\* The queue never claims to hold more units than its buffer does, although
\* its counters wrap, and no step takes more than is there.
THEOREM Bounded == Spec => []NeverOverfull
<1>1. Inv => NeverOverfull
  BY DEF Inv
<1> QED BY <1>1, InvInit, InvNext, PTL DEF Spec

\* The space an addition found is still free and the units a removal found
\* are still there at each of its later steps.
THEOREM ClaimsKept == Spec => []ClaimsHold
<1>1. Inv => ClaimsHold
  BY DEF Inv
<1> QED BY <1>1, InvInit, InvNext, PTL DEF Spec
-----------------------------------------------------------------------------
(* Queue implements Fifo                                                   *)

\* The place in the buffer of the unit that follows n others after a counter
slot(c, n) == index(advance(c, n))

\* How much of the units it offers the producer has copied
written == CASE prod.at = "second" -> buffer_units - index(tail)
             [] prod.at = "advance" -> prod.transfer
             [] OTHER -> 0

\* What the producer has copied stands after the tail, what the consumer has
\* copied is what the queue holds first, and neither copies nothing.
Content ==
  /\ prod.at = "idle" => prod.data = <<>>
  /\ prod.at # "idle" => prod.transfer >= 1
  /\ cons.at # "idle" => cons.transfer >= 1
  /\ \A k \in 0 .. written - 1 : buffer[slot(tail, k)] = prod.data[k + 1]
  /\ cons.at \in {"second", "advance"} =>
       \A k \in 0 .. Len(cons.data) - 1 : cons.data[k + 1] = buffer[slot(head, k)]

-----------------------------------------------------------------------------
(* Places in the buffer                                                    *)

\* A place is that of the counter, or has wrapped once.
LEMMA SlotIs ==
  ASSUME NEW c \in 0 .. W - 1, NEW n \in 0 .. buffer_units
  PROVE  /\ slot(c, n) \in 0 .. buffer_units - 1
         /\ slot(c, n) = IF index(c) + n < buffer_units THEN index(c) + n
                         ELSE index(c) + n - buffer_units
<1> USE QueueAssumption
<1>1. slot(c, n) = index(c + n)
  <2>1. CASE c + n < W
    BY <2>1 DEF slot, advance
  <2>2. CASE ~(c + n < W)
    <3>1. c + n - W \in Nat /\ W + (c + n - W) = c + n
      BY <2>2
    <3>2. index(c + n) = index(c + n - W)
      BY <3>1, IndexWraps
    <3> QED BY <2>2, <3>2 DEF slot, advance
  <2> QED BY <2>1, <2>2
<1>2. index(c) \in 0 .. buffer_units - 1
  BY IndexInBuffer
<1>3. c \in Nat
  OBVIOUS
<1>4. index(c + n) = IF index(c) + n < buffer_units THEN index(c) + n
                     ELSE index(c) + n - buffer_units
  BY <1>3, IndexAfter
<1> HIDE QueueAssumption
<1>5. buffer_units \in Nat
  BY QueueAssumption
<1> QED BY <1>1, <1>2, <1>4, <1>5

\* The tail is where the stored units end ..
LEMMA TailSlot ==
  ASSUME Inv, NEW k \in 0 .. buffer_units, queue_count + k <= buffer_units
  PROVE  slot(tail, k) = slot(head, queue_count + k)
<1> USE QueueAssumption
<1>1. /\ head \in 0 .. W - 1 /\ tail \in 0 .. W - 1
      /\ queue_count \in 0 .. buffer_units
  BY DEF Inv, TypeOK, NeverOverfull, queue_count
<1>2. advance(head, queue_count) = tail
  BY <1>1 DEF advance, queue_count
<1>3. index(tail) = slot(head, queue_count)
  BY <1>2 DEF slot
<1>4. index(head) \in 0 .. buffer_units - 1
  BY <1>1, IndexInBuffer
<1>5. queue_count + k \in 0 .. buffer_units
  BY <1>1
<1>6. index(tail) = IF index(head) + queue_count < buffer_units
                    THEN index(head) + queue_count
                    ELSE index(head) + queue_count - buffer_units
  BY <1>1, <1>3, SlotIs
<1>7. slot(head, queue_count + k)
        = IF index(head) + (queue_count + k) < buffer_units
          THEN index(head) + (queue_count + k)
          ELSE index(head) + (queue_count + k) - buffer_units
  BY <1>1, <1>5, SlotIs
<1>8. slot(tail, k) = IF index(tail) + k < buffer_units THEN index(tail) + k
                      ELSE index(tail) + k - buffer_units
  BY <1>1, SlotIs
<1> QED BY <1>1, <1>4, <1>6, <1>7, <1>8

\* .. and an advanced head leaves what follows in its place.
LEMMA HeadSlot ==
  ASSUME NEW h \in 0 .. W - 1, NEW n \in 0 .. buffer_units,
         NEW k \in 0 .. buffer_units, n + k <= buffer_units,
         advance(h, n) \in 0 .. W - 1
  PROVE  slot(advance(h, n), k) = slot(h, n + k)
<1> USE QueueAssumption
<1>1. index(h) \in 0 .. buffer_units - 1
  BY IndexInBuffer
<1>2. index(advance(h, n)) = IF index(h) + n < buffer_units THEN index(h) + n
                             ELSE index(h) + n - buffer_units
  BY SlotIs DEF slot
<1>3. slot(h, n + k) = IF index(h) + (n + k) < buffer_units
                       THEN index(h) + (n + k)
                       ELSE index(h) + (n + k) - buffer_units
  BY SlotIs
<1>4. slot(advance(h, n), k)
        = IF index(advance(h, n)) + k < buffer_units
          THEN index(advance(h, n)) + k
          ELSE index(advance(h, n)) + k - buffer_units
  BY SlotIs
<1> QED BY <1>1, <1>2, <1>3, <1>4

\* Units that follow a counter at different distances have different places.
LEMMA SlotsDiffer ==
  ASSUME NEW c \in 0 .. W - 1, NEW m \in 0 .. buffer_units - 1,
         NEW n \in 0 .. buffer_units - 1, m # n
  PROVE  slot(c, m) # slot(c, n)
<1> USE QueueAssumption
<1>1. index(c) \in 0 .. buffer_units - 1
  BY IndexInBuffer
<1>2. /\ slot(c, m) = IF index(c) + m < buffer_units THEN index(c) + m
                      ELSE index(c) + m - buffer_units
      /\ slot(c, n) = IF index(c) + n < buffer_units THEN index(c) + n
                      ELSE index(c) + n - buffer_units
  BY SlotIs
<1> QED BY <1>1, <1>2

\* A copy of units to free places, as far as they do not wrap, puts them there
\* and leaves the stored units and those copied before alone.
LEMMA CopyToFree ==
  ASSUME Inv, prod.at # "idle", NEW src, NEW done \in Nat, NEW n \in Nat,
         done + n <= prod.transfer, done < buffer_units,
         slot(tail, done) + n <= buffer_units,
         buffer' = copied(src, slot(tail, done), n)
  PROVE  /\ \A k \in 0 .. queue_count - 1 :
              buffer'[slot(head, k)] = buffer[slot(head, k)]
         /\ \A k \in 0 .. done - 1 :
              buffer'[slot(tail, k)] = buffer[slot(tail, k)]
         /\ \A k \in done .. done + n - 1 :
              buffer'[slot(tail, k)] = src[k - done + 1]
<1> USE QueueAssumption
<1>1. /\ head \in 0 .. W - 1 /\ tail \in 0 .. W - 1
      /\ queue_count \in 0 .. buffer_units
      /\ prod.transfer \in Nat /\ queue_count + prod.transfer <= buffer_units
  BY DEF Inv, TypeOK, NeverOverfull, queue_count, ClaimsHold, Activity, queue_space
<1>2. index(tail) \in 0 .. buffer_units - 1 /\ index(head) \in 0 .. buffer_units - 1
  BY <1>1, IndexInBuffer
<1>3. done \in 0 .. buffer_units /\ done + n \in 0 .. buffer_units
  BY <1>1
<1>4. ASSUME NEW k \in 0 .. n - 1
      PROVE  slot(tail, done) + k = slot(tail, done + k)
  <2>1. done + k \in 0 .. buffer_units
    BY <1>3
  <2>2. /\ slot(tail, done) = IF index(tail) + done < buffer_units
                              THEN index(tail) + done
                              ELSE index(tail) + done - buffer_units
        /\ slot(tail, done + k) = IF index(tail) + (done + k) < buffer_units
                                  THEN index(tail) + (done + k)
                                  ELSE index(tail) + (done + k) - buffer_units
    BY <1>1, <1>3, <2>1, SlotIs
  <2> QED BY <1>2, <1>3, <2>2
<1>5. slot(tail, done) \in 0 .. buffer_units - 1
  BY <1>1, <1>3, SlotIs
<1>6. ASSUME NEW i \in 0 .. buffer_units - 1,
             \A k \in 0 .. n - 1 : i # slot(tail, done + k)
      PROVE  buffer'[i] = buffer[i]
  <2>1. ~(i >= slot(tail, done) /\ i < slot(tail, done) + n)
    <3>1. SUFFICES ASSUME i >= slot(tail, done), i < slot(tail, done) + n
                   PROVE  FALSE
      OBVIOUS
    <3>2. i - slot(tail, done) \in 0 .. n - 1
      BY <1>5, <3>1
    <3>3. slot(tail, done) + (i - slot(tail, done))
            = slot(tail, done + (i - slot(tail, done)))
      BY <3>2, <1>4
    <3>4. slot(tail, done) + (i - slot(tail, done)) = i
      BY <1>5
    <3> QED BY <1>6, <3>2, <3>3, <3>4
  <2> QED BY <2>1 DEF copied
<1>7. ASSUME NEW k \in 0 .. queue_count - 1
      PROVE  buffer'[slot(head, k)] = buffer[slot(head, k)]
  <2>1. k \in 0 .. buffer_units - 1 /\ slot(head, k) \in 0 .. buffer_units - 1
    BY <1>1, SlotIs
  <2>2. ASSUME NEW j \in 0 .. n - 1 PROVE slot(head, k) # slot(tail, done + j)
    <3>1. /\ queue_count + (done + j) \in 0 .. buffer_units - 1
          /\ done + j \in 0 .. buffer_units
          /\ k # queue_count + (done + j)
      BY <1>1, <1>3
    <3>2. slot(tail, done + j) = slot(head, queue_count + (done + j))
      BY <3>1, TailSlot
    <3> QED BY <1>1, <2>1, <3>1, <3>2, SlotsDiffer
  <2> QED BY <2>1, <2>2, <1>6
<1>8. ASSUME NEW k \in 0 .. done - 1
      PROVE  buffer'[slot(tail, k)] = buffer[slot(tail, k)]
  <2>1. k \in 0 .. buffer_units - 1 /\ slot(tail, k) \in 0 .. buffer_units - 1
    BY <1>1, <1>3, SlotIs
  <2>2. ASSUME NEW j \in 0 .. n - 1 PROVE slot(tail, k) # slot(tail, done + j)
    <3>1. done + j \in 0 .. buffer_units - 1 /\ k # done + j
      BY <1>3
    <3> QED BY <1>1, <2>1, <3>1, SlotsDiffer
  <2> QED BY <2>1, <2>2, <1>6
<1>9. ASSUME NEW k \in done .. done + n - 1
      PROVE  buffer'[slot(tail, k)] = src[k - done + 1]
  <2>1. /\ k - done \in 0 .. n - 1 /\ done + (k - done) = k
    BY <1>3
  <2>2. slot(tail, done) + (k - done) = slot(tail, k)
    BY <2>1, <1>4
  <2>3. /\ slot(tail, k) \in 0 .. buffer_units - 1
        /\ slot(tail, k) >= slot(tail, done) /\ slot(tail, k) < slot(tail, done) + n
        /\ slot(tail, k) - slot(tail, done) + 1 = k - done + 1
    BY <2>1, <2>2, <1>5
  <2>4. buffer'[slot(tail, k)] = src[slot(tail, k) - slot(tail, done) + 1]
    BY <2>3 DEF copied
  <2> QED BY <2>3, <2>4
<1> QED BY <1>7, <1>8, <1>9

-----------------------------------------------------------------------------
(* Each step                                                               *)

\* What the proofs of the steps start from.
LEMMA Facts ==
  ASSUME Inv
  PROVE  /\ head \in 0 .. W - 1 /\ tail \in 0 .. W - 1
         /\ queue_count \in 0 .. buffer_units
         /\ index(tail) \in 0 .. buffer_units - 1
         /\ index(head) \in 0 .. buffer_units - 1
         /\ prod.transfer \in Nat /\ cons.transfer \in Nat
         /\ prod.data \in Seq(Units) /\ cons.data \in Seq(Units)
         /\ prod \in Activity /\ cons \in Activity
         /\ items \in Seq(Units) /\ Len(items) = queue_count
         /\ \A k \in 1 .. queue_count : items[k] = buffer[slot(head, k - 1)]
<1> USE QueueAssumption
<1>1. /\ head \in 0 .. W - 1 /\ tail \in 0 .. W - 1
      /\ queue_count \in 0 .. buffer_units
      /\ prod \in Activity /\ cons \in Activity
      /\ buffer \in [0 .. buffer_units - 1 -> Units]
  BY DEF Inv, TypeOK, NeverOverfull, queue_count
<1>2. /\ prod.transfer \in Nat /\ cons.transfer \in Nat
      /\ prod.data \in Seq(Units) /\ cons.data \in Seq(Units)
  BY <1>1 DEF Activity, Arguments
<1>3. index(tail) \in 0 .. buffer_units - 1 /\ index(head) \in 0 .. buffer_units - 1
  BY <1>1, IndexInBuffer
<1>4. ASSUME NEW k \in 1 .. queue_count
      PROVE  buffer[slot(head, k - 1)] \in Units
  <2>1. k - 1 \in 0 .. buffer_units
    BY <1>1
  <2>2. slot(head, k - 1) \in 0 .. buffer_units - 1
    BY <1>1, <2>1, SlotIs
  <2> QED BY <1>1, <2>2
<1>5. items = [k \in 1 .. queue_count |-> buffer[slot(head, k - 1)]]
  BY DEF items, slot
<1>6. items \in Seq(Units) /\ Len(items) = queue_count
  BY <1>1, <1>4, <1>5
<1> QED BY <1>1, <1>2, <1>3, <1>5, <1>6

\* The queue is the same when the head, the tail and the stored units are.
LEMMA SameItems ==
  ASSUME head' = head, tail' = tail,
         \A k \in 0 .. queue_count - 1 :
           buffer'[slot(head, k)] = buffer[slot(head, k)],
         Inv
  PROVE  items' = items /\ queue_count' = queue_count
<1>1. queue_count' = queue_count /\ queue_count \in Nat
  BY Facts DEF queue_count
<1>2. \A k \in 1 .. queue_count :
        buffer'[index(advance(head, k - 1))] = buffer[index(advance(head, k - 1))]
  <2> TAKE k \in 1 .. queue_count
  <2>1. k - 1 \in 0 .. queue_count - 1
    BY <1>1
  <2> QED BY <2>1 DEF slot
<1>3. items' = [k \in 1 .. queue_count |-> buffer'[index(advance(head, k - 1))]]
  BY <1>1 DEF items, index, advance
<1> QED BY <1>1, <1>2, <1>3 DEF items

\* A step of the producer that copies shows nothing to the outside.
LEMMA CopyStep ==
  ASSUME Inv, Content, prod.at # "idle",
         NEW src, NEW done \in Nat, NEW n \in Nat,
         done + n <= prod.transfer, done < buffer_units,
         slot(tail, done) + n <= buffer_units,
         buffer' = copied(src, slot(tail, done), n),
         UNCHANGED <<head, tail, cons, delivered>>,
         prod'.at # "idle", prod'.data = prod.data, prod'.transfer = prod.transfer,
         done = written, written' = done + n,
         \A k \in 1 .. n : src[k] = prod.data[done + k]
  PROVE  Content' /\ UNCHANGED <<items, prod.data, delivered>>
<1>1. /\ \A k \in 0 .. queue_count - 1 :
           buffer'[slot(head, k)] = buffer[slot(head, k)]
      /\ \A k \in 0 .. done - 1 :
           buffer'[slot(tail, k)] = buffer[slot(tail, k)]
      /\ \A k \in done .. done + n - 1 :
           buffer'[slot(tail, k)] = src[k - done + 1]
  BY CopyToFree, ZenonT(60)
<1>2. items' = items
  BY <1>1, SameItems
<1>s. \A k : slot(tail, k)' = slot(tail, k) /\ slot(head, k)' = slot(head, k)
  BY DEF slot, advance, index
<1>3. \A k \in 0 .. written' - 1 : buffer'[slot(tail, k)] = prod.data[k + 1]
  <2> TAKE k \in 0 .. written' - 1
  <2>1. CASE k < done
    <3>1. k \in 0 .. done - 1 /\ k \in 0 .. written - 1
      BY <2>1
    <3>2. buffer[slot(tail, k)] = prod.data[k + 1]
      BY <3>1 DEF Content
    <3> QED BY <3>1, <3>2, <1>1
  <2>2. CASE ~(k < done)
    <3>1. /\ k \in done .. done + n - 1 /\ k - done + 1 \in 1 .. n
          /\ done + (k - done + 1) = k + 1
      BY <2>2
    <3>2. buffer'[slot(tail, k)] = src[k - done + 1]
      BY <3>1, <1>1
    <3>3. src[k - done + 1] = prod.data[done + (k - done + 1)]
      BY <3>1
    <3> QED BY <3>1, <3>2, <3>3
  <2> QED BY <2>1, <2>2
<1>4. cons.at \in {"second", "advance"} =>
        \A k \in 0 .. Len(cons.data) - 1 :
          cons.data[k + 1] = buffer'[slot(head, k)]
  <2> SUFFICES ASSUME cons.at \in {"second", "advance"},
                      NEW k \in 0 .. Len(cons.data) - 1
               PROVE  cons.data[k + 1] = buffer'[slot(head, k)]
    OBVIOUS
  <2>1. Len(cons.data) <= cons.transfer
    BY Facts DEF Inv, ProgressOK
  <2>2. cons.transfer <= queue_count
    BY DEF Inv, ClaimsHold
  <2>3. k \in 0 .. queue_count - 1
    BY <2>1, <2>2, Facts
  <2>4. cons.data[k + 1] = buffer[slot(head, k)]
    BY DEF Content
  <2> QED BY <2>3, <2>4, <1>1
<1>5. Content'
  BY <1>3, <1>4, <1>s DEF Content
<1> QED BY <1>2, <1>5

\* A step of the consumer leaves what the producer has copied.
LEMMA ConsumerKeeps ==
  ASSUME Content, UNCHANGED <<tail, buffer, prod>>
  PROVE  /\ prod'.at = "idle" => prod'.data = <<>>
         /\ prod'.at # "idle" => prod'.transfer >= 1
         /\ \A k \in 0 .. written' - 1 : buffer'[slot(tail, k)'] = prod'.data[k + 1]
<1>1. /\ written' = written
      /\ \A k : slot(tail, k)' = slot(tail, k)
  BY DEF written, slot, advance, index
<1> QED BY <1>1 DEF Content

\* The head passes over the first n units: they leave the queue, and the
\* others stay in order.
LEMMA HeadStep ==
  ASSUME Inv, Inv', NEW n \in 1 .. queue_count,
         head' = advance(head, n), UNCHANGED <<tail, buffer>>
  PROVE  items' = SubSeq(items, n + 1, Len(items))
<1> DEFINE rest == SubSeq(items, n + 1, Len(items))
<1>f. /\ head \in 0 .. W - 1 /\ tail \in 0 .. W - 1
      /\ queue_count \in 0 .. buffer_units
      /\ items \in Seq(Units) /\ Len(items) = queue_count
      /\ \A k \in 1 .. queue_count : items[k] = buffer[slot(head, k - 1)]
      /\ buffer_units \in Nat
  BY Facts, QueueAssumption
<1>1. queue_count' = queue_count - n /\ advance(head, n) \in 0 .. W - 1
  <2>1. n \in Nat /\ n <= distance(head, tail)
    BY <1>f, CountIsDistance
  <2>2. /\ advance(head, n) \in 0 .. W - 1
        /\ distance(advance(head, n), tail) = distance(head, tail) - n
    BY <1>f, <2>1, CountAfterHead
  <2> QED BY <2>2, CountIsDistance, CountIsDistancePrimed
<1>2. /\ items' \in Seq(Units) /\ Len(items') = queue_count'
      /\ \A k \in 1 .. queue_count' : items'[k] = buffer'[slot(head', k - 1)]
  <2>1. items' = [k \in 1 .. queue_count' |-> buffer'[slot(head', k - 1)]]
    BY DEF items, slot, index, advance
  <2>2. queue_count' \in Nat
    BY <1>f, <1>1
  <2>3. ASSUME NEW k \in 1 .. queue_count' PROVE buffer'[slot(head', k - 1)] \in Units
    <3>1. k - 1 \in 0 .. buffer_units
      BY <1>f, <1>1
    <3>2. slot(head', k - 1) \in 0 .. buffer_units - 1
      BY <1>1, <3>1, SlotIs
    <3> QED BY <3>2 DEF Inv, TypeOK
  <2> QED BY <2>1, <2>2, <2>3
<1>3. /\ rest \in Seq(Units) /\ Len(rest) = queue_count - n
      /\ \A k \in 1 .. queue_count - n : rest[k] = items[n + k]
  BY <1>f
<1>4. ASSUME NEW k \in 1 .. queue_count - n PROVE items'[k] = rest[k]
  <2>1. /\ n + k \in 1 .. queue_count /\ (n + k) - 1 = n + (k - 1)
        /\ k - 1 \in 0 .. buffer_units /\ n \in 0 .. buffer_units
        /\ n + (k - 1) <= buffer_units
    BY <1>f
  <2>2. slot(advance(head, n), k - 1) = slot(head, n + (k - 1))
    BY <1>f, <1>1, <2>1, HeadSlot
  <2>3. items[n + k] = buffer[slot(head, n + (k - 1))]
    BY <1>f, <2>1
  <2>4. items'[k] = buffer[slot(advance(head, n), k - 1)]
    BY <1>1, <1>2
  <2> QED BY <1>3, <2>2, <2>3, <2>4
<1> HIDE DEF rest
<1>5. items' = rest
  BY <1>1, <1>2, <1>3, <1>4, SeqEqual
<1> QED BY <1>5 DEF rest

\* A sequence that starts like one and goes on like another joins them.
LEMMA Joined ==
  ASSUME NEW S, NEW s \in Seq(S), NEW t \in Seq(S), NEW u \in Seq(S),
         Len(u) = Len(s) + Len(t),
         \A k \in 1 .. Len(s) : u[k] = s[k],
         \A k \in 1 .. Len(t) : u[Len(s) + k] = t[k]
  PROVE  u = s \o t
<1>1. /\ s \o t \in Seq(S) /\ Len(s \o t) = Len(s) + Len(t)
      /\ \A k \in 1 .. Len(s) + Len(t) :
           (s \o t)[k] = IF k <= Len(s) THEN s[k] ELSE t[k - Len(s)]
  BY ConcatProperties
<1>2. ASSUME NEW k \in 1 .. Len(u) PROVE u[k] = (s \o t)[k]
  <2>1. CASE k <= Len(s)
    BY <1>1, <2>1
  <2>2. CASE ~(k <= Len(s))
    <3>1. k - Len(s) \in 1 .. Len(t) /\ Len(s) + (k - Len(s)) = k
      BY <2>2
    <3>2. u[Len(s) + (k - Len(s))] = t[k - Len(s)]
      BY <3>1
    <3> QED BY <1>1, <2>2, <3>1, <3>2
  <2> QED BY <2>1, <2>2
<1> QED BY <1>1, <1>2, SeqEqual

\* The tail passes over the n units that were copied: they join the queue.
LEMMA TailStep ==
  ASSUME Inv, Inv', Content, prod.at = "advance",
         tail' = advance(tail, prod.transfer), UNCHANGED <<head, buffer>>
  PROVE  items' = items \o SubSeq(prod.data, 1, prod.transfer)
<1> DEFINE n == prod.transfer
           new == SubSeq(prod.data, 1, n)
<1>f. /\ head \in 0 .. W - 1 /\ tail \in 0 .. W - 1
      /\ queue_count \in 0 .. buffer_units
      /\ n \in Nat /\ prod.data \in Seq(Units)
      /\ items \in Seq(Units) /\ Len(items) = queue_count
      /\ \A k \in 1 .. queue_count : items[k] = buffer[slot(head, k - 1)]
      /\ buffer_units \in Nat
  BY Facts, QueueAssumption
<1>g. n <= Len(prod.data) /\ queue_count + n <= buffer_units
  BY <1>f DEF Inv, ClaimsHold, ProgressOK, queue_space
<1>1. queue_count' = queue_count + n
  <2>1. distance(head, tail) + n <= buffer_units
    BY <1>g, CountIsDistance
  <2>2. distance(head, advance(tail, n)) = distance(head, tail) + n
    BY <1>f, <2>1, CountAfterTail
  <2> QED BY <2>2, CountIsDistance, CountIsDistancePrimed
<1>2. /\ items' \in Seq(Units) /\ Len(items') = queue_count'
      /\ \A k \in 1 .. queue_count' : items'[k] = buffer[slot(head, k - 1)]
  <2>1. items' = [k \in 1 .. queue_count' |-> buffer[slot(head, k - 1)]]
    BY DEF items, slot, index, advance
  <2>2. queue_count' \in Nat
    BY <1>f, <1>1
  <2>3. ASSUME NEW k \in 1 .. queue_count' PROVE buffer[slot(head, k - 1)] \in Units
    <3>1. k - 1 \in 0 .. buffer_units
      BY <1>f, <1>g, <1>1
    <3>2. slot(head, k - 1) \in 0 .. buffer_units - 1
      BY <1>f, <3>1, SlotIs
    <3> QED BY <3>2 DEF Inv, TypeOK
  <2> QED BY <2>1, <2>2, <2>3
<1>3. /\ new \in Seq(Units) /\ Len(new) = n
      /\ \A k \in 1 .. n : new[k] = prod.data[k]
  BY <1>f, <1>g
<1> HIDE DEF new
<1>4. ASSUME NEW k \in 1 .. queue_count PROVE items'[k] = items[k]
  <2>1. k \in 1 .. queue_count'
    BY <1>f, <1>1
  <2>2. items'[k] = buffer[slot(head, k - 1)]
    BY <2>1, <1>2
  <2>3. items[k] = buffer[slot(head, k - 1)]
    BY <1>f
  <2> QED BY <2>2, <2>3
<1>5. ASSUME NEW k \in 1 .. n PROVE items'[queue_count + k] = new[k]
  <2>1. /\ k - 1 \in 0 .. n - 1 /\ k - 1 \in 0 .. buffer_units
        /\ queue_count + (k - 1) <= buffer_units
        /\ (queue_count + k) - 1 = queue_count + (k - 1) /\ (k - 1) + 1 = k
        /\ queue_count + k \in 1 .. queue_count + n
    BY <1>f, <1>g
  <2>2. slot(tail, k - 1) = slot(head, queue_count + (k - 1))
    BY <2>1, TailSlot
  <2>3. buffer[slot(tail, k - 1)] = prod.data[(k - 1) + 1]
    BY <2>1 DEF Content, written
  <2>4. items'[queue_count + k] = buffer[slot(head, (queue_count + k) - 1)]
    BY <2>1, <1>1, <1>2
  <2> QED BY <2>1, <2>2, <2>3, <2>4, <1>3
<1>6. items' = items \o new
  <2>1. Len(items') = Len(items) + Len(new)
    BY <1>f, <1>1, <1>2, <1>3
  <2>2. \A k \in 1 .. Len(items) : items'[k] = items[k]
    BY <1>f, <1>4
  <2>3. \A k \in 1 .. Len(new) : items'[Len(items) + k] = new[k]
    BY <1>f, <1>3, <1>5
  <2>4. items \in Seq(Units) /\ new \in Seq(Units) /\ items' \in Seq(Units)
    BY <1>f, <1>2, <1>3
  <2> QED BY <2>1, <2>2, <2>3, <2>4, Joined
<1> QED BY <1>6 DEF new

-----------------------------------------------------------------------------
(* The refinement                                                          *)

AbstractVars == <<items, prod.data, delivered>>

\* Before anything is called there is nothing to copy, and the queue is empty.
LEMMA StartsEmpty == Init => Content /\ Abstract!Init
<1> SUFFICES ASSUME Init PROVE Content /\ Abstract!Init
  OBVIOUS
<1>1. /\ prod.at = "idle" /\ prod.data = <<>> /\ cons.at = "idle"
      /\ delivered = <<>> /\ queue_count = 0
  BY DEF Init, idle, queue_count
<1>2. written = 0
  BY <1>1 DEF written
<1>3. Content
  BY <1>1, <1>2 DEF Content
<1>4. items = <<>>
  BY <1>1 DEF items
<1> QED BY <1>1, <1>3, <1>4 DEF Abstract!Init

\* Every step of the queue is a step of the abstract one or invisible, and
\* leaves the copies where they belong.
LEMMA StepImplements ==
  Inv /\ Inv' /\ Content /\ [Next]_vars
    => Content' /\ [Abstract!Next]_AbstractVars
<1> SUFFICES ASSUME Inv, Inv', Content, [Next]_vars
             PROVE  Content' /\ [Abstract!Next]_AbstractVars
  OBVIOUS
<1>a. /\ head \in 0 .. W - 1 /\ tail \in 0 .. W - 1
      /\ queue_count \in 0 .. buffer_units
      /\ index(tail) \in 0 .. buffer_units - 1
      /\ index(head) \in 0 .. buffer_units - 1
      /\ prod.transfer \in Nat /\ cons.transfer \in Nat
      /\ prod.data \in Seq(Units) /\ cons.data \in Seq(Units)
      /\ prod \in Activity /\ cons \in Activity
      /\ items \in Seq(Units) /\ Len(items) = queue_count
      /\ \A k \in 1 .. queue_count : items[k] = buffer[slot(head, k - 1)]
  BY Facts
<1>b. buffer_units \in Nat \ {0}
  BY QueueAssumption
<1>i. idle.at = "idle" /\ idle.data = <<>>
  BY DEF idle
<1>s. ASSUME UNCHANGED <<head, tail, buffer>>
      PROVE  /\ items' = items
             /\ \A k : slot(tail, k)' = slot(tail, k) /\ slot(head, k)' = slot(head, k)
  BY <1>s DEF items, queue_count, slot, advance, index
<1>1. CASE queue_add_units
  <2>1. PICK count \in 1 .. MaxCount : \E src \in [1 .. count -> Units] :
          /\ queue_space > 0
          /\ prod' = [at |-> "first", data |-> src,
                      transfer |-> smaller(count, queue_space)]
    BY <1>1 DEF queue_add_units
  <2>2. PICK src \in [1 .. count -> Units] :
          /\ queue_space > 0
          /\ prod' = [at |-> "first", data |-> src,
                      transfer |-> smaller(count, queue_space)]
    BY <2>1
  <2>3. prod.at = "idle" /\ UNCHANGED <<head, tail, buffer, cons, delivered>>
    BY <1>1 DEF queue_add_units
  <2>4. src \in Seq(Units) /\ src # <<>>
    BY QueueAssumption
  <2>5. smaller(count, queue_space) >= 1
    BY <2>2, <1>a, <1>b DEF smaller, queue_space
  <2>6. written' = 0
    BY <2>2 DEF written
  <2>7. Content'
    BY <2>2, <2>3, <2>5, <2>6, <1>s DEF Content
  <2>8. Abstract!Offer
    BY <2>2, <2>3, <2>4, <1>s DEF Content, Abstract!Offer
  <2> QED BY <2>7, <2>8 DEF Abstract!Next
<1>2. CASE add_first
  <2> DEFINE first == smaller(prod.transfer, buffer_units - index(tail))
  <2>1. /\ prod.at = "first"
        /\ buffer' = copied(prod.data, index(tail), first)
        /\ prod' = [prod EXCEPT !.at = IF first < prod.transfer THEN "second"
                                       ELSE "advance"]
        /\ UNCHANGED <<head, tail, cons, delivered>>
    BY <1>2 DEF add_first
  <2>2. /\ first \in Nat /\ first <= prod.transfer
        /\ index(tail) + first <= buffer_units
        /\ first < prod.transfer => first = buffer_units - index(tail)
        /\ ~(first < prod.transfer) => first = prod.transfer
    BY <1>a, <1>b DEF smaller
  <2> HIDE DEF first
  <2>3. slot(tail, 0) = index(tail)
    BY <1>a, <1>b, SlotIs
  <2>4. /\ prod'.data = prod.data /\ prod'.transfer = prod.transfer
        /\ prod'.at = IF first < prod.transfer THEN "second" ELSE "advance"
    BY <2>1, <1>a DEF Activity
  <2>5. written = 0 /\ written' = 0 + first
    BY <2>1, <2>2, <2>4, <1>a, <1>b DEF written, index
  <2>6. \A k \in 1 .. first : prod.data[k] = prod.data[0 + k]
    BY <2>2
  <2>7. /\ 0 \in Nat /\ 0 + first <= prod.transfer /\ 0 < buffer_units
        /\ slot(tail, 0) + first <= buffer_units
        /\ buffer' = copied(prod.data, slot(tail, 0), first)
        /\ prod.at # "idle" /\ prod'.at # "idle"
    BY <2>1, <2>2, <2>3, <2>4, <1>a, <1>b
  <2>8. Content' /\ UNCHANGED <<items, prod.data, delivered>>
    BY <2>1, <2>2, <2>4, <2>5, <2>6, <2>7, CopyStep, ZenonT(60)
  <2> QED BY <2>8 DEF AbstractVars
<1>3. CASE add_second
  <2> DEFINE first == buffer_units - index(tail)
             rest == SubSeq(prod.data, first + 1, prod.transfer)
             n == prod.transfer - first
  <2>1. /\ prod.at = "second"
        /\ buffer' = copied(rest, 0, n)
        /\ prod' = [prod EXCEPT !.at = "advance"]
        /\ UNCHANGED <<head, tail, cons, delivered>>
    BY <1>3 DEF add_second
  <2>2. /\ first \in Nat /\ n \in Nat /\ first + n = prod.transfer
        /\ first <= buffer_units /\ first < prod.transfer
        /\ prod.transfer <= Len(prod.data)
        /\ prod.transfer <= buffer_units
    <3>1. first < prod.transfer /\ prod.transfer <= Len(prod.data)
      BY <2>1 DEF Inv, ProgressOK
    <3>2. prod.transfer <= buffer_units - queue_count
      BY <2>1 DEF Inv, ClaimsHold, queue_space
    <3>3. Len(prod.data) \in Nat
      BY <1>a
    <3>4. /\ queue_count \in Nat /\ prod.transfer \in Nat
          /\ index(tail) \in 0 .. buffer_units - 1
      BY <1>a, <1>b
    <3> QED BY <3>1, <3>2, <3>3, <3>4, <1>b
  <2> HIDE DEF first, n
  <2>3. \A k \in 1 .. n : rest[k] = prod.data[first + k]
    <3>1. \A i \in first + 1 .. prod.transfer : prod.data[i] \in Units
      BY <2>2, <1>a
    <3>2. /\ first + 1 \in Int /\ prod.transfer \in Int
          /\ prod.transfer - (first + 1) + 1 = n
      BY <2>2
    <3>3. \A i \in 1 .. prod.transfer - (first + 1) + 1 :
            rest[i] = prod.data[(first + 1) + i - 1]
      BY <3>1, <3>2, SubSeqProperties
    <3>4. \A k \in 1 .. n : (first + 1) + k - 1 = first + k
      BY <2>2
    <3> QED BY <3>2, <3>3, <3>4
  <2>4. written = first
    BY <2>1 DEF written, first
  <2>5. slot(tail, first) = 0
    <3>1. first \in 0 .. buffer_units /\ ~(index(tail) + first < buffer_units)
      BY <1>a, <1>b DEF first
    <3>2. slot(tail, first) = index(tail) + first - buffer_units
      BY <3>1, <1>a, SlotIs
    <3> QED BY <3>2, <1>a, <1>b DEF first
  <2>6. /\ prod'.data = prod.data /\ prod'.transfer = prod.transfer
        /\ prod'.at = "advance"
    BY <2>1, <1>a DEF Activity
  <2>7. written' = first + n
    BY <2>2, <2>6 DEF written
  <2>8. /\ first + n <= prod.transfer /\ first < buffer_units
        /\ slot(tail, first) + n <= buffer_units
    BY <2>2, <2>5, <1>a, <1>b
  <2>9. /\ buffer' = copied(rest, slot(tail, first), n)
        /\ prod.at # "idle" /\ prod'.at # "idle"
    BY <2>1, <2>5, <2>6
  <2> HIDE DEF rest
  <2>10. Content' /\ UNCHANGED <<items, prod.data, delivered>>
    BY <2>1, <2>2, <2>3, <2>4, <2>6, <2>7, <2>8, <2>9, CopyStep, ZenonT(60)
  <2> QED BY <2>10 DEF AbstractVars
<1>4. CASE queue_advance_tail
  <2>1. /\ prod.at = "advance"
        /\ tail' = advance(tail, smaller(prod.transfer, queue_space))
        /\ prod' = idle
        /\ UNCHANGED <<head, buffer, cons, delivered>>
    BY <1>4 DEF queue_advance_tail
  <2>2. /\ smaller(prod.transfer, queue_space) = prod.transfer
        /\ prod.transfer \in 1 .. Len(prod.data)
        /\ queue_count + prod.transfer <= buffer_units
    BY <2>1, <1>a, <1>b
       DEF Inv, ClaimsHold, ProgressOK, Content, smaller, queue_space
  <2>3. items' = items \o SubSeq(prod.data, 1, prod.transfer)
    BY <2>1, <2>2, TailStep
  <2>4. prod'.data = <<>> /\ prod'.at = "idle"
    BY <2>1, <1>i
  <2>5. Abstract!Add
    BY <2>1, <2>2, <2>3, <2>4, <1>a DEF Abstract!Add
  <2>6. written' = 0 /\ \A k : slot(head, k)' = slot(head, k)
    BY <2>1, <2>4 DEF written, slot, advance, index
  <2>7. Content'
    BY <2>1, <2>4, <2>6 DEF Content
  <2> QED BY <2>5, <2>7 DEF Abstract!Next
<1>5. CASE queue_remove_units \/ queue_get_read_chunk
  <2>1. UNCHANGED <<head, tail, buffer, prod, delivered>>
    BY <1>5 DEF queue_remove_units, queue_get_read_chunk
  <2>2. cons'.at = "first" /\ cons'.transfer >= 1
    <3>1. CASE queue_remove_units
      <4>1. PICK count \in 1 .. MaxCount :
              cons' = [at |-> "first", data |-> <<>>,
                       transfer |-> smaller(count, queue_count)]
        BY <3>1 DEF queue_remove_units
      <4>2. queue_count > 0
        BY <3>1 DEF queue_remove_units
      <4> QED BY <4>1, <4>2, <1>a DEF smaller
    <3>2. CASE queue_get_read_chunk
      <4>1. PICK count \in 1 .. smaller(read_chunk_length, MaxCount) :
              cons' = [at |-> "first", data |-> <<>>, transfer |-> count]
        BY <3>2 DEF queue_get_read_chunk
      <4> QED BY <4>1
    <3> QED BY <1>5, <3>1, <3>2
  <2>3. Content'
    BY <2>1, <2>2, ConsumerKeeps DEF Content
  <2> QED BY <2>1, <2>3, <1>s DEF AbstractVars
<1>6. CASE read_first
  <2> DEFINE first == smaller(cons.transfer, buffer_units - index(head))
  <2>1. /\ cons.at = "first"
        /\ cons' = [cons EXCEPT
                      !.data = slice(index(head), first),
                      !.at = IF first < cons.transfer THEN "second"
                             ELSE "advance"]
        /\ UNCHANGED <<head, tail, buffer, prod, delivered>>
    BY <1>6 DEF read_first
  <2>2. /\ first \in Nat /\ first <= buffer_units - index(head)
    BY <1>a, <1>b DEF smaller
  <2> HIDE DEF first
  <2>3. /\ cons'.data = slice(index(head), first)
        /\ cons'.transfer = cons.transfer /\ cons'.at # "idle"
    BY <2>1, <1>a DEF Activity
  <2>4. /\ Len(slice(index(head), first)) = first
        /\ \A k \in 1 .. first :
             slice(index(head), first)[k] = buffer[index(head) + k - 1]
    BY <2>2 DEF slice
  <2>5. ASSUME NEW k \in 0 .. Len(cons'.data) - 1
        PROVE  cons'.data[k + 1] = buffer[slot(head, k)]
    <3>1. /\ k + 1 \in 1 .. first /\ k \in 0 .. buffer_units
          /\ index(head) + k < buffer_units
          /\ index(head) + (k + 1) - 1 = index(head) + k
      BY <2>2, <2>3, <2>4, <1>a, <1>b
    <3>2. slot(head, k) = index(head) + k
      BY <3>1, <1>a, SlotIs
    <3>3. slice(index(head), first)[k + 1] = buffer[index(head) + (k + 1) - 1]
      BY <3>1, <2>4
    <3> QED BY <3>1, <3>2, <3>3, <2>3
  <2>6. Content'
    BY <2>1, <2>3, <2>5, <1>s, ConsumerKeeps DEF Content
  <2> QED BY <2>1, <2>6, <1>s DEF AbstractVars
<1>7. CASE read_second
  <2> DEFINE rest == cons.transfer - (buffer_units - index(head))
             new == slice(0, rest)
  <2>1. /\ cons.at = "second"
        /\ cons' = [cons EXCEPT !.data = cons.data \o new, !.at = "advance"]
        /\ UNCHANGED <<head, tail, buffer, prod, delivered>>
    BY <1>7 DEF read_second
  <2>2. /\ rest \in Nat /\ rest <= buffer_units
        /\ Len(cons.data) = buffer_units - index(head)
        /\ Len(cons.data) + rest <= buffer_units
    BY <2>1, <1>a, <1>b DEF Inv, ProgressOK, ClaimsHold
  <2> HIDE DEF rest
  <2>3. /\ new \in Seq(Units) /\ Len(new) = rest
        /\ \A k \in 1 .. rest : new[k] = buffer[0 + k - 1]
    <3>1. buffer \in [0 .. buffer_units - 1 -> Units]
      BY DEF Inv, TypeOK
    <3>2. new \in Seq(Units) /\ Len(new) = rest
      BY <3>1, <2>2, 0 \in Nat, SliceOK
    <3> QED BY <3>2 DEF slice
  <2> HIDE DEF new
  <2>4. /\ cons'.data = cons.data \o new
        /\ cons'.transfer = cons.transfer /\ cons'.at # "idle"
    BY <2>1, <1>a DEF Activity
  <2>5. /\ Len(cons.data \o new) = Len(cons.data) + rest
        /\ \A k \in 1 .. Len(cons.data) + rest :
             (cons.data \o new)[k] = IF k <= Len(cons.data) THEN cons.data[k]
                                     ELSE new[k - Len(cons.data)]
    BY <2>3, <1>a, ConcatProperties
  <2>n. /\ Len(cons.data) \in Nat /\ rest \in Nat
        /\ index(head) \in 0 .. buffer_units - 1
    BY <2>2, <1>a, <1>b
  <2>o. ASSUME NEW i \in 1 .. Len(cons.data) + rest
        PROVE  (cons.data \o new)[i] = buffer[slot(head, i - 1)]
    <3>1. CASE i <= Len(cons.data)
      <4>1. i - 1 \in 0 .. Len(cons.data) - 1 /\ (i - 1) + 1 = i
        BY <3>1, <2>n
      <4>2. cons.data[(i - 1) + 1] = buffer[slot(head, i - 1)]
        BY <4>1, <2>1 DEF Content
      <4> QED BY <3>1, <4>1, <4>2, <2>5
    <3>2. CASE ~(i <= Len(cons.data))
      <4>1. i \in Nat /\ i - Len(cons.data) \in 1 .. rest
        BY <3>2, <2>n
      <4>2. i - 1 \in 0 .. buffer_units
        BY <4>1, <2>2, <2>n, <1>b
      <4>3. ~(index(head) + (i - 1) < buffer_units)
        BY <4>1, <3>2, <2>2, <2>n, <1>b
      <4>4. slot(head, i - 1) = index(head) + (i - 1) - buffer_units
        BY <4>2, <4>3, <1>a, SlotIs
      <4>5. 0 + (i - Len(cons.data)) - 1 = index(head) + (i - 1) - buffer_units
        BY <4>1, <2>2, <2>n, <1>b
      <4>6. new[i - Len(cons.data)] = buffer[0 + (i - Len(cons.data)) - 1]
        BY <4>1, <2>3
      <4> QED BY <3>2, <4>4, <4>5, <4>6, <2>5
    <3> QED BY <3>1, <3>2
  <2>6. ASSUME NEW k \in 0 .. Len(cons'.data) - 1
        PROVE  cons'.data[k + 1] = buffer[slot(head, k)]
    <3>1. k + 1 \in 1 .. Len(cons.data) + rest /\ (k + 1) - 1 = k
      BY <2>4, <2>5, <2>n
    <3>2. (cons.data \o new)[k + 1] = buffer[slot(head, (k + 1) - 1)]
      BY <3>1, <2>o
    <3> QED BY <3>1, <3>2, <2>4
  <2>7. Content'
    BY <2>1, <2>4, <2>6, <1>s, ConsumerKeeps DEF Content
  <2> QED BY <2>1, <2>7, <1>s DEF AbstractVars
<1>8. CASE queue_advance_head
  <2>1. /\ cons.at = "advance"
        /\ head' = advance(head, smaller(cons.transfer, queue_count))
        /\ delivered' = cons.data /\ cons' = idle
        /\ UNCHANGED <<tail, buffer, prod>>
    BY <1>8 DEF queue_advance_head
  <2>2. /\ smaller(cons.transfer, queue_count) = cons.transfer
        /\ cons.transfer \in 1 .. queue_count
        /\ Len(cons.data) = cons.transfer
    BY <2>1, <1>a DEF Inv, ClaimsHold, ProgressOK, Content, smaller
  <2>3. items' = SubSeq(items, cons.transfer + 1, Len(items))
    BY <2>1, <2>2, HeadStep
  <2>4. cons.data = SubSeq(items, 1, cons.transfer)
    <3> DEFINE front == SubSeq(items, 1, cons.transfer)
    <3>1. /\ front \in Seq(Units) /\ Len(front) = cons.transfer
          /\ \A k \in 1 .. cons.transfer : front[k] = items[k]
      BY <1>a, <2>2
    <3>2. ASSUME NEW k \in 1 .. Len(cons.data) PROVE cons.data[k] = items[k]
      <4>1. /\ k - 1 \in 0 .. Len(cons.data) - 1 /\ (k - 1) + 1 = k
            /\ k \in 1 .. queue_count
        BY <1>a, <2>2
      <4>2. cons.data[(k - 1) + 1] = buffer[slot(head, k - 1)]
        BY <2>1, <4>1 DEF Content
      <4> QED BY <1>a, <4>1, <4>2
    <3> HIDE DEF front
    <3>3. cons.data = front
      BY <1>a, <2>2, <3>1, <3>2, SeqEqual
    <3> QED BY <3>3 DEF front
  <2>5. Abstract!Remove
    BY <2>1, <2>2, <2>3, <2>4, <1>a DEF Abstract!Remove
  <2>6. Content'
    BY <2>1, <1>i, ConsumerKeeps DEF Content
  <2> QED BY <2>5, <2>6 DEF Abstract!Next
<1>9. CASE discard
  <2>1. /\ cons.at = "idle" /\ queue_count > 0
        /\ UNCHANGED <<tail, buffer, prod, cons, delivered>>
    BY <1>9 DEF discard
  <2>2. PICK count \in 1 .. MaxCount :
          head' = advance(head, smaller(count, queue_count))
    BY <1>9 DEF discard
  <2>3. smaller(count, queue_count) \in 1 .. queue_count
    BY <2>1, <1>a DEF smaller
  <2>4. items' = SubSeq(items, smaller(count, queue_count) + 1, Len(items))
    BY <2>1, <2>2, <2>3, HeadStep
  <2>5. Abstract!Discard
    BY <2>1, <2>3, <2>4, <1>a DEF Abstract!Discard
  <2>6. Content'
    BY <2>1, ConsumerKeeps DEF Content
  <2> QED BY <2>5, <2>6 DEF Abstract!Next
<1>10. CASE UNCHANGED vars
  <2>1. UNCHANGED <<head, tail, buffer, prod, cons, delivered>>
    BY <1>10 DEF vars
  <2>2. written' = written
    BY <2>1 DEF written, index
  <2>3. Content'
    BY <2>1, <2>2, <1>s DEF Content
  <2> QED BY <2>1, <2>3, <1>s DEF AbstractVars
<1> QED
  BY <1>1, <1>2, <1>3, <1>4, <1>5, <1>6, <1>7, <1>8, <1>9, <1>10
     DEF Next, Producer, Consumer

\* The queue is a bounded first-in first-out buffer although nobody locks it:
\* what a removal hands over are the oldest units, as they were added.
THEOREM Implements == Spec => IsFifo
<1>1. Init => Inv /\ Content /\ Abstract!Init
  BY InvInit, StartsEmpty
<1>2. Inv /\ Content /\ [Next]_vars
        => Inv' /\ Content' /\ [Abstract!Next]_AbstractVars
  BY InvNext, StepImplements
<1> QED BY <1>1, <1>2, PTL DEF Spec, IsFifo, Abstract!Spec, AbstractVars
=============================================================================
