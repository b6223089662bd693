----------------------------- MODULE RingBuffer -----------------------------
(***************************************************************************)
(* PlatformHandler/ring_buffer.[ch]: a ring is a record of its storage and *)
(* two free-running counters.  head counts what was inserted, tail what    *)
(* was popped; both wrap at Modulus (2^32 in the firmware) and are masked  *)
(* by Size - 1 when they index the storage.  Nothing in the ring itself    *)
(* excludes concurrent use: UartRing adds the callers.                     *)
(***************************************************************************)
EXTENDS Integers, Sequences

CONSTANTS
  Byte,    \* what one slot holds
  Zero,    \* the contents of static storage at reset
  Size,    \* RINGBUFF_T.count: "a power of 2 ... at least 2"
  Half     \* 2^(w-1) for w-bit counters: the firmware's is 2^31

(* A power-of-two Size divides the power of two 2*Half, and the signed     *)
(* result of GetCount can represent Size.                                  *)
ASSUME RingAssumption ==
  /\ Zero \in Byte
  /\ Size \in Nat /\ Size >= 2
  /\ Half \in Nat /\ \E k \in 2 .. Half : Half = k * Size

Modulus == 2 * Half

Ring == [data : [0 .. Size - 1 -> Byte], head : 0 .. Modulus - 1, tail : 0 .. Modulus - 1]

RingBuffer_Init == [data |-> [i \in 0 .. Size - 1 |-> Zero], head |-> 0, tail |-> 0]

(* w-bit unsigned addition and subtraction of counters.                    *)
Advance_NoWrap(counter, n) == counter + n
Advance(counter, n) ==
  IF counter + n < Modulus THEN counter + n ELSE counter + n - Modulus
Behind(a, b) == IF a >= b THEN a - b ELSE a - b + Modulus

(* (int)(head - tail): the w-bit difference read as a signed number.       *)
GetCount(rb) ==
  LET d == Behind(rb.head, rb.tail) IN IF d < Half THEN d ELSE d - Modulus
GetFree(rb) == Size - GetCount(rb)
IsFull(rb)  == GetCount(rb) >= Size
IsEmpty(rb) == rb.head = rb.tail

(* RB_INDH and RB_INDT: "counter & (count - 1)".                           *)
Slot(counter) == counter % Size

Min2(a, b) == IF a < b THEN a ELSE b

(* The first k items from tail on, in the order they are popped.           *)
Oldest(rb, k) == [i \in 1 .. k |-> rb.data[Slot(rb.tail + i - 1)]]
Contents(rb)  == Oldest(rb, GetCount(rb))

(* memcpy of s into the storage from the head's slot on, then head +=      *)
(* Len(s).  A segment of at most GetFree <= Size bytes never runs past the *)
(* end of the storage.  After a torn flush GetFree can exceed Size, and    *)
(* the second segment of a chunk longer than the ring would run past it;   *)
(* Slot keeps the operator total there.                                    *)
FromHead(rb, j) == Slot(j + Size - Slot(rb.head))
Write(rb, s) ==
  [data |-> [j \in 0 .. Size - 1 |->
              IF FromHead(rb, j) < Len(s) THEN s[FromHead(rb, j) + 1] ELSE rb.data[j]],
   head |-> Advance(rb.head, Len(s)),
   tail |-> rb.tail]
Discard(rb, k) == [rb EXCEPT !.tail = Advance(rb.tail, k)]

(* RingBuffer_Insert, for a ring that is not full.                         *)
Insert(rb, b) ==
  [rb EXCEPT !.data[Slot(rb.head)] = b, !.head = Advance(rb.head, 1)]

(* The two segment lengths of RingBuffer_InsertMult and RingBuffer_PopMult *)
(* for n items: up to the end of the storage, then from its start.         *)
FirstSegment(counter, avail, n) ==
  Min2(IF Slot(counter) + avail >= Size THEN Size - Slot(counter) ELSE avail, n)
SecondSegment(counter, avail, n) ==
  LET toEnd == IF Slot(counter) + avail >= Size THEN Size - Slot(counter) ELSE avail
  IN Min2(avail - toEnd, n - FirstSegment(counter, avail, n))
=============================================================================
