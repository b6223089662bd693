---------------------------- MODULE UartFifo_proofs ----------------------------
(***************************************************************************)
(* Both rings of the data UART implement ByteFifo, for every ring size,    *)
(* counter width and set of bytes: what a masked free-running counter      *)
(* reaches, what a segment of a bulk copy does to the bytes held, and each *)
(* step of UartRing as a step of the queue.                                *)
(***************************************************************************)
EXTENDS UartRing_proofs

-----------------------------------------------------------------------------
(* Masking a counter *)

(* A counter is a whole number of revolutions and its slot.                *)
LEMMA SlotQuotient ==
  ASSUME NEW c \in Int
  PROVE  \E q \in Int : c = q * Size + Slot(c)
<1> DEFINE q == c \div Size
<1>1. q \in Int /\ c = Size * q + (c % Size)
  BY HalfBounds
<1> HIDE DEF q
<1>2. c = q * Size + Slot(c)
  BY <1>1, HalfBounds DEF Slot
<1> QED
  BY <1>1, <1>2

LEMMA SlotInt ==
  ASSUME NEW c \in Int
  PROVE  Slot(c) \in 0 .. Size - 1
BY HalfBounds DEF Slot

(* Conversely: what is left below Size after whole revolutions is the slot.*)
LEMMA SlotUnique ==
  ASSUME NEW q \in Int, NEW r \in 0 .. Size - 1
  PROVE  Slot(q * Size + r) = r
<1> DEFINE c == q * Size + r
<1>1. c \in Int
  BY HalfBounds
<1>2. PICK p \in Int : c = p * Size + Slot(c)
  BY <1>1, SlotQuotient
<1>3. Slot(c) \in 0 .. Size - 1
  BY <1>1, SlotInt
<1> DEFINE t == Slot(c)
<1> HIDE DEF t
<1>4. q * Size + r = p * Size + t /\ t \in 0 .. Size - 1
  BY <1>2, <1>3 DEF t
<1>5. (q - p) * Size = t - r
  BY <1>4, HalfBounds
<1>6. q = p
  <2>1. CASE q - p >= 1
    <3>1. (q - p) * Size >= Size
      BY <2>1, HalfBounds
    <3> QED
      BY <1>4, <1>5, <3>1, HalfBounds
  <2>2. CASE p - q >= 1
    <3>1. (p - q) * Size >= Size
      BY <2>2, HalfBounds
    <3>2. (p - q) * Size = r - t
      BY <1>4, HalfBounds
    <3> QED
      BY <1>4, <3>1, <3>2, HalfBounds
  <2> QED
    BY <2>1, <2>2
<1>7. t = r
  BY <1>4, <1>6, HalfBounds
<1> QED
  BY <1>7 DEF t

(* Equal up to whole revolutions: the same slot.                           *)
LEMMA SlotPeriodic ==
  ASSUME NEW c \in Int, NEW m \in Int
  PROVE  Slot(c + m * Size) = Slot(c)
<1>1. PICK q \in Int : c = q * Size + Slot(c)
  BY SlotQuotient
<1>2. Slot(c) \in 0 .. Size - 1
  BY SlotInt
<1>3. c + m * Size = (q + m) * Size + Slot(c)
  BY <1>1, <1>2, HalfBounds
<1> QED
  BY <1>2, <1>3, SlotUnique

(* The wrap of the counters is not seen by the slots: Size divides Modulus.*)
LEMMA SlotAdvance ==
  ASSUME NEW c \in 0 .. Modulus - 1, NEW n \in 0 .. Size, NEW i \in Int
  PROVE  Slot(Advance(c, n) + i) = Slot(c + n + i)
<1>1. PICK k \in 2 .. Half : Half = k * Size
  BY RingAssumption
<1> DEFINE m == -2 * k
<1>2. m \in Int /\ c + n + i \in Int
  BY <1>1, HalfBounds
<1>3. c + n + i - Modulus = (c + n + i) + m * Size
  BY <1>1, HalfBounds DEF Modulus
<1> HIDE DEF m
<1>4. Slot((c + n + i) + m * Size) = Slot(c + n + i)
  BY <1>2, SlotPeriodic
<1>5. Advance(c, n) + i \in {c + n + i, c + n + i - Modulus}
  BY HalfBounds DEF Advance
<1> QED
  BY <1>3, <1>4, <1>5

(* The masked distance between two counters is what separates them, up to  *)
(* a revolution.                                                           *)
LEMMA SlotDistance ==
  ASSUME NEW x \in Int, NEW y \in Int
  PROVE  Slot(Slot(x) + Size - Slot(y)) = Slot(x - y)
<1>1. PICK a \in Int : x = a * Size + Slot(x)
  BY SlotQuotient
<1>2. PICK b \in Int : y = b * Size + Slot(y)
  BY SlotQuotient
<1> DEFINE m == b - a + 1
           sx == Slot(x)
           sy == Slot(y)
<1>3. m \in Int /\ x - y \in Int /\ sx \in Int /\ sy \in Int
  BY SlotInt, HalfBounds
<1>4. x = a * Size + sx /\ y = b * Size + sy
  BY <1>1, <1>2
<1> HIDE DEF sx, sy
<1>5. sx + Size - sy = (x - y) + m * Size
  BY <1>3, <1>4, HalfBounds
<1> HIDE DEF m
<1>6. Slot((x - y) + m * Size) = Slot(x - y)
  BY <1>3, SlotPeriodic
<1> QED
  BY <1>5, <1>6 DEF sx, sy

-----------------------------------------------------------------------------
(* What a ring holds *)

(* The head is as far ahead of the tail as the count says.                 *)
LEMMA HeadAhead ==
  ASSUME NEW rb \in Ring, GetCount(rb) \in 0 .. Size
  PROVE  rb.head = Advance(rb.tail, GetCount(rb))
<1>1. rb.head \in 0 .. Modulus - 1 /\ rb.tail \in 0 .. Modulus - 1
  BY DEF Ring
<1> QED
  BY <1>1, HalfBounds DEF GetCount, Behind, Advance, Modulus

(* Seen from the head, the free slots come first and the items held after  *)
(* them.                                                                   *)
LEMMA FromHeadSlot ==
  ASSUME NEW rb \in Ring, GetCount(rb) \in 0 .. Size, NEW i \in 1 .. Size
  PROVE  FromHead(rb, Slot(rb.tail + i - 1))
           = IF i <= GetCount(rb) THEN Size + i - 1 - GetCount(rb) ELSE i - 1 - GetCount(rb)
<1> DEFINE n == GetCount(rb)
           d == i - 1 - n
<1>1. rb.tail \in 0 .. Modulus - 1 /\ rb.tail \in Int /\ n \in 0 .. Size /\ n \in Int
  BY HalfBounds DEF Ring
<1>2. Slot(rb.head) = Slot(rb.tail + n)
  <2>1. rb.head + 0 = rb.head /\ rb.tail + n + 0 = rb.tail + n
    BY <1>1, HalfBounds DEF Ring
  <2>2. Slot(Advance(rb.tail, n) + 0) = Slot(rb.tail + n + 0)
    BY <1>1, SlotAdvance
  <2>3. rb.head = Advance(rb.tail, n)
    BY HeadAhead
  <2> QED
    BY <2>1, <2>2, <2>3
<1> HIDE DEF n
<1>3. /\ rb.tail + i - 1 \in Int /\ rb.tail + n \in Int
      /\ (rb.tail + i - 1) - (rb.tail + n) = d
  BY <1>1
<1>4. FromHead(rb, Slot(rb.tail + i - 1)) = Slot(d)
  BY <1>2, <1>3, SlotDistance DEF FromHead
<1>5. CASE i <= n
  <2>1. d = (-1) * Size + (Size + d) /\ Size + d \in 0 .. Size - 1
    BY <1>1, <1>5, HalfBounds
  <2> HIDE DEF d
  <2>2. Slot((-1) * Size + (Size + d)) = Size + d
    BY <2>1, SlotUnique
  <2>3. Slot(d) = Size + d
    BY <2>1, <2>2
  <2> QED
    BY <1>1, <1>4, <1>5, <2>3, HalfBounds DEF d, n
<1>6. CASE ~(i <= n)
  <2>1. d = 0 * Size + d /\ d \in 0 .. Size - 1
    BY <1>1, <1>6, HalfBounds
  <2> HIDE DEF d
  <2>2. Slot(0 * Size + d) = d
    BY <2>1, SlotUnique
  <2>3. Slot(d) = d
    BY <2>1, <2>2
  <2> QED
    BY <1>4, <1>6, <2>3 DEF d, n
<1> QED
  BY <1>5, <1>6

LEMMA ContentsSeq ==
  ASSUME NEW rb \in Ring, GetCount(rb) \in 0 .. Size
  PROVE  /\ Contents(rb) \in Seq(Byte)
         /\ Len(Contents(rb)) = GetCount(rb)
         /\ \A i \in 1 .. GetCount(rb) : Contents(rb)[i] = rb.data[Slot(rb.tail + i - 1)]
<1> DEFINE n == GetCount(rb)
<1>1. n \in Nat
  BY HalfBounds
<1> HIDE DEF n
<1>2. Oldest(rb, n) \in Seq(Byte)
  BY <1>1, OldestSeq
<1>3. DOMAIN Oldest(rb, n) = 1 .. n
  BY DEF Oldest
<1>4. Len(Oldest(rb, n)) = n
  BY <1>1, <1>2, <1>3, LenProperties
<1>5. \A i \in 1 .. n : Oldest(rb, n)[i] = rb.data[Slot(rb.tail + i - 1)]
  BY DEF Oldest
<1> QED
  BY <1>2, <1>4, <1>5 DEF Contents, n

(* The k oldest items are a prefix of what is held.                        *)
LEMMA OldestIsPrefix ==
  ASSUME NEW rb \in Ring, GetCount(rb) \in 0 .. Size, NEW k \in 0 .. GetCount(rb)
  PROVE  Oldest(rb, k) = SubSeq(Contents(rb), 1, k)
<1> DEFINE n == GetCount(rb)
           q == Contents(rb)
           o == Oldest(rb, k)
<1>1. n \in Nat /\ k \in Nat /\ k <= n
  BY HalfBounds
<1>2. q \in Seq(Byte) /\ Len(q) = n /\ \A i \in 1 .. n : q[i] = rb.data[Slot(rb.tail + i - 1)]
  BY ContentsSeq
<1>3. o \in Seq(Byte) /\ DOMAIN o = 1 .. k
      /\ \A i \in 1 .. k : o[i] = rb.data[Slot(rb.tail + i - 1)]
  BY <1>1, OldestSeq DEF Oldest
<1> HIDE DEF n, q, o
<1>4. Len(o) = k
  BY <1>1, <1>3, LenProperties
<1>5. \A i \in 1 .. k : q[i] \in Byte
  BY <1>1, <1>2, ElementOfSeq
<1> DEFINE r == SubSeq(q, 1, k)
<1>6. /\ r \in Seq(Byte) /\ Len(r) = IF 1 <= k THEN k - 1 + 1 ELSE 0
      /\ \A i \in 1 .. k - 1 + 1 : r[i] = q[1 + i - 1]
  BY <1>1, <1>5, SubSeqProperties
<1> HIDE DEF r
<1>7. Len(r) = k
  BY <1>1, <1>6
<1>8. ASSUME NEW i \in 1 .. k
      PROVE  o[i] = r[i]
  <2>1. 1 + i - 1 = i /\ i \in 1 .. k - 1 + 1 /\ i \in 1 .. n
    BY <1>1
  <2>2. r[i] = q[i]
    BY <1>6, <2>1
  <2> QED
    BY <1>2, <1>3, <2>1, <2>2
<1>9. o = r
  BY <1>3, <1>4, <1>6, <1>7, <1>8, SeqEqual
<1> QED
  BY <1>9 DEF o, q, r

(* Popping k items leaves the others, in their order.                      *)
LEMMA ContentsDiscard ==
  ASSUME NEW rb \in Ring, GetCount(rb) \in 0 .. Size, NEW k \in 0 .. GetCount(rb)
  PROVE  Contents(Discard(rb, k)) = SubSeq(Contents(rb), k + 1, Len(Contents(rb)))
<1> DEFINE n == GetCount(rb)
           q == Contents(rb)
           rb2 == Discard(rb, k)
           q2 == Contents(rb2)
           r == SubSeq(q, k + 1, n)
<1>1. n \in 0 .. Size /\ n \in Nat /\ k \in 0 .. n /\ k \in 0 .. Size
  BY HalfBounds
<1>2. q \in Seq(Byte) /\ Len(q) = n /\ \A i \in 1 .. n : q[i] = rb.data[Slot(rb.tail + i - 1)]
  BY ContentsSeq
<1>3. rb2 \in Ring /\ rb2.head = rb.head /\ rb2.tail = Advance(rb.tail, k) /\ rb2.data = rb.data
  BY <1>1, DiscardRing DEF Discard, Ring
<1>4. GetCount(rb2) = n - k
  BY <1>1, <1>3, CountAfterDiscard
<1>5. n - k \in 0 .. Size
  BY <1>1, HalfBounds
<1>6. q2 \in Seq(Byte) /\ Len(q2) = n - k
      /\ \A i \in 1 .. n - k : q2[i] = rb.data[Slot(Advance(rb.tail, k) + i - 1)]
  BY <1>3, <1>4, <1>5, ContentsSeq
<1> HIDE DEF n, q, rb2, q2
<1>7. \A i \in k + 1 .. n : q[i] \in Byte
  BY <1>1, <1>2, ElementOfSeq
<1>8. /\ r \in Seq(Byte) /\ Len(r) = n - k
      /\ \A i \in 1 .. n - k : r[i] = q[k + i]
  <2>1. /\ r \in Seq(Byte) /\ Len(r) = IF k + 1 <= n THEN n - (k + 1) + 1 ELSE 0
        /\ \A i \in 1 .. n - (k + 1) + 1 : r[i] = q[k + 1 + i - 1]
    BY <1>1, <1>7, SubSeqProperties
  <2>2. ASSUME NEW i \in 1 .. n - k
        PROVE  k + 1 + i - 1 = k + i /\ i \in 1 .. n - (k + 1) + 1
    BY <1>1
  <2> HIDE DEF r
  <2> QED
    BY <1>1, <2>1, <2>2
<1> HIDE DEF r
<1>9. ASSUME NEW i \in 1 .. n - k
      PROVE  q2[i] = r[i]
  <2>1. Slot(Advance(rb.tail, k) + (i - 1)) = Slot(rb.tail + k + (i - 1))
    BY <1>1, SlotAdvance DEF Ring
  <2>2. /\ Advance(rb.tail, k) + (i - 1) = Advance(rb.tail, k) + i - 1
        /\ rb.tail + k + (i - 1) = rb.tail + (k + i) - 1
    BY <1>1, AdvanceType, HalfBounds DEF Ring
  <2>3. k + i \in 1 .. n
    BY <1>1
  <2>4. q[k + i] = rb.data[Slot(rb.tail + (k + i) - 1)]
    BY <1>2, <2>3
  <2> QED
    BY <1>6, <1>8, <2>1, <2>2, <2>4
<1>10. q2 = r
  BY <1>6, <1>8, <1>9, SeqEqual
<1> QED
  BY <1>2, <1>10 DEF q2, q, r, rb2

(* memcpy of a segment into the free slots adds it behind what is held.    *)
LEMMA ContentsWrite ==
  ASSUME NEW rb \in Ring, GetCount(rb) \in 0 .. Size, NEW s \in Seq(Byte),
         GetCount(rb) + Len(s) <= Size
  PROVE  Contents(Write(rb, s)) = Contents(rb) \o s
<1> DEFINE n == GetCount(rb)
           m == Len(s)
           q == Contents(rb)
           rb2 == Write(rb, s)
           q2 == Contents(rb2)
<1>1. n \in 0 .. Size /\ n \in Nat /\ m \in Nat /\ n + m <= Size /\ m \in 0 .. Size
      /\ n + m \in 0 .. Size /\ m \in 0 .. Modulus - 1
  BY HalfBounds DEF Modulus
<1>2. q \in Seq(Byte) /\ Len(q) = n /\ \A i \in 1 .. n : q[i] = rb.data[Slot(rb.tail + i - 1)]
  BY ContentsSeq
<1>3. /\ rb2 \in Ring /\ rb2.tail = rb.tail /\ rb2.head = Advance(rb.head, m)
      /\ \A j \in 0 .. Size - 1 : rb2.data[j] = IF FromHead(rb, j) < Len(s)
                                               THEN s[FromHead(rb, j) + 1] ELSE rb.data[j]
  BY <1>1, WriteRing DEF Write
<1>4. GetCount(rb2) = n + m
  BY <1>1, <1>3, CountAfterInsert
<1>5. q2 \in Seq(Byte) /\ Len(q2) = n + m
      /\ \A i \in 1 .. n + m : q2[i] = rb2.data[Slot(rb.tail + i - 1)]
  BY <1>1, <1>3, <1>4, ContentsSeq
<1>6. /\ q \o s \in Seq(Byte) /\ Len(q \o s) = n + m
      /\ \A i \in 1 .. n + m : (q \o s)[i] = IF i <= n THEN q[i] ELSE s[i - n]
  <2> HIDE DEF n, q
  <2> QED
    BY <1>2, ConcatProperties
<1>7. ASSUME NEW i \in 1 .. n + m
      PROVE  /\ FromHead(rb, Slot(rb.tail + i - 1)) = IF i <= n THEN Size + i - 1 - n ELSE i - 1 - n
             /\ Slot(rb.tail + i - 1) \in 0 .. Size - 1
  <2>1. i \in 1 .. Size
    BY <1>1, HalfBounds
  <2>2. rb.tail + i - 1 \in Int
    BY HalfBounds DEF Ring
  <2> QED
    BY <2>1, <2>2, FromHeadSlot, SlotInt
<1> HIDE DEF n, m, q, rb2, q2
<1>8. ASSUME NEW i \in 1 .. n + m
      PROVE  q2[i] = (q \o s)[i]
  <2> DEFINE j == Slot(rb.tail + i - 1)
  <2>1. j \in 0 .. Size - 1 /\ q2[i] = rb2.data[j] /\ m = Len(s)
        /\ FromHead(rb, j) = IF i <= n THEN Size + i - 1 - n ELSE i - 1 - n
    BY <1>5, <1>7 DEF m
  <2>2. i <= n => q[i] = rb.data[j]
    BY <1>1, <1>2
  <2> HIDE DEF j
  <2> DEFINE d == FromHead(rb, j)
  <2>3. n \in Nat /\ m \in Nat /\ n + m <= Size /\ Size \in Nat /\ i \in 1 .. n + m
    BY <1>1, HalfBounds
  <2>4. d = IF i <= n THEN Size + i - 1 - n ELSE i - 1 - n
    BY <2>1
  <2> HIDE DEF d
  <2>5. (i <= n => ~(d < m)) /\ (~(i <= n) => d < m /\ d + 1 = i - n)
    BY <2>3, <2>4
  <2>6. CASE i <= n
    <3>1. ~(FromHead(rb, j) < Len(s))
      BY <2>1, <2>6, <2>5 DEF d
    <3>2. rb2.data[j] = rb.data[j]
      BY <1>3, <2>1, <3>1
    <3> QED
      BY <1>6, <2>1, <2>2, <2>6, <3>2
  <2>7. CASE ~(i <= n)
    <3>1. FromHead(rb, j) < Len(s) /\ FromHead(rb, j) + 1 = i - n
      BY <2>1, <2>7, <2>5 DEF d
    <3>2. rb2.data[j] = s[i - n]
      BY <1>3, <2>1, <3>1
    <3> QED
      BY <1>6, <2>1, <2>7, <3>2
  <2> QED
    BY <2>6, <2>7
<1>9. q2 = q \o s
  BY <1>5, <1>6, <1>8, SeqEqual
<1> QED
  BY <1>9 DEF q2, q, rb2

(* The handler's insert is a segment of one item.                          *)
LEMMA InsertIsWrite ==
  ASSUME NEW rb \in Ring, NEW b \in Byte
  PROVE  Insert(rb, b) = Write(rb, <<b>>)
<1> DEFINE h == Slot(rb.head)
<1>1. h \in 0 .. Size - 1
  BY SlotInt, HalfBounds DEF Ring
<1>2. Len(<<b>>) = 1 /\ <<b>>[1] = b
  OBVIOUS
<1>3. ASSUME NEW j \in 0 .. Size - 1
      PROVE  FromHead(rb, j) = IF j < h THEN j - h + Size ELSE j - h
  <2>1. FromHead(rb, j) = Slot(j + Size - h)
    BY DEF FromHead
  <2> HIDE DEF h
  <2>2. CASE j < h
    <3>1. j + Size - h \in 0 .. Size - 1 /\ j + Size - h = 0 * Size + (j + Size - h)
      BY <1>1, <2>2, HalfBounds
    <3>2. Slot(0 * Size + (j + Size - h)) = j + Size - h
      BY <3>1, SlotUnique
    <3> QED
      BY <1>1, <2>1, <2>2, <3>1, <3>2, HalfBounds
  <2>3. CASE ~(j < h)
    <3>1. j - h \in 0 .. Size - 1 /\ j + Size - h = 1 * Size + (j - h)
      BY <1>1, <2>3, HalfBounds
    <3>2. Slot(1 * Size + (j - h)) = j - h
      BY <3>1, SlotUnique
    <3> QED
      BY <1>1, <2>1, <2>3, <3>1, <3>2, HalfBounds
  <2> QED
    BY <2>2, <2>3
<1>4. ASSUME NEW j \in 0 .. Size - 1
      PROVE  (IF FromHead(rb, j) < Len(<<b>>) THEN <<b>>[FromHead(rb, j) + 1] ELSE rb.data[j])
               = [rb.data EXCEPT ![h] = b][j]
  <2> HIDE DEF h
  <2>1. CASE j = h
    <3>1. FromHead(rb, j) = 0
      BY <1>1, <1>3, <2>1
    <3>2. [rb.data EXCEPT ![h] = b][j] = b
      BY <1>1, <2>1 DEF Ring
    <3> QED
      BY <1>2, <3>1, <3>2
  <2>2. CASE j # h
    <3>1. FromHead(rb, j) \in Int /\ FromHead(rb, j) >= 1
      BY <1>1, <1>3, <2>2, HalfBounds
    <3>2. [rb.data EXCEPT ![h] = b][j] = rb.data[j]
      BY <2>2 DEF Ring
    <3> QED
      BY <1>2, <3>1, <3>2
  <2> QED
    BY <2>1, <2>2
<1>5. [j \in 0 .. Size - 1 |->
         IF FromHead(rb, j) < Len(<<b>>) THEN <<b>>[FromHead(rb, j) + 1] ELSE rb.data[j]]
        = [rb.data EXCEPT ![h] = b]
  <2>1. [rb.data EXCEPT ![h] = b] = [j \in 0 .. Size - 1 |-> [rb.data EXCEPT ![h] = b][j]]
    BY DEF Ring
  <2> QED
    BY <1>4, <2>1
<1>6. Insert(rb, b) = [data |-> [rb.data EXCEPT ![h] = b], head |-> Advance(rb.head, 1),
                       tail |-> rb.tail]
  <2>1. rb = [data |-> rb.data, head |-> rb.head, tail |-> rb.tail]
    BY DEF Ring
  <2>2. Insert(rb, b) = [rb EXCEPT !.data = [rb.data EXCEPT ![h] = b],
                                   !.head = Advance(rb.head, 1)]
    BY <2>1 DEF Insert
  <2> QED
    BY <2>1, <2>2
<1> QED
  BY <1>2, <1>5, <1>6 DEF Write

(* An empty segment changes nothing.                                       *)
LEMMA DiscardNone ==
  ASSUME NEW rb \in Ring
  PROVE  Discard(rb, 0) = rb
<1>1. Advance(rb.tail, 0) = rb.tail
  BY HalfBounds DEF Advance, Ring
<1> QED
  BY <1>1 DEF Discard, Ring

LEMMA WriteNone ==
  ASSUME NEW rb \in Ring, NEW s \in Seq(Byte), Len(s) = 0
  PROVE  Write(rb, s) = rb
<1>1. Advance(rb.head, 0) = rb.head
  BY HalfBounds DEF Advance, Ring
<1>2. ASSUME NEW j \in 0 .. Size - 1
      PROVE  ~(FromHead(rb, j) < Len(s))
  <2>1. rb.head \in Int
    BY HalfBounds DEF Ring
  <2>2. Slot(rb.head) \in 0 .. Size - 1
    BY <2>1, SlotInt
  <2>3. j + Size - Slot(rb.head) \in Int
    BY <2>2, HalfBounds
  <2> QED
    BY <2>3, SlotInt, HalfBounds DEF FromHead
<1>3. [j \in 0 .. Size - 1 |->
         IF FromHead(rb, j) < Len(s) THEN s[FromHead(rb, j) + 1] ELSE rb.data[j]] = rb.data
  BY <1>2 DEF Ring
<1>4. rb = [data |-> rb.data, head |-> rb.head, tail |-> rb.tail]
  BY DEF Ring
<1> QED
  BY <1>1, <1>3, <1>4 DEF Write

(* A ring whose counters are both zero holds nothing.                      *)
LEMMA ZeroedIsEmpty ==
  ASSUME NEW rb \in Ring, rb.head = 0, rb.tail = 0
  PROVE  Contents(rb) = <<>>
<1>1. GetCount(rb) = 0
  BY HalfBounds DEF GetCount, Behind
<1>2. GetCount(rb) \in 0 .. Size
  BY <1>1, HalfBounds
<1> QED
  BY <1>1, <1>2, ContentsSeq, EmptySeq

(* The oldest item by itself.                                              *)
LEMMA OldestAlone ==
  ASSUME NEW q \in Seq(Byte), Len(q) \in Nat \ {0}
  PROVE  SubSeq(q, 1, 1) = <<q[1]>> /\ 1 \in 1 .. Len(q)
<1> DEFINE a == SubSeq(q, 1, 1)
           b == <<q[1]>>
<1>1. 1 \in 1 .. Len(q) /\ q[1] \in Byte /\ \A i \in 1 .. 1 : q[i] \in Byte
  BY ElementOfSeq
<1>2. /\ a \in Seq(Byte) /\ Len(a) = IF 1 <= 1 THEN 1 - 1 + 1 ELSE 0
      /\ \A i \in 1 .. 1 - 1 + 1 : a[i] = q[1 + i - 1]
  BY <1>1, SubSeqProperties
<1>3. b \in Seq(Byte) /\ Len(b) = 1 /\ b[1] = q[1]
  BY <1>1
<1> HIDE DEF a, b
<1>4. Len(a) = Len(b) /\ \A i \in 1 .. Len(a) : a[i] = b[i]
  BY <1>2, <1>3
<1>5. a = b
  BY <1>2, <1>3, <1>4, SeqEqual
<1> QED
  BY <1>1, <1>5 DEF a, b

-----------------------------------------------------------------------------
(* The one step at which a ring may lose bytes it holds, and loses all.    *)
FlushBegins(ring) == FlushFirst /\ flush'.ring = ring

-----------------------------------------------------------------------------
(* The transmit ring *)

TxBar == <<TxHeld, TxOut>>

(* A step on which no byte that the transmit ring holds is lost.           *)
TxKeeps == TxFifo!Put \/ TxFifo!Take \/ TxFifo!Forget \/ UNCHANGED TxBar

(* A segment of UART_write's copy: bytes enter, or nothing happens.        *)
LEMMA TxPut ==
  ASSUME IInv, TxInv, pc # "flush", pc' # "flush", NEW s \in Seq(Byte),
         GetCount(tx) + Len(s) <= Size, tx' = Write(tx, s),
         tdr' = tdr, torn' = torn, torn # "ring"
  PROVE  TxKeeps
<1>1. tx \in Ring /\ GetCount(tx) \in 0 .. Size /\ Len(s) \in Nat
  BY DEF IInv, TypeOK, TxInv, TxInRange, Flushing
<1>2. TxHeld = Contents(tx) /\ TxHeld' = Contents(tx')
  BY DEF TxHeld, TxWhole, Flushing
<1> TxOut' = TxOut
  BY DEF TxOut
<1>3. CASE Len(s) = 0
  BY <1>1, <1>2, <1>3, WriteNone DEF TxKeeps, TxBar
<1>4. CASE Len(s) # 0
  <2>1. Contents(tx') = Contents(tx) \o s
    BY <1>1, ContentsWrite
  <2>2. s \in [1 .. Len(s) -> Byte] /\ Len(s) \in 1 .. Size
    BY <1>1, <1>4, LenProperties, HalfBounds
  <2>3. s \in TxFifo!Chunks
    BY <2>2 DEF TxFifo!Chunks
  <2>4. Len(Contents(tx)) + Len(s) <= Size
    BY <1>1, ContentsSeq
  <2>5. TxFifo!Put
    BY <1>2, <2>1, <2>3, <2>4 DEF TxFifo!Put
  <2> QED
    BY <2>5 DEF TxKeeps
<1> QED
  BY <1>3, <1>4

(* The handler: the oldest byte leaves into the data register.             *)
LEMMA TxTake ==
  ASSUME IInv, TxInv, ~TxFlushHit, TxIrq, ~IsEmpty(tx), UNCHANGED <<pc, flush>>,
         torn = "no", torn' = "no",
         tdr' = tx.data[Slot(tx.tail)], tx' = Discard(tx, 1)
  PROVE  TxKeeps
<1>1. tx \in Ring /\ GetCount(tx) \in 0 .. Size /\ tdr = None
  BY DEF IInv, TypeOK, TxInv, TxInRange, TxIrq, TxFlushHit
<1>2. 1 \in 0 .. GetCount(tx) /\ 1 \in 1 .. GetCount(tx)
  BY <1>1, EmptyIsCountZero
<1> DEFINE q == Contents(tx)
<1>3. TxHeld = q /\ TxHeld' = Contents(tx')
  BY DEF TxHeld, TxWhole, Flushing, TxFlushHit
<1>4. /\ q \in Seq(Byte) /\ Len(q) = GetCount(tx)
      /\ q[1] = tx.data[Slot(tx.tail + 1 - 1)]
  BY <1>1, <1>2, ContentsSeq
<1>5. Contents(tx') = SubSeq(q, 1 + 1, Len(q))
  BY <1>1, <1>2, ContentsDiscard
<1> HIDE DEF q
<1>6. tdr' = q[1] /\ q[1] \in Byte
  <2>1. tx.tail + 1 - 1 = tx.tail
    BY <1>1, HalfBounds DEF Ring
  <2> QED
    BY <1>2, <1>4, <2>1, ElementOfSeq
<1>7. SubSeq(q, 1, 1) = <<q[1]>> /\ 1 \in 1 .. Len(q)
  <2>1. Len(q) \in Nat \ {0}
    BY <1>2, <1>4
  <2> QED
    BY <1>4, <2>1, OldestAlone
<1>8. tdr' # None
  BY <1>6, UartAssumption
<1>9. <<tdr'>> = <<>> \o SubSeq(q, 1, 1)
  BY <1>6, <1>7
<1>10. TxOut = <<>> /\ TxOut' = <<tdr'>>
  BY <1>1, <1>8 DEF TxOut
<1>11. TxFifo!Take
  BY <1>3, <1>5, <1>7, <1>9, <1>10 DEF TxFifo!Take
<1> QED
  BY <1>11 DEF TxKeeps

(* RingBuffer_Flush of a whole ring: the first store drops what is held,   *)
(* the second leaves an empty ring.                                        *)
LEMMA TxDrop ==
  ASSUME IInv, TxInv, torn # "ring", FlushFirst \/ FlushSecond
  PROVE  TxKeeps \/ (FlushBegins("tx") /\ TxFifo!Drop)
<1>1. tx \in Ring /\ tdr' = tdr /\ torn' # "ring" /\ TxOut' = TxOut
  BY DEF IInv, TypeOK, FlushFirst, FlushSecond, StoreZero, hardware, TxOut
<1>2. CASE FlushFirst
  <2>1. PICK ring \in {"tx", "rx"}, f \in {"head", "tail"} :
          StoreZero(ring, f) /\ flush'.ring = ring
    BY <1>2, UartAssumption DEF FlushFirst
  <2>2. pc = "idle" /\ pc' = "flush" /\ TxHeld = Contents(tx)
    BY <1>2 DEF FlushFirst, TxHeld, TxWhole, Flushing
  <2>3. CASE ring = "rx"
    <3>1. tx' = tx /\ TxHeld' = Contents(tx')
      BY <1>1, <2>1, <2>3 DEF StoreZero, TxHeld, TxWhole, Flushing
    <3> QED
      BY <1>1, <2>2, <3>1 DEF TxKeeps, TxBar
  <2>4. CASE ring = "tx"
    <3>1. TxHeld' = <<>>
      BY <2>1, <2>2, <2>4 DEF TxHeld, TxWhole, Flushing
    <3>2. TxHeld \in Seq(Byte)
      <4>1. GetCount(tx) \in 0 .. Size
        BY <2>2 DEF TxInv, TxInRange, Flushing
      <4> QED
        BY <1>1, <2>2, <4>1, ContentsSeq
    <3>3. CASE TxHeld = <<>>
      BY <1>1, <3>1, <3>3 DEF TxKeeps, TxBar
    <3>4. CASE TxHeld # <<>>
      <4>1. Len(TxHeld) \in 1 .. Len(TxHeld)
        BY <3>2, <3>4, EmptySeq
      <4>2. SubSeq(TxHeld, Len(TxHeld) + 1, Len(TxHeld)) = <<>>
        BY <4>1, SubSeqEmpty
      <4>3. TxFifo!Drop
        BY <1>1, <3>1, <4>1, <4>2 DEF TxFifo!Drop
      <4> QED
        BY <1>2, <2>1, <2>4, <4>3 DEF FlushBegins
    <3> QED
      BY <3>3, <3>4
  <2> QED
    BY <2>3, <2>4
<1>3. CASE FlushSecond
  <2>1. /\ StoreZero(flush.ring, flush.left) /\ pc = "flush" /\ pc' = "idle"
        /\ flush.left \in {"head", "tail"} /\ flush.ring \in {"tx", "rx"}
    BY <1>3 DEF FlushSecond, IInv, HalfFlush
  <2>2. TxHeld' = Contents(tx')
    BY <1>1, <2>1 DEF TxHeld, TxWhole, Flushing
  <2>3. CASE flush.ring = "rx"
    <3>1. tx' = tx /\ TxHeld = Contents(tx)
      BY <2>1, <2>3 DEF StoreZero, TxHeld, TxWhole, Flushing
    <3> QED
      BY <1>1, <2>2, <3>1 DEF TxKeeps, TxBar
  <2>4. CASE flush.ring = "tx"
    <3>1. tx' \in Ring /\ tx'.head = 0 /\ tx'.tail = 0
      <4>1. tx' = [tx EXCEPT ![flush.left] = 0] /\ 0 \in 0 .. Modulus - 1
        BY <2>1, <2>4, HalfBounds DEF StoreZero, Zeroed, Modulus
      <4> QED
        BY <1>1, <2>1, <2>4, <4>1 DEF TxInv, TxHalfFlush, Flushing, Ring
    <3>2. TxHeld' = <<>> /\ TxHeld = <<>>
      BY <2>1, <2>2, <2>4, <3>1, ZeroedIsEmpty DEF TxHeld, TxWhole, Flushing
    <3> QED
      BY <1>1, <3>2 DEF TxKeeps, TxBar
  <2> QED
    BY <2>1, <2>3, <2>4
<1> QED
  BY <1>2, <1>3

LEMMA TxWholeStep ==
  ASSUME IInv, TxUnlessTorn, torn # "ring", ~TxFlushHit, [Next]_vars
  PROVE  TxKeeps \/ (FlushBegins("tx") /\ TxFifo!Drop)
<1> USE DEF TxUnlessTorn
<1>1. ASSUME UNCHANGED <<tx, tdr, torn>>, Flushing("tx")' <=> Flushing("tx")
      PROVE  TxKeeps
  BY <1>1 DEF TxKeeps, TxBar, TxHeld, TxOut, TxWhole
<1>2. CASE Isr
  <2>1. UNCHANGED <<pc, flush, torn>>
    BY <1>2 DEF Isr, locals
  <2>2. CASE TxIrq /\ ~IsEmpty(tx)
    <3>1. torn = "no"
      BY <2>2 DEF TxIrq, TxByte, IInv, TypeOK
    <3> QED
      BY <1>2, <2>1, <2>2, <3>1, TxTake DEF Isr, ServeTx
  <2>3. CASE ~(TxIrq /\ ~IsEmpty(tx))
    BY <1>1, <1>2, <2>1, <2>3 DEF Isr, ServeTx, Flushing
  <2> QED
    BY <2>2, <2>3
<1>3. CASE TxShift
  <2>1. TxOut' = <<>> /\ TxHeld' = TxHeld
    BY <1>3 DEF TxShift, TxHeld, TxOut, TxWhole, Flushing, locals
  <2>2. TxFifo!Forget
    BY <2>1 DEF TxFifo!Forget
  <2> QED
    BY <2>2 DEF TxKeeps
<1>4. CASE TxSegment1 \/ TxSegment2
  <2>1. /\ tx \in Ring /\ GetCount(tx) \in 0 .. Size /\ todo \in Seq(Byte) /\ Len(todo) \in Nat
        /\ pc # "flush" /\ pc' # "flush" /\ tdr' = tdr /\ torn' = torn
    BY <1>4 DEF TxSegment1, TxSegment2, At, hardware, IInv, TypeOK, TxInv, TxInRange, Flushing
  <2>2. GetFree(tx) \in Nat /\ GetFree(tx) = Size - GetCount(tx) /\ tx.head \in 0 .. Modulus - 1
    BY <2>1, HalfBounds DEF GetFree, Ring
  <2>3. ASSUME NEW n \in Nat, n <= Len(todo), n <= GetFree(tx),
               tx' = Write(tx, SubSeq(todo, 1, n))
        PROVE  TxKeeps
    <3> DEFINE s == SubSeq(todo, 1, n)
    <3>1. s \in Seq(Byte) /\ Len(s) = n
      BY <2>1, <2>3, SubSeqProperties, ElementOfSeq
    <3>2. GetCount(tx) + n <= Size
      BY <2>1, <2>2, <2>3, HalfBounds
    <3> HIDE DEF s
    <3>3. tx' = Write(tx, s)
      BY <2>3 DEF s
    <3> QED
      BY <2>1, <3>1, <3>2, <3>3, TxPut
  <2>4. CASE TxSegment1 /\ IsFull(tx)
    BY <1>1, <2>1, <2>4 DEF TxSegment1, Flushing
  <2>5. CASE TxSegment1 /\ ~IsFull(tx)
    <3> DEFINE n1 == FirstSegment(tx.head, GetFree(tx), Len(todo))
    <3>1. n1 \in 0 .. Len(todo) /\ n1 <= GetFree(tx)
      BY <2>1, <2>2, SegmentBounds
    <3>2. tx' = Write(tx, SubSeq(todo, 1, n1))
      BY <2>5 DEF TxSegment1
    <3> HIDE DEF n1
    <3> QED
      BY <2>1, <2>3, <3>1, <3>2
  <2>6. CASE TxSegment2
    <3>1. /\ second \in Nat /\ second <= GetFree(tx) /\ second <= Len(todo)
          /\ tx' = Write(tx, SubSeq(todo, 1, second))
      BY <2>6, ChunkBounds
      DEF TxSegment2, At, IInv, TypeOK, CopyFits, TxInv, TxSegmentFits
    <3> QED
      BY <2>3, <3>1
  <2> QED
    BY <1>4, <2>4, <2>5, <2>6
<1>5. CASE FlushFirst \/ FlushSecond
  BY <1>5, TxDrop
<1>6. CASE UNCHANGED vars
  BY <1>1, <1>6 DEF vars, Flushing
<1>7. CASE LineByte
  <2>1. flush'.ring = flush.ring
    BY <1>7 DEF LineByte, IInv, TypeOK
  <2> QED
    BY <1>1, <1>7, <2>1 DEF LineByte, Flushing
<1>8. CASE \/ SendCall \/ TxMask \/ TxLoad \/ TxUnmask
           \/ ReadCall \/ RxMask \/ RxSegment1 \/ RxSegment2 \/ RxLoad \/ RxUnmask
  <2>1. UNCHANGED <<tx, tdr, torn>> /\ pc # "flush" /\ pc' # "flush"
    BY <1>8 DEF SendCall, TxMask, TxLoad, TxUnmask, ReadCall, RxMask, RxSegment1,
                RxSegment2, RxLoad, RxUnmask, LoadCr1, StoreCr1, At, hardware
  <2> QED
    BY <1>1, <2>1 DEF Flushing
<1> QED
  BY <1>2, <1>3, <1>4, <1>5, <1>6, <1>7, <1>8 DEF Next, MainStep

(* What a torn flush holds is nothing, from the handler that tears it to   *)
(* the flush that makes the ring whole.                                    *)
LEMMA TxStep ==
  ASSUME IInv, TxUnlessTorn, [Next]_vars
  PROVE  TxKeeps \/ (FlushBegins("tx") /\ TxFifo!Drop)
<1>1. ASSUME TxHeld = <<>>, TxHeld' = <<>>, TxOut = <<>>, TxOut' = <<>>
      PROVE  TxKeeps
  BY <1>1 DEF TxKeeps, TxBar
<1>2. CASE torn = "ring"
  <2>1. TxHeld = <<>> /\ TxOut = <<>>
    BY <1>2 DEF TxHeld, TxOut, TxWhole
  <2>2. CASE torn' = "ring"
    <3>1. TxHeld' = <<>> /\ TxOut' = <<>>
      BY <2>2 DEF TxHeld, TxOut, TxWhole
    <3> QED
      BY <1>1, <2>1, <3>1
  <2>3. CASE torn' # "ring"
    <3>1. FlushFirst
      BY <1>2, <2>3
      DEF Next, MainStep, vars, Isr, TxShift, LineByte, SendCall, TxMask, TxSegment1, TxSegment2,
          TxLoad, TxUnmask, ReadCall, RxMask, RxSegment1, RxSegment2, RxLoad, RxUnmask,
          LoadCr1, StoreCr1, At, FlushSecond
    <3>2. /\ pc' = "flush" /\ flush'.ring = "tx" /\ tdr' = tdr
          /\ torn' = IF tdr = None THEN "no" ELSE "byte"
      BY <1>2, <2>3, <3>1 DEF FlushFirst, StoreZero, hardware
    <3>3. TxHeld' = <<>> /\ TxOut' = <<>>
      BY <3>2 DEF TxHeld, TxOut, TxWhole, Flushing
    <3> QED
      BY <1>1, <2>1, <3>3
  <2> QED
    BY <2>2, <2>3
<1>3. CASE torn # "ring" /\ ~TxFlushHit
  BY <1>3, TxWholeStep
<1>4. CASE torn # "ring" /\ TxFlushHit
  <2>1. TxHeld = <<>> /\ TxOut = <<>>
    BY <1>4 DEF TxHeld, TxOut, TxWhole, TxFlushHit, TxIrq
  <2>2. CASE Isr
    <3>1. TxHeld' = <<>> /\ TxOut' = <<>>
      BY <1>4, <2>2 DEF Isr, TxHeld, TxOut, TxWhole
    <3> QED
      BY <1>1, <2>1, <3>1
  <2>3. CASE LineByte
    <3>1. UNCHANGED <<tx, tdr, torn>> /\ Flushing("tx")'
      BY <1>4, <2>3 DEF LineByte, IInv, TypeOK, TxFlushHit, Flushing
    <3>2. TxHeld' = <<>> /\ TxOut' = <<>>
      BY <1>4, <3>1 DEF TxHeld, TxOut, TxWhole, TxFlushHit, TxIrq
    <3> QED
      BY <1>1, <2>1, <3>2
  <2>4. CASE UNCHANGED vars
    BY <2>4 DEF TxKeeps, TxBar, TxHeld, TxOut, TxWhole, Flushing, vars
  <2>5. ~MainStep /\ ~TxShift
    BY <1>4
    DEF TxFlushHit, TxIrq, IrqPending, TxShift, MainStep, SendCall, TxMask, TxSegment1,
        TxSegment2, TxLoad, TxUnmask, ReadCall, RxMask, RxSegment1, RxSegment2, RxLoad, RxUnmask,
        LoadCr1, StoreCr1, At, FlushFirst, FlushSecond
  <2> QED
    BY <2>2, <2>3, <2>4, <2>5 DEF Next
<1> QED
  BY <1>2, <1>3, <1>4

LEMMA InitTxFifo == Init => TxFifo!Init
<1> SUFFICES ASSUME Init PROVE TxFifo!Init
  OBVIOUS
<1>1. tx \in Ring /\ tx.head = 0 /\ tx.tail = 0 /\ tdr = None
  BY InitRing DEF Init, RingBuffer_Init
<1>2. TxHeld = <<>> /\ TxOut = <<>>
  BY <1>1, ZeroedIsEmpty DEF TxHeld, TxOut
<1> QED
  BY <1>2 DEF TxFifo!Init

(* The transmit ring is a queue: what UART_write accepted reaches the data *)
(* register in order, each byte once, wherever the counters wrap and       *)
(* whatever the handler and the main loop interleave and flush.  From a    *)
(* flush that the handler tears to the next one the queue counts as empty. *)
THEOREM TxInOrder == Spec => TxCarriesInOrder
<1>1. IInv /\ TxUnlessTorn /\ [Next]_vars => [TxFifo!Next]_TxBar
  BY TxStep DEF TxKeeps, TxFifo!Next
<1> QED
  BY <1>1, InitIInv, InductiveStep, InitTx, TxUnlessTornStep, InitTxFifo, PTL
  DEF Spec, TxCarriesInOrder, TxFifo!Spec, TxBar

(* Nothing else a queue may do to the bytes it holds happens to them: only *)
(* the first store of a flush of this ring drops any that a whole ring     *)
(* holds.                                                                  *)
THEOREM TxLosesByFlushOnly == Spec => [][TxKeeps \/ FlushBegins("tx")]_vars
<1>1. IInv /\ TxUnlessTorn /\ [Next]_vars => [TxKeeps \/ FlushBegins("tx")]_vars
  BY TxStep
<1> QED
  BY <1>1, InitIInv, InductiveStep, InitTx, TxUnlessTornStep, PTL DEF Spec

(* "Resets the ring buffer to empty" (ring_buffer.h:86) is true of every   *)
(* transmit flush that the handler does not tear, also of the first one    *)
(* after a torn one: the converse of what uart_flush_tx shows.             *)
THEOREM FlushClears ==
  Spec => [][flush.ring = "tx" /\ flush'.ring = "none" /\ torn # "ring" => IsEmpty(tx')]_vars
<1>1. ASSUME IInv, TxUnlessTorn, [Next]_vars,
             flush.ring = "tx" /\ flush'.ring = "none" /\ torn # "ring"
      PROVE  IsEmpty(tx')
  <2>1. FlushSecond
    <3>1. ~LineByte
      BY <1>1 DEF LineByte, IInv, TypeOK
    <3>2. ~FlushFirst
      BY <1>1, UartAssumption DEF FlushFirst
    <3>3. flush' # flush
      BY <1>1
    <3> QED
      BY <1>1, <3>1, <3>2, <3>3
      DEF Next, MainStep, vars, Isr, TxShift, locals, SendCall, TxMask, TxSegment1, TxSegment2,
          TxLoad, TxUnmask, ReadCall, RxMask, RxSegment1, RxSegment2, RxLoad, RxUnmask,
          LoadCr1, StoreCr1, At
  <2>2. /\ tx \in Ring /\ tx' = [tx EXCEPT ![flush.left] = 0] /\ Flushing("tx")
        /\ flush.left \in {"head", "tail"}
    BY <1>1, <2>1 DEF FlushSecond, StoreZero, Zeroed, Flushing, IInv, TypeOK, HalfFlush
  <2>3. tx'.head = 0 /\ tx'.tail = 0
    BY <1>1, <2>2 DEF TxUnlessTorn, TxInv, TxHalfFlush, Ring
  <2> QED
    BY <2>3 DEF IsEmpty
<1> QED
  BY <1>1, InitIInv, InductiveStep, InitTx, TxUnlessTornStep, PTL DEF Spec

-----------------------------------------------------------------------------
(* The receive ring *)

RxBar == <<RxHeld, buf>>

(* A step on which no byte that the receive ring holds is lost.            *)
RxKeeps == RxFifo!Put \/ RxFifo!Take \/ RxFifo!Forget \/ UNCHANGED RxBar

(* UART_read starts with nothing copied out: the previous call returned    *)
(* what it had.                                                            *)
CopyStarts == pc \notin {"rxSeg2", "rxLoad", "rxUnmask"} => buf = <<>>

LEMMA CopyStartsStep ==
  ASSUME IInv, CopyStarts, [Next]_vars
  PROVE  CopyStarts'
<1> USE DEF CopyStarts
<1>1. CASE UNCHANGED vars
  BY <1>1 DEF vars
<1>2. CASE Isr \/ TxShift \/ LineByte
  BY <1>2 DEF Isr, TxShift, LineByte, locals
<1>3. CASE SendCall \/ TxMask \/ TxSegment1 \/ TxSegment2 \/ TxLoad \/ TxUnmask
  BY <1>3 DEF SendCall, TxMask, TxSegment1, TxSegment2, TxLoad, TxUnmask, LoadCr1, StoreCr1, At
<1>4. CASE ReadCall \/ RxMask \/ RxSegment1 \/ RxSegment2 \/ RxLoad \/ RxUnmask
  BY <1>4 DEF ReadCall, RxMask, RxSegment1, RxSegment2, RxLoad, RxUnmask, LoadCr1, StoreCr1, At
<1>5. CASE FlushFirst \/ FlushSecond
  BY <1>5 DEF FlushFirst, FlushSecond
<1> QED
  BY <1>1, <1>2, <1>3, <1>4, <1>5 DEF Next, MainStep

(* Steps that leave the ring alone: at most UART_read returns its bytes.   *)
LEMMA RxSame ==
  ASSUME rx' = rx, Flushing("rx")' <=> Flushing("rx"), Flushing("rx") => flush'.left = flush.left,
         buf' = buf \/ buf' = <<>>
  PROVE  RxKeeps
<1>1. RxHeld' = RxHeld
  BY DEF RxHeld
<1>2. CASE buf' = buf
  BY <1>1, <1>2 DEF RxKeeps, RxBar
<1>3. CASE buf' = <<>>
  BY <1>1, <1>3 DEF RxFifo!Forget, RxKeeps
<1> QED
  BY <1>2, <1>3

(* A segment of UART_read's copy: the oldest bytes leave, or none.         *)
LEMMA RxTake ==
  ASSUME IInv, pc # "flush", pc' # "flush", NEW k \in Nat, k <= GetCount(rx),
         rx' = Discard(rx, k), buf' = buf \o Oldest(rx, k)
  PROVE  RxKeeps
<1>1. rx \in Ring /\ GetCount(rx) \in 0 .. Size /\ k \in 0 .. GetCount(rx) /\ buf \in Seq(Byte)
  BY HalfBounds DEF IInv, TypeOK, RxInRange, Flushing
<1> DEFINE q == Contents(rx)
<1>2. q \in Seq(Byte) /\ Len(q) = GetCount(rx)
  BY <1>1, ContentsSeq
<1>3. RxHeld = q /\ RxHeld' = Contents(rx')
  BY DEF RxHeld, Flushing
<1>4. Oldest(rx, k) = SubSeq(q, 1, k)
  BY <1>1, OldestIsPrefix
<1>5. CASE k = 0
  <2>1. rx' = rx
    BY <1>1, <1>5, DiscardNone
  <2>2. buf' = buf
    <3>1. SubSeq(q, 1, 0) = <<>>
      BY SubSeqEmpty
    <3> QED
      BY <1>1, <1>4, <1>5, <3>1, ConcatEmptySeq
  <2> QED
    BY <1>3, <2>1, <2>2 DEF RxKeeps, RxBar
<1>6. CASE k # 0
  <2>1. Contents(rx') = SubSeq(q, k + 1, Len(q))
    BY <1>1, ContentsDiscard
  <2>2. k \in 1 .. Len(q)
    BY <1>1, <1>2, <1>6
  <2> HIDE DEF q
  <2>3. RxFifo!Take
    BY <1>3, <1>4, <2>1, <2>2 DEF RxFifo!Take
  <2> QED
    BY <2>3 DEF RxKeeps
<1> QED
  BY <1>5, <1>6

(* A byte inserted by the handler enters the queue.                        *)
LEMMA RxPut ==
  ASSUME NEW rb \in Ring, GetCount(rb) \in 0 .. Size, GetCount(rb) + 1 <= Size,
         NEW b \in Byte, RxHeld = Contents(rb), RxHeld' = Contents(Insert(rb, b)), buf' = buf
  PROVE  RxKeeps
<1>1. <<b>> \in Seq(Byte) /\ Len(<<b>>) = 1
  OBVIOUS
<1>2. RxHeld' = RxHeld \o <<b>>
  BY <1>1, InsertIsWrite, ContentsWrite
<1>3. <<b>> \in [1 .. 1 -> Byte] /\ 1 \in 1 .. Size
  BY HalfBounds
<1>4. <<b>> \in RxFifo!Chunks
  BY <1>3 DEF RxFifo!Chunks
<1>5. Len(RxHeld) + Len(<<b>>) <= Size
  BY <1>1, ContentsSeq
<1> QED
  BY <1>2, <1>4, <1>5 DEF RxFifo!Put, RxKeeps

LEMMA RxServed ==
  ASSUME IInv, Isr
  PROVE  RxKeeps
<1>1. UNCHANGED <<pc, buf, flush>> /\ rx \in Ring
  BY DEF Isr, locals, IInv, TypeOK
<1>2. CASE rx' = rx
  BY <1>1, <1>2, RxSame DEF Flushing
<1>3. CASE RxIrq /\ ~IsFull(rx) /\ rx' = Insert(rx, rdr)
  <2>1. rdr \in Byte /\ rdr # None
    BY <1>3 DEF RxIrq, IInv, TypeOK
  <2>2. CASE ~Flushing("rx")
    <3>1. GetCount(rx) \in 0 .. Size /\ GetCount(rx) + 1 <= Size
      BY <1>3, <2>2, HalfBounds DEF IInv, RxInRange, IsFull
    <3>2. RxHeld = Contents(rx) /\ RxHeld' = Contents(Insert(rx, rdr))
      BY <1>1, <1>3, <2>2 DEF RxHeld, Flushing
    <3> QED
      BY <1>1, <2>1, <3>1, <3>2, RxPut
  <2>3. CASE Flushing("rx") /\ flush.left = "head"
    <3>1. RxHeld = <<>> /\ RxHeld' = <<>>
      BY <1>1, <2>3 DEF RxHeld, Flushing
    <3> QED
      BY <1>1, <3>1 DEF RxKeeps, RxBar
  <2>4. CASE Flushing("rx") /\ flush.left # "head"
    <3> DEFINE rz == [rx EXCEPT !.tail = 0]
    <3>1. rx.head = 0
      BY <2>1, <2>4 DEF IInv, HalfFlush
    <3>2. rz \in Ring /\ rz.head = 0 /\ rz.tail = 0
      BY <1>1, <3>1, HalfBounds DEF Ring, Modulus
    <3>3. GetCount(rz) = 0
      BY <3>2, HalfBounds DEF GetCount, Behind
    <3>4. [Insert(rx, rdr) EXCEPT !.tail = 0] = Insert(rz, rdr)
      BY <1>1 DEF Insert, Ring
    <3>5. RxHeld = Contents(rz) /\ RxHeld' = Contents(Insert(rz, rdr))
      BY <1>1, <1>3, <2>4, <3>4 DEF RxHeld, Flushing
    <3> HIDE DEF rz
    <3> QED
      BY <1>1, <2>1, <3>2, <3>3, <3>5, RxPut, HalfBounds
  <2> QED
    BY <2>2, <2>3, <2>4
<1> QED
  BY <1>2, <1>3 DEF Isr, ServeRx

(* RingBuffer_Flush: the first store drops what is held, the second adds   *)
(* nothing and loses nothing that came in between.                         *)
LEMMA RxFlushed ==
  ASSUME IInv, FlushFirst \/ FlushSecond
  PROVE  RxKeeps \/ (FlushBegins("rx") /\ RxFifo!Drop)
<1>1. rx \in Ring /\ 0 \in 0 .. Modulus - 1 /\ buf' = buf
  BY HalfBounds DEF IInv, TypeOK, Modulus, FlushFirst, FlushSecond
<1>2. CASE FlushFirst
  <2>1. PICK ring \in {"tx", "rx"}, f \in {"head", "tail"} :
          /\ StoreZero(ring, f)
          /\ flush' = [ring |-> ring, left |-> IF f = "head" THEN "tail" ELSE "head",
                       arrived |-> FALSE]
    BY <1>2, UartAssumption DEF FlushFirst
  <2>2. pc = "idle" /\ pc' = "flush" /\ RxHeld = Contents(rx)
    BY <1>2 DEF FlushFirst, RxHeld, Flushing
  <2>3. CASE ring = "tx"
    BY <1>1, <2>1, <2>2, <2>3, RxSame DEF StoreZero, Flushing
  <2>4. CASE ring = "rx"
    <3>1. rx' = [rx EXCEPT ![f] = 0] /\ Flushing("rx")'
      BY <2>1, <2>2, <2>4 DEF StoreZero, Zeroed, Flushing
    <3>2. RxHeld' = <<>>
      <4>1. CASE f = "tail"
        BY <2>1, <3>1, <4>1 DEF RxHeld
      <4>2. CASE f = "head"
        <5>1. RxHeld' = Contents([rx' EXCEPT !.tail = 0])
          BY <2>1, <3>1, <4>2 DEF RxHeld
        <5>2. /\ [rx' EXCEPT !.tail = 0] \in Ring
              /\ [rx' EXCEPT !.tail = 0].head = 0 /\ [rx' EXCEPT !.tail = 0].tail = 0
          BY <1>1, <3>1, <4>2 DEF Ring
        <5> QED
          BY <5>1, <5>2, ZeroedIsEmpty
      <4> QED
        BY <4>1, <4>2
    <3>3. RxHeld \in Seq(Byte)
      <4>1. GetCount(rx) \in 0 .. Size
        BY <2>2 DEF IInv, RxInRange, Flushing
      <4> QED
        BY <1>1, <2>2, <4>1, ContentsSeq
    <3>4. CASE RxHeld = <<>>
      BY <1>1, <3>2, <3>4 DEF RxKeeps, RxBar
    <3>5. CASE RxHeld # <<>>
      <4>1. Len(RxHeld) \in 1 .. Len(RxHeld)
        BY <3>3, <3>5, EmptySeq
      <4>2. SubSeq(RxHeld, Len(RxHeld) + 1, Len(RxHeld)) = <<>>
        BY <4>1, SubSeqEmpty
      <4>3. RxFifo!Drop
        BY <1>1, <3>2, <4>1, <4>2 DEF RxFifo!Drop
      <4> QED
        BY <1>2, <2>1, <2>4, <4>3 DEF FlushBegins
    <3> QED
      BY <3>4, <3>5
  <2> QED
    BY <2>3, <2>4
<1>3. CASE FlushSecond
  <2>1. /\ StoreZero(flush.ring, flush.left) /\ pc = "flush" /\ pc' = "idle"
        /\ flush.ring \in {"tx", "rx"} /\ flush.left \in {"head", "tail"}
    BY <1>3 DEF FlushSecond, IInv, HalfFlush
  <2>2. CASE flush.ring = "tx"
    BY <1>1, <2>1, <2>2, RxSame DEF StoreZero, Flushing
  <2>3. CASE flush.ring = "rx"
    <3>1. rx' = [rx EXCEPT ![flush.left] = 0] /\ RxHeld' = Contents(rx') /\ Flushing("rx")
      BY <2>1, <2>3 DEF StoreZero, Zeroed, RxHeld, Flushing
    <3>2. CASE flush.left = "head"
      <4>1. rx' \in Ring /\ rx'.head = 0 /\ rx'.tail = 0
        BY <1>1, <3>1, <3>2 DEF IInv, HalfFlush, Ring
      <4>2. RxHeld' = <<>> /\ RxHeld = <<>>
        BY <3>1, <3>2, <4>1, ZeroedIsEmpty DEF RxHeld
      <4> QED
        BY <1>1, <4>2 DEF RxKeeps, RxBar
    <3>3. CASE flush.left = "tail"
      <4>1. RxHeld = Contents(rx')
        BY <3>1, <3>3 DEF RxHeld
      <4> QED
        BY <1>1, <3>1, <4>1 DEF RxKeeps, RxBar
    <3> QED
      BY <2>1, <3>2, <3>3
  <2> QED
    BY <2>1, <2>2, <2>3
<1> QED
  BY <1>2, <1>3

LEMMA RxStep ==
  ASSUME IInv, CopyStarts, [Next]_vars
  PROVE  RxKeeps \/ (FlushBegins("rx") /\ RxFifo!Drop)
<1>1. CASE UNCHANGED vars
  BY <1>1, RxSame DEF vars, Flushing
<1>2. CASE TxShift
  BY <1>2, RxSame DEF TxShift, locals, Flushing
<1>3. CASE LineByte
  <2>1. flush'.ring = flush.ring /\ flush'.left = flush.left
    BY <1>3 DEF LineByte, IInv, TypeOK
  <2> QED
    BY <1>3, <2>1, RxSame DEF LineByte, Flushing
<1>4. CASE \/ SendCall \/ TxMask \/ TxSegment1 \/ TxSegment2 \/ TxLoad \/ TxUnmask
           \/ ReadCall \/ RxMask \/ RxLoad \/ RxUnmask
  <2>1. /\ rx' = rx /\ flush' = flush /\ pc # "flush" /\ pc' # "flush"
        /\ buf' = buf \/ buf' = <<>>
    BY <1>4 DEF SendCall, TxMask, TxSegment1, TxSegment2, TxLoad, TxUnmask, ReadCall, RxMask,
                RxLoad, RxUnmask, LoadCr1, StoreCr1, At
  <2> QED
    BY <2>1, RxSame DEF Flushing
<1>5. CASE RxSegment1
  <2>1. CASE IsEmpty(rx)
    BY <1>5, <2>1, RxSame DEF RxSegment1, At, Flushing
  <2>2. CASE ~IsEmpty(rx)
    <3> DEFINE n1 == FirstSegment(rx.tail, GetCount(rx), want)
    <3>1. rx \in Ring /\ want \in Nat /\ GetCount(rx) \in 0 .. Size /\ rx.tail \in 0 .. Modulus - 1
      BY <1>5, ChunkBounds DEF RxSegment1, At, IInv, TypeOK, RxInRange, Flushing, Ring
    <3>2. n1 \in 0 .. want /\ n1 <= GetCount(rx)
      <4>1. GetCount(rx) \in Nat
        BY <3>1, HalfBounds
      <4> QED
        BY <3>1, <4>1, SegmentBounds
    <3>3. /\ rx' = Discard(rx, n1) /\ buf' = Oldest(rx, n1) /\ buf = <<>>
          /\ pc = "rxSeg1" /\ pc' = "rxSeg2"
      BY <1>5, <2>2 DEF RxSegment1, At, CopyStarts
    <3> HIDE DEF n1
    <3>4. n1 \in Nat
      BY <3>1, <3>2
    <3>5. buf' = buf \o Oldest(rx, n1)
      BY <3>1, <3>3, <3>4, OldestSeq, ConcatEmptySeq
    <3> QED
      BY <3>2, <3>3, <3>4, <3>5, RxTake
  <2> QED
    BY <2>1, <2>2
<1>6. CASE RxSegment2
  <2>1. /\ second \in Nat /\ second <= GetCount(rx) /\ pc = "rxSeg2" /\ pc' = "rxLoad"
        /\ rx' = Discard(rx, second) /\ buf' = buf \o Oldest(rx, second)
    BY <1>6, ChunkBounds DEF RxSegment2, At, IInv, TypeOK, CopyFits
  <2> QED
    BY <2>1, RxTake
<1> QED
  BY <1>1, <1>2, <1>3, <1>4, <1>5, <1>6, RxServed, RxFlushed DEF Next, MainStep

LEMMA InitRxFifo == Init => CopyStarts /\ RxFifo!Init
<1> SUFFICES ASSUME Init PROVE CopyStarts /\ RxFifo!Init
  OBVIOUS
<1>1. rx \in Ring /\ rx.head = 0 /\ rx.tail = 0 /\ pc = "idle" /\ buf = <<>>
  BY InitRing DEF Init, RingBuffer_Init
<1>2. RxHeld = <<>>
  BY <1>1, ZeroedIsEmpty DEF RxHeld, Flushing
<1> QED
  BY <1>1, <1>2 DEF CopyStarts, RxFifo!Init

(* The receive ring is a queue: UART_read returns the received bytes in    *)
(* order, each once, and a flush the handler interrupts between its two    *)
(* stores loses whole bytes at most, whichever store comes first.  Nothing *)
(* that happens to the transmit ring changes this.                         *)
THEOREM RxInOrder == Spec => RxCarriesInOrder
<1>1. IInv /\ CopyStarts /\ [Next]_vars => [RxFifo!Next]_RxBar
  BY RxStep DEF RxKeeps, RxFifo!Next
<1> QED
  BY <1>1, InitIInv, InductiveStep, InitRxFifo, CopyStartsStep, PTL
  DEF Spec, RxCarriesInOrder, RxFifo!Spec, RxBar

(* A byte that was inserted is lost by the first store of a flush or not   *)
(* at all: not by the second store, not by a handler between the two, not  *)
(* by an overflow, and not by a copy that ends short.                      *)
THEOREM RxLosesByFlushOnly == Spec => [][RxKeeps \/ FlushBegins("rx")]_vars
<1>1. IInv /\ CopyStarts /\ [Next]_vars => [RxKeeps \/ FlushBegins("rx")]_vars
  BY RxStep
<1> QED
  BY <1>1, InitIInv, InductiveStep, InitRxFifo, CopyStartsStep, PTL DEF Spec
=============================================================================
