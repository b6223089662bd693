--------------------------- MODULE UartRing_proofs ---------------------------
(***************************************************************************)
(* Safety of the data UART for every ring size, counter width, set of      *)
(* bytes and set of rings flushed.  What concerns the receive ring and CR1 *)
(* is inductive; the invariant of the transmit ring is suspended while the *)
(* counters are torn, and the next flush restores it.                      *)
(***************************************************************************)
EXTENDS UartRing, SequenceTheorems, TLAPS

(* Advancing a counter by less than a revolution keeps it a counter, and   *)
(* moves the signed distance to the other counter by as much.              *)
LEMMA HalfBounds == Half \in Nat /\ Half >= 2 * Size /\ Modulus \in Nat /\ Size \in Nat /\ Size >= 2
<1>1. PICK k \in 2 .. Half : Half = k * Size
  BY RingAssumption
<1>2. k * Size >= 2 * Size
  BY <1>1, RingAssumption
<1> QED
  BY <1>1, <1>2, RingAssumption DEF Modulus

LEMMA SlotType ==
  ASSUME NEW c \in Nat
  PROVE  Slot(c) \in 0 .. Size - 1
BY HalfBounds DEF Slot

LEMMA AdvanceType ==
  ASSUME NEW c \in 0 .. Modulus - 1, NEW n \in 0 .. Modulus - 1
  PROVE  Advance(c, n) \in 0 .. Modulus - 1
BY HalfBounds DEF Advance, Modulus

(* Inserting n items raises the count by n, discarding n lowers it.        *)
LEMMA CountAfterInsert ==
  ASSUME NEW rb \in Ring, NEW n \in 0 .. Size, GetCount(rb) \in 0 .. Size,
         GetCount(rb) + n <= Size,
         NEW rb2 \in Ring, rb2.tail = rb.tail, rb2.head = Advance(rb.head, n)
  PROVE  GetCount(rb2) = GetCount(rb) + n
<1>1. rb.head \in 0 .. Modulus - 1 /\ rb.tail \in 0 .. Modulus - 1
  BY DEF Ring
<1> QED
  BY <1>1, HalfBounds DEF GetCount, Behind, Advance, Modulus

LEMMA CountAfterDiscard ==
  ASSUME NEW rb \in Ring, NEW n \in 0 .. Size, GetCount(rb) \in 0 .. Size,
         n <= GetCount(rb),
         NEW rb2 \in Ring, rb2.head = rb.head, rb2.tail = Advance(rb.tail, n)
  PROVE  GetCount(rb2) = GetCount(rb) - n
<1>1. rb.head \in 0 .. Modulus - 1 /\ rb.tail \in 0 .. Modulus - 1
  BY DEF Ring
<1> QED
  BY <1>1, HalfBounds DEF GetCount, Behind, Advance, Modulus

LEMMA CountInt ==
  ASSUME NEW rb \in Ring
  PROVE  GetCount(rb) \in Int /\ GetFree(rb) \in Int
<1>1. rb.head \in Int /\ rb.tail \in Int
  BY HalfBounds DEF Ring
<1>2. Behind(rb.head, rb.tail) \in Int
  BY <1>1, HalfBounds DEF Behind
<1>3. GetCount(rb) \in Int
  BY <1>2, HalfBounds DEF GetCount
<1> QED
  BY <1>3, HalfBounds DEF GetFree

LEMMA EmptyIsCountZero ==
  ASSUME NEW rb \in Ring
  PROVE  IsEmpty(rb) <=> GetCount(rb) = 0
<1>1. rb.head \in 0 .. Modulus - 1 /\ rb.tail \in 0 .. Modulus - 1
  BY DEF Ring
<1> QED
  BY <1>1, HalfBounds DEF IsEmpty, GetCount, Behind, Modulus

(* The two segments of a bulk copy fit what is available, and what the     *)
(* first one leaves; the first one ends with the storage.                  *)
LEMMA SegmentBounds ==
  ASSUME NEW c \in 0 .. Modulus - 1, NEW avail \in Nat, NEW n \in Nat
  PROVE  /\ FirstSegment(c, avail, n) \in 0 .. n
         /\ FirstSegment(c, avail, n) <= avail
         /\ FirstSegment(c, avail, n) <= Size
         /\ SecondSegment(c, avail, n) \in 0 .. n - FirstSegment(c, avail, n)
         /\ FirstSegment(c, avail, n) + SecondSegment(c, avail, n) <= avail
<1>1. Slot(c) \in 0 .. Size - 1
  BY SlotType, HalfBounds
<1> QED
  BY <1>1, HalfBounds DEF FirstSegment, SecondSegment, Min2

LEMMA WriteRing ==
  ASSUME NEW rb \in Ring, NEW s \in Seq(Byte), Len(s) \in 0 .. Modulus - 1
  PROVE  /\ Write(rb, s) \in Ring
         /\ Write(rb, s).tail = rb.tail
         /\ Write(rb, s).head = Advance(rb.head, Len(s))
<1>1. Slot(rb.head) \in 0 .. Size - 1
  BY SlotType, HalfBounds DEF Ring
<1>2. ASSUME NEW j \in 0 .. Size - 1
      PROVE  FromHead(rb, j) \in Nat
  <2>1. j + Size - Slot(rb.head) \in Nat
    BY <1>1, HalfBounds
  <2> QED
    BY <2>1, SlotType, HalfBounds DEF FromHead
<1>3. ASSUME NEW j \in 0 .. Size - 1
      PROVE  (IF FromHead(rb, j) < Len(s) THEN s[FromHead(rb, j) + 1] ELSE rb.data[j]) \in Byte
  <2>1. CASE FromHead(rb, j) < Len(s)
    <3>1. FromHead(rb, j) + 1 \in 1 .. Len(s)
      BY <1>2, <2>1
    <3> QED
      BY <2>1, <3>1
  <2>2. CASE ~(FromHead(rb, j) < Len(s))
    BY <2>2 DEF Ring
  <2> QED
    BY <2>1, <2>2
<1>4. Advance(rb.head, Len(s)) \in 0 .. Modulus - 1
  BY AdvanceType DEF Ring
<1> QED
  BY <1>3, <1>4 DEF Write, Ring

LEMMA InsertRing ==
  ASSUME NEW rb \in Ring, NEW b \in Byte
  PROVE  /\ Insert(rb, b) \in Ring
         /\ Insert(rb, b).tail = rb.tail
         /\ Insert(rb, b).head = Advance(rb.head, 1)
<1>1. Advance(rb.head, 1) \in 0 .. Modulus - 1
  <2>1. 1 \in 0 .. Modulus - 1
    BY HalfBounds DEF Modulus
  <2> QED
    BY <2>1, AdvanceType DEF Ring
<1> QED
  BY <1>1 DEF Insert, Ring

LEMMA DiscardRing ==
  ASSUME NEW rb \in Ring, NEW n \in 0 .. Size
  PROVE  /\ Discard(rb, n) \in Ring
         /\ Discard(rb, n).head = rb.head
         /\ Discard(rb, n).tail = Advance(rb.tail, n)
<1>1. Advance(rb.tail, n) \in 0 .. Modulus - 1
  <2>1. n \in 0 .. Modulus - 1
    BY HalfBounds DEF Modulus
  <2> QED
    BY <2>1, AdvanceType DEF Ring
<1> QED
  BY <1>1 DEF Discard, Ring

LEMMA OldestSeq ==
  ASSUME NEW rb \in Ring, NEW k \in Nat
  PROVE  Oldest(rb, k) \in Seq(Byte)
<1>1. ASSUME NEW i \in 1 .. k
      PROVE  rb.data[Slot(rb.tail + i - 1)] \in Byte
  <2>1. rb.tail + i - 1 \in Nat
    BY HalfBounds DEF Ring
  <2>2. Slot(rb.tail + i - 1) \in 0 .. Size - 1
    BY <2>1, SlotType
  <2> QED
    BY <2>2 DEF Ring
<1> QED
  BY <1>1 DEF Oldest

-----------------------------------------------------------------------------
(* The invariant of CR1 and the receive ring.  What the invariants of      *)
(* UartRing lack is what is true between two steps of one call: a loaded   *)
(* CR1 has every interrupt that is still enabled (only the handler         *)
(* disables one meanwhile), the second segment fits, and half a flush of   *)
(* the receive ring has let at most one byte in.                           *)

ReceptionArmed == ~InRx => "RXNE" \in cr1
RxInRange      == ~Flushing("rx") => GetCount(rx) \in 0 .. Size

LoadedCr1 ==
  pc \in {"txMask", "txUnmask", "rxMask", "rxUnmask"} => cr1 \subseteq reg

CopyFits ==
  /\ Len(todo) <= MaxChunk
  /\ pc = "txSeg2" => second <= Len(todo)
  /\ pc = "rxSeg2" => second <= GetCount(rx)

HalfFlush ==
  /\ pc = "flush" => flush.ring \in {"tx", "rx"} /\ flush.left \in {"head", "tail"}
  /\ Flushing("rx") =>
       \/ flush.left = "head" /\ rx.tail = 0
       \/ flush.left = "tail" /\ rx.head = 0 /\ (rdr = None \/ flush.arrived)
       \/ flush.left = "tail" /\ rx.head = 1 /\ flush.arrived /\ rdr = None

IInv ==
  /\ TypeOK /\ MaskedAccess /\ ReceptionArmed /\ RxInRange
  /\ LoadedCr1 /\ CopyFits /\ HalfFlush

LEMMA ChunkBounds == MaxChunk \in Nat \ {0} /\ MaxChunk \in 0 .. Modulus - 1
BY UartAssumption, HalfBounds DEF Modulus

LEMMA InitRing ==
  /\ RingBuffer_Init \in Ring /\ GetCount(RingBuffer_Init) = 0 /\ IsEmpty(RingBuffer_Init)
BY HalfBounds, RingAssumption DEF RingBuffer_Init, Ring, GetCount, Behind, Modulus, IsEmpty

LEMMA InitIInv == Init => IInv
<1> SUFFICES ASSUME Init PROVE IInv
  OBVIOUS
<1>1. TypeOK
  BY InitRing, UartAssumption, ChunkBounds DEF Init, TypeOK, Points, NoFlush
<1>2. CopyFits
  BY ChunkBounds DEF Init, CopyFits
<1> QED
  BY <1>1, <1>2, InitRing, HalfBounds
  DEF Init, IInv, MaskedAccess, ReceptionArmed, RxInRange, LoadedCr1, HalfFlush, InTx, InRx,
      Flushing

(* Steps that leave both rings alone: CR1 loads and stores, the start of a *)
(* call, and the hardware.                                                 *)
LEMMA Cr1Steps ==
  ASSUME IInv, SendCall \/ TxMask \/ TxLoad \/ TxUnmask \/ ReadCall \/ RxMask \/ RxLoad \/ RxUnmask
  PROVE  IInv'
<1> USE DEF IInv, MaskedAccess, ReceptionArmed, RxInRange, LoadedCr1, CopyFits,
            HalfFlush, InTx, InRx, At, hardware, Flushing
<1>1. CASE SendCall
  <2>1. todo' \in Seq(Byte) /\ Len(todo') <= MaxChunk
    BY <1>1, ChunkBounds DEF SendCall, Sent
  <2> QED
    BY <1>1, <2>1 DEF SendCall, LoadCr1, TypeOK, Points
<1>2. CASE TxMask
  BY <1>2 DEF TxMask, StoreCr1, TypeOK, Points
<1>3. CASE TxLoad
  BY <1>3, ChunkBounds DEF TxLoad, LoadCr1, TypeOK, Points
<1>4. CASE TxUnmask
  BY <1>4 DEF TxUnmask, StoreCr1, TypeOK, Points
<1>5. CASE ReadCall
  BY <1>5 DEF ReadCall, LoadCr1, TypeOK, Points
<1>6. CASE RxMask
  BY <1>6 DEF RxMask, StoreCr1, TypeOK, Points
<1>7. CASE RxLoad
  BY <1>7, ChunkBounds DEF RxLoad, LoadCr1, TypeOK, Points
<1>8. CASE RxUnmask
  BY <1>8 DEF RxUnmask, StoreCr1, TypeOK, Points
<1> QED
  BY <1>1, <1>2, <1>3, <1>4, <1>5, <1>6, <1>7, <1>8

LEMMA HardwareSteps ==
  ASSUME IInv, TxShift \/ LineByte
  PROVE  IInv'
<1> USE DEF IInv, MaskedAccess, ReceptionArmed, RxInRange, LoadedCr1, CopyFits,
            HalfFlush, InTx, InRx, locals, Flushing
<1>1. CASE TxShift
  BY <1>1 DEF TxShift, TypeOK
<1>2. CASE LineByte
  BY <1>2 DEF LineByte, TypeOK
<1> QED
  BY <1>1, <1>2

(* RingBuffer_InsertMult under UART_write: whatever the counters say, a    *)
(* first segment ends with the storage and a second one with the chunk.    *)
LEMMA TxCopySteps ==
  ASSUME IInv, TxSegment1 \/ TxSegment2
  PROVE  IInv'
<1> USE DEF IInv, MaskedAccess, ReceptionArmed, RxInRange, LoadedCr1, HalfFlush, InTx, InRx,
            At, hardware, Flushing
<1>1. /\ tx \in Ring /\ tx.head \in 0 .. Modulus - 1
      /\ todo \in Seq(Byte) /\ Len(todo) \in 0 .. MaxChunk /\ MaxChunk \in Nat
      /\ GetCount(tx) \in Int
  BY HalfBounds, ChunkBounds, CountInt DEF TypeOK, CopyFits, Ring
<1>2. CASE TxSegment1
  <2>1. CASE IsFull(tx)
    BY <1>2, <2>1 DEF TxSegment1, TypeOK, Points, CopyFits
  <2>2. CASE ~IsFull(tx)
    <3> DEFINE n1 == FirstSegment(tx.head, GetFree(tx), Len(todo))
               n2 == SecondSegment(tx.head, GetFree(tx), Len(todo))
               s1 == SubSeq(todo, 1, n1)
               s2 == SubSeq(todo, n1 + 1, Len(todo))
    <3>1. n1 \in 0 .. Len(todo) /\ n1 <= Size /\ n2 \in 0 .. Len(todo) - n1
      <4>1. GetFree(tx) \in Nat
        BY <1>1, <2>2, HalfBounds DEF GetFree, IsFull
      <4> QED
        BY <1>1, <4>1, SegmentBounds
    <3>2. /\ tx' = Write(tx, s1) /\ todo' = s2 /\ second' = n2
          /\ pc = "txSeg1" /\ pc' = "txSeg2"
          /\ UNCHANGED <<rx, cr1, tdr, rdr, reg, want, buf, flush, torn>>
      BY <1>2, <2>2 DEF TxSegment1
    <3> HIDE DEF n1, n2
    <3>3. s1 \in Seq(Byte) /\ Len(s1) = n1 /\ n1 \in 0 .. Modulus - 1
      <4>1. s1 \in Seq(Byte) /\ Len(s1) = n1
        BY <1>1, <3>1, SubSeqProperties
      <4>2. Len(todo) <= Modulus - 1 /\ Modulus \in Int
        BY <1>1, HalfBounds, ChunkBounds DEF Modulus
      <4>3. n1 \in 0 .. Modulus - 1
        BY <1>1, <3>1, <4>2
      <4> QED
        BY <4>1, <4>3
    <3>4. s2 \in Seq(Byte) /\ Len(s2) = Len(todo) - n1
      BY <1>1, <3>1, SubSeqProperties
    <3> HIDE DEF s1, s2
    <3>5. tx' \in Ring
      BY <1>1, <3>2, <3>3, WriteRing
    <3>6. n2 \in 0 .. MaxChunk /\ Len(todo) - n1 <= MaxChunk /\ n2 <= Len(todo) - n1
      BY <1>1, <3>1
    <3>7. TypeOK'
      BY <3>2, <3>4, <3>5, <3>6 DEF TypeOK, Points
    <3>8. CopyFits'
      BY <3>2, <3>4, <3>6 DEF CopyFits
    <3> QED
      BY <3>2, <3>7, <3>8
  <2> QED
    BY <2>1, <2>2
<1>3. CASE TxSegment2
  <2> DEFINE s2 == SubSeq(todo, 1, second)
  <2>1. second \in Nat /\ second <= Len(todo) /\ second \in 0 .. Modulus - 1
    BY <1>1, <1>3, HalfBounds, ChunkBounds DEF TxSegment2, TypeOK, CopyFits
  <2>2. s2 \in Seq(Byte) /\ Len(s2) = second
    BY <1>1, <2>1, SubSeqProperties
  <2>3. tx' \in Ring
    BY <1>1, <1>3, <2>1, <2>2, WriteRing DEF TxSegment2
  <2>4. TypeOK'
    BY <1>3, <2>3, ChunkBounds DEF TxSegment2, TypeOK, Points
  <2> QED
    BY <1>3, <2>4, ChunkBounds DEF TxSegment2, CopyFits
<1> QED
  BY <1>2, <1>3

LEMMA RxCopySteps ==
  ASSUME IInv, RxSegment1 \/ RxSegment2
  PROVE  IInv'
<1> USE DEF IInv, MaskedAccess, ReceptionArmed, RxInRange, LoadedCr1, HalfFlush, InTx, InRx,
            At, hardware, Flushing
<1>1. rx \in Ring /\ want \in 0 .. MaxChunk /\ GetCount(rx) \in 0 .. Size
  BY DEF RxSegment1, RxSegment2, TypeOK
<1>2. CASE RxSegment1
  <2>1. CASE IsEmpty(rx)
    BY <1>2, <2>1 DEF RxSegment1, TypeOK, Points, CopyFits
  <2>2. CASE ~IsEmpty(rx)
    <3> DEFINE n1 == FirstSegment(rx.tail, GetCount(rx), want)
               n2 == SecondSegment(rx.tail, GetCount(rx), want)
    <3>1. /\ n1 \in 0 .. want /\ n1 <= GetCount(rx) /\ n1 \in 0 .. Size
          /\ n2 \in 0 .. want - n1 /\ n1 + n2 <= GetCount(rx) /\ n2 \in 0 .. MaxChunk
      <4>1. rx.tail \in 0 .. Modulus - 1 /\ want \in Nat
        BY <1>1, ChunkBounds DEF Ring
      <4>2. /\ n1 \in 0 .. want /\ n1 <= GetCount(rx)
            /\ n2 \in 0 .. want - n1 /\ n1 + n2 <= GetCount(rx)
        BY <1>1, <4>1, SegmentBounds
      <4> HIDE DEF n1, n2
      <4> QED
        BY <1>1, <4>1, <4>2, HalfBounds, ChunkBounds
    <3>2. /\ rx' = Discard(rx, n1) /\ buf' = Oldest(rx, n1) /\ second' = n2
          /\ pc = "rxSeg1" /\ pc' = "rxSeg2"
          /\ UNCHANGED <<tx, cr1, tdr, rdr, reg, todo, want, flush, torn>>
      BY <1>2, <2>2 DEF RxSegment1
    <3> HIDE DEF n1, n2
    <3>3. rx' \in Ring /\ rx'.head = rx.head /\ rx'.tail = Advance(rx.tail, n1)
      BY <1>1, <3>1, <3>2, DiscardRing
    <3>4. GetCount(rx') = GetCount(rx) - n1
      BY <1>1, <3>1, <3>3, CountAfterDiscard
    <3>5. Oldest(rx, n1) \in Seq(Byte)
      BY <1>1, <3>1, OldestSeq
    <3>6. TypeOK'
      BY <1>1, <3>1, <3>2, <3>3, <3>5 DEF TypeOK, Points
    <3>7. CopyFits'
      BY <1>1, <3>1, <3>2, <3>4, HalfBounds DEF CopyFits
    <3>8. GetCount(rx') \in 0 .. Size
      BY <1>1, <3>1, <3>4, HalfBounds
    <3> QED
      BY <3>2, <3>6, <3>7, <3>8
  <2> QED
    BY <2>1, <2>2
<1>3. CASE RxSegment2
  <2>1. second \in 0 .. Size /\ second <= GetCount(rx)
    BY <1>1, <1>3, HalfBounds DEF RxSegment2, TypeOK, CopyFits
  <2>2. rx' \in Ring /\ rx'.head = rx.head /\ rx'.tail = Advance(rx.tail, second)
    BY <1>1, <1>3, <2>1, DiscardRing DEF RxSegment2
  <2>3. GetCount(rx') \in 0 .. Size
    BY <1>1, <2>1, <2>2, CountAfterDiscard, HalfBounds
  <2>4. Oldest(rx, second) \in Seq(Byte)
    BY <1>1, <2>1, OldestSeq
  <2>5. buf' \in Seq(Byte)
    BY <1>3, <2>4 DEF RxSegment2, TypeOK
  <2>6. TypeOK'
    BY <1>3, <2>2, <2>5, ChunkBounds DEF RxSegment2, TypeOK, Points
  <2> QED
    BY <1>3, <2>3, <2>6 DEF RxSegment2, CopyFits
<1> QED
  BY <1>2, <1>3

(* The handler: each half touches one ring, and the receive half only when *)
(* the main loop is not inside that ring.                                  *)
LEMMA IsrStep ==
  ASSUME IInv, Isr
  PROVE  IInv'
<1> USE DEF IInv, MaskedAccess, ReceptionArmed, RxInRange, LoadedCr1, HalfFlush, InTx, InRx,
            Flushing
<1>1. /\ tx \in Ring /\ rx \in Ring /\ UNCHANGED <<pc, reg, todo, want, second, buf, flush>>
      /\ torn' = "ring" \/ torn' = torn
  BY DEF Isr, locals, TypeOK
<1>2. /\ tx' \in Ring /\ tdr' \in Byte \cup {None}
      /\ cr1' \subseteq cr1 /\ ("RXNE" \in cr1 => "RXNE" \in cr1')
  <2>1. CASE TxIrq /\ ~IsEmpty(tx)
    <3>1. tx' = Discard(tx, 1) /\ cr1' = cr1 /\ tdr' = tx.data[Slot(tx.tail)]
      BY <2>1 DEF Isr, ServeTx
    <3>2. tx' \in Ring
      <4>1. 1 \in 0 .. Size
        BY HalfBounds
      <4> QED
        BY <1>1, <3>1, <4>1, DiscardRing
    <3>3. tdr' \in Byte
      <4>1. Slot(tx.tail) \in 0 .. Size - 1
        BY <1>1, SlotType, HalfBounds DEF Ring
      <4> QED
        BY <1>1, <3>1, <4>1 DEF Ring
    <3> QED
      BY <3>1, <3>2, <3>3
  <2>2. CASE ~(TxIrq /\ ~IsEmpty(tx))
    BY <1>1, <2>2 DEF Isr, ServeTx, TypeOK
  <2> QED
    BY <2>1, <2>2
<1>3. /\ rx' \in Ring /\ rdr' \in Byte \cup {None}
      /\ ~Flushing("rx") => GetCount(rx') \in 0 .. Size
      /\ \/ UNCHANGED <<rx, rdr>>
         \/ /\ "RXNE" \in cr1 /\ rdr # None /\ rdr' = None
            /\ rx'.tail = rx.tail /\ rx'.head = Advance(rx.head, 1)
  <2>1. CASE RxIrq /\ ~IsFull(rx) /\ rx' = Insert(rx, rdr) /\ rdr' = None
    <3>1. rdr \in Byte /\ "RXNE" \in cr1 /\ rdr # None
      BY <2>1 DEF RxIrq, TypeOK
    <3>2. rx' \in Ring /\ rx'.tail = rx.tail /\ rx'.head = Advance(rx.head, 1)
      BY <1>1, <2>1, <3>1, InsertRing
    <3>3. ASSUME ~Flushing("rx")
          PROVE  GetCount(rx') \in 0 .. Size
      <4>1. GetCount(rx) \in 0 .. Size /\ GetCount(rx) + 1 <= Size
        BY <2>1, <3>3, HalfBounds DEF IsFull
      <4>2. GetCount(rx') = GetCount(rx) + 1
        BY <1>1, <3>2, <4>1, CountAfterInsert, HalfBounds
      <4> QED
        BY <4>1, <4>2, HalfBounds
    <3> QED
      BY <2>1, <3>1, <3>2, <3>3
  <2>2. CASE UNCHANGED <<rx, rdr>>
    BY <2>2 DEF TypeOK
  <2> QED
    BY <2>1, <2>2 DEF Isr, ServeRx
<1>4. TypeOK'
  BY <1>1, <1>2, <1>3 DEF TypeOK
<1>5. CopyFits'
  BY <1>1, <1>3 DEF CopyFits
<1>6. HalfFlush'
  <2>1. Advance(0, 1) = 1
    BY HalfBounds DEF Advance, Modulus
  <2>2. CASE UNCHANGED <<rx, rdr>>
    BY <1>1, <2>2
  <2>3. CASE /\ rdr # None /\ rdr' = None
             /\ rx'.tail = rx.tail /\ rx'.head = Advance(rx.head, 1)
    BY <1>1, <2>1, <2>3
  <2> QED
    BY <1>3, <2>2, <2>3
<1> QED
  BY <1>1, <1>2, <1>3, <1>4, <1>5, <1>6

(* A flush of the receive ring: the first store opens a window in which    *)
(* the counters disagree, the second one closes it.                        *)
LEMMA FlushSteps ==
  ASSUME IInv, FlushFirst \/ FlushSecond
  PROVE  IInv'
<1> USE DEF IInv, MaskedAccess, ReceptionArmed, RxInRange, LoadedCr1, HalfFlush, InTx, InRx,
            hardware, StoreZero, Zeroed, CopyFits, Flushing
<1>1. 0 \in 0 .. Modulus - 1 /\ tx \in Ring /\ rx \in Ring
  BY HalfBounds DEF Modulus, TypeOK
<1>2. ASSUME NEW rb \in Ring, NEW f \in {"head", "tail"}
      PROVE  [rb EXCEPT ![f] = 0] \in Ring /\ [rb EXCEPT ![f] = 0][f] = 0
  BY <1>1 DEF Ring
<1>3. CASE FlushFirst
  <2>1. PICK ring \in {"tx", "rx"}, f \in {"head", "tail"} :
          /\ StoreZero(ring, f)
          /\ flush' = [ring |-> ring, left |-> IF f = "head" THEN "tail" ELSE "head",
                       arrived |-> FALSE]
    BY <1>3, UartAssumption DEF FlushFirst
  <2>2. tx' \in Ring /\ rx' \in Ring /\ (ring = "rx" => rx'[f] = 0) /\ (ring = "tx" => rx' = rx)
    BY <1>1, <1>2, <2>1
  <2>3. TypeOK'
    BY <1>3, <2>1, <2>2 DEF FlushFirst, TypeOK, Points
  <2>4. rdr' = None
    BY <1>3 DEF FlushFirst, IrqPending, RxIrq
  <2> QED
    BY <1>3, <2>1, <2>2, <2>3, <2>4 DEF FlushFirst
<1>4. CASE FlushSecond
  <2>1. /\ StoreZero(flush.ring, flush.left) /\ flush' = NoFlush
        /\ flush.left \in {"head", "tail"} /\ flush.ring \in {"tx", "rx"} /\ pc = "flush"
    BY <1>4 DEF FlushSecond
  <2>2. tx' \in Ring /\ rx' \in Ring
    BY <1>1, <1>2, <2>1
  <2>3. GetCount(rx') \in 0 .. Size
    <3>1. CASE flush.ring = "tx"
      BY <2>1, <3>1
    <3>2. CASE flush.ring = "rx"
      <4>1. rx'.tail = 0 /\ rx'.head \in {0, 1}
        BY <2>1, <3>2 DEF TypeOK, Ring
      <4> QED
        BY <4>1, HalfBounds DEF GetCount, Behind
    <3> QED
      BY <2>1, <3>1, <3>2
  <2>4. TypeOK'
    BY <1>4, <2>1, <2>2 DEF FlushSecond, TypeOK, Points, NoFlush
  <2> QED
    BY <1>4, <2>1, <2>3, <2>4 DEF FlushSecond
<1> QED
  BY <1>3, <1>4

LEMMA InductiveStep ==
  ASSUME IInv, [Next]_vars
  PROVE  IInv'
<1>1. CASE UNCHANGED vars
  BY <1>1 DEF vars, IInv, TypeOK, MaskedAccess, ReceptionArmed, RxInRange, LoadedCr1,
              CopyFits, HalfFlush, InTx, InRx, Flushing
<1> QED
  BY <1>1, Cr1Steps, HardwareSteps, TxCopySteps, RxCopySteps, IsrStep, FlushSteps
  DEF Next, MainStep

-----------------------------------------------------------------------------
(* The invariant of the transmit ring, which a step keeps unless the       *)
(* handler is due in the middle of a transmit flush.                       *)

TxInRange     == ~Flushing("tx") => GetCount(tx) \in 0 .. Size
TxArmed       == ~InTx /\ ~Flushing("tx") /\ ~IsEmpty(tx) => "TXE" \in cr1
TxSegmentFits == pc = "txSeg2" => second <= GetFree(tx)
TxHalfFlush   ==
  Flushing("tx") => \/ flush.left = "head" /\ tx.tail = 0
                    \/ flush.left = "tail" /\ tx.head = 0

TxInv == TxInRange /\ TxArmed /\ TxSegmentFits /\ TxHalfFlush

LEMMA InitTxInv == Init => TxInv
BY InitRing, HalfBounds
DEF Init, TxInv, TxInRange, TxArmed, TxSegmentFits, TxHalfFlush, Flushing

(* Steps that leave the transmit ring alone.                               *)
LEMMA TxUntouched ==
  ASSUME IInv, TxInv,
         \/ TxShift \/ LineByte
         \/ SendCall \/ TxMask \/ TxLoad \/ TxUnmask
         \/ ReadCall \/ RxMask \/ RxSegment1 \/ RxSegment2 \/ RxLoad \/ RxUnmask
  PROVE  TxInv'
<1> USE DEF IInv, LoadedCr1, TxInv, TxInRange, TxArmed, TxSegmentFits, TxHalfFlush, InTx,
            At, hardware, locals, Flushing
<1>1. CASE TxShift
  BY <1>1 DEF TxShift
<1>2. CASE LineByte
  <2>1. flush'.ring = flush.ring /\ flush'.left = flush.left
    BY <1>2 DEF LineByte, TypeOK
  <2> QED
    BY <1>2, <2>1 DEF LineByte
<1>3. CASE SendCall \/ TxMask \/ TxLoad \/ TxUnmask
  BY <1>3 DEF SendCall, TxMask, TxLoad, TxUnmask, LoadCr1, StoreCr1
<1>4. CASE ReadCall \/ RxMask \/ RxLoad \/ RxUnmask
  BY <1>4 DEF ReadCall, RxMask, RxLoad, RxUnmask, LoadCr1, StoreCr1
<1>5. CASE RxSegment1 \/ RxSegment2
  BY <1>5 DEF RxSegment1, RxSegment2
<1> QED
  BY <1>1, <1>2, <1>3, <1>4, <1>5

(* A segment of a bulk copy into the ring, its interrupt off.              *)
LEMMA TxCopied ==
  ASSUME IInv, TxInv, TxSegment1 \/ TxSegment2
  PROVE  TxInv'
<1> USE DEF IInv, TxInv, TxInRange, TxArmed, TxSegmentFits, TxHalfFlush, InTx, At, hardware, Flushing
<1>1. /\ tx \in Ring /\ tx.head \in 0 .. Modulus - 1 /\ todo \in Seq(Byte) /\ Len(todo) \in Nat
      /\ GetCount(tx) \in 0 .. Size /\ GetFree(tx) \in 0 .. Size
  <2>1. tx \in Ring /\ todo \in Seq(Byte)
    BY DEF TypeOK
  <2>2. tx.head \in 0 .. Modulus - 1 /\ Len(todo) \in Nat
    BY <2>1, LenProperties DEF Ring
  <2>3. GetCount(tx) \in 0 .. Size
    BY DEF TxSegment1, TxSegment2
  <2>4. GetFree(tx) \in 0 .. Size
    BY <2>3, HalfBounds DEF GetFree
  <2> QED
    BY <2>1, <2>2, <2>3, <2>4
<1>2. ASSUME NEW n \in Nat, n <= GetFree(tx), n <= Len(todo), tx' = Write(tx, SubSeq(todo, 1, n))
      PROVE  GetCount(tx') = GetCount(tx) + n /\ GetCount(tx') \in 0 .. Size
  <2> DEFINE s == SubSeq(todo, 1, n)
  <2>1. s \in Seq(Byte) /\ Len(s) = n /\ n \in 0 .. Size /\ n \in 0 .. Modulus - 1
    BY <1>1, <1>2, SubSeqProperties, HalfBounds DEF Modulus
  <2> HIDE DEF s
  <2>2. tx' \in Ring /\ tx'.tail = tx.tail /\ tx'.head = Advance(tx.head, n)
    BY <1>1, <1>2, <2>1, WriteRing DEF s
  <2>3. GetCount(tx) + n <= Size
    BY <1>1, <1>2, HalfBounds DEF GetFree
  <2>4. GetCount(tx') = GetCount(tx) + n
    BY <1>1, <2>1, <2>2, <2>3, CountAfterInsert
  <2> QED
    BY <1>1, <2>1, <2>3, <2>4, HalfBounds
<1>3. CASE TxSegment1
  <2>1. CASE IsFull(tx)
    BY <1>3, <2>1 DEF TxSegment1
  <2>2. CASE ~IsFull(tx)
    <3> DEFINE n1 == FirstSegment(tx.head, GetFree(tx), Len(todo))
               n2 == SecondSegment(tx.head, GetFree(tx), Len(todo))
    <3>1. n1 \in 0 .. Len(todo) /\ n1 <= GetFree(tx) /\ n1 + n2 <= GetFree(tx) /\ n2 \in Nat
      <4>1. GetFree(tx) \in Nat
        BY <1>1, HalfBounds
      <4>2. /\ n1 \in 0 .. Len(todo) /\ n1 <= GetFree(tx) /\ n1 + n2 <= GetFree(tx)
            /\ n2 \in 0 .. Len(todo) - n1
        BY <1>1, <4>1, SegmentBounds
      <4> HIDE DEF n1, n2
      <4> QED
        BY <1>1, <4>2
    <3>2. /\ tx' = Write(tx, SubSeq(todo, 1, n1)) /\ second' = n2
          /\ pc = "txSeg1" /\ pc' = "txSeg2"
      BY <1>3, <2>2 DEF TxSegment1
    <3> HIDE DEF n1, n2
    <3>3. GetCount(tx') = GetCount(tx) + n1 /\ GetCount(tx') \in 0 .. Size
      BY <1>1, <1>2, <3>1, <3>2
    <3>4. second' <= GetFree(tx')
      BY <1>1, <3>1, <3>2, <3>3, HalfBounds DEF GetFree
    <3> QED
      BY <3>2, <3>3, <3>4
  <2> QED
    BY <2>1, <2>2
<1>4. CASE TxSegment2
  <2>1. /\ second \in Nat /\ second <= GetFree(tx) /\ second <= Len(todo)
        /\ tx' = Write(tx, SubSeq(todo, 1, second)) /\ pc' = "txLoad"
    BY <1>4, ChunkBounds DEF TxSegment2, TypeOK, CopyFits
  <2>2. GetCount(tx') \in 0 .. Size
    BY <1>2, <2>1
  <2> QED
    BY <2>1, <2>2
<1> QED
  BY <1>3, <1>4

(* The handler pops a byte, or turns TXE off when there is none.           *)
LEMMA TxServed ==
  ASSUME IInv, TxInv, ~TxFlushHit, Isr
  PROVE  TxInv'
<1> USE DEF IInv, MaskedAccess, TxInv, TxInRange, TxArmed, TxSegmentFits, TxHalfFlush, InTx,
            Flushing
<1>1. tx \in Ring /\ UNCHANGED <<pc, reg, todo, want, second, buf, flush>>
  BY DEF Isr, locals, TypeOK
<1>2. CASE TxIrq /\ ~IsEmpty(tx)
  <2>1. tx' = Discard(tx, 1) /\ cr1' = cr1 /\ "TXE" \in cr1 /\ ~Flushing("tx") /\ ~InTx
    BY <1>2 DEF Isr, ServeTx, TxIrq, TxFlushHit
  <2>2. tx' \in Ring /\ tx'.head = tx.head /\ tx'.tail = Advance(tx.tail, 1) /\ 1 \in 0 .. Size
    <3>1. 1 \in 0 .. Size
      BY HalfBounds
    <3> QED
      BY <1>1, <2>1, <3>1, DiscardRing
  <2>3. GetCount(tx) \in 0 .. Size /\ 1 <= GetCount(tx)
    BY <1>1, <1>2, <2>1, EmptyIsCountZero
  <2>4. GetCount(tx') = GetCount(tx) - 1
    BY <1>1, <2>2, <2>3, CountAfterDiscard
  <2>5. GetCount(tx') \in 0 .. Size
    BY <2>3, <2>4, HalfBounds
  <2> QED
    BY <1>1, <2>1, <2>5
<1>3. CASE TxIrq /\ IsEmpty(tx)
  BY <1>1, <1>3 DEF Isr, ServeTx
<1>4. CASE ~TxIrq
  BY <1>1, <1>4 DEF Isr, ServeTx
<1> QED
  BY <1>2, <1>3, <1>4

(* The two stores of a flush of either ring.                               *)
LEMMA TxFlushed ==
  ASSUME IInv, TxInv, FlushFirst \/ FlushSecond
  PROVE  TxInv'
<1> USE DEF IInv, TxInv, TxInRange, TxArmed, TxSegmentFits, TxHalfFlush, InTx,
            hardware, StoreZero, Zeroed, Flushing, HalfFlush
<1>1. tx \in Ring
  BY DEF TypeOK
<1>2. CASE FlushFirst
  <2>1. PICK ring \in {"tx", "rx"}, f \in {"head", "tail"} :
          /\ StoreZero(ring, f)
          /\ flush' = [ring |-> ring, left |-> IF f = "head" THEN "tail" ELSE "head",
                       arrived |-> FALSE]
    BY <1>2, UartAssumption DEF FlushFirst
  <2>2. pc = "idle" /\ pc' = "flush"
    BY <1>2 DEF FlushFirst
  <2>3. CASE ring = "rx"
    BY <2>1, <2>2, <2>3
  <2>4. CASE ring = "tx"
    BY <1>1, <2>1, <2>2, <2>4 DEF Ring
  <2> QED
    BY <2>3, <2>4
<1>3. CASE FlushSecond
  <2>1. /\ StoreZero(flush.ring, flush.left) /\ pc = "flush" /\ pc' = "idle"
        /\ flush.left \in {"head", "tail"} /\ flush.ring \in {"tx", "rx"}
    BY <1>3 DEF FlushSecond
  <2>2. CASE flush.ring = "rx"
    BY <2>1, <2>2
  <2>3. CASE flush.ring = "tx"
    <3>1. tx'.head = 0 /\ tx'.tail = 0
      BY <1>1, <2>1, <2>3 DEF Ring
    <3>2. GetCount(tx') = 0 /\ IsEmpty(tx')
      BY <3>1, HalfBounds DEF GetCount, Behind, IsEmpty
    <3> QED
      BY <2>1, <3>2, HalfBounds
  <2> QED
    BY <2>1, <2>2, <2>3
<1> QED
  BY <1>2, <1>3

LEMMA TxInductiveStep ==
  ASSUME IInv, TxInv, ~TxFlushHit, [Next]_vars
  PROVE  TxInv'
<1>1. CASE UNCHANGED vars
  BY <1>1 DEF vars, TxInv, TxInRange, TxArmed, TxSegmentFits, TxHalfFlush, InTx, Flushing
<1> QED
  BY <1>1, TxUntouched, TxCopied, TxServed, TxFlushed DEF Next, MainStep

(* A torn ring is whole again once the next flush has begun: its counters  *)
(* mean nothing until the flush ends, and then both are zero.              *)
LEMMA TxFlushBegun ==
  ASSUME IInv, FlushFirst, torn = "ring", torn' # "ring"
  PROVE  TxInv'
<1>1. PICK ring \in {"tx", "rx"}, f \in {"head", "tail"} :
        /\ StoreZero(ring, f)
        /\ flush' = [ring |-> ring, left |-> IF f = "head" THEN "tail" ELSE "head",
                     arrived |-> FALSE]
        /\ torn' = IF ring = "tx" /\ torn # "no"
                   THEN IF tdr = None THEN "no" ELSE "byte"
                   ELSE torn
  BY UartAssumption DEF FlushFirst
<1>2. pc' = "flush" /\ ring = "tx" /\ tx \in Ring
  BY <1>1 DEF FlushFirst, IInv, TypeOK
<1>3. Flushing("tx")' /\ tx' = [tx EXCEPT ![f] = 0]
  BY <1>1, <1>2 DEF Flushing, StoreZero, Zeroed
<1>4. TxHalfFlush'
  BY <1>1, <1>2, <1>3 DEF TxHalfFlush, Ring
<1> QED
  BY <1>2, <1>3, <1>4 DEF TxInv, TxInRange, TxArmed, TxSegmentFits

(* With the handler due between the stores of a flush, only a byte on the  *)
(* line or the handler itself can come next.                               *)
LEMMA TxStruck ==
  ASSUME IInv, TxInv, TxFlushHit, [Next]_vars
  PROVE  TxInv' \/ torn' = "ring"
<1>1. CASE UNCHANGED vars
  BY <1>1 DEF vars, TxInv, TxInRange, TxArmed, TxSegmentFits, TxHalfFlush, InTx, Flushing
<1>2. CASE Isr
  BY <1>2 DEF Isr
<1>3. CASE TxShift \/ LineByte
  BY <1>3, TxUntouched
<1>4. ~MainStep
  BY DEF TxFlushHit, IrqPending, MainStep, SendCall, TxMask, TxSegment1, TxSegment2, TxLoad,
         TxUnmask, ReadCall, RxMask, RxSegment1, RxSegment2, RxLoad, RxUnmask, LoadCr1,
         StoreCr1, At, FlushFirst, FlushSecond
<1> QED
  BY <1>1, <1>2, <1>3, <1>4 DEF Next

(* What holds of the transmit ring in every state.                         *)
TxByte == torn = "byte" => tdr # None
TxUnlessTorn == (torn # "ring" => TxInv) /\ TxByte

LEMMA InitTx == Init => TxUnlessTorn
BY InitTxInv DEF Init, TxUnlessTorn, TxByte

LEMMA TxByteStep ==
  ASSUME IInv, TxByte, [Next]_vars
  PROVE  TxByte'
<1> USE DEF TxByte
<1>1. CASE UNCHANGED vars
  BY <1>1 DEF vars
<1>2. CASE Isr
  <2>1. tdr' = tdr \/ tdr = None
    BY <1>2 DEF Isr, ServeTx, TxIrq
  <2> QED
    BY <1>2, <2>1 DEF Isr
<1>3. CASE TxShift \/ LineByte
  BY <1>3 DEF TxShift, LineByte
<1>4. CASE FlushFirst \/ FlushSecond
  BY <1>4 DEF FlushFirst, FlushSecond, StoreZero, hardware
<1>5. CASE \/ SendCall \/ TxMask \/ TxSegment1 \/ TxSegment2 \/ TxLoad \/ TxUnmask
           \/ ReadCall \/ RxMask \/ RxSegment1 \/ RxSegment2 \/ RxLoad \/ RxUnmask
  BY <1>5 DEF SendCall, TxMask, TxSegment1, TxSegment2, TxLoad, TxUnmask, ReadCall, RxMask,
              RxSegment1, RxSegment2, RxLoad, RxUnmask, LoadCr1, StoreCr1, At, hardware
<1> QED
  BY <1>1, <1>2, <1>3, <1>4, <1>5 DEF Next, MainStep

LEMMA TxUnlessTornStep ==
  ASSUME IInv, TxUnlessTorn, [Next]_vars
  PROVE  TxUnlessTorn'
<1>1. TxByte'
  BY TxByteStep DEF TxUnlessTorn
<1>2. ASSUME torn' # "ring"
      PROVE  TxInv'
  <2>1. CASE torn = "ring"
    <3>1. FlushFirst
      BY <1>2, <2>1
      DEF Next, MainStep, vars, Isr, TxShift, LineByte, SendCall, TxMask, TxSegment1, TxSegment2,
          TxLoad, TxUnmask, ReadCall, RxMask, RxSegment1, RxSegment2, RxLoad, RxUnmask,
          LoadCr1, StoreCr1, At, FlushSecond
    <3> QED
      BY <1>2, <2>1, <3>1, TxFlushBegun
  <2>2. CASE torn # "ring" /\ ~TxFlushHit
    BY <2>2, TxInductiveStep DEF TxUnlessTorn
  <2>3. CASE torn # "ring" /\ TxFlushHit
    BY <1>2, <2>3, TxStruck DEF TxUnlessTorn
  <2> QED
    BY <2>1, <2>2, <2>3
<1> QED
  BY <1>1, <1>2 DEF TxUnlessTorn

-----------------------------------------------------------------------------
(* Type correctness of the data UART, for any ring size and counter width, *)
(* whatever is flushed.                                                    *)
THEOREM TypeCorrect == Spec => []TypeOK
<1>1. IInv => TypeOK
  BY DEF IInv
<1> QED
  BY <1>1, InitIInv, InductiveStep, PTL DEF Spec

(* The main loop and the handler never work on one ring at the same time   *)
(* (uartHandler.c:90), although both rewrite CR1; whatever is flushed.     *)
THEOREM ExclusiveAccess == Spec => []MaskedAccess
<1>1. IInv => MaskedAccess
  BY DEF IInv
<1> QED
  BY <1>1, InitIInv, InductiveStep, PTL DEF Spec

(* Reception stays on outside UART_read and the receive ring neither over- *)
(* nor underflows, whatever is flushed: a transmit flush that goes wrong   *)
(* does not reach it.                                                      *)
THEOREM ReceiveSafe == Spec => [](ReceptionArmed /\ RxInRange)
<1>1. IInv => ReceptionArmed /\ RxInRange
  BY DEF IInv
<1> QED
  BY <1>1, InitIInv, InductiveStep, PTL DEF Spec

(* No wake-up is lost: an interrupt is on whenever the ring it serves      *)
(* needs it, whatever the interleaving of the CR1 read-modify-writes.      *)
(* Only from a flush of the transmit ring that the handler tears to the    *)
(* next flush may its interrupt be off with bytes counted.                 *)
THEOREM NoLostWakeup == Spec => []InterruptArmed
<1>1. IInv /\ TxUnlessTorn => InterruptArmed
  BY DEF IInv, TxUnlessTorn, TxInv, InterruptArmed, TxWhole, ReceptionArmed, TxArmed
<1> QED
  BY <1>1, InitIInv, InductiveStep, InitTx, TxUnlessTornStep, PTL DEF Spec

(* No ring over- or underflows, across every wrap of its counters and      *)
(* whatever is flushed, but for a transmit ring whose last flush is torn.  *)
THEOREM NoOverrun == Spec => []CountInRange
<1>1. IInv /\ TxUnlessTorn => CountInRange
  BY DEF IInv, TxUnlessTorn, TxInv, CountInRange, TxWhole, RxInRange, TxInRange
<1> QED
  BY <1>1, InitIInv, InductiveStep, InitTx, TxUnlessTornStep, PTL DEF Spec

(* Nothing else tears the ring: as long as no transmit interrupt is due    *)
(* between the two stores of a transmit flush, the ring is whole outside   *)
(* its flushes.  That one interleaving is all uart_flush_tx needs.         *)
THEOREM TornByFlushOnly == Spec /\ []~TxFlushHit => [](Flushing("tx") \/ TxWhole)
<1> DEFINE Untorn == torn # "ring"
<1>1. Init => Untorn
  BY DEF Init
<1>2. Untorn /\ ~TxFlushHit /\ [Next]_vars => Untorn'
  BY DEF Next, MainStep, vars, Isr, TxShift, LineByte, SendCall, TxMask, TxSegment1, TxSegment2,
         TxLoad, TxUnmask, ReadCall, RxMask, RxSegment1, RxSegment2, RxLoad, RxUnmask,
         LoadCr1, StoreCr1, At, FlushFirst, FlushSecond
<1>3. Untorn => (Flushing("tx") \/ TxWhole)
  BY DEF TxWhole
<1> QED
  BY <1>1, <1>2, <1>3, PTL DEF Spec
=============================================================================
