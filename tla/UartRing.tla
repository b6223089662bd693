------------------------------ MODULE UartRing ------------------------------
(***************************************************************************)
(* The data UART (USART2) of the application: the main loop's              *)
(* UART_read / UART_write / UART_buffer_flush (PlatformHandler/            *)
(* uartHandler.c), the interrupt handler Chip_UART_IRQRBHandler and the    *)
(* two rings between them.                                                 *)
(*                                                                         *)
(* The handler runs to completion and preempts the main loop at once, so   *)
(* it is one action and a main-loop step needs IrqPending to be false.     *)
(* The main loop is cut wherever it touches what the handler touches: the  *)
(* load and the store of a read-modify-write of CR1 (USART_ITConfig), each *)
(* segment of a bulk copy, and the two stores of RingBuffer_Flush, which   *)
(* are not volatile and so have no fixed order in the build.               *)
(***************************************************************************)
EXTENDS RingBuffer

CONSTANTS
  None,        \* no byte in a data register
  MaxChunk,    \* longest buffer given to UART_write / UART_read
  FlushRings,  \* rings the main loop flushes: a subset of {"tx", "rx"}
  FlushOrders  \* store orders of a flush: {"head", "tail"} names the first field stored

(* The length of a bulk copy is an int.                                    *)
ASSUME UartAssumption ==
  /\ None \notin Byte
  /\ MaxChunk \in 1 .. Half - 1
  /\ FlushRings \subseteq {"tx", "rx"}
  /\ FlushOrders \subseteq {"head", "tail"}

VARIABLES
  tx, rx,  \* txring, rxring
  cr1,     \* the interrupts enabled in USART CR1: a subset of {"TXE", "RXNE"}
  tdr,     \* transmit data register (None: the TXE flag is set)
  rdr,     \* receive data register (None: the RXNE flag is clear)
  pc,      \* where the main loop is in a call
  reg,     \* CR1 as loaded by a USART_ITConfig that has not stored it yet
  todo,    \* bytes of this UART_write not yet copied to the ring
  want,    \* items this UART_read still asks for
  second,  \* length of the second segment of a bulk copy
  buf,     \* what this UART_read copied out so far
  flush,   \* the flush under way: its ring, the field it still has to store, and whether
           \* a byte arrived since it began
  torn     \* history, read by no step: what a transmit interrupt between the stores of a
           \* transmit flush left behind.  "ring": counters that no longer belong together;
           \* "byte": flushed since, but the data register still has a byte of that ring

vars == <<tx, rx, cr1, tdr, rdr, pc, reg, todo, want, second, buf, flush, torn>>
hardware == <<tdr, rdr>>
locals == <<reg, todo, want, second, buf, flush>>

Sent == UNION {[1 .. n -> Byte] : n \in 1 .. MaxChunk}

NoFlush == [ring |-> "none", left |-> "none", arrived |-> FALSE]

(* The main loop owns a ring between these points: its interrupt is off.   *)
InTx == pc \in {"txSeg1", "txSeg2", "txLoad", "txUnmask"}
InRx == pc \in {"rxSeg1", "rxSeg2", "rxLoad", "rxUnmask"}

Init ==
  /\ tx = RingBuffer_Init /\ rx = RingBuffer_Init
  /\ cr1 = {"RXNE"}
  /\ tdr = None /\ rdr = None
  /\ pc = "idle" /\ reg = {} /\ todo = <<>> /\ want = 0 /\ second = 0 /\ buf = <<>>
  /\ flush = NoFlush /\ torn = "no"

-----------------------------------------------------------------------------
(* The interrupt handler *)

TxIrq == "TXE" \in cr1 /\ tdr = None
RxIrq == "RXNE" \in cr1 /\ rdr # None
IrqPending == TxIrq \/ RxIrq

(* Between the two stores of a flush the counters of its ring mean nothing.*)
Flushing(ring) == pc = "flush" /\ flush.ring = ring

(* What undoes a transmit flush: the handler is due between its two stores *)
(* and will pop from a ring whose counters disagree.                       *)
TxFlushHit == Flushing("tx") /\ TxIrq

(* Pop one byte into the data register, or turn TXE off on an empty ring.  *)
ServeTx ==
  \/ /\ TxIrq /\ ~IsEmpty(tx)
     /\ tdr' = tx.data[Slot(tx.tail)]
     /\ tx' = Discard(tx, 1)
     /\ cr1' = cr1
  \/ /\ TxIrq /\ IsEmpty(tx)
     /\ cr1' = cr1 \ {"TXE"}
     /\ UNCHANGED <<tx, tdr>>
  \/ /\ ~TxIrq
     /\ UNCHANGED <<tx, cr1, tdr>>

ServeRx_Unchecked ==
  IF RxIrq THEN rx' = Insert(rx, rdr) /\ rdr' = None ELSE UNCHANGED <<rx, rdr>>

(* Insert the received byte.  On a full ring ("Buffer Overflow") the data  *)
(* register is not read, so RXNE stays set and the interrupt stays pending:*)
(* the handler is entered for ever, and no step of the main loop follows.  *)
ServeRx ==
  \/ /\ RxIrq /\ ~IsFull(rx)
     /\ rx' = Insert(rx, rdr)
     /\ rdr' = None
  \/ /\ RxIrq => IsFull(rx)
     /\ UNCHANGED <<rx, rdr>>

Isr ==
  /\ IrqPending
  /\ ServeTx /\ ServeRx
  /\ torn' = IF TxFlushHit THEN "ring" ELSE torn
  /\ UNCHANGED <<pc, locals>>

-----------------------------------------------------------------------------
(* The hardware *)

(* The transmitter shifts the data register out.                           *)
TxShift ==
  /\ tdr # None /\ tdr' = None
  /\ torn' = IF torn = "byte" THEN "no" ELSE torn
  /\ UNCHANGED <<tx, rx, cr1, rdr, pc, locals>>

(* A byte arrives; one that finds the data register occupied is lost in    *)
(* the receiver (overrun) and changes nothing here.  The two stores of a   *)
(* flush are adjacent instructions: at most one character time passes.     *)
LineByte ==
  /\ rdr = None /\ ~flush.arrived
  /\ \E b \in Byte : rdr' = b
  /\ flush' = [flush EXCEPT !.arrived = pc = "flush"]
  /\ UNCHANGED <<tx, rx, cr1, tdr, pc, reg, todo, want, second, buf, torn>>

-----------------------------------------------------------------------------
(* The main loop *)

(* One main-loop step from point a to point b.                             *)
At(a, b) == ~IrqPending /\ pc = a /\ pc' = b /\ UNCHANGED <<hardware, flush, torn>>

(* USART_ITConfig: CR1 is loaded, then stored with one bit changed.  What  *)
(* UART_read returned is the caller's when the last store is done.         *)
LoadCr1(a, b) == At(a, b) /\ reg' = cr1 /\ UNCHANGED <<tx, rx, cr1>>
StoreCr1(a, b, value) ==
  /\ At(a, b) /\ cr1' = value /\ reg' = {} /\ buf' = <<>>
  /\ UNCHANGED <<tx, rx, todo, want, second>>

(* Chip_UART_SendRB: disable TXE, RingBuffer_InsertMult, enable TXE.       *)
SendCall ==
  /\ LoadCr1("idle", "txMask")
  /\ todo' \in Sent
  /\ UNCHANGED <<want, second, buf>>
TxMask_Skip == StoreCr1("txMask", "txSeg1", reg)
TxMask == StoreCr1("txMask", "txSeg1", reg \ {"TXE"})

TxSegment1_NoFullTest ==
  LET n1 == FirstSegment(tx.head, Size, Len(todo))
  IN /\ At("txSeg1", "txSeg2")
     /\ tx' = Write(tx, SubSeq(todo, 1, n1))
     /\ todo' = SubSeq(todo, n1 + 1, Len(todo))
     /\ second' = SecondSegment(tx.head, Size, Len(todo))
     /\ UNCHANGED <<rx, cr1, reg, want, buf>>

TxSegment1 ==
  \/ /\ IsFull(tx)
     /\ At("txSeg1", "txLoad")
     /\ UNCHANGED <<tx, rx, cr1, reg, todo, want, second, buf>>
  \/ LET n1 == FirstSegment(tx.head, GetFree(tx), Len(todo))
     IN /\ ~IsFull(tx)
        /\ At("txSeg1", "txSeg2")
        /\ tx' = Write(tx, SubSeq(todo, 1, n1))
        /\ todo' = SubSeq(todo, n1 + 1, Len(todo))
        /\ second' = SecondSegment(tx.head, GetFree(tx), Len(todo))
        /\ UNCHANGED <<rx, cr1, reg, want, buf>>
TxSegment2 ==
  /\ At("txSeg2", "txLoad")
  /\ tx' = Write(tx, SubSeq(todo, 1, second))
  /\ todo' = <<>> /\ second' = 0
  /\ UNCHANGED <<rx, cr1, reg, want, buf>>
TxLoad == LoadCr1("txLoad", "txUnmask") /\ todo' = <<>> /\ UNCHANGED <<want, second, buf>>
TxUnmask_Skip == StoreCr1("txUnmask", "idle", reg)
TxUnmask == StoreCr1("txUnmask", "idle", reg \cup {"TXE"})

(* Chip_UART_ReadRB, and Chip_UART_ReadRB_BLK once its wait for a byte is  *)
(* over: disable RXNE, RingBuffer_PopMult, enable RXNE.                    *)
ReadCall ==
  /\ LoadCr1("idle", "rxMask")
  /\ want' \in 1 .. MaxChunk
  /\ UNCHANGED <<todo, second, buf>>
RxMask == StoreCr1("rxMask", "rxSeg1", reg \ {"RXNE"})
RxSegment1 ==
  \/ /\ IsEmpty(rx)
     /\ At("rxSeg1", "rxLoad")
     /\ UNCHANGED <<tx, rx, cr1, reg, todo, want, second, buf>>
  \/ LET n1 == FirstSegment(rx.tail, GetCount(rx), want)
     IN /\ ~IsEmpty(rx)
        /\ At("rxSeg1", "rxSeg2")
        /\ buf' = Oldest(rx, n1)
        /\ rx' = Discard(rx, n1)
        /\ second' = SecondSegment(rx.tail, GetCount(rx), want)
        /\ UNCHANGED <<tx, cr1, reg, todo, want>>
RxSegment2_Reread ==
  /\ At("rxSeg2", "rxLoad")
  /\ buf' = buf \o Oldest(rx, second)
  /\ second' = 0
  /\ UNCHANGED <<tx, rx, cr1, reg, todo, want>>
RxSegment2 ==
  /\ At("rxSeg2", "rxLoad")
  /\ buf' = buf \o Oldest(rx, second)
  /\ rx' = Discard(rx, second)
  /\ second' = 0
  /\ UNCHANGED <<tx, cr1, reg, todo, want>>
RxLoad == LoadCr1("rxLoad", "rxUnmask") /\ want' = 0 /\ UNCHANGED <<todo, second, buf>>
RxUnmask == StoreCr1("rxUnmask", "idle", reg \cup {"RXNE"})

(* RingBuffer_Flush: two plain stores, with the interrupts on.             *)
Zeroed(rb, field) == [rb EXCEPT ![field] = 0]
StoreZero(ring, field) ==
  /\ tx' = IF ring = "tx" THEN Zeroed(tx, field) ELSE tx
  /\ rx' = IF ring = "rx" THEN Zeroed(rx, field) ELSE rx
  /\ UNCHANGED <<cr1, hardware, reg, todo, want, second>>

FlushFirst ==
  /\ ~IrqPending /\ pc = "idle" /\ pc' = "flush"
  /\ \E ring \in FlushRings, f \in FlushOrders :
       /\ StoreZero(ring, f)
       /\ flush' = [ring |-> ring, left |-> IF f = "head" THEN "tail" ELSE "head",
                    arrived |-> FALSE]
       /\ torn' = IF ring = "tx" /\ torn # "no"
                  THEN IF tdr = None THEN "no" ELSE "byte"
                  ELSE torn
  /\ buf' = buf
FlushSecond ==
  /\ ~IrqPending /\ pc = "flush" /\ pc' = "idle"
  /\ StoreZero(flush.ring, flush.left)
  /\ flush' = NoFlush
  /\ UNCHANGED <<buf, torn>>

MainStep ==
  \/ SendCall \/ TxMask \/ TxSegment1 \/ TxSegment2 \/ TxLoad \/ TxUnmask
  \/ ReadCall \/ RxMask \/ RxSegment1 \/ RxSegment2 \/ RxLoad \/ RxUnmask
  \/ FlushFirst \/ FlushSecond

Next == Isr \/ TxShift \/ LineByte \/ MainStep

Spec == Init /\ [][Next]_vars

-----------------------------------------------------------------------------
(* Properties *)

Points == {"idle", "txMask", "txSeg1", "txSeg2", "txLoad", "txUnmask",
           "rxMask", "rxSeg1", "rxSeg2", "rxLoad", "rxUnmask", "flush"}

(* Every variable keeps its type.                                          *)
TypeOK ==
  /\ tx \in Ring /\ rx \in Ring
  /\ cr1 \subseteq {"TXE", "RXNE"} /\ reg \subseteq {"TXE", "RXNE"}
  /\ tdr \in Byte \cup {None} /\ rdr \in Byte \cup {None}
  /\ pc \in Points
  /\ todo \in Seq(Byte) /\ buf \in Seq(Byte)
  /\ want \in 0 .. MaxChunk /\ second \in 0 .. MaxChunk
  /\ flush \in [ring : {"none", "tx", "rx"}, left : {"none", "head", "tail"},
                arrived : BOOLEAN]
  /\ torn \in {"no", "ring", "byte"}

(* "Don't let UART transmit ring buffer change in the UART IRQ handler"    *)
(* (uartHandler.c:90), and the same for the receive ring: while the main   *)
(* loop copies into or out of a ring, that ring's interrupt is off.  The   *)
(* handler changes CR1 too, between a load and a store of USART_ITConfig.  *)
MaskedAccess ==
  /\ InTx => "TXE" \notin cr1
  /\ InRx => "RXNE" \notin cr1

(* The transmit counters mean something: no transmit flush is between its  *)
(* stores, and the last one was not torn by the handler (uart_flush_tx     *)
(* shows that it can be).                                                  *)
TxWhole == ~Flushing("tx") /\ torn # "ring"

(* No lost wake-up: outside UART_write a byte in a whole transmit ring has *)
(* its interrupt on, and outside UART_read reception is on.                *)
InterruptArmed ==
  /\ ~InTx /\ TxWhole /\ ~IsEmpty(tx) => "TXE" \in cr1
  /\ ~InRx => "RXNE" \in cr1

(* GetCount never leaves 0 .. count, whatever the interrupts between the   *)
(* steps of a bulk copy: only a torn transmit flush makes one counter of   *)
(* a ring pass the other, and the next flush undoes that.                  *)
CountInRange ==
  /\ TxWhole => GetCount(tx) \in 0 .. Size
  /\ ~Flushing("rx") => GetCount(rx) \in 0 .. Size

(* The transmit ring carries the bytes UART_write accepted to the wire in  *)
(* order, each once, and a flush loses whole bytes at most; but from a     *)
(* torn flush to the next flush what goes out is not accounted for.        *)
TxHeld == IF TxWhole THEN Contents(tx) ELSE <<>>
TxOut  == IF tdr = None \/ torn # "no" THEN <<>> ELSE <<tdr>>
TxFifo == INSTANCE ByteFifo WITH q <- TxHeld, out <- TxOut, Cap <- Size
TxCarriesInOrder == TxFifo!Spec

(* The receive ring carries the received bytes to UART_read in order, each *)
(* once; a flush racing the handler loses whole bytes at most, whichever   *)
(* of its stores comes first.                                              *)
RxHeld ==
  IF ~Flushing("rx") THEN Contents(rx)
  ELSE IF flush.left = "head" THEN <<>> ELSE Contents([rx EXCEPT !.tail = 0])
RxFifo == INSTANCE ByteFifo WITH q <- RxHeld, out <- buf, Cap <- Size
RxCarriesInOrder == RxFifo!Spec

(* "Resets the ring buffer to empty" (ring_buffer.h:86).                   *)
FlushEmpties ==
  [][flush.ring = "tx" /\ flush'.ring = "none" => IsEmpty(tx')]_vars
=============================================================================
