----------------------------- MODULE MCUartRing -----------------------------
(***************************************************************************)
(* UartRing for TLC: two-slot rings with three-bit counters, so that every *)
(* counter wraps and every ring position meets every fill level; two byte  *)
(* values tell a lost or repeated byte from a reordered one.               *)
(***************************************************************************)
EXTENDS UartRing

MCByte == {0, 1}

(* Two states with the same counters whose rings hold the same bytes are   *)
(* one.  A slot that holds no byte is written before it is read, and from  *)
(* a torn flush to the next flush no step's guard and no property reads    *)
(* what the transmit ring and the data register carry.                     *)
MCView ==
  <<tx.head, tx.tail, TxHeld, tdr = None, TxOut, rx.head, rx.tail, RxHeld,
    cr1, rdr, pc, reg, todo, want, second, buf, flush, torn>>
=============================================================================
