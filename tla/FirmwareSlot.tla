---------------------------- MODULE FirmwareSlot ----------------------------
(***************************************************************************)
(* What the boot loader promises of the one place an application lives in: *)
(* the image there is replaced only on request, only while it is not       *)
(* running, and a request is settled, and an image run, only when it is    *)
(* whole.  Power may go at any time.                                       *)
(***************************************************************************)
VARIABLES
  image,    \* "old", "new", or "partial" for anything else (an empty slot too)
  wanted,   \* an update has been asked for and not been settled
  running

slotVars == <<image, wanted, running>>

Init == image \in {"old", "partial"} /\ wanted = FALSE /\ running = FALSE

Ask == wanted' = TRUE /\ UNCHANGED <<image, running>>
Overwrite ==
  /\ wanted /\ ~running
  /\ image' = "partial" \/ (image = "partial" /\ image' = "new")
  /\ UNCHANGED <<wanted, running>>
Settle == wanted /\ ~running /\ image = "new" /\ wanted' = FALSE /\ UNCHANGED <<image, running>>
Run ==
  /\ ~wanted /\ image \in {"old", "new"}
  /\ running' = TRUE /\ UNCHANGED <<image, wanted>>
Stop == running' = FALSE /\ UNCHANGED <<image, wanted>>

Next == Ask \/ Overwrite \/ Settle \/ Run \/ Stop

Spec == Init /\ [][Next]_slotVars
=============================================================================
