-------------------------- MODULE BootUpdate_proofs --------------------------
(***************************************************************************)
(* Safety of a firmware update for every image length, number of ports,    *)
(* timeout and retry limit.  Where the result needs that no transfer of an *)
(* earlier boot still sends, the theorem says so: ~Lingering.              *)
(***************************************************************************)
EXTENDS BootUpdate, TLAPS

LEMMA Constants ==
  /\ Last \in Nat /\ Last >= 2 /\ 1 \in Pages /\ Last \in Pages
  /\ Old = -1 /\ Erased = 0 /\ Torn = -2
  /\ NoPort \notin Ports
  /\ Timeout \in Nat /\ Timeout >= 1 /\ Retries \in Nat /\ Retries >= 1
BY BootAssumption DEF Pages, Old, Erased, Torn

-----------------------------------------------------------------------------
(* The inductive invariants.  OnlyWholeRuns says nothing of a download, so *)
(* it is strengthened in three layers.                                     *)

Filled(n) == \A i \in Pages : flash[i] = IF i <= n THEN i ELSE Erased
Waiting == Filled(block) /\ wp = block + 1 /\ block \in 1 .. Last - 1
Writing == block \in 1 .. Last /\ job.block = block /\ wp = block /\ job.saved

(* FlashInv: what is in the flash at each point of TFTP_run and save_data. *)
BootFresh == pc = "boot" => st = "NONE" /\ block = 0 /\ wp = 1 /\ progress = "PROGRESS"
OnlyDownloads == st # "NONE" => Downloading /\ progress = "PROGRESS"
Opening == st \in {"RRQ", "OACK"} => block = 0 /\ wp = 1 /\ (pc = "ack" => ~job.saved)
Received == st = "DATA" /\ pc \in {"timeout", "receive"} => Waiting
Saving ==
  /\ pc \in {"erase", "write", "written"} => st = "DATA" /\ Writing
  /\ pc = "erase" => block = 1 /\ \A i \in 1 .. job.page - 1 : flash[i] = Erased
  /\ pc = "write" => Filled(block - 1)
  /\ pc = "written" =>
       \A i \in Pages : flash[i] = IF i < block THEN i ELSE IF i = block THEN Torn ELSE Erased
Saved ==
  st = "DATA" /\ pc = "ack" =>
    \/ /\ job.saved /\ block \in 1 .. Last /\ job.block = block /\ Filled(block)
       /\ block < Last => wp = block + 1
    \/ ~job.saved /\ Waiting
FlashInv ==
  BootFresh /\ OnlyDownloads /\ Opening /\ Received /\ Saving /\ Saved /\ BlocksInPlace

(* NetInv, of a network without earlier transfers: the server is at most   *)
(* one block ahead of what has been acknowledged, and nothing is           *)
(* acknowledged that is not in the flash.                                  *)
Done ==
  IF pc \in {"erase", "write", "written"} \/ (pc = "ack" /\ job.saved) THEN block - 1 ELSE block
NetInv ==
  /\ pc = "boot" => acked = {} /\ rrq = FALSE /\ \A p \in Ports : sent[p] = -1
  /\ st # "NONE" => /\ \A p \in Ports : sent[p] <= Done + 1
                    /\ \A p \in Ports \cup {NoPort}, b \in 0 .. Last :
                         <<p, b>> \in acked => b <= Done
  /\ buf.op # "DATA"
  /\ pc = "ack" /\ ~job.saved => st = "DATA" /\ job.block <= block

(* SlotInv: the request stays until the image is whole.                    *)
Empty == \A i \in Pages : flash[i] = Erased
SlotInv ==
  /\ progress = "SUCCESS" => Complete /\ ~Downloading
  /\ request = "none" => Whole \/ Empty
  /\ pc = "jump" => request = "none"
  /\ pc \in {"app", "appAsked"} => Whole
  /\ pc \in {"appAsked", "waitAsked"} => request # "none"
  /\ Downloading \/ pc = "result" => request # "none"

-----------------------------------------------------------------------------
(* Types *)

LEMMA PacketType ==
  ASSUME TypeOK, NEW p \in InFlight
  PROVE  p \in Packet
BY DEF InFlight

LEMMA StartTypes ==
  /\ NoJob \in [block : 0 .. Last, saved : BOOLEAN, page : Pages]
  /\ NoPacket \in Packet
  /\ Off \in [flag : {0, 1}, time : 0 .. Timeout, retry : 0 .. Retries - 1]
  /\ Started \in [flag : {0, 1}, time : 0 .. Timeout, retry : 0 .. Retries - 1]
  /\ [p \in Ports |-> 0 - 1] \in [Ports -> -1 .. Last]
BY Constants DEF NoJob, NoPacket, Packet, Off, Started

LEMMA InitTypes == Init => TypeOK
<1> SUFFICES ASSUME Init PROVE TypeOK
  OBVIOUS
<1>1. flash \in [Pages -> {Old, Erased, Torn} \cup Pages]
  BY DEF Init
<1>2. buf \in Packet /\ job \in [block : 0 .. Last, saved : BOOLEAN, page : Pages]
  BY StartTypes DEF Init
<1>3. timer \in [flag : {0, 1}, time : 0 .. Timeout, retry : 0 .. Retries - 1]
  BY StartTypes DEF Init
<1>4. sent \in [Ports -> -1 .. Last]
  BY StartTypes DEF Init
<1>5. block \in 0 .. Last /\ wp \in 1 .. Last + 1
  BY Constants DEF Init
<1> QED
  BY <1>1, <1>2, <1>3, <1>4, <1>5 DEF Init, TypeOK

LEMMA InitFlash == Init => FlashInv
BY Constants, SMTT(30) DEF Init, FlashInv, BootFresh, OnlyDownloads, Opening, Received, Saving,
  Saved, BlocksInPlace, Downloading, Pages

LEMMA ResetTypes ==
  ASSUME TypeOK, Reset, flash' = flash, request' \in {"none", "torn", "set"}
  PROVE  TypeOK'
<1>1. sent' \in [Ports -> -1 .. Last]
  BY StartTypes DEF Reset, TypeOK
<1>2. acked' \subseteq (Ports \cup {NoPort}) \X (0 .. Last)
  BY DEF Reset, TypeOK
<1>3. buf' \in Packet /\ job' \in [block : 0 .. Last, saved : BOOLEAN, page : Pages]
  BY StartTypes DEF Reset
<1>4. timer' \in [flag : {0, 1}, time : 0 .. Timeout, retry : 0 .. Retries - 1]
  BY StartTypes DEF Reset
<1>5. block' \in 0 .. Last /\ wp' \in 1 .. Last + 1
  BY Constants DEF Reset
<1>6. flash' \in [Pages -> {Old, Erased, Torn} \cup Pages]
  BY DEF TypeOK
<1> QED
  BY <1>1, <1>2, <1>3, <1>4, <1>5, <1>6 DEF Reset, TypeOK

LEMMA ReceiveTypes ==
  ASSUME TypeOK, NEW p \in Packet, RecvPacket(p)
  PROVE  TypeOK'
<1> USE Constants, StartTypes
<1>1. Swapped(p) \in Packet /\ p.block \in 0 .. Last /\ p.port \in Ports \cup {NoPort} /\ 1 \in Pages
  BY DEF Swapped, Packet
<1>2. [block |-> p.block, saved |-> NextBlock(p), page |-> 1] \in [block : 0 .. Last, saved : BOOLEAN, page : Pages]
  <2>1. NextBlock(p) \in BOOLEAN
    BY DEF NextBlock
  <2> QED
    BY <1>1, <2>1
<1>3. CASE RecvData(p)
  BY <1>1, <1>2, <1>3 DEF RecvPacket, RecvData, TypeOK, storage
<1>4. CASE RecvOack(p)
  BY <1>1, <1>4 DEF RecvPacket, RecvOack, SendAck, TypeOK, storage
<1>5. CASE RecvError(p)
  BY <1>1, <1>5 DEF RecvPacket, RecvError, InitTftp, TypeOK, storage
<1>6. CASE RecvUnknown(p)
  BY <1>1, <1>6 DEF RecvPacket, RecvUnknown, TypeOK, storage
<1> QED
  BY <1>3, <1>4, <1>5, <1>6 DEF RecvPacket

LEMMA TypesKept == TypeOK /\ FlashInv /\ [Next]_vars => TypeOK'
<1> SUFFICES ASSUME TypeOK, FlashInv, [Next]_vars PROVE TypeOK'
  OBVIOUS
<1> USE Constants, StartTypes
<1>1. CASE PowerFails
  BY <1>1, ResetTypes DEF PowerFails, Reset, TypeOK, storage
<1>2. CASE StoreRequest
  BY <1>2 DEF StoreRequest, TypeOK, client, network
<1>3. CASE StoreRest
  BY <1>3, ResetTypes DEF StoreRest
<1>4. CASE StartUpdate
  BY <1>4 DEF StartUpdate, Step, TypeOK, storage
<1>5. CASE NoUpdate \/ UpdateFailed \/ ClearRequest \/ Jump \/ Stay
  BY <1>5 DEF NoUpdate, UpdateFailed, ClearRequest, Jump, Stay, Step, TypeOK, storage, client, network
<1>6. CASE TimeoutCheck
  <2> DEFINE Acks == (Ports \cup {NoPort}) \X (0 .. Last)
  <2>1. acked' \in SUBSET Acks /\ rrq' \in BOOLEAN
    <3>1. <<port, block>> \in Acks /\ acked \in SUBSET Acks /\ rrq \in BOOLEAN
      BY DEF TypeOK
    <3> HIDE DEF Acks
    <3> QED
      BY <1>6, <3>1 DEF TimeoutCheck, Resend
  <2>2. timer' \in [flag : {0, 1}, time : 0 .. Timeout, retry : 0 .. Retries - 1]
    <3>1. ASSUME timer.retry + 1 < Retries, timer' = [timer EXCEPT !.time = 0, !.retry = @ + 1]
          PROVE  timer' \in [flag : {0, 1}, time : 0 .. Timeout, retry : 0 .. Retries - 1]
      <4>1. timer.retry + 1 \in 0 .. Retries - 1 /\ 0 \in 0 .. Timeout /\ timer.flag \in {0, 1}
        BY <3>1 DEF TypeOK
      <4>2. timer' = [flag |-> timer.flag, time |-> 0, retry |-> timer.retry + 1]
        BY <3>1 DEF TypeOK
      <4> QED
        BY <4>1, <4>2
    <3>2. timer' \in {timer, Off} \/ (timer.retry + 1 < Retries /\ timer' = [timer EXCEPT !.time = 0, !.retry = @ + 1])
      BY <1>6 DEF TimeoutCheck, InitTftp
    <3> QED
      BY <3>1, <3>2 DEF TypeOK
  <2> QED
    BY <1>6, <2>1, <2>2 DEF TimeoutCheck, Step, InitTftp, TypeOK, storage
<1>7. CASE Receive
  BY <1>7, ReceiveTypes, PacketType DEF Receive
<1>8. CASE ReceiveNothing
  <2>1. CASE RecvPacket(buf)
    BY <2>1, ReceiveTypes DEF TypeOK
  <2> QED
    BY <1>8, <2>1 DEF ReceiveNothing, Step, Return, TypeOK, storage, client, network
<1>9. CASE ErasePage
  <2>1. job' \in [block : 0 .. Last, saved : BOOLEAN, page : Pages]
    <3>1. job.page \in 1 .. Last /\ 1 \in 1 .. Last
      BY DEF TypeOK, Pages
    <3>2. (IF job.page = Last THEN 1 ELSE job.page + 1) \in 1 .. Last
      BY <3>1
    <3>3. job' = [job EXCEPT !.page = IF job.page = Last THEN 1 ELSE job.page + 1]
      BY <1>9 DEF ErasePage
    <3> HIDE Constants
    <3> QED
      BY <3>2, <3>3 DEF TypeOK, Pages
  <2>2. flash' \in [Pages -> {Old, Erased, Torn} \cup Pages]
    BY <1>9 DEF ErasePage, TypeOK
  <2> QED
    BY <1>9, <2>1, <2>2 DEF ErasePage, TypeOK, network
<1>10. CASE WriteStart
  BY <1>10 DEF WriteStart, Step, TypeOK, client, network, Pages
<1>11. CASE WriteEnd
  <2>1. wp \in Pages /\ job.block = wp /\ pc = "written"
    BY <1>11 DEF WriteEnd, Step, FlashInv, Saving, Writing, Pages
  <2>2. flash' \in [Pages -> {Old, Erased, Torn} \cup Pages]
    BY <1>11, <2>1 DEF WriteEnd, TypeOK
  <2>3. wp' \in 1 .. Last + 1
    BY <1>11, <2>1 DEF WriteEnd, Pages
  <2> QED
    BY <1>11, <2>2, <2>3 DEF WriteEnd, Step, TypeOK, network
<1>12. CASE AckData
  BY <1>12 DEF AckData, AckTimer, InitTftp, Return, TypeOK, storage
<1>13. CASE Tick
  BY <1>13 DEF Tick, TypeOK, storage, network
<1>14. CASE ServerOpens
  BY <1>14 DEF ServerOpens, TypeOK, storage, client
<1>15. CASE ServerAdvances
  BY <1>15 DEF ServerAdvances, TypeOK, storage, client
<1>16. CASE UNCHANGED vars
  BY <1>16 DEF vars, storage, client, network, TypeOK
<1> QED
  BY <1>1, <1>2, <1>3, <1>4, <1>5, <1>6, <1>7, <1>8, <1>9, <1>10, <1>11, <1>12, <1>13, <1>14, <1>15,
    <1>16 DEF Next, MainStep

-----------------------------------------------------------------------------
(* The flash during a download *)

LEMMA ResetFlash ==
  ASSUME TypeOK, FlashInv, Reset, flash' = flash
  PROVE  FlashInv'
BY DEF FlashInv, BootFresh, OnlyDownloads, Opening, Received, Saving, Saved, BlocksInPlace, Reset

LEMMA ReceiveFlash ==
  ASSUME TypeOK, FlashInv, NEW p \in Packet, RecvPacket(p)
  PROVE  FlashInv'
<1> USE Constants
<1>1. pc = "receive" /\ st # "NONE" /\ UNCHANGED <<flash, wp>>
  BY DEF RecvPacket, storage
<1>2. CASE RecvData(p) /\ NextBlock(p)
  <2>1. st' = "DATA" /\ block' = p.block /\ progress' = progress /\ pc' = IF p.block = 1 THEN "erase" ELSE "write"
    BY <1>2 DEF RecvData
  <2>2. job'.block = p.block /\ job'.saved /\ job'.page = 1
    BY <1>2 DEF RecvData
  <2>3. p.block \in 0 .. Last /\ p.block = block + 1 /\ wp = p.block
    BY <1>1, <1>2 DEF NextBlock, Packet, FlashInv, Opening, Received, Waiting
  <2>4. p.block # 1 => Filled(block)
    BY <1>1, <1>2 DEF NextBlock, FlashInv, Received, Waiting
  <2>5. Saving'
    BY <1>1, <2>1, <2>2, <2>3, <2>4 DEF Saving, Writing, Filled, TypeOK
  <2> QED
    BY <1>1, <2>1, <2>2, <2>3, <2>5 DEF FlashInv, BootFresh, OnlyDownloads, Downloading, Opening,
      Received, Saved, BlocksInPlace
<1>3. CASE RecvData(p) /\ ~NextBlock(p)
  <2>1. UNCHANGED <<st, block, progress>> /\ pc' = "ack" /\ ~job'.saved
    BY <1>3 DEF RecvData
  <2> QED
    BY <1>1, <2>1 DEF FlashInv, BootFresh, OnlyDownloads, Downloading, Opening, Received, Saving,
      Saved, Waiting, Filled, BlocksInPlace
<1>4. CASE RecvOack(p)
  BY <1>1, <1>4 DEF RecvOack, FlashInv, BootFresh, OnlyDownloads, Downloading, Opening, Received,
    Saving, Saved, Waiting, Filled, BlocksInPlace, TypeOK
<1>5. CASE RecvError(p)
  BY <1>1, <1>5 DEF RecvError, InitTftp, FlashInv, BootFresh, OnlyDownloads, Opening, Received,
    Saving, Saved, BlocksInPlace
<1>6. CASE RecvUnknown(p)
  BY <1>1, <1>6 DEF RecvUnknown, FlashInv, BootFresh, OnlyDownloads, Downloading, Opening, Received,
    Saving, Saved, Waiting, Filled, BlocksInPlace
<1> QED
  BY <1>2, <1>3, <1>4, <1>5, <1>6 DEF RecvPacket

(* Steps that leave everything alone that FlashInv speaks of.              *)
LEMMA SameFlash ==
  ASSUME FlashInv, UNCHANGED <<flash, pc, st, block, progress, wp, job>>
  PROVE  FlashInv'
BY DEF FlashInv, BootFresh, OnlyDownloads, Downloading, Opening, Received, Saving, Saved,
  Waiting, Writing, Filled, BlocksInPlace

(* Steps outside a download.                                               *)
LEMMA IdleFlash ==
  ASSUME FlashInv, UNCHANGED <<flash, st, block, progress, wp, job>>, ~Downloading, ~Downloading', pc' # "boot"
  PROVE  FlashInv'
BY DEF FlashInv, BootFresh, OnlyDownloads, Downloading, Opening, Received, Saving, Saved,
  BlocksInPlace

LEMMA FlashKept == TypeOK /\ FlashInv /\ [Next]_vars => FlashInv'
<1> SUFFICES ASSUME TypeOK, FlashInv, [Next]_vars PROVE FlashInv'
  OBVIOUS
<1> USE Constants
<1>1. CASE PowerFails \/ StoreRest
  BY <1>1, ResetFlash DEF PowerFails, StoreRest, storage
<1>2. CASE StoreRequest
  BY <1>2, IdleFlash DEF StoreRequest, client, Downloading
<1>3. CASE NoUpdate \/ UpdateFailed \/ ClearRequest \/ Jump \/ Stay
  BY <1>3, IdleFlash DEF NoUpdate, UpdateFailed, ClearRequest, Jump, Stay, Step, storage, client,
    Downloading
<1>4. CASE StartUpdate
  BY <1>4 DEF StartUpdate, Step, storage, FlashInv, BootFresh, OnlyDownloads, Downloading, Opening,
    Received, Saving, Saved, BlocksInPlace
<1>5. CASE TimeoutCheck
  <2>1. pc = "timeout" /\ pc' = "receive" /\ UNCHANGED <<flash, wp, job>>
    BY <1>5 DEF TimeoutCheck, Step, storage
  <2>2. CASE UNCHANGED <<st, block, progress>>
    BY <2>1, <2>2 DEF FlashInv, BootFresh, OnlyDownloads, Downloading, Opening, Received, Saving,
      Saved, Waiting, Filled, BlocksInPlace
  <2>3. CASE InitTftp
    BY <2>1, <2>3 DEF InitTftp, FlashInv, BootFresh, OnlyDownloads, Opening, Received, Saving,
      Saved, BlocksInPlace
  <2> QED
    BY <1>5, <2>2, <2>3 DEF TimeoutCheck
<1>6. CASE Receive
  BY <1>6, ReceiveFlash, PacketType DEF Receive
<1>7. CASE ReceiveNothing
  <2>1. CASE RecvPacket(buf)
    BY <2>1, ReceiveFlash DEF TypeOK
  <2>2. CASE Step("receive", Return(progress)) /\ st = "NONE" /\ UNCHANGED <<storage, client, network>>
    BY <2>2 DEF Step, Return, storage, client, FlashInv, BootFresh, OnlyDownloads, Opening, Received,
      Saving, Saved, BlocksInPlace
  <2> QED
    BY <1>7, <2>1, <2>2 DEF ReceiveNothing
<1>8. CASE ErasePage
  <2>1. pc = "erase" /\ st = "DATA" /\ Writing /\ block = 1 /\ \A i \in 1 .. job.page - 1 : flash[i] = Erased
    BY <1>8 DEF ErasePage, FlashInv, Saving
  <2>2. UNCHANGED <<st, block, progress, wp>> /\ job.page \in 1 .. Last
    BY <1>8 DEF ErasePage, TypeOK, Pages
  <2>3. job'.block = job.block /\ job'.saved = job.saved
        /\ job'.page = (IF job.page = Last THEN 1 ELSE job.page + 1)
    BY <1>8 DEF ErasePage, TypeOK
  <2>4. \A i \in 1 .. job.page : flash'[i] = Erased
    <3>1. flash' = [flash EXCEPT ![job.page] = Erased] /\ DOMAIN flash = Pages
      BY <1>8 DEF ErasePage, TypeOK
    <3> QED
      BY <2>1, <2>2, <3>1 DEF Pages
  <2>5. BlocksInPlace'
    BY <1>8 DEF ErasePage, TypeOK, FlashInv, BlocksInPlace
  <2>6. pc' = IF job.page = Last THEN "write" ELSE "erase"
    BY <1>8 DEF ErasePage
  <2>7. Saving'
    <3>1. CASE job.page = Last
      BY <2>1, <2>2, <2>3, <2>4, <2>6, <3>1 DEF Saving, Writing, Filled, Pages
    <3>2. CASE job.page # Last
      BY <2>1, <2>2, <2>3, <2>4, <2>6, <3>2 DEF Saving, Writing
    <3> QED
      BY <3>1, <3>2
  <2> QED
    BY <2>1, <2>2, <2>5, <2>6, <2>7 DEF FlashInv, BootFresh, OnlyDownloads, Downloading, Opening,
      Received, Saved
<1>9. CASE WriteStart
  <2>1. pc = "write" /\ pc' = "written" /\ st = "DATA" /\ Writing /\ Filled(block - 1)
    BY <1>9 DEF WriteStart, Step, FlashInv, Saving
  <2>2. UNCHANGED <<st, block, progress, wp, job>>
    BY <1>9 DEF WriteStart, client
  <2>3. \A i \in Pages : flash'[i] = IF i = wp THEN Torn ELSE flash[i]
    BY <1>9 DEF WriteStart, TypeOK
  <2>4. \A i \in Pages : flash'[i] = IF i < block THEN i ELSE IF i = block THEN Torn ELSE Erased
    BY <2>1, <2>3 DEF Writing, Filled, Pages
  <2>5. BlocksInPlace'
    BY <2>3 DEF FlashInv, BlocksInPlace
  <2> QED
    BY <2>1, <2>2, <2>4, <2>5 DEF FlashInv, BootFresh, OnlyDownloads, Downloading, Opening,
      Received, Saving, Writing, Saved
<1>10. CASE WriteEnd
  <2>1. /\ pc = "written" /\ pc' = "ack" /\ st = "DATA" /\ Writing
        /\ \A i \in Pages : flash[i] = IF i < block THEN i ELSE IF i = block THEN Torn ELSE Erased
    BY <1>10 DEF WriteEnd, Step, FlashInv, Saving
  <2>2. UNCHANGED <<st, block, progress, job>> /\ wp' = (IF job.block = Last THEN 1 ELSE wp + 1)
    BY <1>10 DEF WriteEnd
  <2>3. \A i \in Pages : flash'[i] = IF i = wp THEN job.block ELSE flash[i]
    BY <1>10 DEF WriteEnd, TypeOK
  <2>4. \A i \in Pages : flash'[i] = IF i <= block THEN i ELSE Erased
    BY <2>1, <2>3 DEF Writing, Pages
  <2>5. BlocksInPlace'
    BY <2>4 DEF BlocksInPlace
  <2> QED
    BY <2>1, <2>2, <2>4, <2>5 DEF FlashInv, BootFresh, OnlyDownloads, Downloading, Opening,
      Received, Saving, Writing, Saved, Filled
<1>11. CASE AckData
  <2>1. pc = "ack" /\ pc' \in {"timeout", "result"} /\ UNCHANGED <<flash, wp>>
    BY <1>11 DEF AckData, Return, storage
  <2>2. CASE InitTftp
    BY <2>1, <2>2 DEF InitTftp, FlashInv, BootFresh, OnlyDownloads, Opening, Received, Saving,
      Saved, BlocksInPlace
  <2>3. CASE ~(st = "DATA" /\ job.block = Last) /\ UNCHANGED <<st, block, progress>>
    <3>1. st = "DATA" => Waiting
      <4>1. CASE st = "DATA" /\ job.saved /\ block \in 1 .. Last /\ job.block = block /\ Filled(block)
        <5>1. block < Last
          BY <2>3, <4>1
        <5> QED
          BY <2>1, <4>1, <5>1 DEF FlashInv, Saved, Waiting
      <4> QED
        BY <2>1, <4>1 DEF FlashInv, Saved
    <3>2. st # "NONE" => pc' = "timeout"
      BY <1>11, <2>3 DEF AckData, Return, FlashInv, OnlyDownloads
    <3> QED
      BY <2>1, <2>3, <3>1, <3>2 DEF FlashInv, BootFresh, OnlyDownloads, Downloading, Opening, Received,
        Saving, Saved, Waiting, Filled, BlocksInPlace
  <2> QED
    BY <1>11, <2>2, <2>3 DEF AckData
<1>12. CASE Tick \/ ServerOpens \/ ServerAdvances \/ UNCHANGED vars
  BY <1>12, SameFlash DEF Tick, ServerOpens, ServerAdvances, vars, storage, client
<1> QED
  BY <1>1, <1>2, <1>3, <1>4, <1>5, <1>6, <1>7, <1>8, <1>9, <1>10, <1>11, <1>12 DEF Next, MainStep

-----------------------------------------------------------------------------
(* The network *)

LEMMA InitNet == Init => NetInv
BY Constants DEF Init, NetInv, NoPacket, NoJob

(* What is acknowledged and how far the server is, in the steps that send  *)
(* nothing.                                                                *)
LEMMA SameNet ==
  ASSUME NetInv, UNCHANGED <<pc, st, block, buf, job, sent, acked, rrq>>
  PROVE  NetInv'
BY DEF NetInv, Done

LEMMA IdleNet ==
  ASSUME NetInv, UNCHANGED <<buf, sent, acked>>, st' = "NONE", pc' \notin {"boot", "ack"}
  PROVE  NetInv'
BY DEF NetInv

(* A packet in flight is at most one block ahead.                          *)
LEMMA DataInFlight ==
  ASSUME TypeOK, NetInv, NEW p \in InFlight, p.op = "DATA", pc = "receive", st # "NONE"
  PROVE  p.block \in Nat /\ p.block >= 1 /\ p.block <= block + 1
<1>1. p.port \in Ports /\ p.block \in 1 .. sent[p.port]
  BY Constants DEF InFlight, Packet
<1>2. sent[p.port] \in -1 .. Last /\ sent[p.port] <= block + 1
  BY <1>1 DEF TypeOK, NetInv, Done
<1> QED
  BY <1>1, <1>2, Constants DEF TypeOK

LEMMA ReceiveNet ==
  ASSUME TypeOK, FlashInv, NetInv, NEW p, p \in InFlight \/ p = buf, RecvPacket(p)
  PROVE  NetInv'
<1> USE Constants
<1>1. pc = "receive" /\ st # "NONE" /\ UNCHANGED sent /\ Done = block
  BY DEF RecvPacket, Done
<1>2. p.op = "DATA" => p.block \in Nat /\ p.block >= 1 /\ p.block <= block + 1
  BY <1>1, DataInFlight DEF NetInv
<1>3. p \in Packet /\ Swapped(p).op = "swapped"
  BY DEF InFlight, TypeOK, Swapped, Packet
<1>4. CASE RecvData(p) /\ NextBlock(p)
  <2>1. st' = "DATA" /\ block' = block + 1 /\ pc' \in {"erase", "write"} /\ acked' = acked
        /\ buf'.op = "swapped"
    BY <1>1, <1>3, <1>4 DEF RecvData, NextBlock, FlashInv, Opening, Received, Waiting, TypeOK
  <2>2. Done' = Done
    BY <1>1, <2>1 DEF Done, TypeOK
  <2> QED
    BY <1>1, <2>1, <2>2 DEF NetInv
<1>5. CASE RecvData(p) /\ ~NextBlock(p)
  <2>1. UNCHANGED <<st, block, acked>> /\ pc' = "ack" /\ buf'.op = "swapped"
        /\ ~job'.saved /\ job'.block = p.block
    BY <1>3, <1>5 DEF RecvData
  <2>2. st \in {"RRQ", "OACK", "DATA"} /\ (st # "DATA" => block = 0)
    BY <1>1 DEF FlashInv, Opening, TypeOK
  <2>3. st = "DATA" /\ p.block <= block
    BY <1>2, <1>5, <2>2 DEF NextBlock, RecvData, TypeOK
  <2>4. Done' = Done
    BY <1>1, <2>1 DEF Done
  <2> QED
    BY <1>1, <2>1, <2>3, <2>4 DEF NetInv
<1>6. CASE RecvOack(p)
  <2>1. pc' = "timeout" /\ block' = block /\ Done' = Done /\ buf'.op # "DATA"
    BY <1>1, <1>6 DEF RecvOack, Done
  <2>2. acked' = acked \/ (acked' = acked \cup {<<port', 0>>} /\ block = 0)
    BY <1>1, <1>6 DEF RecvOack, SendAck, FlashInv, Opening
  <2> QED
    BY <1>1, <2>1, <2>2 DEF NetInv
<1>7. CASE RecvError(p)
  BY <1>1, <1>3, <1>7 DEF RecvError, InitTftp, NetInv
<1>8. CASE RecvUnknown(p)
  <2>1. pc' = "timeout" /\ UNCHANGED <<st, block, acked>> /\ Done' = Done /\ buf'.op # "DATA"
    BY <1>1, <1>8 DEF RecvUnknown, Done
  <2> QED
    BY <1>1, <2>1 DEF NetInv
<1> QED
  BY <1>4, <1>5, <1>6, <1>7, <1>8 DEF RecvPacket

LEMMA NetKept ==
  ~Lingering => (TypeOK /\ FlashInv /\ NetInv /\ [Next]_vars => NetInv')
<1> SUFFICES ASSUME ~Lingering, TypeOK, FlashInv, NetInv, [Next]_vars PROVE NetInv'
  OBVIOUS
<1> USE Constants
<1>1. CASE PowerFails \/ StoreRest
  <2>1. Reset
    BY <1>1 DEF PowerFails, StoreRest
  <2> QED
    BY <2>1 DEF Reset, NetInv, NoPacket
<1>2. CASE StoreRequest
  BY <1>2, IdleNet DEF StoreRequest, client, network, FlashInv, OnlyDownloads, Downloading
<1>3. CASE NoUpdate \/ UpdateFailed \/ ClearRequest \/ Jump \/ Stay
  BY <1>3, IdleNet DEF NoUpdate, UpdateFailed, ClearRequest, Jump, Stay, Step, storage, client,
    network, FlashInv, OnlyDownloads, Downloading
<1>4. CASE StartUpdate
  BY <1>4 DEF StartUpdate, Step, NetInv, Done, FlashInv, BootFresh
<1>5. CASE TimeoutCheck
  <2>1. pc = "timeout" /\ pc' = "receive" /\ UNCHANGED <<buf, sent, job>> /\ Done = block
    BY <1>5 DEF TimeoutCheck, Step, Done
  <2>2. CASE InitTftp
    BY <2>1, <2>2 DEF InitTftp, NetInv
  <2>3. CASE UNCHANGED <<st, block>>
    <3>1. acked' = acked \/ acked' = acked \cup {<<port, block>>}
      BY <1>5 DEF TimeoutCheck, Resend
    <3>2. Done' = block
      BY <2>1, <2>3 DEF Done
    <3> QED
      BY <2>1, <2>3, <3>1, <3>2 DEF NetInv, TypeOK
  <2> QED
    BY <1>5, <2>2, <2>3 DEF TimeoutCheck
<1>6. CASE Receive
  BY <1>6, ReceiveNet DEF Receive
<1>7. CASE ReceiveNothing
  <2>1. CASE RecvPacket(buf)
    BY <2>1, ReceiveNet
  <2>2. CASE Step("receive", Return(progress)) /\ st = "NONE" /\ UNCHANGED <<storage, client, network>>
    BY <2>2, IdleNet DEF Step, Return, client, network
  <2> QED
    BY <1>7, <2>1, <2>2 DEF ReceiveNothing
<1>8. CASE ErasePage
  <2>1. pc = "erase" /\ pc' \in {"erase", "write"} /\ UNCHANGED <<st, block, buf, sent, acked>>
    BY <1>8 DEF ErasePage, network
  <2>2. Done' = Done
    BY <2>1 DEF Done
  <2> QED
    BY <2>1, <2>2 DEF NetInv
<1>9. CASE WriteStart
  <2>1. pc = "write" /\ pc' = "written" /\ UNCHANGED <<st, block, buf, sent, acked>>
    BY <1>9 DEF WriteStart, Step, client, network
  <2>2. Done' = Done
    BY <2>1 DEF Done
  <2> QED
    BY <2>1, <2>2 DEF NetInv
<1>10. CASE WriteEnd
  <2>1. pc = "written" /\ pc' = "ack" /\ UNCHANGED <<st, block, buf, job, sent, acked>> /\ job.saved
    BY <1>10 DEF WriteEnd, Step, network, FlashInv, Saving, Writing
  <2>2. Done' = Done
    BY <2>1 DEF Done
  <2> QED
    BY <2>1, <2>2 DEF NetInv
<1>11. CASE AckData
  <2>1. /\ pc = "ack" /\ pc' \in {"timeout", "result"} /\ UNCHANGED <<buf, sent>>
        /\ acked' = acked \cup {<<port, job.block>>}
    BY <1>11 DEF AckData, Return
  <2>2. CASE InitTftp
    BY <2>1, <2>2 DEF InitTftp, NetInv
  <2>3. CASE UNCHANGED <<st, block>>
    <3>1. Done' = block
      BY <2>1, <2>3 DEF Done
    <3>2. st # "NONE" => job.block <= block /\ Done <= block
      <4>1. job.block \in Nat /\ block \in Nat
        BY DEF TypeOK
      <4>2. CASE job.saved
        BY <2>1, <4>1, <4>2 DEF FlashInv, Opening, Saved, Done, TypeOK
      <4>3. CASE ~job.saved
        BY <2>1, <4>1, <4>3 DEF NetInv, Done
      <4> QED
        BY <4>2, <4>3
    <3>3. \A p \in Ports : sent[p] \in Int
      BY DEF TypeOK
    <3>4. Done \in Int /\ block \in Int
      BY DEF TypeOK, Done
    <3> QED
      BY <2>1, <2>3, <3>1, <3>2, <3>3, <3>4 DEF NetInv
  <2> QED
    BY <1>11, <2>2, <2>3 DEF AckData
<1>12. CASE Tick \/ UNCHANGED vars
  BY <1>12, SameNet DEF Tick, vars, client, network
<1>13. CASE ServerOpens
  <2>1. UNCHANGED <<pc, st, block, buf, job, rrq, acked>> /\ pc # "boot"
    BY <1>13 DEF ServerOpens, client, NetInv
  <2>2. PICK q \in Ports, b \in {0, 1} : sent' = [sent EXCEPT ![q] = b]
    BY <1>13 DEF ServerOpens
  <2>3. st # "NONE" => Done >= 0 /\ Done \in Int
    BY DEF FlashInv, OnlyDownloads, Downloading, Saving, Writing, Saved, Opening, Done, TypeOK
  <2>4. Done' = Done
    BY <2>1 DEF Done
  <2> QED
    BY <2>1, <2>2, <2>3, <2>4 DEF NetInv, TypeOK
<1>14. CASE ServerAdvances
  <2>1. UNCHANGED <<pc, st, block, buf, job, rrq, acked>>
    BY <1>14 DEF ServerAdvances, client
  <2>2. PICK q \in Ports : <<q, sent[q]>> \in acked /\ sent[q] < Last /\ sent' = [sent EXCEPT ![q] = @ + 1]
    BY <1>14 DEF ServerAdvances
  <2>3. Done' = Done /\ pc # "boot"
    BY <2>1, <2>2 DEF Done, NetInv
  <2>4. sent[q] \in 0 .. Last
    BY <2>2 DEF TypeOK
  <2>5. st # "NONE" => sent[q] <= Done /\ Done \in Int
    BY <2>2, <2>4 DEF NetInv, Done, TypeOK
  <2> QED
    BY <2>1, <2>2, <2>3, <2>4, <2>5 DEF NetInv, TypeOK
<1> QED
  BY <1>1, <1>2, <1>3, <1>4, <1>5, <1>6, <1>7, <1>8, <1>9, <1>10, <1>11, <1>12, <1>13, <1>14
  DEF Next, MainStep

-----------------------------------------------------------------------------
(* The request, and what is run *)

LEMMA InitSlot == Init => SlotInv
BY Constants, SMTT(30) DEF Init, SlotInv, Whole, Untouched, Empty, Downloading

(* Steps that do not touch the flash and the request, and go to a point    *)
(* that asks for nothing new.                                              *)
LEMMA SameSlot ==
  ASSUME SlotInv, UNCHANGED <<flash, request>>,
         progress' \in {progress, "FAIL", "PROGRESS"},
         Downloading' => Downloading,
         pc' \notin {"jump", "app", "appAsked", "waitAsked"} \/ pc' = pc,
         pc' = "result" => Downloading \/ pc = "result"
  PROVE  SlotInv'
BY DEF SlotInv, Whole, Untouched, Complete, Empty, Downloading

(* Steps of a download that touch the flash.                               *)
LEMMA WritingSlot ==
  ASSUME SlotInv, UNCHANGED <<request, progress>>, Downloading, Downloading'
  PROVE  SlotInv'
BY DEF SlotInv, Downloading

LEMMA SlotKept ==
  ~Lingering => (TypeOK /\ FlashInv /\ NetInv /\ SlotInv /\ [Next]_vars => SlotInv')
<1> SUFFICES ASSUME ~Lingering, TypeOK, FlashInv, NetInv, SlotInv, [Next]_vars PROVE SlotInv'
  OBVIOUS
<1> USE Constants
<1>1. CASE PowerFails
  BY <1>1, SameSlot DEF PowerFails, Reset, storage, Downloading
<1>2. CASE StoreRequest
  BY <1>2 DEF StoreRequest, client, SlotInv, Whole, Untouched, Complete, Empty, Downloading
<1>3. CASE StoreRest
  BY <1>3 DEF StoreRest, Reset, SlotInv, Complete, Downloading
<1>4. CASE StartUpdate
  BY <1>4 DEF StartUpdate, Step, storage, SlotInv, Whole, Untouched, Complete, Empty, Downloading,
    FlashInv, BootFresh
<1>5. CASE NoUpdate
  BY <1>5 DEF NoUpdate, Step, storage, client, SlotInv, Whole, Untouched, Complete, Empty, Downloading
<1>6. CASE ClearRequest
  BY <1>6 DEF ClearRequest, Step, client, SlotInv, Whole, Complete, Downloading
<1>7. CASE Jump
  <2>1. pc = "jump" /\ pc' = "app" /\ flash[1] # Erased /\ UNCHANGED <<flash, request, progress>>
    BY <1>7 DEF Jump, Step, storage, client
  <2>2. Whole
    BY <2>1 DEF SlotInv, Empty
  <2> QED
    BY <2>1, <2>2 DEF SlotInv, Whole, Untouched, Complete, Empty, Downloading
<1>8. CASE Stay \/ UpdateFailed
  BY <1>8, SameSlot DEF Stay, UpdateFailed, Step, storage, client, Downloading
<1>9. CASE TimeoutCheck
  BY <1>9, SameSlot DEF TimeoutCheck, Step, storage, Downloading
<1>10. ASSUME NEW p, RecvPacket(p) PROVE SlotInv'
  <2>1. pc = "receive" /\ pc' \in {"timeout", "erase", "write", "ack", "result"}
        /\ progress' \in {progress, "FAIL"} /\ UNCHANGED <<flash, request>>
    BY <1>10 DEF RecvPacket, RecvData, RecvOack, RecvError, RecvUnknown, storage
  <2> QED
    BY <2>1, SameSlot DEF Downloading
<1>11. CASE ReceiveNothing
  BY <1>10, <1>11, SameSlot DEF ReceiveNothing, Step, Return, storage, client, Downloading
<1>12. CASE ErasePage \/ WriteStart \/ WriteEnd
  BY <1>12, WritingSlot DEF ErasePage, WriteStart, WriteEnd, Step, client, Downloading
<1>13. CASE AckData
  <2>1. pc = "ack" /\ pc' = Return(progress') /\ UNCHANGED <<flash, request>>
    BY <1>13 DEF AckData, storage
  <2>2. CASE st = "DATA" /\ job.block = Last /\ progress' = "SUCCESS"
    <3>1. job.saved /\ block = Last /\ Filled(block)
      BY <2>1, <2>2 DEF FlashInv, Saved, Waiting, NetInv, TypeOK
    <3>2. Complete'
      BY <2>1, <3>1 DEF Filled, Complete, Pages
    <3> QED
      BY <2>1, <2>2, <3>2 DEF SlotInv, Return, Whole, Downloading
  <2>3. CASE progress' = progress
    BY <2>1, <2>3, SameSlot DEF Return, Downloading
  <2> QED
    BY <1>13, <2>2, <2>3 DEF AckData
<1>14. CASE Tick \/ ServerOpens \/ ServerAdvances \/ UNCHANGED vars
  BY <1>14, SameSlot DEF Tick, ServerOpens, ServerAdvances, vars, storage, client, Downloading
<1> QED
  BY <1>1, <1>2, <1>3, <1>4, <1>5, <1>6, <1>7, <1>8, <1>9, <1>10, <1>11, <1>12, <1>13, <1>14
  DEF Next, MainStep, Receive

-----------------------------------------------------------------------------
(* Theorems, of every network *)

LEMMA FlashInvariant == Spec => [](TypeOK /\ FlashInv)
<1>1. Init => TypeOK /\ FlashInv
  BY InitTypes, InitFlash
<1>2. TypeOK /\ FlashInv /\ [Next]_vars => (TypeOK /\ FlashInv)'
  BY TypesKept, FlashKept
<1> QED
  BY <1>1, <1>2, PTL DEF Spec

(* Every variable of the update keeps its type (tftp.c's retry counter and *)
(* write point within their bounds).                                       *)
THEOREM TypeCorrect == Spec => []TypeOK
BY FlashInvariant, PTL

(* save_data programs only erased flash, although late, repeated and       *)
(* unexpected blocks arrive, also those of transfers of earlier boots.     *)
THEOREM ProgramsErased == Spec => []WritesErased
<1>1. TypeOK /\ FlashInv => WritesErased
  BY Constants DEF FlashInv, Saving, Writing, Filled, WritesErased, Pages
<1> QED
  BY <1>1, FlashInvariant, PTL

(* recv_tftp_data and save_data never put a block in another one's place.  *)
THEOREM StoresInPlace == Spec => []BlocksInPlace
<1>1. TypeOK /\ FlashInv => BlocksInPlace
  BY DEF FlashInv
<1> QED
  BY <1>1, FlashInvariant, PTL

(* BufInv: the packet left in the buffer has been dealt with, and while    *)
(* the read request is out, it came from the port remembered.              *)
BufInv ==
  /\ buf.op \in {"none", "swapped", "OACK"}
  /\ pc = "boot" => st = "NONE" /\ port = NoPort /\ buf = NoPacket
  /\ st = "RRQ" => buf.op # "OACK" /\ buf.port = port

LEMMA ReceiveBuf ==
  ASSUME TypeOK, FlashInv, BufInv, NEW p \in Packet, RecvPacket(p)
  PROVE  BufInv'
<1>1. pc' # "boot" /\ (RecvData(p) \/ RecvOack(p) \/ RecvError(p) \/ RecvUnknown(p))
  BY DEF RecvPacket, RecvData, RecvOack, RecvError, RecvUnknown
<1>2. CASE RecvData(p)
  BY <1>1, <1>2 DEF RecvData, Swapped, BufInv, TypeOK, Packet
<1>3. CASE RecvOack(p)
  BY <1>1, <1>3 DEF RecvOack, BufInv
<1>4. CASE RecvError(p)
  BY <1>1, <1>4 DEF RecvError, InitTftp, Swapped, BufInv, Packet
<1>5. CASE RecvUnknown(p)
  BY <1>1, <1>5 DEF RecvUnknown, BufInv
<1> QED
  BY <1>1, <1>2, <1>3, <1>4, <1>5

LEMMA BufKept == TypeOK /\ FlashInv /\ BufInv /\ [Next]_vars => BufInv'
<1> SUFFICES ASSUME TypeOK, FlashInv, BufInv, [Next]_vars PROVE BufInv'
  OBVIOUS
<1>1. CASE PowerFails \/ StoreRest
  BY <1>1 DEF PowerFails, StoreRest, Reset, BufInv, NoPacket
<1>2. CASE UNCHANGED client /\ pc' # "boot"
  BY <1>2 DEF client, BufInv
<1>3. CASE StoreRequest \/ NoUpdate \/ UpdateFailed \/ ClearRequest \/ Jump \/ Stay
  BY <1>2, <1>3 DEF StoreRequest, NoUpdate, UpdateFailed, ClearRequest, Jump, Stay, Step
<1>4. CASE StartUpdate
  BY <1>4 DEF StartUpdate, Step, BufInv, NoPacket
<1>5. CASE TimeoutCheck
  BY <1>5 DEF TimeoutCheck, Step, InitTftp, BufInv
<1>6. CASE Receive
  BY <1>6, ReceiveBuf, PacketType DEF Receive
<1>7. CASE ReceiveNothing
  <2>1. CASE RecvPacket(buf)
    BY <2>1, ReceiveBuf DEF TypeOK
  <2>2. CASE Step("receive", Return(progress)) /\ UNCHANGED <<storage, client, network>>
    BY <1>2, <2>2 DEF Step, Return
  <2> QED
    BY <1>7, <2>1, <2>2 DEF ReceiveNothing
<1>8. CASE ErasePage \/ WriteStart \/ WriteEnd
  BY <1>8 DEF ErasePage, WriteStart, WriteEnd, Step, client, BufInv
<1>9. CASE AckData
  BY <1>9 DEF AckData, InitTftp, Return, BufInv
<1>10. CASE Tick \/ ServerOpens \/ ServerAdvances \/ UNCHANGED vars
  BY <1>10 DEF Tick, ServerOpens, ServerAdvances, vars, client, BufInv
<1> QED
  BY <1>1, <1>3, <1>4, <1>5, <1>6, <1>7, <1>8, <1>9, <1>10 DEF Next, MainStep

(* A pass of TFTP_run without a packet changes nothing, although           *)
(* recv_udp_packet's -1 is taken for a length and the packet left in       *)
(* socket_buf is dealt with once more.                                     *)
THEOREM StaysQuiet == Spec => QuietWithoutInput
<1> DEFINE Inv == TypeOK /\ FlashInv /\ BufInv
<1>1. Init => Inv
  BY InitTypes, InitFlash DEF Init, NoPacket, BufInv
<1>2. Inv /\ [Next]_vars => Inv'
  BY TypesKept, FlashKept, BufKept
<1>3. Inv /\ [Next]_vars =>
        [ReceiveNothing => pc' = Return(progress) /\ UNCHANGED <<storage, client, network>>]_vars
  <2> SUFFICES ASSUME Inv, RecvPacket(buf)
               PROVE  pc' = Return(progress) /\ UNCHANGED <<storage, client, network>>
    BY DEF ReceiveNothing, Step
  <2>1. st # "NONE" /\ progress = "PROGRESS"
    BY DEF RecvPacket, FlashInv, OnlyDownloads
  <2>2. CASE RecvUnknown(buf)
    BY <2>1, <2>2 DEF RecvPacket, RecvUnknown, Return, client, network, BufInv
  <2>3. CASE RecvOack(buf)
    BY <2>1, <2>3 DEF RecvPacket, RecvOack, Return, client, network, BufInv
  <2> QED
    BY <2>2, <2>3 DEF RecvPacket, RecvData, RecvError, BufInv
<1> HIDE DEF Inv
<1> QED
  BY <1>1, <1>2, <1>3, PTL DEF Spec, QuietWithoutInput

-----------------------------------------------------------------------------
(* Theorems, of every network: a download comes to its end                 *)

(* What is left of a download: blocks still to come, the first answer and  *)
(* a block being saved counted besides; time-outs before the client gives  *)
(* up; seconds before the next time-out.                                   *)
Left ==
  IF st = "NONE" THEN -1
  ELSE 2 * (Last - block) + (IF st = "RRQ" \/ job.saved THEN 1 ELSE 0)
Chances == Retries - timer.retry
Seconds == Timeout - timer.time
Remaining == <<Left, Chances, Seconds>>

(* The lexicographic order, of three natural numbers.                      *)
Closer ==
  \/ Left' < Left
  \/ Left' = Left /\ Chances' < Chances
  \/ Left' = Left /\ Chances' = Chances /\ Seconds' < Seconds

Bounded ==
  Downloading => /\ Left \in -1 .. 2 * Last + 1
                 /\ Chances \in 1 .. Retries /\ Seconds \in 0 .. Timeout

(* The clock of the download runs until it has failed or succeeded.        *)
ClockRuns == Downloading => timer.flag = 1 \/ progress = "FAIL"

ClockInv ==
  /\ st # "NONE" => timer.flag = 1
  /\ Downloading /\ st = "NONE" => pc = "receive" /\ progress = "FAIL"
  /\ pc \notin {"erase", "write", "written", "ack"} => ~job.saved

LEMMA ReceiveClock ==
  ASSUME TypeOK, FlashInv, ClockInv, NEW p \in Packet, RecvPacket(p)
  PROVE  ClockInv'
<1>1. pc = "receive" /\ ~job.saved
  BY DEF RecvPacket, ClockInv
<1>2. CASE RecvData(p)
  BY <1>1, <1>2 DEF RecvPacket, RecvData, ClockInv
<1>3. CASE RecvOack(p)
  BY <1>1, <1>3 DEF RecvPacket, RecvOack, Started, Off, ClockInv
<1>4. CASE RecvError(p)
  BY <1>1, <1>4 DEF RecvError, InitTftp, ClockInv, Downloading
<1>5. CASE RecvUnknown(p)
  BY <1>1, <1>5 DEF RecvPacket, RecvUnknown, ClockInv
<1> QED
  BY <1>2, <1>3, <1>4, <1>5 DEF RecvPacket

LEMMA ClockKept == TypeOK /\ FlashInv /\ ClockInv /\ [Next]_vars => ClockInv'
<1> SUFFICES ASSUME TypeOK, FlashInv, ClockInv, [Next]_vars PROVE ClockInv'
  OBVIOUS
<1>1. CASE PowerFails \/ StoreRest
  BY <1>1 DEF PowerFails, StoreRest, Reset, NoJob, ClockInv, Downloading
<1>2. CASE StoreRequest \/ NoUpdate \/ UpdateFailed \/ ClearRequest \/ Jump \/ Stay
  BY <1>2 DEF StoreRequest, NoUpdate, UpdateFailed, ClearRequest, Jump, Stay, Step, client,
    ClockInv, Downloading
<1>3. CASE StartUpdate
  BY <1>3 DEF StartUpdate, Step, Started, Off, ClockInv
<1>4. CASE TimeoutCheck
  <2>1. pc = "timeout" /\ pc' = "receive" /\ job' = job /\ st # "NONE" /\ timer.flag = 1
    BY <1>4 DEF TimeoutCheck, Step, ClockInv, Downloading
  <2>2. CASE UNCHANGED <<st, timer, progress>>
    BY <2>1, <2>2 DEF ClockInv
  <2>3. CASE timer' = [timer EXCEPT !.time = 0, !.retry = @ + 1] /\ st' = st
    BY <2>1, <2>3 DEF ClockInv, TypeOK
  <2>4. CASE InitTftp /\ progress' = "FAIL"
    BY <2>1, <2>4 DEF InitTftp, ClockInv
  <2> QED
    BY <1>4, <2>2, <2>3, <2>4 DEF TimeoutCheck
<1>5. CASE Receive
  BY <1>5, ReceiveClock, PacketType DEF Receive
<1>6. CASE ReceiveNothing
  <2>1. CASE RecvPacket(buf)
    BY <2>1, ReceiveClock DEF TypeOK
  <2>2. CASE Step("receive", Return(progress)) /\ UNCHANGED <<storage, client, network>> /\ st = "NONE"
    BY <2>2 DEF Step, Return, client, ClockInv, Downloading
  <2> QED
    BY <1>6, <2>1, <2>2 DEF ReceiveNothing
<1>7. CASE ErasePage \/ WriteStart \/ WriteEnd
  <2>1. UNCHANGED <<st, timer, progress>> /\ pc' \in {"erase", "write", "written", "ack"}
        /\ st # "NONE"
    BY <1>7 DEF ErasePage, WriteStart, WriteEnd, Step, client, FlashInv, Saving
  <2> QED
    BY <2>1 DEF ClockInv
<1>8. CASE AckData
  <2>1. pc = "ack" /\ ~job'.saved /\ pc' = Return(progress') /\ st # "NONE" /\ timer.flag = 1
        /\ progress = "PROGRESS"
    BY <1>8 DEF AckData, NoJob, ClockInv, Downloading, FlashInv, OnlyDownloads
  <2>2. CASE InitTftp /\ progress' = "SUCCESS"
    BY <2>1, <2>2 DEF InitTftp, Return, ClockInv, Downloading
  <2>3. CASE AckTimer /\ UNCHANGED <<st, block, port, progress>>
    BY <2>1, <2>3 DEF AckTimer, Started, Off, Return, ClockInv
  <2> QED
    BY <1>8, <2>2, <2>3 DEF AckData
<1>9. CASE Tick
  BY <1>9 DEF Tick, ClockInv, Downloading, TypeOK
<1>10. CASE ServerOpens \/ ServerAdvances \/ UNCHANGED vars
  BY <1>10 DEF ServerOpens, ServerAdvances, vars, client, ClockInv, Downloading
<1> QED
  BY <1>1, <1>2, <1>3, <1>4, <1>5, <1>6, <1>7, <1>8, <1>9, <1>10 DEF Next, MainStep

(* Steps that leave what is counted alone.                                 *)
LEMMA SameRemaining ==
  ASSUME UNCHANGED <<st, block, timer>>, job'.saved = job.saved
  PROVE  UNCHANGED Remaining
BY DEF Remaining, Left, Chances, Seconds

LEMMA LeftValue ==
  ASSUME TypeOK, st # "NONE"
  PROVE  Left \in {2 * (Last - block), 2 * (Last - block) + 1} /\ Left \in 0 .. 2 * Last + 1
<1>1. block \in 0 .. Last /\ Last \in Nat
  BY Constants DEF TypeOK
<1>2. Left = 2 * (Last - block) + 1 \/ Left = 2 * (Last - block) + 0
  BY DEF Left
<1> QED
  BY <1>1, <1>2

(* Any packet: an expected one brings the end closer, and no other lets    *)
(* the clock start again.                                                  *)
LEMMA ReceiveCloser ==
  ASSUME TypeOK, FlashInv, ClockInv, NEW p \in Packet, RecvPacket(p), Downloading'
  PROVE  Closer \/ UNCHANGED Remaining
<1>1. /\ pc = "receive" /\ ~job.saved /\ st # "NONE" /\ block \in 0 .. Last
      /\ Last \in Nat
  BY Constants DEF RecvPacket, ClockInv, TypeOK
<1>2. CASE RecvData(p) /\ NextBlock(p)
  <2>1. st' = "DATA" /\ block' = p.block /\ job'.saved
    BY <1>2 DEF RecvData
  <2>2. block' = block + 1
    BY <1>1, <1>2, <2>1 DEF NextBlock, FlashInv, Opening
  <2>3. Left' = 2 * (Last - (block + 1)) + 1
    BY <2>1, <2>2 DEF Left
  <2>4. Left = 2 * (Last - block) \/ Left = 2 * (Last - block) + 1
    BY <1>1, LeftValue
  <2>5. Left' < Left
    BY <1>1, <2>3, <2>4
  <2> QED
    BY <2>5 DEF Closer
<1>3. CASE RecvData(p) /\ ~NextBlock(p)
  <2>1. UNCHANGED <<st, block, timer>> /\ job'.saved = FALSE
    BY <1>3 DEF RecvData
  <2>2. job.saved = FALSE
    BY <1>1 DEF TypeOK
  <2> QED
    BY <2>1, <2>2, SameRemaining
<1>4. CASE RecvOack(p) /\ st = "RRQ"
  <2>1. st' = "OACK" /\ block' = block /\ job' = job
    BY <1>4 DEF RecvOack
  <2>2. Left' = 2 * (Last - block) /\ Left = 2 * (Last - block) + 1
    BY <1>1, <1>4, <2>1 DEF Left
  <2>3. Left' < Left
    BY <1>1, <2>2
  <2> QED
    BY <2>3 DEF Closer
<1>5. CASE RecvOack(p) /\ st # "RRQ"
  BY <1>5, SameRemaining DEF RecvOack
<1>6. CASE RecvError(p)
  BY <1>6 DEF RecvError, Downloading
<1>7. CASE RecvUnknown(p)
  BY <1>7, SameRemaining DEF RecvUnknown
<1> QED
  BY <1>2, <1>3, <1>4, <1>5, <1>6, <1>7 DEF RecvPacket

LEMMA CheckCloser ==
  ASSUME TypeOK, FlashInv, ClockInv, TimeoutCheck
  PROVE  IF Expired THEN Closer ELSE UNCHANGED Remaining
<1>1. /\ job' = job /\ block \in 0 .. Last /\ Last \in Nat
      /\ timer \in [flag : {0, 1}, time : 0 .. Timeout, retry : 0 .. Retries - 1]
      /\ Retries \in Nat /\ Timeout \in Nat
  BY Constants DEF TimeoutCheck, TypeOK
<1>2. CASE ~Expired
  BY <1>1, <1>2, SameRemaining DEF TimeoutCheck
<1>3. CASE Expired /\ timer.retry + 1 < Retries
  <2>1. UNCHANGED <<st, block>> /\ timer' = [timer EXCEPT !.time = 0, !.retry = @ + 1]
    BY <1>1, <1>3 DEF TimeoutCheck
  <2>2. Left' = Left
    BY <1>1, <2>1 DEF Left
  <2>3. timer'.retry = timer.retry + 1
    BY <1>1, <2>1
  <2>4. Chances' < Chances
    BY <1>1, <2>3 DEF Chances
  <2> QED
    BY <1>3, <2>2, <2>4 DEF Closer
<1>4. CASE Expired /\ ~(timer.retry + 1 < Retries)
  <2>1. st # "NONE" /\ st' = "NONE"
    BY <1>4 DEF TimeoutCheck, Resend, InitTftp
  <2>2. Left' = -1
    BY <2>1 DEF Left
  <2>3. Left' < Left
    BY <1>1, <2>1, <2>2, LeftValue
  <2> QED
    BY <1>4, <2>3 DEF Closer
<1> QED
  BY <1>2, <1>3, <1>4

LEMMA AckCloser ==
  ASSUME TypeOK, FlashInv, ClockInv, AckData, Downloading'
  PROVE  Closer \/ UNCHANGED Remaining
<1>1. /\ pc = "ack" /\ st # "NONE" /\ timer.flag = 1 /\ ~job'.saved
      /\ block \in 0 .. Last /\ Last \in Nat /\ job.saved \in BOOLEAN
  BY Constants DEF AckData, NoJob, ClockInv, Downloading, TypeOK
<1>2. AckTimer /\ UNCHANGED <<st, block>>
  BY DEF AckData, Return, Downloading
<1>3. CASE job.saved
  <2>1. st # "RRQ"
    BY <1>1, <1>3 DEF FlashInv, Opening
  <2>2. Left' = 2 * (Last - block) /\ Left = 2 * (Last - block) + 1
    BY <1>1, <1>2, <1>3, <2>1 DEF Left
  <2>3. Left' < Left
    BY <1>1, <2>2
  <2> QED
    BY <2>3 DEF Closer
<1>4. CASE ~job.saved
  <2>1. timer' = timer
    BY <1>1, <1>2, <1>4 DEF AckTimer
  <2>2. job'.saved = job.saved
    BY <1>1, <1>4 DEF AckData, NoJob
  <2> QED
    BY <1>2, <2>1, <2>2, SameRemaining
<1> QED
  BY <1>3, <1>4

LEMMA TickCloser ==
  ASSUME TypeOK, Tick
  PROVE  Closer
<1>1. /\ UNCHANGED <<st, block, job>> /\ timer' = [timer EXCEPT !.time = @ + 1]
      /\ timer \in [flag : {0, 1}, time : 0 .. Timeout, retry : 0 .. Retries - 1]
      /\ Retries \in Nat /\ Timeout \in Nat
  BY Constants DEF Tick, TypeOK
<1>2. Left' = Left
  BY <1>1 DEF Left
<1>3. timer'.retry = timer.retry /\ timer'.time = timer.time + 1
  BY <1>1
<1>4. Chances' = Chances /\ Seconds' < Seconds
  BY <1>1, <1>3 DEF Chances, Seconds
<1> QED
  BY <1>2, <1>4 DEF Closer

LEMMA StepCloser ==
  ASSUME TypeOK, FlashInv, ClockInv, [Next]_vars, Downloading, Downloading'
  PROVE  /\ Closer \/ UNCHANGED Remaining
         /\ Tick \/ (TimeoutCheck /\ Expired) => Closer
<1>1. Tick \/ (TimeoutCheck /\ Expired) => Closer
  BY TickCloser, CheckCloser
<1>2. CASE \/ PowerFails \/ StoreRequest \/ StoreRest \/ StartUpdate \/ NoUpdate \/ UpdateFailed
           \/ ClearRequest \/ Jump \/ Stay
  BY <1>2 DEF PowerFails, StoreRequest, StoreRest, Reset, StartUpdate, NoUpdate, UpdateFailed,
    ClearRequest, Jump, Stay, Step, Downloading
<1>3. CASE TimeoutCheck \/ Tick \/ AckData
  BY <1>1, <1>3, CheckCloser, TickCloser, AckCloser
<1>4. CASE Receive
  BY <1>1, <1>4, ReceiveCloser, PacketType DEF Receive
<1>5. CASE ReceiveNothing
  <2>1. CASE RecvPacket(buf)
    BY <1>1, <2>1, ReceiveCloser DEF TypeOK
  <2>2. CASE UNCHANGED <<storage, client, network>>
    BY <1>1, <2>2, SameRemaining DEF client
  <2> QED
    BY <1>5, <2>1, <2>2 DEF ReceiveNothing
<1>6. CASE ErasePage \/ WriteStart \/ WriteEnd
  <2>1. UNCHANGED <<st, block, timer>> /\ job'.saved = job.saved
    BY <1>6 DEF ErasePage, WriteStart, WriteEnd, client, TypeOK
  <2> QED
    BY <1>1, <2>1, SameRemaining
<1>7. CASE ServerOpens \/ ServerAdvances \/ UNCHANGED vars
  BY <1>1, <1>7, SameRemaining DEF ServerOpens, ServerAdvances, vars, client
<1> QED
  BY <1>1, <1>2, <1>3, <1>4, <1>5, <1>6, <1>7 DEF Next, MainStep

(* While TFTP_run is called again and again, nothing takes the download    *)
(* away from its end, whatever a server repeats, delays or invents: a      *)
(* block that is not the one due does not start the clock again.  Each     *)
(* second and each time-out bring it closer, down to a bound, and the      *)
(* clock that brings them is never off.  Of DownloadEnds this is all but   *)
(* the fairness.                                                           *)
THEOREM DownloadCountsDown ==
  Spec => /\ [](Bounded /\ ClockRuns)
          /\ [][Downloading /\ Downloading' =>
                  /\ Closer \/ UNCHANGED Remaining
                  /\ Tick \/ (TimeoutCheck /\ Expired) => Closer]_vars
<1> DEFINE Inv == TypeOK /\ FlashInv /\ ClockInv
           Step2 == Downloading /\ Downloading' =>
                      /\ Closer \/ UNCHANGED Remaining
                      /\ Tick \/ (TimeoutCheck /\ Expired) => Closer
<1>1. Init => Inv
  BY InitTypes, InitFlash DEF Init, ClockInv, Off, NoJob, Downloading
<1>2. Inv /\ [Next]_vars => Inv'
  BY TypesKept, FlashKept, ClockKept
<1>3. Inv => Bounded /\ ClockRuns
  <2> SUFFICES ASSUME Inv, Downloading PROVE Bounded /\ ClockRuns
    BY DEF Bounded, ClockRuns
  <2>1. /\ block \in 0 .. Last /\ Last \in Nat /\ Retries \in Nat /\ Timeout \in Nat
        /\ timer.retry \in 0 .. Retries - 1 /\ timer.time \in 0 .. Timeout
    BY Constants DEF TypeOK
  <2>2. Left \in -1 .. 2 * Last + 1
    <3>1. st = "NONE" => Left = -1
      BY DEF Left
    <3> QED
      BY <2>1, <3>1, LeftValue
  <2>3. Chances \in 1 .. Retries /\ Seconds \in 0 .. Timeout
    BY <2>1 DEF Chances, Seconds
  <2> QED
    BY <2>2, <2>3 DEF Bounded, ClockRuns, ClockInv
<1>4. Inv /\ [Next]_vars => [Step2]_vars
  BY StepCloser
<1> HIDE DEF Inv
<1> QED
  BY <1>1, <1>2, <1>3, <1>4, PTL DEF Spec

-----------------------------------------------------------------------------
(* Theorems, of a network in which no transfer outlives its boot *)

SafeInv == TypeOK /\ FlashInv /\ NetInv /\ SlotInv

LEMMA SafeInvariant == ~Lingering => (Spec => []SafeInv)
<1> SUFFICES ASSUME ~Lingering PROVE Spec => []SafeInv
  OBVIOUS
<1>1. Init => SafeInv
  BY InitTypes, InitFlash, InitNet, InitSlot DEF SafeInv
<1>2. SafeInv /\ [Next]_vars => SafeInv'
  BY TypesKept, FlashKept, NetKept, SlotKept DEF SafeInv
<1> QED
  BY <1>1, <1>2, PTL DEF Spec

(* main jumps to the old image or to the new one as a whole, wherever the  *)
(* power failed during application_update.                                 *)
THEOREM RunsWhole == ~Lingering => (Spec => []OnlyWholeRuns)
<1>1. SafeInv => OnlyWholeRuns
  BY DEF SafeInv, SlotInv, OnlyWholeRuns
<1> QED
  BY <1>1, SafeInvariant, PTL

(* TFTP_SUCCESS is returned for a complete image only.  The run boot_linger*)
(* shows that this needs the assumption on the network.                    *)
THEOREM SuccessWhole == ~Lingering => (Spec => []SuccessIsWhole)
<1>1. SafeInv => SuccessIsWhole
  BY DEF SafeInv, SlotInv, SuccessIsWhole
<1> QED
  BY <1>1, SafeInvariant, PTL

(* The abstract state: untouched and complete exclude each other.          *)
LEMMA ImageKinds ==
  ASSUME TypeOK
  PROVE  ~(Untouched /\ Complete)
BY Constants DEF Untouched, Complete

LEMMA SlotInit == Init => Slot!Init
BY Constants, SMTT(30) DEF Init, Slot!Init, Untouched, Complete, Pages

(* Steps that leave flash, request and the application alone.              *)
LEMMA SlotStutter ==
  ASSUME UNCHANGED <<flash, request>>, pc \in {"app", "appAsked"} <=> pc' \in {"app", "appAsked"}
  PROVE  UNCHANGED Slot!slotVars
BY DEF Slot!slotVars, Untouched, Complete

(* Steps of a download that erase a page or begin to write one.            *)
LEMMA SlotSpoilt ==
  ASSUME SlotInv, Downloading, Downloading', UNCHANGED request,
         NEW i \in Pages, flash'[i] \in {Erased, Torn}
  PROVE  Slot!Overwrite
<1>1. ~Untouched' /\ ~Complete'
  BY Constants DEF Untouched, Complete, Pages
<1>2. request # "none" /\ pc \notin {"app", "appAsked"} /\ pc' \notin {"app", "appAsked"}
  BY DEF SlotInv, Downloading
<1> QED
  BY <1>1, <1>2 DEF Slot!Overwrite

LEMMA SlotStep ==
  ~Lingering => (SafeInv /\ [Next]_vars => [Slot!Next]_(Slot!slotVars))
<1> SUFFICES ASSUME ~Lingering, SafeInv, [Next]_vars PROVE [Slot!Next]_(Slot!slotVars)
  OBVIOUS
<1> USE Constants
<1>0. TypeOK /\ FlashInv /\ SlotInv
  BY DEF SafeInv
<1>1. CASE PowerFails
  BY <1>1 DEF PowerFails, Reset, storage, Slot!Next, Slot!Stop, Untouched, Complete
<1>2. CASE StoreRequest
  BY <1>2 DEF StoreRequest, Slot!Next, Slot!Ask, Untouched, Complete
<1>3. CASE StoreRest
  BY <1>0, <1>3 DEF StoreRest, Reset, SlotInv, Slot!Next, Slot!Stop, Untouched, Complete
<1>4. CASE StartUpdate \/ NoUpdate \/ UpdateFailed \/ Stay \/ TimeoutCheck
  BY <1>4, SlotStutter DEF StartUpdate, NoUpdate, UpdateFailed, Stay, TimeoutCheck, Step, storage
<1>5. CASE ClearRequest
  <2>1. request # "none" /\ Complete /\ pc = "result" /\ pc' = "jump"
    BY <1>0, <1>5 DEF ClearRequest, Step, SlotInv
  <2>2. ~Untouched
    BY <1>0, <2>1, ImageKinds
  <2> QED
    BY <1>5, <2>1, <2>2 DEF ClearRequest, Slot!Next, Slot!Settle, Untouched, Complete
<1>6. CASE Jump
  <2>1. pc = "jump" /\ pc' = "app" /\ request = "none" /\ Whole /\ UNCHANGED <<flash, request>>
    BY <1>0, <1>6 DEF Jump, Step, storage, SlotInv, Empty
  <2> QED
    BY <2>1 DEF Slot!Next, Slot!Run, Whole, Untouched, Complete
<1>7. ASSUME NEW p, RecvPacket(p) PROVE [Slot!Next]_(Slot!slotVars)
  BY <1>7, SlotStutter DEF RecvPacket, RecvData, RecvOack, RecvError, RecvUnknown, storage
<1>8. CASE ReceiveNothing
  BY <1>7, <1>8, SlotStutter DEF ReceiveNothing, Step, Return, storage
<1>9. CASE ErasePage
  <2>1. job.page \in Pages /\ flash'[job.page] = Erased
    BY <1>0, <1>9 DEF ErasePage, TypeOK
  <2> QED
    BY <1>0, <1>9, <2>1, SlotSpoilt DEF ErasePage, Downloading, Slot!Next
<1>10. CASE WriteStart
  <2>1. wp \in Pages /\ flash'[wp] = Torn
    BY <1>0, <1>10 DEF WriteStart, Step, TypeOK, FlashInv, Saving, Writing, Pages
  <2> QED
    BY <1>0, <1>10, <2>1, SlotSpoilt DEF WriteStart, Step, Downloading, Slot!Next
<1>11. CASE WriteEnd
  <2>1. pc = "written" /\ pc' = "ack" /\ wp \in Pages /\ job.block = wp /\ flash[wp] = Torn
    BY <1>0, <1>11 DEF WriteEnd, Step, FlashInv, Saving, Writing, Pages
  <2>2. ~Untouched /\ ~Complete
    BY <2>1 DEF Untouched, Complete, Pages
  <2>3. flash'[wp] = wp
    BY <1>0, <1>11, <2>1 DEF WriteEnd, TypeOK
  <2>4. ~Untouched'
    BY <2>1, <2>3 DEF Untouched, Pages
  <2>5. request # "none"
    BY <1>0, <2>1 DEF SlotInv, Downloading
  <2> QED
    BY <1>11, <2>1, <2>2, <2>4, <2>5 DEF WriteEnd, Slot!Next, Slot!Overwrite
<1>12. CASE AckData \/ Tick \/ ServerOpens \/ ServerAdvances \/ UNCHANGED vars
  BY <1>12, SlotStutter DEF AckData, Return, Tick, ServerOpens, ServerAdvances, vars, storage
<1> QED
  BY <1>1, <1>2, <1>3, <1>4, <1>5, <1>6, <1>7, <1>8, <1>9, <1>10, <1>11, <1>12
  DEF Next, MainStep, Receive

(* The boot loader implements FirmwareSlot: the image is replaced only on  *)
(* request and never under a running application, the request is settled   *)
(* only when the new image is whole, and only a whole image runs.          *)
THEOREM ImplementsSlot == ~Lingering => (Spec => KeepsSlot)
<1> SUFFICES ASSUME ~Lingering PROVE Spec => KeepsSlot
  OBVIOUS
<1>1. SafeInv /\ [Next]_vars => [Slot!Next]_(Slot!slotVars)
  BY SlotStep
<1>2. Spec => []SafeInv
  BY SafeInvariant
<1> QED
  BY <1>1, <1>2, SlotInit, PTL DEF Spec, KeepsSlot, Slot!Spec
=============================================================================
