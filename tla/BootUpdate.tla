----------------------------- MODULE BootUpdate -----------------------------
(***************************************************************************)
(* A firmware update: the request that the application or the boot loader  *)
(* stores and resets on (process_firmware_upload_init), and the boot       *)
(* loader that finds it, fetches the image by TFTP, writes it to flash and *)
(* jumps to it (main.c, tftp.c, flashHandler.c of WIZ550SR_Boot).          *)
(*                                                                         *)
(* Power may fail between any two steps: flash and EEPROM keep what they   *)
(* have, everything else starts again.  The network loses, delays,         *)
(* duplicates and reorders: whatever a TFTP server ever sent can arrive.   *)
(* A block's contents are its number; a flash position holds one block and *)
(* is erased as one page.                                                  *)
(***************************************************************************)
EXTENDS Integers

CONSTANTS
  Last,      \* blocks of the image, of which the last one is short
  Ports,     \* bound: the server's ports, one for each read request it serves
  NoPort,    \* g_server_port of 0
  Timeout,   \* g_timeout, in seconds
  Retries,   \* 5 in TFTP_run
  Lingering  \* can a transfer begun before a reset still send afterwards

(* An image of a single block never completes (tftp.c:432) and is no       *)
(* firmware.                                                               *)
ASSUME BootAssumption ==
  /\ Last \in Nat /\ Last >= 2
  /\ NoPort \notin Ports
  /\ Timeout \in Nat \ {0} /\ Retries \in Nat \ {0}
  /\ Lingering \in BOOLEAN

VARIABLES
  flash,    \* the application's pages
  request,  \* the stored Firmware_Upload_Info: "torn" has its STX and not yet the rest
  pc,       \* where the processor is
  st,       \* g_tftp_state
  block,    \* g_block_num
  port,     \* g_server_port
  timer,    \* g_resend_flag, tftp_time_cnt and tftp_retry_cnt
  progress, \* g_progress_state
  wp,       \* g_write_point, as a position
  buf,      \* the packet left in socket_buf
  job,      \* the DATA packet being dealt with: its block, whether it is saved, the page to erase
  rrq,      \* the server can receive a read request of this boot
  sent,     \* for each port, the last block sent from there: 0 an OACK, -1 not in use
  acked     \* <<port, block>> of the ACKs sent

storage == <<flash, request>>
client == <<st, block, port, timer, progress, wp, buf, job>>
network == <<rrq, sent, acked>>
vars == <<storage, pc, client, network>>

Old == 0 - 1  Erased == 0  Torn == 0 - 2
Pages == 1 .. Last
Untouched == \A i \in Pages : flash[i] = Old
Complete == \A i \in Pages : flash[i] = i
Whole == Untouched \/ Complete

Packet ==
  [op : {"none", "DATA", "OACK", "ERROR", "swapped"}, block : 0 .. Last, port : Ports \cup {NoPort}]
NoPacket == [op |-> "none", block |-> 0, port |-> NoPort]
NoJob == [block |-> 0, saved |-> FALSE, page |-> 1]
Off == [flag |-> 0, time |-> 0, retry |-> 0]
Started == [Off EXCEPT !.flag = 1]

(* A module fresh from the factory has no application.                     *)
Init ==
  /\ \E v \in {Old, Erased} : flash = [i \in Pages |-> v]
  /\ request = "none" /\ pc = "boot"
  /\ st = "NONE" /\ block = 0 /\ port = NoPort /\ timer = Off /\ progress = "PROGRESS"
  /\ wp = 1 /\ buf = NoPacket /\ job = NoJob
  /\ rrq = FALSE /\ sent = [p \in Ports |-> 0 - 1] /\ acked = {}

-----------------------------------------------------------------------------
(* Reset and power failure *)

(* Memory starts again; the server does not see it.                        *)
Reset ==
  /\ pc' = "boot"
  /\ st' = "NONE" /\ block' = 0 /\ port' = NoPort /\ timer' = Off /\ progress' = "PROGRESS"
  /\ wp' = 1 /\ buf' = NoPacket /\ job' = NoJob
  /\ rrq' = FALSE
  /\ sent' = IF Lingering THEN sent ELSE [p \in Ports |-> 0 - 1]
  /\ acked' = IF Lingering THEN acked ELSE {}

PowerFails == Reset /\ UNCHANGED storage

-----------------------------------------------------------------------------
(* process_firmware_upload_init, in the application and in the boot loader *)

(* write_storage writes page by page, the one with the STX first.  An older*)
(* request whose erasure was not completed has left its server behind it,  *)
(* which makes a whole request of the STX.                                 *)
StoreRequest ==
  /\ pc \in {"app", "wait"} /\ pc' = IF pc = "app" THEN "appAsked" ELSE "waitAsked"
  /\ request' \in {"torn", "set"}
  /\ UNCHANGED <<flash, client, network>>
StoreRest ==
  /\ pc \in {"appAsked", "waitAsked"}
  /\ request' = "set" /\ flash' = flash
  /\ Reset

-----------------------------------------------------------------------------
(* main and application_update *)

Step(a, b) == pc = a /\ pc' = b

(* init_tftp, but for the file name and the ports.                         *)
InitTftp ==
  st' = "NONE" /\ block' = 0 /\ port' = NoPort /\ timer' = Off

(* The stored STX asks for an update; a torn request names no server.      *)
StartUpdate ==
  /\ Step("boot", "timeout") /\ request # "none"
  /\ st' = "RRQ" /\ timer' = Started /\ rrq' = (request = "set")
  /\ UNCHANGED <<storage, block, port, progress, wp, buf, job, sent, acked>>
NoUpdate_Unasked ==
  /\ Step("boot", "jump")
  /\ UNCHANGED <<storage, client, network>>
NoUpdate ==
  /\ Step("boot", "jump") /\ request = "none"
  /\ UNCHANGED <<storage, client, network>>

UpdateFailed ==
  /\ Step("result", "wait") /\ progress = "FAIL"
  /\ UNCHANGED <<storage, client, network>>
ClearRequest_OnFail ==
  /\ Step("result", IF progress = "FAIL" THEN "wait" ELSE "jump")
  /\ request' = "none"
  /\ UNCHANGED <<flash, client, network>>
(* reply_firmware_upload_done, then an Info of zeros, the STX first.       *)
ClearRequest ==
  /\ Step("result", "jump") /\ progress = "SUCCESS"
  /\ request' = "none"
  /\ UNCHANGED <<flash, client, network>>

Jump ==
  /\ Step("jump", "app") /\ flash[1] # Erased
  /\ UNCHANGED <<storage, client, network>>
(* The boot pin, or an empty first word, keeps the boot loader waiting.    *)
Stay ==
  /\ Step("jump", "wait")
  /\ UNCHANGED <<storage, client, network>>

-----------------------------------------------------------------------------
(* TFTP_run *)

SendAck(b) == acked' = acked \cup {<<port', b>>}

Resend ==
  \/ st = "RRQ" /\ rrq' = (request = "set") /\ acked' = acked
  \/ st \in {"OACK", "DATA"} /\ acked' = acked \cup {<<port, block>>} /\ rrq' = rrq

Expired == timer.flag = 1 /\ timer.time >= Timeout
TimeoutCheck_NoLimit ==
  /\ Step("timeout", "receive")
  /\ \/ ~Expired /\ UNCHANGED <<rrq, acked, timer>>
     \/ Expired /\ Resend /\ timer' = [timer EXCEPT !.time = 0, !.retry = @ + 1]
  /\ UNCHANGED <<storage, st, block, port, progress, wp, buf, job, sent>>
TimeoutCheck ==
  /\ Step("timeout", "receive")
  /\ \/ ~Expired /\ UNCHANGED <<rrq, acked, st, block, port, timer, progress>>
     \/ /\ Expired /\ Resend
        /\ \/ /\ timer.retry + 1 < Retries
              /\ timer' = [timer EXCEPT !.time = 0, !.retry = @ + 1]
              /\ UNCHANGED <<st, block, port, progress>>
           \/ timer.retry + 1 >= Retries /\ InitTftp /\ progress' = "FAIL"
  /\ UNCHANGED <<storage, wp, buf, job, sent>>

Return(p) == IF p = "PROGRESS" THEN "timeout" ELSE "result"

NextBlock_Any(p) ==
  \/ st \in {"RRQ", "OACK"} /\ p.block = 1
  \/ st = "DATA"
(* The block that recv_tftp_data saves.                                   *)
NextBlock(p) ==
  \/ st \in {"RRQ", "OACK"} /\ p.block = 1
  \/ st = "DATA" /\ p.block = block + 1

(* recv_tftp_data: what it does before save_data.  The opcode is swapped   *)
(* to host order in the buffer itself.                                     *)
Swapped_Copy(p) == p
Swapped(p) == [p EXCEPT !.op = "swapped"]
RecvData(p) ==
  /\ p.op = "DATA"
  /\ \/ /\ NextBlock(p)
        /\ st' = "DATA" /\ block' = p.block
        /\ pc' = IF p.block = 1 THEN "erase" ELSE "write"
     \/ ~NextBlock(p) /\ UNCHANGED <<st, block>> /\ pc' = "ack"
  /\ port' = IF st = "RRQ" THEN p.port ELSE port
  /\ buf' = Swapped(p)
  /\ job' = [block |-> p.block, saved |-> NextBlock(p), page |-> 1]
  /\ UNCHANGED <<timer, progress, acked>>

RecvOack(p) ==
  /\ p.op = "OACK" /\ pc' = "timeout" /\ buf' = p
  /\ \/ /\ st = "RRQ"
        /\ st' = "OACK" /\ port' = p.port /\ timer' = Started /\ SendAck(0)
     \/ st # "RRQ" /\ UNCHANGED <<st, port, timer, acked>>
  /\ UNCHANGED <<block, progress, job>>

RecvError(p) ==
  /\ p.op = "ERROR" /\ pc' = "result"
  /\ InitTftp /\ progress' = "FAIL"
  /\ buf' = Swapped(p)
  /\ UNCHANGED <<job, acked>>

RecvUnknown(p) ==
  /\ p.op \in {"none", "swapped"} /\ pc' = "timeout" /\ buf' = p
  /\ port' = IF st = "RRQ" THEN p.port ELSE port
  /\ UNCHANGED <<st, block, timer, progress, job, acked>>

(* recv_tftp_packet, for a packet from the server's address.               *)
RecvPacket(p) ==
  /\ pc = "receive" /\ st # "NONE"
  /\ RecvData(p) \/ RecvOack(p) \/ RecvError(p) \/ RecvUnknown(p)
  /\ UNCHANGED <<storage, wp, rrq, sent>>

(* What the network can deliver to this boot of the module.                *)
InFlight ==
  {p \in Packet :
     /\ p.port # NoPort
     /\ \/ p.op = "DATA" /\ p.block \in 1 .. sent[p.port]
        \/ p.op \in {"OACK", "ERROR"} /\ p.block = 0 /\ sent[p.port] >= 0}

Receive == \E p \in InFlight : RecvPacket(p)

(* The -1 of "nothing there" becomes 65535 in the uint16_t len, the test   *)
(* "len < 0" fails and the packet left in the buffer is dealt with again.  *)
ReceiveNothing ==
  \/ RecvPacket(buf)
  \/ /\ Step("receive", Return(progress)) /\ st = "NONE"
     /\ UNCHANGED <<storage, client, network>>

(* save_data: block 1 erases every page, then the block is written to the  *)
(* write point.                                                            *)
ErasePage_One ==
  /\ Step("erase", "write")
  /\ flash' = [flash EXCEPT ![job.page] = Erased]
  /\ UNCHANGED <<request, client, network>>
ErasePage ==
  /\ pc = "erase"
  /\ flash' = [flash EXCEPT ![job.page] = Erased]
  /\ job' = [job EXCEPT !.page = IF @ = Last THEN 1 ELSE @ + 1]
  /\ pc' = IF job.page = Last THEN "write" ELSE "erase"
  /\ UNCHANGED <<request, st, block, port, timer, progress, wp, buf, network>>
WriteStart ==
  /\ Step("write", "written")
  /\ flash' = [flash EXCEPT ![wp] = Torn]
  /\ UNCHANGED <<request, client, network>>
WriteEnd ==
  /\ Step("written", "ack")
  /\ flash' = [flash EXCEPT ![wp] = job.block]
  /\ wp' = IF job.block = Last THEN 1 ELSE wp + 1
  /\ UNCHANGED <<request, st, block, port, timer, progress, buf, job, network>>

(* The rest of recv_tftp_data.                                             *)
AckTimer_AnyBlock == timer' = Started
AckTimer ==
  timer' = IF job.saved \/ timer.flag = 0 THEN Started ELSE timer
AckData ==
  /\ pc = "ack" /\ acked' = acked \cup {<<port, job.block>>}
  /\ \/ st = "DATA" /\ job.block = Last /\ InitTftp /\ progress' = "SUCCESS"
     \/ ~(st = "DATA" /\ job.block = Last) /\ AckTimer /\ UNCHANGED <<st, block, port, progress>>
  /\ job' = NoJob /\ pc' = Return(progress')
  /\ UNCHANGED <<storage, wp, buf, rrq, sent>>

-----------------------------------------------------------------------------
(* The timer interrupt, and the server *)

(* tftp_timeout_handler, once a second.                                    *)
Tick ==
  /\ timer.flag = 1 /\ timer.time < Timeout
  /\ timer' = [timer EXCEPT !.time = @ + 1]
  /\ UNCHANGED <<storage, pc, st, block, port, progress, wp, buf, job, network>>

(* A read request, also a repeated one, is served from a port of its own,  *)
(* beginning with an OACK or with block 1.                                 *)
ServerOpens ==
  /\ rrq
  /\ \E p \in Ports, b \in {0, 1} : sent[p] = 0 - 1 /\ sent' = [sent EXCEPT ![p] = b]
  /\ UNCHANGED <<storage, pc, client, rrq, acked>>
ServerAdvances ==
  /\ \E p \in Ports :
       /\ <<p, sent[p]>> \in acked /\ sent[p] < Last
       /\ sent' = [sent EXCEPT ![p] = @ + 1]
  /\ UNCHANGED <<storage, pc, client, rrq, acked>>

MainStep ==
  \/ StartUpdate \/ NoUpdate \/ UpdateFailed \/ ClearRequest \/ Jump \/ Stay
  \/ TimeoutCheck \/ Receive \/ ReceiveNothing
  \/ ErasePage \/ WriteStart \/ WriteEnd \/ AckData

Next ==
  \/ PowerFails \/ StoreRequest \/ StoreRest \/ MainStep \/ Tick
  \/ ServerOpens \/ ServerAdvances

Spec == Init /\ [][Next]_vars

(* The processor runs and its timer ticks; nothing is asked of the network.*)
FairSpec == Spec /\ WF_vars(MainStep) /\ WF_vars(Tick)
-----------------------------------------------------------------------------
(* Properties *)

(* Every variable keeps its type.                                          *)
TypeOK ==
  /\ flash \in [Pages -> {Old, Erased, Torn} \cup Pages]
  /\ request \in {"none", "torn", "set"}
  /\ pc \in {"boot", "jump", "app", "appAsked", "wait", "waitAsked", "timeout", "receive",
             "erase", "write", "written", "ack", "result"}
  /\ st \in {"NONE", "RRQ", "OACK", "DATA"} /\ block \in 0 .. Last
  /\ port \in Ports \cup {NoPort}
  /\ timer \in [flag : {0, 1}, time : 0 .. Timeout, retry : 0 .. Retries - 1]
  /\ progress \in {"PROGRESS", "FAIL", "SUCCESS"}
  /\ wp \in 1 .. Last + 1
  /\ buf \in Packet
  /\ job \in [block : 0 .. Last, saved : BOOLEAN, page : Pages]
  /\ rrq \in BOOLEAN /\ sent \in [Ports -> -1 .. Last]
  /\ acked \subseteq (Ports \cup {NoPort}) \X (0 .. Last)

(* The application that runs is the old image or the new one, never a part *)
(* of either, wherever the power failed and whatever the network did with  *)
(* the packets of this boot.                                               *)
OnlyWholeRuns == pc \in {"app", "appAsked"} => Whole

(* TFTP_SUCCESS, "Firmware Upload Done" to the configuration tool, is said *)
(* of an image that is there as a whole.                                   *)
SuccessIsWhole == progress = "SUCCESS" => Complete

(* A block is programmed where the flash is erased: FLASH_ProgramWord      *)
(* refuses anything else, and write_flash then leaves interrupts off.      *)
WritesErased == pc = "write" => flash[wp] = Erased

(* What is in the flash beside the old image is each block at its place,   *)
(* although a retransmitted or late block may be received again.           *)
BlocksInPlace == \A i \in Pages : flash[i] \in {Old, Erased, Torn, i}

(* The promise to the rest of the system.                                  *)
Slot == INSTANCE FirmwareSlot
          WITH image <- IF Untouched THEN "old" ELSE IF Complete THEN "new" ELSE "partial",
               wanted <- request # "none",
               running <- pc \in {"app", "appAsked"}
KeepsSlot == Slot!Spec

(* A TFTP_run that receives nothing neither answers nor stores anything,   *)
(* although it deals with the packet left in the buffer once more.         *)
QuietWithoutInput ==
  [][ReceiveNothing => pc' = Return(progress) /\ UNCHANGED <<storage, client, network>>]_vars

(* A download ends, with the image or by giving up, also when a server     *)
(* keeps repeating a block that is already there.                          *)
Downloading == pc \in {"timeout", "receive", "erase", "write", "written", "ack"}
DownloadEnds == Downloading ~> ~Downloading
=============================================================================
