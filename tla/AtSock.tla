------------------------------- MODULE AtSock -------------------------------
(***************************************************************************)
(* The socket commands of the AT command mode: NOPEN, NCLOSE, NSEND and    *)
(* MDATA (ATcmd/cmdrun.c), the watches on the socket and sockwatch_run     *)
(* (ATcmd/library/sockutil.c), which calls atc_async_cb when a watched     *)
(* event has happened, and the W5500 socket below them.  The build has one *)
(* such socket (ATC_SOCK_NUM_START = ATC_SOCK_NUM_END = 0).                *)
(*                                                                         *)
(* A pass of the main loop is atc_run, then sockwatch_run, which looks at  *)
(* one watch after the other; the chip moves between any two looks.  What  *)
(* a look finds and what it does about it is one step, except where the    *)
(* code reads a second register before it acts (the close that is tried)   *)
(* and where a call blocks.  The data mode is one state: the trigger       *)
(* leaves the socket closed, and the commands start from there.            *)
(***************************************************************************)
EXTENDS Integers, FiniteSets

CONSTANTS
  Protocols   \* what NOPEN is asked for: a subset of {"SRV", "CLT", "UDP"}

ASSUME AtSockAssumption == Protocols \subseteq {"SRV", "CLT", "UDP"}

VARIABLES
  sockstat,    \* the protocol bits of sockstat[0]: "IDLE", "SRV", "CLT" or "UDP"
  connected,   \* its SOCK_STAT_CONNECTED bit
  sockbusy,
  watch_sock,  \* the events watched
  sendsock,    \* atci.sendsock is set: characters are data of a NSEND
  mr, sr,      \* the socket's mode and status registers
  timeout,     \* the TIMEOUT bit of its interrupt register
  rx,          \* it holds received data
  nonblock,    \* its bit of sock_io_mode
  sending,     \* "no", or sock_is_sending and the SENDOK bit is clear ("out") or set ("ok")
  pc           \* where the main loop is

alloc == <<sockstat, connected, watch_sock>>
command == <<sockbusy, sendsock>>
chip == <<mr, sr, timeout, rx, nonblock, sending>>
vars == <<alloc, command, chip, pc>>

Tries == {"CLS_TRY", "CONN_TRY", "UDP_SEND"}         \* WATCH_SOCK_MASK_LOW
Items == Tries \cup {"CONN_EVT", "CLS_EVT", "RECV"}  \* WATCH_SOCK_ALL_MASK

IsTcp == sockstat \in {"SRV", "CLT"}  \* SOCK_STAT_TCP_MASK

Init ==
  /\ sockstat = "IDLE" /\ connected = FALSE /\ watch_sock = {}
  /\ sockbusy = FALSE /\ sendsock = FALSE
  /\ mr \in {"TCP", "UDP"} /\ sr = "CLOSED" /\ timeout = FALSE /\ rx = FALSE
  /\ nonblock = FALSE /\ sending = "no"
  /\ pc = "data"

-----------------------------------------------------------------------------
(* The socket's own moves: the peer, the network and the chip *)

(* SYNRECV and CLOSING stand for themselves and for the short states the   *)
(* code has no case for (LAST_ACK, TIME_WAIT).                             *)
Moves ==
  {<<"LISTEN", "SYNRECV">>, <<"SYNRECV", "ESTABLISHED">>, <<"SYNSENT", "ESTABLISHED">>,
   <<"ESTABLISHED", "CLOSE_WAIT">>, <<"FIN_WAIT", "CLOSING">>}
Open == {"ESTABLISHED", "CLOSE_WAIT", "FIN_WAIT", "CLOSING"}

Left == rx' \in {rx, FALSE}  \* what a socket that closes keeps of its received data

Move ==
  /\ \E move \in Moves : sr = move[1] /\ sr' = move[2]
  /\ UNCHANGED <<timeout, rx, sending>>
(* A reset by the peer, or the orderly end of a connection.                *)
Closes ==
  /\ sr \in Open \cup {"SYNRECV", "SYNSENT"} /\ sr' = "CLOSED"
  /\ Left /\ UNCHANGED <<timeout, sending>>
(* Nobody answers a SYN, a FIN or data.                                    *)
TimesOut ==
  /\ sr \in (Open \ {"ESTABLISHED", "CLOSE_WAIT"}) \cup {"SYNRECV", "SYNSENT"}
       \/ (sr \in Open /\ sending = "out")
  /\ sr' = "CLOSED" /\ timeout' = TRUE
  /\ Left /\ UNCHANGED sending
PeerData ==
  /\ sr \in {"ESTABLISHED", "FIN_WAIT", "UDP"} /\ rx' = TRUE
  /\ UNCHANGED <<sr, timeout, sending>>
SendOk ==
  /\ sending = "out" /\ sr \in Open /\ sending' = "ok"
  /\ UNCHANGED <<sr, timeout, rx>>

Network ==
  /\ Move \/ Closes \/ TimesOut \/ PeerData \/ SendOk
  /\ UNCHANGED <<alloc, command, mr, nonblock, pc>>

-----------------------------------------------------------------------------
(* socket.c, for this socket *)

Close ==
  /\ sr' = "CLOSED" /\ timeout' = FALSE /\ nonblock' = FALSE /\ sending' = "no"
  /\ Left /\ mr' = mr

(* socket(..., SF_IO_NONBLOCK), which fails for TCP without an address.    *)
Opened(protocol) ==
  /\ mr' = protocol /\ timeout' = FALSE /\ rx' = FALSE /\ nonblock' = TRUE /\ sending' = "no"

(* DISCON; disconnect then blocks unless the socket is non-blocking.       *)
Discon ==
  /\ sr' = IF sr = "ESTABLISHED" THEN "FIN_WAIT" ELSE IF sr = "CLOSE_WAIT" THEN "CLOSING" ELSE sr
  /\ sending' = "no"
  /\ UNCHANGED <<mr, timeout, rx, nonblock>>

(* A disconnect at a, which a blocking socket leaves by way of wait.       *)
Disconnect(a, b, wait) ==
  /\ pc = a
  /\ \/ mr = "TCP" /\ Discon /\ pc' = IF nonblock THEN b ELSE wait
     \/ mr = "UDP" /\ UNCHANGED chip /\ pc' = b

(* The end of the wait: the chip is CLOSED, or its TIMEOUT bit is seen.    *)
DisconnectOk == sr = "CLOSED" /\ UNCHANGED chip
DisconnectTimeout == timeout /\ Close

-----------------------------------------------------------------------------
(* Sockets of the commands: cmdrun.c *)

sock_put_KeepConnected ==
  sockstat' = "IDLE" /\ connected' \in {connected, FALSE} /\ watch_sock' = {}

sock_put == sockstat' = "IDLE" /\ connected' = FALSE /\ watch_sock' = {}

Goto(a, b) == pc = a /\ pc' = b
NoWatch(item) == item \notin watch_sock
Cleared(item) == watch_sock \ {item}

(* NOPEN.  The socket stays claimed when what follows fails: no address,   *)
(* a SYN before listen has looked, an address that connect refuses.        *)
OpenServer ==
  /\ sockstat' = "SRV"
  /\ \/ /\ sr' = "LISTEN" /\ Opened("TCP")
        /\ watch_sock' = watch_sock \cup {"CONN_EVT"}
     \/ /\ sr' = "CLOSED" /\ mr' = "TCP" /\ timeout' = FALSE /\ rx' = FALSE
        /\ nonblock' = FALSE /\ sending' = "no" /\ UNCHANGED watch_sock
     \/ UNCHANGED <<chip, watch_sock>>
  /\ UNCHANGED command
OpenClient ==
  /\ sockstat' = "CLT"
  /\ \/ /\ sr' = "SYNSENT" /\ Opened("TCP")
        /\ watch_sock' = watch_sock \cup {"CONN_TRY"} /\ sockbusy' = TRUE
     \/ sr' = "INIT" /\ Opened("TCP") /\ UNCHANGED <<watch_sock, sockbusy>>
     \/ UNCHANGED <<chip, watch_sock, sockbusy>>
  /\ UNCHANGED sendsock
OpenUdp ==
  /\ sockstat' = "UDP"
  /\ sr' = "UDP" /\ Opened("UDP")
  /\ watch_sock' = watch_sock \cup {"RECV"}
  /\ UNCHANGED command
Nopen ==
  /\ Goto("command", "recv") /\ ~sendsock
  /\ sockstat = "IDLE" /\ UNCHANGED connected
  /\ \/ "SRV" \in Protocols /\ OpenServer
     \/ "CLT" \in Protocols /\ OpenClient
     \/ "UDP" \in Protocols /\ OpenUdp

ClosingWatched == (watch_sock \ {"CLS_EVT"}) \cup {"CLS_TRY"}

NcloseTcp_NoBusy ==
  /\ ~sendsock /\ IsTcp
  /\ Disconnect("command", "recv", "waitClose")
  /\ \/ /\ mr = "TCP" /\ nonblock
        /\ watch_sock' = ClosingWatched /\ sockbusy' = TRUE
     \/ ~(mr = "TCP" /\ nonblock) /\ UNCHANGED <<watch_sock, sockbusy>>
  /\ UNCHANGED <<sockstat, connected, sendsock>>

(* NCLOSE of a TCP socket: answered when CLS_TRY has seen it closed.       *)
NcloseTcp ==
  /\ ~sendsock /\ ~sockbusy /\ IsTcp
  /\ Disconnect("command", "recv", "waitClose")
  /\ \/ /\ mr = "TCP" /\ nonblock
        /\ watch_sock' = ClosingWatched /\ sockbusy' = TRUE
     \/ ~(mr = "TCP" /\ nonblock) /\ UNCHANGED <<watch_sock, sockbusy>>
  /\ UNCHANGED <<sockstat, connected, sendsock>>
WaitClose ==
  /\ Goto("waitClose", "recv")
  /\ \/ DisconnectOk /\ watch_sock' = ClosingWatched /\ sockbusy' = TRUE
     \/ DisconnectTimeout /\ UNCHANGED <<watch_sock, sockbusy>>
  /\ UNCHANGED <<sockstat, connected, sendsock>>
NcloseUdp_NoClose ==
  /\ Goto("command", "recv") /\ ~sendsock /\ ~sockbusy
  /\ sockstat = "UDP" /\ sock_put
  /\ UNCHANGED <<command, chip>>

NcloseUdp ==
  /\ Goto("command", "recv") /\ ~sendsock /\ ~sockbusy
  /\ sockstat = "UDP" /\ Close /\ sock_put
  /\ UNCHANGED command

(* NSEND: the checks of act_nsend_chk, then characters are collected, and  *)
(* the last one sends them.                                                *)
Nsend ==
  /\ Goto("command", "recv") /\ ~sendsock /\ ~sockbusy
  /\ (IsTcp /\ connected) \/ sockstat = "UDP"
  /\ sendsock' = TRUE
  /\ UNCHANGED <<alloc, chip, sockbusy>>

(* send, on a socket made non-blocking for the call and blocking after it. *)
(* One that is still sending is what "Impossible TCP send busy" is about;  *)
(* a connection that ends between its two looks is closed.                 *)
SendTcp ==
  /\ sendsock' = FALSE /\ UNCHANGED alloc /\ mr' = mr
  /\ LET up == sr \in {"ESTABLISHED", "CLOSE_WAIT"}
     IN \/ /\ up /\ sending \in {"no", "ok"} /\ Goto("command", "recv")
           /\ sending' = "out" /\ nonblock' = FALSE /\ sockbusy' = FALSE
           /\ UNCHANGED <<sr, timeout, rx>>
        \/ /\ up /\ sending = "out" /\ Goto("command", "halt")
           /\ nonblock' = FALSE /\ UNCHANGED <<sr, timeout, rx, sending, sockbusy>>
        \/ up /\ Goto("command", "recv") /\ Close /\ UNCHANGED sockbusy
        \/ /\ ~up /\ Goto("command", "recv") /\ UNCHANGED sockbusy
           /\ nonblock' = FALSE /\ UNCHANGED <<sr, timeout, rx, sending>>

(* sendto waits until the chip has sent, or has found no neighbour.  A TCP *)
(* socket given back meanwhile is taken for UDP here: sendto refuses it.   *)
SendUdp ==
  /\ Goto("command", "recv")
  /\ sendsock' = FALSE /\ UNCHANGED <<chip, sockstat, connected>>
  /\ \/ sr = "UDP" /\ watch_sock' = watch_sock \cup {"UDP_SEND"} /\ sockbusy' = TRUE
     \/ UNCHANGED <<watch_sock, sockbusy>>
SendData == sendsock /\ ((IsTcp /\ SendTcp) \/ (~IsTcp /\ SendUdp))

(* MDATA: back to the data mode, and there by the trigger to the commands. *)
LeaveCommands == sock_put /\ UNCHANGED command
Mdata ==
  /\ ~sendsock
  /\ Disconnect("command", "leave", "waitData")
  /\ UNCHANGED <<alloc, command>>
WaitData ==
  /\ Goto("waitData", "leave")
  /\ DisconnectOk \/ DisconnectTimeout
  /\ UNCHANGED <<alloc, command>>
Leave == Goto("leave", "data") /\ LeaveCommands /\ Close
(* What the data mode leaves behind is closed, in either socket mode.      *)
Trigger ==
  /\ Goto("data", "command")
  /\ sr' = "CLOSED" /\ timeout' = FALSE /\ nonblock' = FALSE /\ sending' = "no"
  /\ rx' \in BOOLEAN /\ mr' \in {"TCP", "UDP"}
  /\ UNCHANGED <<alloc, command>>

(* A pass without a command, and the commands that are refused.            *)
NoCommand == Goto("command", "recv") /\ UNCHANGED <<alloc, command, chip>>

-----------------------------------------------------------------------------
(* sockwatch_run with atc_async_cb *)

Skip(item, a, b) == Goto(a, b) /\ NoWatch(item) /\ UNCHANGED <<alloc, command, chip>>

(* RECV, act_nrecv, which watches on: only a read that fails does not, and *)
(* recv closes the socket it finds without a connection.                   *)
WatchRecv_Once ==
  \/ Skip("RECV", "recv", "cls")
  \/ /\ Goto("recv", "cls") /\ "RECV" \in watch_sock /\ UNCHANGED <<command, sockstat, connected>>
     /\ \/ ~rx /\ UNCHANGED <<watch_sock, chip>>
        \/ /\ rx /\ sr \in {"ESTABLISHED", "CLOSE_WAIT", "UDP"}
           /\ rx' = FALSE /\ watch_sock' = Cleared("RECV")
           /\ UNCHANGED <<mr, sr, timeout, nonblock, sending>>
        \/ /\ rx /\ sr \notin {"ESTABLISHED", "CLOSE_WAIT", "UDP"}
           /\ watch_sock' = Cleared("RECV") /\ Close

WatchRecv ==
  \/ Skip("RECV", "recv", "cls")
  \/ /\ Goto("recv", "cls") /\ "RECV" \in watch_sock /\ UNCHANGED <<command, sockstat, connected>>
     /\ \/ ~rx /\ UNCHANGED <<watch_sock, chip>>
        \/ /\ rx /\ sr \in {"ESTABLISHED", "CLOSE_WAIT", "UDP"}
           /\ rx' = FALSE /\ UNCHANGED <<watch_sock, mr, sr, timeout, nonblock, sending>>
        \/ /\ rx /\ sr \notin {"ESTABLISHED", "CLOSE_WAIT", "UDP"}
           /\ watch_sock' = Cleared("RECV") /\ Close

Relisten_KeepConnected ==
  \/ /\ sr' = "LISTEN" /\ Opened("TCP")
     /\ watch_sock' = {"CONN_EVT"} /\ UNCHANGED <<sockstat, connected>>
  \/ /\ sock_put /\ sr' = "CLOSED" /\ mr' = "TCP" /\ timeout' = FALSE /\ rx' = FALSE
     /\ nonblock' = FALSE /\ sending' = "no"
  \/ sock_put /\ UNCHANGED chip

(* A server whose connection has ended listens again, or gives up.         *)
Relisten ==
  \/ /\ sr' = "LISTEN" /\ Opened("TCP")
     /\ connected' = FALSE /\ watch_sock' = {"CONN_EVT"} /\ UNCHANGED sockstat
  \/ /\ sock_put /\ sr' = "CLOSED" /\ mr' = "TCP" /\ timeout' = FALSE /\ rx' = FALSE
     /\ nonblock' = FALSE /\ sending' = "no"
  \/ sock_put /\ UNCHANGED chip

WatchClsEvt ==
  \/ Skip("CLS_EVT", "cls", "conn")
  \/ /\ "CLS_EVT" \in watch_sock /\ UNCHANGED sendsock
     /\ \/ /\ sr = "CLOSED" /\ Goto("cls", "conn")
           /\ sockbusy' = FALSE
           /\ (sockstat = "SRV" /\ Relisten) \/ (sockstat # "SRV" /\ sock_put /\ UNCHANGED chip)
        \/ /\ sr = "CLOSE_WAIT" /\ Disconnect("cls", "conn", "waitCls")
           /\ UNCHANGED <<alloc, sockbusy>>
        \/ /\ sr \notin {"CLOSED", "CLOSE_WAIT"} /\ Goto("cls", "conn")
           /\ UNCHANGED <<alloc, sockbusy, chip>>
WaitCls ==
  /\ Goto("waitCls", "conn")
  /\ DisconnectOk \/ DisconnectTimeout
  /\ UNCHANGED <<alloc, command>>

Up_NoRecv(item) == connected' = TRUE /\ watch_sock' = Cleared(item) \cup {"CLS_EVT"}
Up(item) == connected' = TRUE /\ watch_sock' = Cleared(item) \cup {"CLS_EVT", "RECV"}

WatchConnEvt ==
  \/ Skip("CONN_EVT", "conn", "clsTry")
  \/ /\ Goto("conn", "clsTry") /\ "CONN_EVT" \in watch_sock
     /\ \/ sr = "ESTABLISHED" /\ Up("CONN_EVT")
        \/ sr # "ESTABLISHED" /\ UNCHANGED <<connected, watch_sock>>
     /\ UNCHANGED <<sockstat, command, chip>>

(* The close is answered and the socket given back.                        *)
WatchClsTry ==
  \/ Skip("CLS_TRY", "clsTry", "connTry")
  \/ /\ "CLS_TRY" \in watch_sock /\ UNCHANGED sendsock
     /\ \/ /\ sr \in {"LISTEN", "CLOSED"} /\ Goto("clsTry", "connTry")
           /\ sockbusy' = FALSE /\ sock_put
           /\ IF sr = "LISTEN" THEN Close ELSE UNCHANGED chip
        \/ /\ sr = "FIN_WAIT" /\ Goto("clsTry", "connTry")
           /\ Close /\ UNCHANGED <<alloc, sockbusy>>
        \/ /\ sr \notin {"LISTEN", "CLOSED", "FIN_WAIT"} /\ Goto("clsTry", "clsTryIr")
           /\ UNCHANGED <<alloc, sockbusy, chip>>
(* A time-out between the two reads: the callback calls it critical.  The  *)
(* disconnect does not block: NCLOSE has waited for a socket that would.   *)
WatchClsTryIr ==
  /\ UNCHANGED sendsock
  /\ \/ /\ timeout /\ Goto("clsTryIr", "halt") /\ Close
        /\ sockbusy' = FALSE /\ watch_sock' = Cleared("CLS_TRY")
        /\ UNCHANGED <<sockstat, connected>>
     \/ /\ ~timeout /\ Goto("clsTryIr", "connTry") /\ Discon
        /\ UNCHANGED <<alloc, sockbusy>>

(* The connect is answered.                                                *)
WatchConnTry ==
  \/ Skip("CONN_TRY", "connTry", "udpSend")
  \/ /\ Goto("connTry", "udpSend") /\ "CONN_TRY" \in watch_sock /\ UNCHANGED sendsock
     /\ \/ /\ sr = "ESTABLISHED" /\ Up("CONN_TRY") /\ sockbusy' = FALSE
           /\ UNCHANGED <<sockstat, chip>>
        \/ /\ sr # "ESTABLISHED" /\ timeout
           /\ Close /\ sock_put /\ sockbusy' = FALSE
        \/ /\ sr # "ESTABLISHED" /\ ~timeout /\ UNCHANGED <<alloc, sockbusy, chip>>

WatchUdpSend_StayBusy ==
  \/ Skip("UDP_SEND", "udpSend", "command")
  \/ /\ Goto("udpSend", "command") /\ "UDP_SEND" \in watch_sock
     /\ watch_sock' = Cleared("UDP_SEND")
     /\ UNCHANGED <<sockstat, connected, command, chip>>

WatchUdpSend ==
  \/ Skip("UDP_SEND", "udpSend", "command")
  \/ /\ Goto("udpSend", "command") /\ "UDP_SEND" \in watch_sock
     /\ watch_sock' = Cleared("UDP_SEND") /\ sockbusy' = FALSE
     /\ UNCHANGED <<sockstat, connected, sendsock, chip>>

(* The watchdog, which only the main loop reloads, resets the module out   *)
(* of CRITICAL_ERR's endless loop and out of a wait that takes a second.   *)
Stuck == {"halt", "waitClose", "waitData", "waitCls"}
Watchdog ==
  /\ pc \in Stuck
  /\ pc' = "data"
  /\ sock_put /\ sockbusy' = FALSE /\ sendsock' = FALSE
  /\ Close

-----------------------------------------------------------------------------
Commands == Nopen \/ NcloseTcp \/ NcloseUdp \/ Nsend \/ SendData \/ Mdata \/ NoCommand
Waits == WaitClose \/ WaitData \/ WaitCls
Sockwatch ==
  WatchRecv \/ WatchClsEvt \/ WatchConnEvt \/ WatchClsTry \/ WatchClsTryIr \/ WatchConnTry
    \/ WatchUdpSend

Next == Network \/ Commands \/ Leave \/ Trigger \/ Waits \/ Sockwatch \/ Watchdog

Spec == Init /\ [][Next]_vars

(* The main loop goes on, a wait ends or the watchdog ends it, and the     *)
(* chip gives up on a connect and on an unfinished close by itself.        *)
FairSpec ==
  /\ Spec
  /\ WF_vars(Commands) /\ WF_vars(Leave) /\ WF_vars(Sockwatch) /\ WF_vars(Waits \/ Watchdog)
  /\ WF_vars(Network /\ sr \in {"SYNSENT", "SYNRECV", "FIN_WAIT", "CLOSING"} /\ sr' # sr)
-----------------------------------------------------------------------------
(* Properties *)

Status ==
  {"CLOSED", "INIT", "LISTEN", "SYNRECV", "SYNSENT", "ESTABLISHED", "CLOSE_WAIT", "FIN_WAIT",
   "CLOSING", "UDP"}
Points ==
  {"data", "command", "leave", "recv", "cls", "conn", "clsTry", "clsTryIr", "connTry", "udpSend"}
    \cup Stuck

(* Every variable keeps its type, and sockstat is one of the values its    *)
(* readers compare it with: a CONNECTED bit belongs to a TCP socket.       *)
AllocType ==
  /\ sockstat \in {"IDLE", "SRV", "CLT", "UDP"} /\ connected \in BOOLEAN /\ (connected => IsTcp)
  /\ watch_sock \subseteq Items
CommandType == sockbusy \in BOOLEAN /\ sendsock \in BOOLEAN
ChipType ==
  /\ mr \in {"TCP", "UDP"} /\ sr \in Status /\ timeout \in BOOLEAN /\ rx \in BOOLEAN
  /\ nonblock \in BOOLEAN /\ sending \in {"no", "out", "ok"}
TypeOK == AllocType /\ CommandType /\ ChipType /\ pc \in Points

(* A socket that was given back is closed and watched for nothing, however *)
(* it came to be: the next NOPEN starts from a socket nobody still uses.   *)
ReleasedIsClosed == sockstat = "IDLE" => sr = "CLOSED" /\ watch_sock = {} /\ ~connected

(* At most one command waits for its answer, and the socket is busy until  *)
(* it has it, so that NCLOSE and NSEND are refused.  A close that is tried *)
(* again does not block the main loop.                                     *)
Awaiting == watch_sock \cap Tries # {}
TriesAreBusy ==
  /\ Awaiting => sockbusy
  /\ Cardinality(watch_sock \cap Tries) <= 1
  /\ pc = "clsTryIr" => mr = "TCP" /\ nonblock

(* Whatever the socket can still report is watched for: the connection of  *)
(* a server, the answer to a connect, the end of a connection and the data *)
(* that comes over it.                                                     *)
Accepts == sockstat = "SRV" /\ ~connected /\ sr \in {"LISTEN", "SYNRECV", "ESTABLISHED"}
Connects == sockstat = "CLT" /\ ~connected /\ sr \in {"SYNSENT", "ESTABLISHED"}
Carries == (connected /\ sr = "ESTABLISHED") \/ sr = "UDP"
NothingMissed ==
  /\ Accepts => "CONN_EVT" \in watch_sock
  /\ Connects => "CONN_TRY" \in watch_sock
  /\ connected /\ pc # "halt" => watch_sock \cap {"CLS_EVT", "CLS_TRY"} # {}
  /\ Carries => "RECV" \in watch_sock

(* A socket that is busy with a command becomes free again.  Three ways it *)
(* does not: a connect that was refused, or whose connection ended before  *)
(* a look at it; a close of a client that never sent its SYN; MDATA, which *)
(* gives the socket back and leaves it busy.                               *)
Overlooked == "CONN_TRY" \in watch_sock /\ sr \in {"CLOSED", "CLOSE_WAIT"}
NeverOpened == "CLS_TRY" \in watch_sock /\ sr = "INIT"
BusyEnds ==
  (sockbusy /\ Awaiting) ~> (~sockbusy \/ Overlooked \/ NeverOpened \/ pc = "data")

(* The end of a reported connection reaches the allocation of the socket.  *)
EndNoticed == (connected /\ sr \in {"CLOSE_WAIT", "CLOSED"}) ~> ~connected

(* A connection that opens is reported to the serial side, and what comes  *)
(* over a socket is read.                                                  *)
Pending ==
  \/ sr = "ESTABLISHED" /\ (~connected \/ rx)
  \/ sr = "UDP" /\ rx
PeerServed == []<>~Pending
=============================================================================
