------------------------------ MODULE S2eConn ------------------------------
(***************************************************************************)
(* The serial-to-Ethernet data mode of the application: s2e_run (S2E/      *)
(* S2E.c), which the main loop calls over and over, TIM2_IRQHandler        *)
(* (PlatformHandler/timerHandler.c), and the W5500 socket that both of     *)
(* them are about.                                                         *)
(*                                                                         *)
(* One pass of s2e_run reads the socket status once and acts on what it    *)
(* read; the network, the serial line and the timer interrupt move on      *)
(* meanwhile.  A pass is cut where it reads the chip again or uses what it *)
(* read before.  The serial command trigger is off: Trigger is about it.   *)
(* Payload is abstract: a received byte is right ("key") or wrong ("junk") *)
(* as part of the connection password, and serial data is only counted.    *)
(* The configured addresses and ports are valid: socket and connect, which *)
(* refuse a zero, accept them.                                             *)
(***************************************************************************)
EXTENDS Integers, Sequences

CONSTANTS
  Modes,         \* net->working_mode: a subset of {"client", "server", "mixed", "udp"}
  Protected,     \* is pw_connect set: a subset of BOOLEAN
  Bytes,         \* what the peer sends: a subset of {"key", "junk"}
  PwLen,         \* strlen(pw_connect)
  Reconnection,  \* net->reconnection, in timer ticks
  Inactivities,  \* net->inactivity, in seconds; 0 turns it off
  AuthSeconds,   \* 5 in auth_process
  KeepSeconds,   \* 5 in TIM2_IRQHandler
  RecvCap,       \* bound: bytes the socket's receive buffer holds
  SerialCap      \* bound: bytes rxring holds

ASSUME S2eAssumption ==
  /\ Modes \subseteq {"client", "server", "mixed", "udp"}
  /\ Protected \subseteq BOOLEAN /\ Bytes \subseteq {"key", "junk"}
  /\ {PwLen, Reconnection, AuthSeconds, KeepSeconds, RecvCap, SerialCap} \subseteq Nat \ {0}
  /\ Inactivities \subseteq Nat
  /\ PwLen <= RecvCap /\ RecvCap < 65529

VARIABLES
  mode, pw, inactivity,  \* the loaded configuration
  sr, rsr,       \* the socket: its status register and what it received
  sending,       \* a SEND without its SENDOK (sock_is_sending)
  phy,           \* the Ethernet link
  serial,        \* RingBuffer_GetCount(&rxring)
  net_state,     \* net->state
  mixed_state,
  auth, reconn, inactive, keepsend,  \* xxx_flag and xxx_time
  moved,         \* ether_send_cnt or ether_recv_cnt differs from its _prev
  prev_len,      \* auth_process' static variable
  pc,            \* where the pass is
  sock_state,    \* the status this pass has read
  len,           \* ether_to_uart's uint16_t len
  session,       \* history of the connection: who opened it, whether its password was
                 \* accepted and whether payload went through
  since          \* history: ticks since the last connect that was not answered

config == <<mode, pw, inactivity>>
chip == <<sr, rsr, sending, phy>>
timers == <<auth, reconn, inactive, keepsend, moved>>
loop == <<net_state, mixed_state, prev_len, sock_state, len>>
vars == <<config, chip, timers, loop, serial, pc, session, since>>

Sessions == [opener : {"none", "peer", "self"}, passed : BOOLEAN, served : BOOLEAN]
NoSession == [opener |-> "none", passed |-> FALSE, served |-> FALSE]

Off == [flag |-> 0, time |-> 0]

(* net->state is part of the stored packet, so it starts with any value.   *)
Init ==
  /\ mode \in Modes /\ pw \in Protected /\ inactivity \in Inactivities
  /\ sr = "CLOSED" /\ rsr = <<>> /\ sending = FALSE /\ phy = TRUE
  /\ serial = 0
  /\ net_state \in {"disconnect", "connect", "udp"} /\ mixed_state = "server"
  /\ auth = Off /\ reconn = Off /\ inactive = Off /\ keepsend = Off /\ moved = FALSE
  /\ prev_len = 0 /\ pc = "top" /\ sock_state = "CLOSED" /\ len = 0
  /\ session = NoSession /\ since = Reconnection

-----------------------------------------------------------------------------
(* The socket's own moves: the peer, the network and the chip *)

Connected(opener) ==
  /\ sr' = "ESTABLISHED"
  /\ session' = [NoSession EXCEPT !.opener = opener]
  /\ UNCHANGED <<rsr, sending, phy>>

Dropped ==
  /\ sr' = "CLOSED" /\ rsr' = <<>> /\ sending' = FALSE
  /\ session' = NoSession
  /\ phy' = phy

PeerConnects == sr = "LISTEN" /\ phy /\ Connected("peer")
ConnectAccepted == sr = "SYNSENT" /\ phy /\ Connected("self")
ConnectFails == sr = "SYNSENT" /\ Dropped
PeerData ==
  /\ sr \in {"ESTABLISHED", "UDP"} /\ phy /\ Len(rsr) < RecvCap
  /\ \E b \in Bytes : rsr' = Append(rsr, b)
  /\ UNCHANGED <<sr, sending, phy, session>>
PeerCloses ==
  /\ sr = "ESTABLISHED" /\ phy
  /\ sr' = "CLOSE_WAIT"
  /\ UNCHANGED <<rsr, sending, phy, session>>
ConnectionLost == sr \in {"ESTABLISHED", "CLOSE_WAIT"} /\ Dropped
ClosingDone == sr = "FIN_WAIT" /\ Dropped
SendDone == sending /\ phy /\ sending' = FALSE /\ UNCHANGED <<sr, rsr, phy, session>>
LinkChange == phy' = ~phy /\ UNCHANGED <<sr, rsr, sending, session>>

Network ==
  /\ PeerConnects \/ ConnectAccepted \/ ConnectFails \/ PeerData \/ PeerCloses
       \/ ConnectionLost \/ ClosingDone \/ SendDone \/ LinkChange
  /\ since' = IF sr' = "ESTABLISHED" /\ sr # sr' THEN Reconnection ELSE since
  /\ UNCHANGED <<config, timers, loop, serial, pc>>

SerialByte ==
  /\ serial < SerialCap /\ serial' = serial + 1
  /\ UNCHANGED <<config, chip, timers, loop, pc, session, since>>

-----------------------------------------------------------------------------
(* TIM2_IRQHandler *)

AtMost(n, bound) == IF n < bound THEN n ELSE bound

ReconnTick_KeepTime ==
  LET time == reconn.time + reconn.flag
  IN reconn' = IF Reconnection <= time THEN [flag |-> 0, time |-> time]
               ELSE [reconn EXCEPT !.time = time]
ReconnTick_KeepFlag ==
  LET time == reconn.time + reconn.flag
  IN reconn' = IF Reconnection <= time THEN [reconn EXCEPT !.time = 0]
               ELSE [reconn EXCEPT !.time = time]
ReconnTick ==
  LET time == reconn.time + reconn.flag
  IN reconn' = IF Reconnection <= time THEN Off ELSE [reconn EXCEPT !.time = time]

InactiveSecond ==
  LET counting == inactive.flag = 1
      time == IF ~counting THEN inactive.time ELSE IF moved THEN 0 ELSE inactive.time + 1
  IN /\ moved' = (moved /\ ~counting)
     /\ inactive' = IF inactivity > 0 /\ inactivity <= time
                    THEN [flag |-> 2, time |-> 0] ELSE [inactive EXCEPT !.time = time]

AuthSecond == auth' = [auth EXCEPT !.time = AtMost(auth.time + auth.flag, AuthSeconds)]

KeepsendSecond_NoExpiry ==
  keepsend' = IF keepsend.flag = 1
              THEN [keepsend EXCEPT !.time = (keepsend.time + 1) % KeepSeconds] ELSE keepsend
KeepsendSecond ==
  keepsend' = IF keepsend.flag = 1
              THEN IF keepsend.time + 1 = KeepSeconds THEN [flag |-> 2, time |-> 0]
                   ELSE [keepsend EXCEPT !.time = keepsend.time + 1]
              ELSE keepsend

Millisecond ==
  /\ ReconnTick /\ since' = AtMost(since + 1, Reconnection)
  /\ UNCHANGED <<config, chip, loop, auth, inactive, keepsend, moved, serial, pc, session>>

(* The tick that also ends a second; their ratio is left open.             *)
Second ==
  /\ ReconnTick /\ InactiveSecond /\ AuthSecond /\ KeepsendSecond
  /\ since' = AtMost(since + 1, Reconnection)
  /\ UNCHANGED <<config, chip, loop, serial, pc, session>>

-----------------------------------------------------------------------------
(* socket.c, for this socket: what the calls make of the chip *)

Closed == sr' = "CLOSED" /\ rsr' = <<>> /\ sending' = FALSE /\ session' = NoSession

(* DISCON; a socket without a connection ignores it.                       *)
Disconnect ==
  /\ sr' = IF sr \in {"ESTABLISHED", "CLOSE_WAIT"} THEN "FIN_WAIT" ELSE sr
  /\ sending' = FALSE

(* recv and recvfrom succeed.  What they return is assigned to a uint16_t. *)
Readable == sr \in {"ESTABLISHED", "CLOSE_WAIT", "UDP"} /\ rsr # <<>>
UINT16_MAX == 65535
SOCKERR_SOCKSTATUS == (0 - 7) % (UINT16_MAX + 1)

Carried == [session EXCEPT !.served = TRUE]

-----------------------------------------------------------------------------
(* One pass of s2e_run *)

Goto(a, b) == pc = a /\ pc' = b /\ UNCHANGED <<config, phy>>
Socket == <<sr, rsr, sending, session>>
Payload == <<moved, len, serial>>

ReadStatus ==
  /\ Goto("top", "state")
  /\ sock_state' = sr
  /\ UNCHANGED <<Socket, timers, net_state, mixed_state, prev_len, len, serial, since>>

CameUp == net_state = "disconnect" /\ sock_state = "ESTABLISHED"
WentDown == net_state = "connect" /\ sock_state # "ESTABLISHED"
NeedsAuth_ClientOnly == CameUp /\ pw /\ (mode = "mixed" => mixed_state = "client")
NeedsAuth == CameUp /\ pw /\ (mode = "mixed" => mixed_state = "server")

(* Serial input that has no connection to go to is discarded, then the     *)
(* network state machine takes its step.                                   *)
NetworkState ==
  /\ Goto("state", "dispatch")
  /\ serial' = IF sock_state \in {"ESTABLISHED", "UDP"} \/ mode = "mixed" THEN serial ELSE 0
  /\ net_state' = CASE CameUp -> "connect"
                    [] net_state = "disconnect" /\ sock_state = "UDP" -> "udp"
                    [] WentDown \/ (net_state = "udp" /\ sock_state # "UDP") -> "disconnect"
                    [] OTHER -> net_state
  /\ auth' = IF NeedsAuth THEN [auth EXCEPT !.flag = 1] ELSE auth
  /\ mixed_state' = IF WentDown THEN "server" ELSE mixed_state
  /\ UNCHANGED <<Socket, reconn, inactive, keepsend, moved, prev_len, sock_state, len, since>>

(* What a pass does for a socket in a state it has nothing to do in.       *)
Dispatch(status, b) == Goto("dispatch", b) /\ sock_state = status
  /\ UNCHANGED <<auth, moved, net_state, prev_len, sock_state, len, serial>>
Idle == UNCHANGED <<reconn, inactive, keepsend>>

SockClose ==
  /\ Dispatch("CLOSED", "top") /\ Idle
  /\ sr' = IF mode = "udp" THEN "UDP" ELSE "INIT"
  /\ UNCHANGED <<rsr, sending, session, mixed_state, since>>

(* A SYN can arrive before listen looks at the status again: it closes.    *)
Listen == sr' = "LISTEN" \/ sr' = "CLOSED"

Connect_Ungated == sr' = "SYNSENT" /\ reconn' = [reconn EXCEPT !.flag = 1] /\ since' = 0
(* connect is tried again when the timer has taken reconn_flag back.       *)
Connect ==
  \/ reconn.flag = 0 /\ sr' = "SYNSENT" /\ reconn' = [reconn EXCEPT !.flag = 1] /\ since' = 0
  \/ reconn.flag = 1 /\ UNCHANGED <<sr, reconn, since>>

Serves == mode = "server" \/ (mode = "mixed" /\ serial = 0)
SockInit_NoClient ==
  /\ Dispatch("INIT", "top")
  /\ \/ Serves /\ Listen /\ UNCHANGED <<reconn, since>> /\ mixed_state' = "server"
     \/ ~Serves /\ Connect /\ UNCHANGED mixed_state
  /\ UNCHANGED <<rsr, sending, session, inactive, keepsend>>
SockInit ==
  /\ Dispatch("INIT", "top")
  /\ \/ Serves /\ Listen /\ UNCHANGED <<reconn, since>>
     \/ ~Serves /\ Connect
  /\ mixed_state' = IF mode # "mixed" THEN mixed_state
                    ELSE IF Serves THEN "server" ELSE "client"
  /\ UNCHANGED <<rsr, sending, session, inactive, keepsend>>

SockListen_NoClose ==
  Dispatch("LISTEN", "top") /\ Idle /\ UNCHANGED <<Socket, mixed_state, since>>

(* The mixed mode stops listening to send what the serial side has.  The   *)
(* socket may have been connected to since the pass read its status.       *)
SockListen ==
  /\ Dispatch("LISTEN", "top") /\ Idle /\ UNCHANGED <<mixed_state, since>>
  /\ \/ mode = "mixed" /\ serial > 0 /\ Closed
     \/ ~(mode = "mixed" /\ serial > 0) /\ UNCHANGED Socket

SockCloseWait ==
  /\ Dispatch("CLOSE_WAIT", "top") /\ Idle /\ UNCHANGED <<mixed_state, since>>
  /\ Closed

SockOther ==
  /\ Dispatch(sock_state, "top") /\ sock_state \in {"SYNSENT", "FIN_WAIT"}
  /\ Idle /\ UNCHANGED <<Socket, mixed_state, since>>

SockUdp == Dispatch("UDP", "recv") /\ Idle /\ UNCHANGED <<Socket, mixed_state, since>>

(* "reconn_flag = reconn_time = 0": a tick between the stores counts.      *)
ResetReconn ==
  \/ reconn.flag = 1 /\ \E t \in {0, 1} : reconn' = [flag |-> 0, time |-> AtMost(t, Reconnection - 1)]
  \/ reconn.flag = 0 /\ reconn' = reconn

(* The flag of a seconds timer: 0 is started, 2 is expired and taken.      *)
Cycled(timer) ==
  [timer EXCEPT !.flag = CASE @ = 0 -> 1 [] @ = 1 -> 1 [] @ = 2 -> 0]
WatchInactivity_ClientOnly ==
  inactive' = IF mode = "client" /\ (inactivity > 0 \/ inactive.flag = 2)
              THEN Cycled(inactive) ELSE inactive
WatchInactivity ==
  inactive' = IF inactivity > 0 \/ inactive.flag = 2 THEN Cycled(inactive) ELSE inactive

Authenticates == mode \in {"server", "mixed"} /\ auth.flag = 1
SockEstablished ==
  /\ Dispatch("ESTABLISHED", IF Authenticates THEN "auth" ELSE "recv")
  /\ ResetReconn
  /\ \/ Authenticates /\ UNCHANGED <<inactive, keepsend, sr, sending>>
     \/ /\ ~Authenticates
        /\ WatchInactivity
        /\ keepsend' = Cycled(keepsend)
        /\ IF inactive.flag = 2 \/ (keepsend.flag = 2 /\ ~phy)
           THEN Disconnect ELSE UNCHANGED <<sr, sending>>
  /\ UNCHANGED <<rsr, session, mixed_state, since>>

(* auth_process: "auth_flag = auth_time = 0", where a second between the   *)
(* two stores counts.                                                      *)
AuthDone == \E t \in {0, 1} : auth' = [flag |-> 0, time |-> t]

At(a, b) == Goto(a, b)
  /\ UNCHANGED <<reconn, inactive, keepsend, net_state, mixed_state, sock_state, since>>

AuthLook_ForgetLength ==
  LET time == IF Len(rsr) # prev_len THEN 0 ELSE auth.time
  IN /\ prev_len' = prev_len /\ UNCHANGED Payload
     /\ \/ /\ sr = "ESTABLISHED" /\ time >= AuthSeconds
           /\ At("auth", "top") /\ Disconnect /\ AuthDone /\ UNCHANGED <<rsr, session>>
        \/ /\ sr = "ESTABLISHED" /\ time < AuthSeconds
           /\ At("auth", IF Len(rsr) >= PwLen THEN "authRecv" ELSE "top")
           /\ auth' = [auth EXCEPT !.time = time] /\ UNCHANGED Socket
        \/ sr # "ESTABLISHED" /\ At("auth", "top") /\ UNCHANGED <<auth, Socket>>

(* A change of the received length restarts the wait for the password.     *)
AuthLook ==
  LET time == IF Len(rsr) # prev_len THEN 0 ELSE auth.time
  IN /\ prev_len' = IF sr = "ESTABLISHED" THEN Len(rsr) ELSE prev_len
     /\ UNCHANGED Payload
     /\ \/ /\ sr = "ESTABLISHED" /\ time >= AuthSeconds
           /\ At("auth", "top") /\ Disconnect /\ AuthDone /\ UNCHANGED <<rsr, session>>
        \/ /\ sr = "ESTABLISHED" /\ time < AuthSeconds
           /\ At("auth", IF Len(rsr) >= PwLen THEN "authRecv" ELSE "top")
           /\ auth' = [auth EXCEPT !.time = time] /\ UNCHANGED Socket
        \/ sr # "ESTABLISHED" /\ At("auth", "top") /\ UNCHANGED <<auth, Socket>>

Password == [i \in 1 .. PwLen |-> "key"]
AuthRecv ==
  /\ At("authRecv", "top") /\ AuthDone /\ UNCHANGED <<Payload, prev_len>>
  /\ LET right == SubSeq(rsr, 1, PwLen) = Password
     IN \/ /\ Readable
           /\ rsr' = SubSeq(rsr, PwLen + 1, Len(rsr))
           /\ session' = [session EXCEPT !.passed = right]
           /\ IF right THEN UNCHANGED <<sr, sending>> ELSE Disconnect
        \/ ~Readable /\ Closed

(* ether_to_uart: the space left in txring is compared with what has been  *)
(* received so far; recv then takes all there is by then.                  *)
RecvLook ==
  /\ \/ At("recv", "send")
     \/ sr \in {"ESTABLISHED", "UDP"} /\ rsr # <<>> /\ At("recv", "recvTake")
  /\ UNCHANGED <<Socket, auth, Payload, prev_len>>
RecvTake ==
  /\ At("recvTake", "forward") /\ moved' = TRUE
  /\ \/ Readable /\ len' = Len(rsr) /\ rsr' = <<>> /\ session' = Carried
        /\ UNCHANGED <<sr, sending>>
     \/ ~Readable /\ len' = SOCKERR_SOCKSTATUS /\ Closed
  /\ UNCHANGED <<auth, serial, prev_len>>
Forward ==
  /\ At("forward", "send") /\ len' = 0
  /\ UNCHANGED <<Socket, auth, moved, serial, prev_len>>

(* uart_to_ether: when the packing conditions let it, it takes what rxring *)
(* holds and gives it to send or sendto; a send that is refused drops it.  *)
SendLook ==
  /\ \/ At("send", "top") /\ serial' = serial
     \/ /\ serial > 0 /\ sr \in {"ESTABLISHED", "UDP"}
        /\ At("send", "sendOut") /\ serial' = 0
  /\ UNCHANGED <<Socket, auth, moved, len, prev_len>>
SendOut ==
  /\ At("sendOut", "top")
  /\ \/ /\ sr = "UDP" \/ (sr \in {"ESTABLISHED", "CLOSE_WAIT"} /\ ~sending)
        /\ sending' = (sr # "UDP") /\ moved' = TRUE /\ session' = Carried /\ UNCHANGED <<sr, rsr>>
     \/ /\ sr = "UDP" \/ sr \notin {"ESTABLISHED", "CLOSE_WAIT"} \/ sending
        /\ UNCHANGED <<Socket, moved>>
     \/ /\ sr \in {"ESTABLISHED", "CLOSE_WAIT"}  \* a time-out or a loss that send notices
        /\ Closed /\ UNCHANGED moved
  /\ UNCHANGED <<auth, len, serial, prev_len>>

MainStep ==
  \/ ReadStatus \/ NetworkState
  \/ SockClose \/ SockInit \/ SockListen \/ SockEstablished \/ SockCloseWait
  \/ SockUdp \/ SockOther
  \/ AuthLook \/ AuthRecv \/ RecvLook \/ RecvTake \/ Forward \/ SendLook \/ SendOut

Next == Network \/ SerialByte \/ Millisecond \/ Second \/ MainStep

Spec == Init /\ [][Next]_vars

(* The main loop runs, the timer ticks, and the chip gives up on a connect *)
(* or on a closing connection by its own retransmission timeout.           *)
FairSpec ==
  /\ Spec
  /\ WF_vars(MainStep) /\ WF_vars(Second)
  /\ WF_vars(Network /\ (sr = "SYNSENT" \/ sr = "FIN_WAIT") /\ sr' # sr)
-----------------------------------------------------------------------------
(* Properties *)

Status == {"CLOSED", "INIT", "LISTEN", "SYNSENT", "ESTABLISHED", "CLOSE_WAIT", "FIN_WAIT", "UDP"}
Points ==
  {"top", "state", "dispatch", "auth", "authRecv", "recv", "recvTake", "forward", "send", "sendOut"}
Timer(flags, bound) == [flag : flags, time : 0 .. bound]

ConfigType == mode \in Modes /\ pw \in Protected /\ inactivity \in Inactivities
ChipType ==
  /\ sr \in Status /\ sending \in BOOLEAN /\ phy \in BOOLEAN
  /\ rsr \in Seq(Bytes) /\ Len(rsr) <= RecvCap
TimersType ==
  /\ auth \in Timer({0, 1}, AuthSeconds) /\ reconn \in Timer({0, 1}, Reconnection - 1)
  /\ inactive \in Timer({0, 1, 2}, inactivity) /\ keepsend \in Timer({0, 1, 2}, KeepSeconds - 1)
  /\ moved \in BOOLEAN
LoopType ==
  /\ net_state \in {"disconnect", "connect", "udp"} /\ mixed_state \in {"server", "client"}
  /\ prev_len \in 0 .. RecvCap /\ sock_state \in Status /\ len \in 0 .. UINT16_MAX
  /\ pc \in Points
  /\ serial \in 0 .. SerialCap
HistoryType == session \in Sessions /\ since \in 0 .. Reconnection

(* Every variable keeps its type, the timers within their bounds.          *)
TypeOK == ConfigType /\ ChipType /\ TimersType /\ LoopType /\ HistoryType

(* With a connection password set, a connection that was accepted carries  *)
(* no payload in either direction before the password was right, whatever  *)
(* the timer, the peer and a failed attempt before it did.                 *)
AuthBeforeData ==
  session.opener = "peer" /\ pw /\ session.served => session.passed

(* mixed_state tells which side opened the connection, long after the pass *)
(* that called listen or connect.                                          *)
MixedRole ==
  mode = "mixed" /\ sr = "ESTABLISHED" => (mixed_state = "client" <=> session.opener = "self")

(* Unanswered connects are a reconnection interval apart, less one tick.   *)
PacedConnects ==
  [][sr # "SYNSENT" /\ sr' = "SYNSENT" => since >= Reconnection - 1]_vars

(* A peer that does not send the password, or sends a part of it, loses    *)
(* the connection.                                                         *)
AuthDeadline ==
  (sr = "ESTABLISHED" /\ session.opener = "peer" /\ pw)
    ~> (sr # "ESTABLISHED" \/ session.passed)

(* A connection that is up and carries nothing is closed in the end.       *)
IdleCloses == []<>(inactivity = 0 \/ sr # "ESTABLISHED" \/ moved)

(* A client whose connection is gone tries again.                          *)
ClientRetries == []<>(mode = "client" => sr \in {"SYNSENT", "ESTABLISHED"})

(* Serial data makes the mixed mode stop listening and connect.            *)
SerialConnects ==
  (mode = "mixed" /\ serial > 0) ~> sr \in {"SYNSENT", "ESTABLISHED"}

(* A connection does not outlive its Ethernet link.                        *)
LinkLossNoticed == []<>(phy \/ sr # "ESTABLISHED")

(* "recv error" (S2E.c:141) returns before anything is written to the      *)
(* serial side: what is forwarded was received.                            *)
ErrorForwardsNothing == pc = "forward" => len <= RecvCap

(* "Inactive Time Process" (timerHandler.c:123) closes a connection that   *)
(* has carried nothing for a time: one that the pass sees for the first    *)
(* time has not been found inactive, or the same pass would close it.      *)
InactivityIsOfThisConnection ==
  [][net_state # "connect" /\ net_state' = "connect" => inactive.flag # 2]_vars
=============================================================================
