--------------------------- MODULE S2eConn_proofs ---------------------------
(***************************************************************************)
(* Safety of the serial-to-Ethernet data mode for every configuration,     *)
(* password, buffer size and timeout.                                      *)
(***************************************************************************)
EXTENDS S2eConn, SequenceTheorems, TLAPS

LEMMA Constants ==
  /\ PwLen \in Nat /\ PwLen >= 1 /\ Reconnection \in Nat /\ Reconnection >= 1
  /\ AuthSeconds \in Nat /\ AuthSeconds >= 1 /\ KeepSeconds \in Nat /\ KeepSeconds >= 1
  /\ RecvCap \in Nat /\ PwLen <= RecvCap /\ SerialCap \in Nat
  /\ Modes \subseteq {"client", "server", "mixed", "udp"} /\ Protected \subseteq BOOLEAN
  /\ Inactivities \subseteq Nat
<1> DEFINE Numbers == {PwLen, Reconnection, AuthSeconds, KeepSeconds, RecvCap, SerialCap}
<1>1. \A n \in Numbers : n \in Nat /\ n >= 1
  BY S2eAssumption
<1>2. PwLen \in Numbers /\ Reconnection \in Numbers /\ AuthSeconds \in Numbers
      /\ KeepSeconds \in Numbers /\ RecvCap \in Numbers /\ SerialCap \in Numbers
  OBVIOUS
<1> HIDE DEF Numbers
<1> QED
  BY <1>1, <1>2, S2eAssumption

(* A length that was received and the code of an error are 16-bit numbers. *)
LEMMA Lengths ==
  /\ UINT16_MAX \in Nat /\ RecvCap <= UINT16_MAX
  /\ SOCKERR_SOCKSTATUS \in 0 .. UINT16_MAX
<1>1. RecvCap < 65529
  BY S2eAssumption
<1>2. RecvCap \in Nat
  BY Constants
<1>3. UINT16_MAX \in Nat /\ RecvCap <= UINT16_MAX
  BY <1>1, <1>2 DEF UINT16_MAX
<1>4. SOCKERR_SOCKSTATUS \in 0 .. UINT16_MAX
  BY <1>3 DEF SOCKERR_SOCKSTATUS
<1> QED
  BY <1>3, <1>4

-----------------------------------------------------------------------------
(* The inductive invariants *)

(* What the socket may have become since the pass read its status.         *)
Now(status) ==
  {s \in Status :
     \/ s = status
     \/ s = "CLOSED" /\ status \notin {"INIT", "UDP"}
     \/ s = "CLOSE_WAIT" /\ status \in {"LISTEN", "SYNSENT", "ESTABLISHED"}
     \/ s = "ESTABLISHED" /\ status \in {"LISTEN", "SYNSENT"}}

Early == pc \in {"top", "state", "dispatch"}
Fresh == pc \in {"state", "dispatch"}
Open == sr \in {"ESTABLISHED", "CLOSE_WAIT"}

(* StatusInv: a socket that is not connected yet is only ever handled by a *)
(* pass whose network state machine has taken the last connection's end.   *)
StatusInv ==
  /\ Fresh => sr \in Now(sock_state)
  /\ sr \in {"INIT", "LISTEN", "SYNSENT"} => Early /\ net_state = "disconnect"
  /\ Fresh /\ sock_state \in {"INIT", "LISTEN", "SYNSENT"} => net_state = "disconnect"
  /\ pc = "dispatch" /\ sock_state \notin {"ESTABLISHED", "UDP"} => net_state = "disconnect"
  /\ sr = "UDP" \/ (Fresh /\ sock_state = "UDP") => mode = "udp"
  /\ mode = "udp" => sr \in {"UDP", "CLOSED"}
  /\ pc \in {"auth", "authRecv"} => mode # "udp"

(* DataInv: the password is still there when it is taken, and a timer that *)
(* is turned off stays off.                                                *)
DataInv ==
  /\ pc = "authRecv" /\ Open => Len(rsr) >= PwLen
  /\ inactivity = 0 => inactive = Off

(* OpenerInv: who opened the connection is what the mode and mixed_state   *)
(* say, from listen or connect on.                                         *)
OpenerInv ==
  /\ session.opener # "none" => Open \/ sr = "FIN_WAIT"
  /\ sr = "ESTABLISHED" => session.opener # "none"
  /\ sr = "LISTEN" \/ session.opener = "peer" => mode \in {"server", "mixed"}
  /\ mode = "mixed" =>
       /\ sr = "LISTEN" \/ session.opener = "peer" => mixed_state = "server"
       /\ sr = "SYNSENT" \/ (sr = "ESTABLISHED" /\ session.opener = "self")
            => mixed_state = "client"

(* AuthInv: a peer that owes the password is one that no pass has seen     *)
(* connected yet, or one that auth_flag stands for.                        *)
Unseen ==
  net_state = "disconnect" /\ Early /\ (pc = "dispatch" => sock_state # "ESTABLISHED")
Asked == auth.flag = 1 /\ (Early \/ pc \in {"auth", "authRecv"})
Owes == session.opener = "peer" /\ pw /\ ~session.passed
AuthInv == Owes => ~session.served /\ (sr = "FIN_WAIT" \/ Unseen \/ Asked)

(* SeenInv: a pass sees a connection before it asks for the password, and  *)
(* auth_flag is not raised again while it stays up.                        *)
SeenInv ==
  /\ Fresh /\ mode = "udp" => sock_state \in {"UDP", "CLOSED"}
  /\ net_state = "udp" /\ mode # "udp" =>
       sr = "CLOSED" /\ pc \in {"top", "state"} /\ (pc = "state" => sock_state = "CLOSED")
  /\ pc = "dispatch" /\ sock_state = "ESTABLISHED" => net_state = "connect"
  /\ pc \in {"auth", "authRecv"} => net_state = "connect"
  /\ session.passed =>
       /\ auth.flag = 0 /\ pc \notin {"auth", "authRecv"}
       /\ sr = "ESTABLISHED" \/ (pc = "state" /\ sock_state = "ESTABLISHED")
            => net_state = "connect"

(* PaceInv: reconn_flag stands for the time since the last connect.        *)
PaceInv ==
  /\ reconn.flag = 0 => reconn.time <= 1 /\ since >= Reconnection - 1
  /\ reconn.flag = 1 => since >= reconn.time - 1
  /\ sr = "ESTABLISHED" \/ (Fresh /\ sock_state = "ESTABLISHED") => since = Reconnection

-----------------------------------------------------------------------------
(* Types *)

LEMMA OffTypes ==
  /\ Off \in Timer({0, 1}, AuthSeconds) /\ Off \in Timer({0, 1}, Reconnection - 1)
  /\ Off \in Timer({0, 1, 2}, KeepSeconds - 1)
  /\ \A n \in Inactivities : Off \in Timer({0, 1, 2}, n)
BY Constants DEF Off, Timer

LEMMA InitTypes == Init => TypeOK
<1> SUFFICES ASSUME Init PROVE TypeOK
  OBVIOUS
<1>1. ConfigType
  BY DEF Init, ConfigType
<1>2. ChipType
  <2>1. <<>> \in Seq(Bytes) /\ Len(<<>>) = 0
    OBVIOUS
  <2>2. Len(<<>>) <= RecvCap
    BY <2>1, Constants
  <2>3. sr \in Status /\ sending \in BOOLEAN /\ phy \in BOOLEAN /\ rsr = <<>>
    BY DEF Init, Status
  <2> QED
    BY <2>1, <2>2, <2>3 DEF ChipType
<1>3. TimersType
  BY OffTypes DEF Init, TimersType
<1>4. LoopType
  BY Constants, Lengths DEF Points, Init, LoopType, Status
<1>5. HistoryType
  BY Constants DEF Init, HistoryType, NoSession, Sessions
<1> QED
  BY <1>1, <1>2, <1>3, <1>4, <1>5 DEF TypeOK

(* The parts that a step leaves alone.                                     *)
LEMMA SameConfig == ConfigType /\ UNCHANGED config => ConfigType'
BY DEF ConfigType, config
LEMMA SameChip == ChipType /\ UNCHANGED chip => ChipType'
BY DEF ChipType, chip
LEMMA SameTimers == TimersType /\ UNCHANGED timers /\ UNCHANGED config => TimersType'
BY DEF TimersType, timers, config
LEMMA SameLoop ==
  ASSUME LoopType, UNCHANGED loop, UNCHANGED pc, UNCHANGED serial
  PROVE  LoopType'
<1>1. /\ net_state' = net_state /\ mixed_state' = mixed_state /\ prev_len' = prev_len
      /\ sock_state' = sock_state /\ len' = len
  BY DEF loop
<1> QED
  BY <1>1 DEF LoopType
LEMMA SameHistory == HistoryType /\ UNCHANGED <<session, since>> => HistoryType'
BY DEF HistoryType

LEMMA SessionTypes ==
  /\ NoSession \in Sessions
  /\ \A o \in {"peer", "self"} : [NoSession EXCEPT !.opener = o] \in Sessions
  /\ \A s \in Sessions : /\ [s EXCEPT !.served = TRUE] \in Sessions
                         /\ \A b \in BOOLEAN : [s EXCEPT !.passed = b] \in Sessions
BY DEF NoSession, Sessions

LEMMA EmptyBuffer == <<>> \in Seq(Bytes) /\ Len(<<>>) <= RecvCap
<1>1. <<>> \in Seq(Bytes) /\ Len(<<>>) = 0
  OBVIOUS
<1> QED
  BY <1>1, Constants

LEMMA NetworkTypes == TypeOK /\ Network => TypeOK'
<1> SUFFICES ASSUME TypeOK, Network PROVE TypeOK'
  OBVIOUS
<1>1. ConfigType' /\ TimersType' /\ LoopType'
  BY SameConfig, SameTimers, SameLoop DEF Network, TypeOK
<1>2. since' \in 0 .. Reconnection
  BY Constants DEF Network, TypeOK, HistoryType
<1>3. session' \in Sessions
  BY SessionTypes DEF Network, PeerConnects, ConnectAccepted, ConnectFails, PeerData, PeerCloses,
    ConnectionLost, ClosingDone, SendDone, LinkChange, Connected, Dropped, TypeOK, HistoryType
<1>4. rsr' \in Seq(Bytes) /\ Len(rsr') <= RecvCap
  <2>1. rsr \in Seq(Bytes) /\ Len(rsr) <= RecvCap
    BY DEF TypeOK, ChipType
  <2>2. CASE PeerData
    <3>1. PICK b \in Bytes : rsr' = Append(rsr, b)
      BY <2>2 DEF PeerData
    <3>2. Len(rsr) < RecvCap
      BY <2>2 DEF PeerData
    <3> QED
      <4>1. Append(rsr, b) \in Seq(Bytes) /\ Len(Append(rsr, b)) = Len(rsr) + 1
        BY <2>1, AppendProperties
      <4> QED
        BY <2>1, <3>1, <3>2, <4>1, Constants
  <2>3. CASE rsr' = rsr \/ rsr' = <<>>
    BY <2>1, <2>3, EmptyBuffer
  <2> QED
    BY <2>2, <2>3 DEF Network, PeerConnects, ConnectAccepted, ConnectFails, PeerCloses,
      ConnectionLost, ClosingDone, SendDone, LinkChange, Connected, Dropped
<1>5. sr' \in Status /\ sending' \in BOOLEAN /\ phy' \in BOOLEAN
  BY DEF Network, PeerConnects, ConnectAccepted, ConnectFails, PeerData, PeerCloses, ConnectionLost,
    ClosingDone, SendDone, LinkChange, Connected, Dropped, TypeOK, ChipType, Status
<1> QED
  BY <1>1, <1>2, <1>3, <1>4, <1>5 DEF TypeOK, ChipType, HistoryType

LEMMA TimerTypes == TypeOK /\ DataInv /\ (Millisecond \/ Second) => TypeOK'
<1> SUFFICES ASSUME TypeOK, DataInv, Millisecond \/ Second PROVE TypeOK'
  OBVIOUS
<1> USE Constants
<1>1. reconn' \in Timer({0, 1}, Reconnection - 1)
  <2>1. reconn.flag \in {0, 1} /\ reconn.time \in 0 .. Reconnection - 1
    BY DEF TypeOK, TimersType, Timer
  <2>2. reconn' = Off \/ (reconn.time + reconn.flag < Reconnection
                            /\ reconn' = [reconn EXCEPT !.time = reconn.time + reconn.flag])
    BY <2>1 DEF Millisecond, Second, ReconnTick
  <2> QED
    BY <2>1, <2>2, OffTypes DEF TypeOK, TimersType, Timer
<1>2. HistoryType'
  BY DEF Millisecond, Second, AtMost, TypeOK, HistoryType
<1>3. ConfigType' /\ ChipType' /\ LoopType'
  BY SameConfig, SameChip, SameLoop DEF Millisecond, Second, TypeOK
<1>4. CASE Millisecond
  <2>1. UNCHANGED <<auth, inactive, keepsend, moved, inactivity>>
    BY <1>4 DEF Millisecond, config
  <2> QED
    BY <1>1, <1>2, <1>3, <2>1 DEF TypeOK, TimersType
<1>5. CASE Second
  <2>1. auth' \in Timer({0, 1}, AuthSeconds)
    <3>1. auth.flag \in {0, 1} /\ auth.time \in 0 .. AuthSeconds
      BY DEF TypeOK, TimersType, Timer
    <3>2. AtMost(auth.time + auth.flag, AuthSeconds) \in 0 .. AuthSeconds
      BY <3>1 DEF AtMost
    <3> QED
      BY <1>5, <3>1, <3>2 DEF Second, AuthSecond, TypeOK, TimersType, Timer
  <2>2. inactive' \in Timer({0, 1, 2}, inactivity) /\ moved' \in BOOLEAN
    <3>1. /\ inactivity \in Nat /\ inactive \in [flag : {0, 1, 2}, time : 0 .. inactivity]
          /\ inactive.flag \in {0, 1, 2} /\ inactive.time \in 0 .. inactivity
      BY DEF TypeOK, ConfigType, TimersType, Timer
    <3> DEFINE time == IF inactive.flag # 1 THEN inactive.time
                       ELSE IF moved THEN 0 ELSE inactive.time + 1
    <3>2. time \in Nat /\ (inactivity = 0 => time = inactive.time)
      BY <3>1 DEF DataInv, Off
    <3>3. inactive' = IF inactivity > 0 /\ inactivity <= time
                      THEN [flag |-> 2, time |-> 0] ELSE [inactive EXCEPT !.time = time]
      BY <1>5 DEF Second, InactiveSecond
    <3>4. moved' \in BOOLEAN
      BY <1>5 DEF Second, InactiveSecond
    <3> HIDE DEF time
    <3>5. CASE inactivity > 0 /\ inactivity <= time
      BY <3>1, <3>3, <3>4, <3>5 DEF Timer
    <3>6. CASE ~(inactivity > 0 /\ inactivity <= time)
      <4>1. time \in 0 .. inactivity
        BY <3>1, <3>2, <3>6
      <4> QED
        BY <3>1, <3>3, <3>4, <3>6, <4>1 DEF Timer
    <3> QED
      BY <3>5, <3>6
  <2>3. keepsend' \in Timer({0, 1, 2}, KeepSeconds - 1)
    <3>1. keepsend.flag \in {0, 1, 2} /\ keepsend.time \in 0 .. KeepSeconds - 1
      BY DEF TypeOK, TimersType, Timer
    <3> QED
      BY <1>5, <3>1 DEF Second, KeepsendSecond, TypeOK, TimersType, Timer
  <2>4. inactivity' = inactivity
    BY <1>5 DEF Second, config
  <2> QED
    BY <1>1, <1>2, <1>3, <2>1, <2>2, <2>3, <2>4 DEF TypeOK, TimersType
<1> QED
  BY <1>4, <1>5

(* The handlers of a status leave the configuration, the link and most of  *)
(* the pass's own state alone.                                             *)
LEMMA DispatchSame ==
  ASSUME NEW status, NEW b, Dispatch(status, b)
  PROVE  /\ pc = "dispatch" /\ pc' = b /\ sock_state = status
         /\ UNCHANGED <<mode, pw, inactivity, phy, auth, moved, net_state, prev_len, sock_state,
                        len, serial>>
BY DEF Dispatch, Goto, config

LEMMA AtSame ==
  ASSUME NEW a, NEW b, At(a, b)
  PROVE  /\ pc = a /\ pc' = b
         /\ UNCHANGED <<mode, pw, inactivity, phy, reconn, inactive, keepsend, net_state,
                        mixed_state, sock_state, since>>
BY DEF At, Goto, config

LEMMA CycledType ==
  ASSUME NEW bound, NEW timer \in Timer({0, 1, 2}, bound)
  PROVE  Cycled(timer) \in Timer({0, 1, 2}, bound)
BY DEF Cycled, Timer

LEMMA AuthDoneType == AuthDone => auth' \in Timer({0, 1}, AuthSeconds)
BY Constants DEF AuthDone, Timer

(* The steps before and in the status handlers.                            *)
LEMMA StatusTypes ==
  TypeOK /\ (ReadStatus \/ NetworkState \/ SockClose \/ SockInit \/ SockListen \/ SockEstablished
               \/ SockCloseWait \/ SockUdp \/ SockOther) => TypeOK'
<1> SUFFICES ASSUME TypeOK, ReadStatus \/ NetworkState \/ SockClose \/ SockInit \/ SockListen
                      \/ SockEstablished \/ SockCloseWait \/ SockUdp \/ SockOther
             PROVE  TypeOK'
  OBVIOUS
<1>1. CASE ReadStatus
  <2>1. ConfigType' /\ TimersType'
    BY <1>1, SameConfig, SameTimers DEF ReadStatus, Goto, TypeOK
  <2>2. ChipType'
    BY <1>1, SameChip DEF ReadStatus, Goto, Socket, chip, TypeOK
  <2>3. LoopType'
    BY <1>1 DEF ReadStatus, Goto, Points, TypeOK, LoopType, ChipType
  <2>4. HistoryType'
    BY <1>1 DEF ReadStatus, Socket, TypeOK, HistoryType
  <2> QED
    BY <2>1, <2>2, <2>3, <2>4 DEF TypeOK
<1>2. CASE NetworkState
  <2>1. ConfigType' /\ ChipType'
    BY <1>2, SameConfig, SameChip DEF NetworkState, Goto, Socket, chip, TypeOK
  <2>2. TimersType'
    <3>1. auth' \in Timer({0, 1}, AuthSeconds)
      BY <1>2 DEF NetworkState, TypeOK, TimersType, Timer
    <3> QED
      BY <1>2, <3>1 DEF NetworkState, Goto, config, TypeOK, TimersType
  <2>3. LoopType'
    <3>1. serial' \in 0 .. SerialCap
      BY <1>2, Constants DEF NetworkState, TypeOK, LoopType
    <3>2. net_state' \in {"disconnect", "connect", "udp"} /\ mixed_state' \in {"server", "client"}
      BY <1>2 DEF NetworkState, TypeOK, LoopType
    <3> QED
      BY <1>2, <3>1, <3>2 DEF NetworkState, Goto, Points, TypeOK, LoopType
  <2>4. HistoryType'
    BY <1>2 DEF NetworkState, Socket, TypeOK, HistoryType
  <2> QED
    BY <2>1, <2>2, <2>3, <2>4 DEF TypeOK
<1>3. CASE SockEstablished
  <2>1. pc' \in Points /\ UNCHANGED <<mode, pw, inactivity, phy, auth, moved, net_state, prev_len,
                                      sock_state, len, serial, rsr, session, mixed_state, since>>
    BY <1>3, DispatchSame DEF SockEstablished, Points
  <2>2. reconn' \in Timer({0, 1}, Reconnection - 1)
    BY <1>3, Constants DEF SockEstablished, ResetReconn, AtMost, TypeOK, TimersType, Timer
  <2>3. inactive' \in Timer({0, 1, 2}, inactivity) /\ keepsend' \in Timer({0, 1, 2}, KeepSeconds - 1)
    BY <1>3, CycledType DEF SockEstablished, WatchInactivity, TypeOK, TimersType
  <2>4. sr' \in Status /\ sending' \in BOOLEAN
    BY <1>3 DEF SockEstablished, Disconnect, TypeOK, ChipType, Status
  <2>5. ConfigType' /\ HistoryType'
    BY <2>1 DEF ConfigType, HistoryType, TypeOK
  <2>6. ChipType'
    BY <2>1, <2>4 DEF ChipType, TypeOK
  <2>7. TimersType'
    BY <2>1, <2>2, <2>3 DEF TimersType, TypeOK
  <2>8. LoopType'
    BY <2>1 DEF LoopType, TypeOK
  <2> QED
    BY <2>5, <2>6, <2>7, <2>8 DEF TypeOK
<1>4. CASE SockClose \/ SockInit \/ SockListen \/ SockCloseWait \/ SockUdp \/ SockOther
  <2>1. /\ pc' \in Points
        /\ UNCHANGED <<mode, pw, inactivity, phy, auth, moved, net_state, prev_len, sock_state, len,
                       serial, inactive, keepsend>>
    BY <1>4, DispatchSame DEF SockClose, SockInit, SockListen, SockCloseWait, SockUdp, SockOther,
      Idle, Points
  <2>2. reconn' \in Timer({0, 1}, Reconnection - 1)
    BY <1>4, Constants DEF SockClose, SockInit, SockListen, SockCloseWait, SockUdp, SockOther, Idle,
      Connect, TypeOK, TimersType, Timer
  <2>3. since' \in 0 .. Reconnection
    BY <1>4, Constants DEF SockClose, SockInit, SockListen, SockCloseWait, SockUdp, SockOther,
      Connect, TypeOK, HistoryType
  <2>4. sr' \in Status /\ sending' \in BOOLEAN
    BY <1>4 DEF SockClose, SockInit, SockListen, SockCloseWait, SockUdp, SockOther, Connect, Listen,
      Closed, Socket, TypeOK, ChipType, Status
  <2>5. rsr' = rsr \/ rsr' = <<>>
    BY <1>4 DEF SockClose, SockInit, SockListen, SockCloseWait, SockUdp, SockOther, Closed, Socket
  <2>6. session' \in Sessions
    BY <1>4, SessionTypes DEF SockClose, SockInit, SockListen, SockCloseWait, SockUdp, SockOther,
      Closed, Socket, TypeOK, HistoryType
  <2>7. mixed_state' \in {"server", "client"}
    BY <1>4 DEF SockClose, SockInit, SockListen, SockCloseWait, SockUdp, SockOther, TypeOK, LoopType
  <2>8. ConfigType' /\ HistoryType'
    BY <2>1, <2>3, <2>6 DEF ConfigType, HistoryType, TypeOK
  <2>9. ChipType'
    BY <2>1, <2>4, <2>5, EmptyBuffer DEF ChipType, TypeOK
  <2>10. TimersType'
    BY <2>1, <2>2 DEF TimersType, TypeOK
  <2>11. LoopType'
    BY <2>1, <2>7 DEF LoopType, TypeOK
  <2> QED
    BY <2>8, <2>9, <2>10, <2>11 DEF TypeOK
<1> QED
  BY <1>1, <1>2, <1>3, <1>4

(* The steps of auth_process, ether_to_uart and uart_to_ether.             *)
LEMMA DataTypes ==
  TypeOK /\ (AuthLook \/ AuthRecv \/ RecvLook \/ RecvTake \/ Forward \/ SendLook \/ SendOut) => TypeOK'
<1> SUFFICES ASSUME TypeOK, AuthLook \/ AuthRecv \/ RecvLook \/ RecvTake \/ Forward \/ SendLook
                      \/ SendOut
             PROVE  TypeOK'
  OBVIOUS
<1>1. /\ UNCHANGED <<mode, pw, inactivity, phy, reconn, inactive, keepsend, net_state, mixed_state,
                     sock_state, since>>
      /\ pc' \in Points
  BY AtSame DEF AuthLook, AuthRecv, RecvLook, RecvTake, Forward, SendLook, SendOut, Points
<1>2. auth' \in Timer({0, 1}, AuthSeconds)
  <2>1. CASE AuthLook
    <3>1. CASE \E t \in 0 .. AuthSeconds : auth' = [auth EXCEPT !.time = t]
      BY <3>1 DEF TypeOK, TimersType, Timer
    <3>2. CASE AuthDone \/ auth' = auth
      BY <3>2, AuthDoneType DEF TypeOK, TimersType
    <3>3. auth.time \in 0 .. AuthSeconds /\ 0 \in 0 .. AuthSeconds
      BY Constants DEF TypeOK, TimersType, Timer
    <3> QED
      BY <2>1, <3>1, <3>2, <3>3 DEF AuthLook, Socket
  <2>2. CASE ~AuthLook
    BY <2>2, AuthDoneType DEF AuthRecv, RecvLook, RecvTake, Forward, SendLook, SendOut, TypeOK,
      TimersType
  <2> QED
    BY <2>1, <2>2
<1>3. rsr' \in Seq(Bytes) /\ Len(rsr') <= RecvCap
  <2>1. rsr \in Seq(Bytes) /\ Len(rsr) \in Nat /\ Len(rsr) <= RecvCap
    BY DEF TypeOK, ChipType
  <2>2. CASE rsr' = SubSeq(rsr, PwLen + 1, Len(rsr))
    <3>1. \A i \in PwLen + 1 .. Len(rsr) : rsr[i] \in Bytes
      BY <2>1, Constants
    <3>2. /\ SubSeq(rsr, PwLen + 1, Len(rsr)) \in Seq(Bytes)
          /\ Len(SubSeq(rsr, PwLen + 1, Len(rsr)))
               = IF PwLen + 1 <= Len(rsr) THEN Len(rsr) - (PwLen + 1) + 1 ELSE 0
      BY <2>1, <3>1, Constants, SubSeqProperties
    <3>3. RecvCap \in Nat /\ PwLen \in Nat
      BY Constants
    <3> QED
      BY <2>1, <2>2, <3>2, <3>3
  <2>3. CASE rsr' = rsr \/ rsr' = <<>>
    BY <2>1, <2>3, EmptyBuffer
  <2> QED
    BY <2>2, <2>3 DEF AuthLook, AuthRecv, RecvLook, RecvTake, Forward, SendLook, SendOut, Closed, Socket
<1>4. sr' \in Status /\ sending' \in BOOLEAN
  BY DEF AuthLook, AuthRecv, RecvLook, RecvTake, Forward, SendLook, SendOut, Disconnect, Closed,
    Socket, TypeOK, ChipType, Status
<1>5. session' \in Sessions
  BY SessionTypes DEF AuthLook, AuthRecv, RecvLook, RecvTake, Forward, SendLook, SendOut, Closed,
    Carried, Socket, TypeOK, HistoryType
<1>6. moved' \in BOOLEAN
  BY DEF AuthLook, AuthRecv, RecvLook, RecvTake, Forward, SendLook, SendOut, Payload, TypeOK, TimersType
<1>7. len' \in 0 .. UINT16_MAX
  <2>1. Len(rsr) \in 0 .. UINT16_MAX /\ 0 \in 0 .. UINT16_MAX
    BY Lengths, Constants DEF TypeOK, ChipType
  <2> QED
    BY <2>1, Lengths DEF AuthLook, AuthRecv, RecvLook, RecvTake, Forward, SendLook, SendOut, Payload,
      TypeOK, LoopType
<1>8. serial' \in 0 .. SerialCap /\ prev_len' \in 0 .. RecvCap
  <2>1. Len(rsr) \in 0 .. RecvCap /\ 0 \in 0 .. SerialCap
    BY Constants DEF TypeOK, ChipType
  <2> QED
    BY <2>1 DEF AuthLook, AuthRecv, RecvLook, RecvTake, Forward, SendLook, SendOut, Payload, TypeOK,
      LoopType
<1>9. ConfigType' /\ HistoryType'
  BY <1>1, <1>5 DEF ConfigType, HistoryType, TypeOK
<1>10. ChipType'
  BY <1>1, <1>3, <1>4 DEF ChipType, TypeOK
<1>11. TimersType'
  BY <1>1, <1>2, <1>6 DEF TimersType, TypeOK
<1>12. LoopType'
  BY <1>1, <1>7, <1>8 DEF LoopType, TypeOK
<1> QED
  BY <1>9, <1>10, <1>11, <1>12 DEF TypeOK

LEMMA TypesKept == TypeOK /\ DataInv /\ [Next]_vars => TypeOK'
<1> SUFFICES ASSUME TypeOK, DataInv, [Next]_vars PROVE TypeOK'
  OBVIOUS
<1>1. CASE SerialByte
  <2>1. ConfigType' /\ ChipType' /\ TimersType' /\ HistoryType'
    BY <1>1, SameConfig, SameChip, SameTimers, SameHistory DEF SerialByte, TypeOK
  <2>2. serial' \in 0 .. SerialCap
    BY <1>1, Constants DEF SerialByte, TypeOK, LoopType
  <2>3. LoopType'
    BY <1>1, <2>2 DEF SerialByte, loop, TypeOK, LoopType
  <2> QED
    BY <2>1, <2>3 DEF TypeOK
<1>2. CASE UNCHANGED vars
  <2>1. ConfigType' /\ ChipType' /\ TimersType' /\ LoopType' /\ HistoryType'
    BY <1>2, SameConfig, SameChip, SameTimers, SameLoop, SameHistory DEF vars, TypeOK
  <2> QED
    BY <2>1 DEF TypeOK
<1> QED
  BY <1>1, <1>2, NetworkTypes, TimerTypes, StatusTypes, DataTypes DEF Next, MainStep

-----------------------------------------------------------------------------
(* What the steps do to the socket and the pass *)

Same == UNCHANGED <<mode, pw, sr, rsr, sock_state, pc, net_state, mixed_state, session>>

(* The moves of a connection that has been given up or not yet made.       *)
LEMMA NetworkMoves ==
  ASSUME Network
  PROVE  /\ UNCHANGED <<mode, pw, inactivity, sock_state, pc, net_state, mixed_state, auth, reconn,
                        inactive>>
         /\ \/ UNCHANGED <<sr, session>> /\ (rsr' = rsr \/ \E b \in Bytes : rsr' = Append(rsr, b))
            \/ sr = "LISTEN" /\ sr' = "ESTABLISHED" /\ rsr' = rsr
                 /\ session' = [NoSession EXCEPT !.opener = "peer"]
            \/ sr = "SYNSENT" /\ sr' = "ESTABLISHED" /\ rsr' = rsr
                 /\ session' = [NoSession EXCEPT !.opener = "self"]
            \/ sr = "ESTABLISHED" /\ sr' = "CLOSE_WAIT" /\ UNCHANGED <<rsr, session>>
            \/ sr \in {"SYNSENT", "ESTABLISHED", "CLOSE_WAIT", "FIN_WAIT"} /\ sr' = "CLOSED"
                 /\ rsr' = <<>> /\ session' = NoSession
         /\ since' = IF sr' = "ESTABLISHED" /\ sr # sr' THEN Reconnection ELSE since
BY DEF Network, config, timers, loop, PeerConnects, ConnectAccepted, ConnectFails, PeerData, PeerCloses,
  ConnectionLost, ClosingDone, SendDone, LinkChange, Connected, Dropped

LEMMA QuietSteps ==
  ASSUME TypeOK, SerialByte \/ Millisecond \/ Second \/ UNCHANGED vars
  PROVE  Same /\ auth'.flag = auth.flag
BY DEF TypeOK, TimersType, Timer, SerialByte, Millisecond, Second, AuthSecond, vars, config, chip, loop, timers, Same

(* The steps after the status handlers only ever end the connection.       *)
Late == {"auth", "authRecv", "recv", "recvTake", "forward", "send", "sendOut"}
LEMMA DataMoves ==
  ASSUME TypeOK, AuthLook \/ AuthRecv \/ RecvLook \/ RecvTake \/ Forward \/ SendLook \/ SendOut
  PROVE  /\ pc \in Late /\ pc' \in Late \cup {"top"}
         /\ pc' = "authRecv" => pc = "auth"
         /\ pc' # "auth"
         /\ UNCHANGED <<mode, pw, inactivity, sock_state, net_state, mixed_state, reconn, inactive, since>>
         /\ \/ sr' = sr
            \/ sr \in {"ESTABLISHED", "CLOSE_WAIT"} /\ sr' = "FIN_WAIT"
            \/ sr' = "CLOSED" /\ session' = NoSession
         /\ session' = NoSession \/ session'.opener = session.opener
<1> USE DEF TypeOK, HistoryType, Sessions
<1> QED
  BY AtSame DEF AuthLook, AuthRecv, RecvLook, RecvTake, Forward, SendLook, SendOut, Disconnect,
    Closed, Carried, Socket, NoSession, Late

-----------------------------------------------------------------------------
(* The status a pass has read, and the socket's own *)

LEMMA StatusKept == TypeOK /\ StatusInv /\ [Next]_vars => StatusInv'
<1> SUFFICES ASSUME TypeOK, StatusInv, [Next]_vars PROVE StatusInv'
  OBVIOUS
<1>0. sr \in Status /\ sock_state \in Status /\ net_state \in {"disconnect", "connect", "udp"}
  BY DEF TypeOK, ChipType, LoopType
<1>1. CASE Network
  BY <1>0, <1>1, NetworkMoves DEF StatusInv, Now, Early, Fresh, Status
<1>2. CASE SerialByte \/ Millisecond \/ Second \/ UNCHANGED vars
  BY <1>2, QuietSteps DEF Same, StatusInv, Now, Early, Fresh
<1>3. CASE ReadStatus
  BY <1>0, <1>3 DEF ReadStatus, Goto, Socket, config, StatusInv, Now, Early, Fresh
<1>4. CASE NetworkState
  <2>1. pc = "state" /\ pc' = "dispatch" /\ UNCHANGED <<mode, sr, sock_state>>
    BY <1>4 DEF NetworkState, Goto, Socket, config
  <2>2. net_state = "disconnect" /\ sock_state \notin {"ESTABLISHED", "UDP"} => net_state' = "disconnect"
    BY <1>4 DEF NetworkState, CameUp, WentDown
  <2>3. sock_state \notin {"ESTABLISHED", "UDP"} => net_state' = "disconnect"
    BY <1>0, <1>4 DEF NetworkState, CameUp, WentDown
  <2>4. sr \in {"INIT", "LISTEN", "SYNSENT"} => sock_state \notin {"ESTABLISHED", "UDP"}
    BY <2>1 DEF StatusInv, Now, Fresh
  <2> QED
    BY <2>1, <2>3, <2>4 DEF StatusInv, Now, Early, Fresh
<1>5. CASE SockClose
  <2>1. /\ pc = "dispatch" /\ pc' = "top" /\ sock_state = "CLOSED" /\ UNCHANGED <<mode, net_state, sock_state>>
        /\ sr' = IF mode = "udp" THEN "UDP" ELSE "INIT"
    BY <1>5, DispatchSame DEF SockClose
  <2> QED
    BY <2>1 DEF StatusInv, Early, Fresh
<1>6. CASE SockInit
  <2>1. /\ pc = "dispatch" /\ pc' = "top" /\ sock_state = "INIT" /\ UNCHANGED <<mode, net_state, sock_state>>
        /\ sr' \in {"LISTEN", "CLOSED", "SYNSENT", sr}
    BY <1>6, DispatchSame DEF SockInit, Listen, Connect
  <2> QED
    BY <2>1 DEF StatusInv, Now, Early, Fresh
<1>7. CASE SockListen \/ SockCloseWait \/ SockUdp \/ SockOther
  <2>1. /\ pc = "dispatch" /\ pc' \in {"top", "recv"} /\ UNCHANGED <<mode, net_state, sock_state>>
        /\ sr' \in {"CLOSED", sr} /\ (pc' = "recv" => sock_state = "UDP")
    BY <1>7, DispatchSame DEF SockListen, SockCloseWait, SockUdp, SockOther, Closed, Socket
  <2> QED
    BY <2>1 DEF StatusInv, Now, Early, Fresh
<1>8. CASE SockEstablished
  <2>1. /\ pc = "dispatch" /\ sock_state = "ESTABLISHED" /\ UNCHANGED <<mode, net_state, sock_state>>
        /\ pc' \in {"auth", "recv"} /\ (pc' = "auth" => mode \in {"server", "mixed"})
        /\ (sr' = sr \/ (sr \in {"ESTABLISHED", "CLOSE_WAIT"} /\ sr' = "FIN_WAIT"))
    BY <1>8, DispatchSame DEF SockEstablished, Authenticates, Disconnect
  <2> QED
    BY <2>1 DEF StatusInv, Now, Early, Fresh
<1>9. CASE AuthLook \/ AuthRecv \/ RecvLook \/ RecvTake \/ Forward \/ SendLook \/ SendOut
  BY <1>9, DataMoves DEF StatusInv, Early, Fresh, Late
<1> QED
  BY <1>1, <1>2, <1>3, <1>4, <1>5, <1>6, <1>7, <1>8, <1>9 DEF Next, MainStep

LEMMA DataKept == TypeOK /\ StatusInv /\ DataInv /\ [Next]_vars => DataInv'
<1> SUFFICES ASSUME TypeOK, StatusInv, DataInv, [Next]_vars PROVE DataInv'
  OBVIOUS
<1> DEFINE Kept == pc = "authRecv" /\ Open => Len(rsr) >= PwLen
<1> DEFINE Stays == inactivity = 0 => inactive = Off
<1>0. Kept /\ Stays
  BY DEF DataInv
<1>1. CASE Network
  <2>1. Stays'
    BY <1>0, <1>1, NetworkMoves
  <2>2. Kept'
    <3>1. CASE \E b \in Bytes : rsr' = Append(rsr, b)
      <4>1. Len(rsr') = Len(rsr) + 1 /\ Len(rsr) \in Nat
        BY <3>1, AppendProperties DEF TypeOK, ChipType
      <4>2. pc' = pc /\ (Open' => Open)
        BY <1>1, <3>1, NetworkMoves DEF Open, StatusInv, Early
      <4> QED
        BY <1>0, <4>1, <4>2, Constants
    <3>2. CASE ~\E b \in Bytes : rsr' = Append(rsr, b)
      BY <1>0, <1>1, <3>2, NetworkMoves DEF Open, StatusInv, Early
    <3> QED
      BY <3>1, <3>2
  <2> QED
    BY <2>1, <2>2 DEF DataInv
<1>2. CASE SerialByte \/ Millisecond \/ UNCHANGED vars
  BY <1>0, <1>2 DEF SerialByte, Millisecond, vars, config, chip, timers, loop, DataInv, Open
<1>3. CASE Second
  <2>1. inactivity = 0 => inactive' = [inactive EXCEPT !.time = inactive.time]
    BY <1>0, <1>3 DEF Second, InactiveSecond, Off
  <2> QED
    BY <1>0, <1>3, <2>1 DEF Second, config, chip, DataInv, Open, Off
<1>4. CASE AuthLook
  <2>1. UNCHANGED <<inactivity, inactive>>
    BY <1>4, DataMoves
  <2>2. pc' = "authRecv" => Len(rsr) >= PwLen /\ rsr' = rsr
    BY <1>4 DEF AuthLook, At, Goto, Socket
  <2> QED
    BY <1>0, <2>1, <2>2 DEF DataInv
<1>5. CASE SockEstablished
  <2>1. pc' # "authRecv" /\ inactivity' = inactivity
    BY <1>5, DispatchSame DEF SockEstablished
  <2>2. inactivity = 0 => inactive' = inactive
    BY <1>0, <1>5, Constants DEF SockEstablished, WatchInactivity, Off
  <2> QED
    BY <1>0, <2>1, <2>2 DEF DataInv
<1>6. CASE MainStep /\ ~AuthLook /\ ~SockEstablished
  <2>1. pc' # "authRecv" /\ UNCHANGED <<inactivity, inactive>>
    BY <1>6 DEF MainStep, ReadStatus, NetworkState, SockClose, SockInit, SockListen, SockCloseWait,
      SockUdp, SockOther, AuthRecv, RecvLook, RecvTake, Forward, SendLook, SendOut, Dispatch, At,
      Goto, Idle, timers, config
  <2> QED
    BY <1>0, <2>1 DEF DataInv
<1> QED
  BY <1>1, <1>2, <1>3, <1>4, <1>5, <1>6 DEF Next

-----------------------------------------------------------------------------
(* Who opened the connection *)

LEMMA OpenerKept == TypeOK /\ StatusInv /\ OpenerInv /\ [Next]_vars => OpenerInv'
<1> SUFFICES ASSUME TypeOK, StatusInv, OpenerInv, [Next]_vars PROVE OpenerInv'
  OBVIOUS
<1>1. CASE Network
  BY <1>1, NetworkMoves DEF OpenerInv, Open, NoSession
<1>2. CASE SerialByte \/ Millisecond \/ Second \/ UNCHANGED vars
  BY <1>2, QuietSteps DEF Same, OpenerInv, Open
<1>3. CASE ReadStatus
  BY <1>3 DEF ReadStatus, Goto, Socket, config, OpenerInv, Open
<1>4. CASE NetworkState
  <2>1. UNCHANGED <<mode, sr, session>> /\ mixed_state' = IF WentDown THEN "server" ELSE mixed_state
    BY <1>4 DEF NetworkState, Goto, Socket, config
  <2>2. WentDown => sr # "SYNSENT" /\ sr # "ESTABLISHED"
    BY <1>4 DEF NetworkState, Goto, WentDown, StatusInv, Now, Fresh
  <2> QED
    BY <2>1, <2>2 DEF OpenerInv, Open
<1>5. CASE SockClose
  BY <1>5, DispatchSame DEF SockClose, OpenerInv, Open, StatusInv, Fresh, Now
<1>6. CASE SockInit
  <2>1. sr = "INIT" /\ UNCHANGED <<mode, session>> /\ session.opener = "none"
    BY <1>6, DispatchSame DEF SockInit, StatusInv, Fresh, Now, OpenerInv, Open, TypeOK, HistoryType,
      Sessions
  <2>2. CASE Serves /\ Listen
    BY <1>6, <2>1, <2>2 DEF SockInit, Serves, Listen, OpenerInv, Open
  <2>3. CASE ~Serves /\ sr' \in {"SYNSENT", sr}
    BY <1>6, <2>1, <2>3 DEF SockInit, Serves, OpenerInv, Open
  <2> QED
    BY <1>6, <2>2, <2>3 DEF SockInit, Connect
<1>7. CASE SockListen \/ SockCloseWait \/ SockUdp \/ SockOther
  BY <1>7, DispatchSame DEF SockListen, SockCloseWait, SockUdp, SockOther, Closed, Socket, NoSession,
    OpenerInv, Open
<1>8. CASE SockEstablished
  BY <1>8, DispatchSame DEF SockEstablished, Disconnect, OpenerInv, Open
<1>9. CASE AuthLook \/ AuthRecv \/ RecvLook \/ RecvTake \/ Forward \/ SendLook \/ SendOut
  <2>1. UNCHANGED <<mode, mixed_state>> /\ sr' \in {sr, "FIN_WAIT", "CLOSED"}
    BY <1>9, DataMoves
  <2>2. CASE session' = NoSession /\ sr' = "CLOSED"
    BY <2>1, <2>2 DEF OpenerInv, Open, NoSession
  <2>3. CASE session'.opener = session.opener /\ sr' = sr
    BY <2>1, <2>3 DEF OpenerInv, Open
  <2>4. CASE session'.opener = session.opener /\ Open /\ sr' = "FIN_WAIT"
    BY <2>1, <2>4 DEF OpenerInv, Open
  <2>5. CASE session' = NoSession /\ sr' # "CLOSED"
    BY <1>9, <2>5 DEF AuthLook, AuthRecv, RecvLook, RecvTake, Forward, SendLook, SendOut, Disconnect,
      Closed, Carried, Socket, At, Goto, config, NoSession, OpenerInv, Open, TypeOK, HistoryType,
      Sessions
  <2> QED
    BY <1>9, <2>2, <2>3, <2>4, <2>5, DataMoves DEF Open
<1> QED
  BY <1>1, <1>2, <1>3, <1>4, <1>5, <1>6, <1>7, <1>8, <1>9 DEF Next, MainStep

-----------------------------------------------------------------------------
(* The connection a pass has seen *)

LEMMA SeenKept == TypeOK /\ StatusInv /\ SeenInv /\ [Next]_vars => SeenInv'
<1> SUFFICES ASSUME TypeOK, StatusInv, SeenInv, [Next]_vars PROVE SeenInv'
  OBVIOUS
<1>0. /\ sr \in Status /\ sock_state \in Status /\ net_state \in {"disconnect", "connect", "udp"}
      /\ auth.flag \in {0, 1} /\ NoSession.passed = FALSE
      /\ \A o \in {"peer", "self"} : [NoSession EXCEPT !.opener = o].passed = FALSE
  BY DEF TypeOK, ChipType, LoopType, TimersType, Timer, NoSession
<1>1. CASE Network
  BY <1>0, <1>1, NetworkMoves DEF SeenInv, Fresh
<1>2. CASE SerialByte \/ Millisecond \/ Second \/ UNCHANGED vars
  BY <1>2, QuietSteps DEF Same, SeenInv, Fresh
<1>3. CASE ReadStatus
  <2>1. /\ pc' = "state" /\ sock_state' = sr /\ UNCHANGED <<mode, sr, session, auth, net_state>>
    BY <1>3 DEF ReadStatus, Goto, Socket, timers, config
  <2> QED
    BY <2>1 DEF SeenInv, Fresh, StatusInv
<1>4. CASE NetworkState
  <2>1. /\ pc = "state" /\ pc' = "dispatch" /\ UNCHANGED <<mode, pw, sr, session, sock_state>>
        /\ auth' = IF NeedsAuth THEN [auth EXCEPT !.flag = 1] ELSE auth
    BY <1>4 DEF NetworkState, Goto, Socket, config
  <2>2. sock_state = "ESTABLISHED" => net_state' = "connect"
    <3>1. sock_state = "ESTABLISHED" => net_state \in {"disconnect", "connect"}
      BY <1>0, <2>1 DEF SeenInv, Fresh
    <3> QED
      BY <1>4, <3>1 DEF NetworkState, CameUp, WentDown
  <2>3. ~(net_state' = "udp" /\ mode # "udp")
    BY <1>4, <2>1 DEF NetworkState, CameUp, WentDown, SeenInv, StatusInv, Fresh
  <2>4. session.passed => auth' = auth
    BY <2>1 DEF NeedsAuth, CameUp, SeenInv
  <2>5. session.passed /\ sr = "ESTABLISHED" => sock_state = "ESTABLISHED"
    BY <1>0, <2>1 DEF SeenInv, StatusInv, Now, Fresh
  <2> QED
    BY <2>1, <2>2, <2>3, <2>4, <2>5 DEF SeenInv, Fresh
<1>5. CASE SockClose \/ SockInit \/ SockListen \/ SockCloseWait \/ SockUdp \/ SockOther
  <2>1. /\ pc = "dispatch" /\ pc' \in {"top", "recv"}
        /\ UNCHANGED <<mode, auth, net_state, sock_state>>
        /\ sr' # "ESTABLISHED" \/ sr' = sr
        /\ session' \in {NoSession, session}
    BY <1>5, DispatchSame DEF SockClose, SockInit, SockListen, SockCloseWait, SockUdp, SockOther, Closed,
      Socket, Listen, Connect
  <2> QED
    BY <1>0, <2>1 DEF SeenInv, Fresh
<1>6. CASE SockEstablished
  <2>1. /\ pc = "dispatch" /\ sock_state = "ESTABLISHED"
        /\ pc' \in {"auth", "recv"} /\ (pc' = "auth" => auth.flag = 1)
        /\ UNCHANGED <<mode, auth, net_state, sock_state, session>> /\ sr' \in {sr, "FIN_WAIT"}
    BY <1>6, DispatchSame DEF SockEstablished, Authenticates, Disconnect
  <2> QED
    BY <2>1 DEF SeenInv, Fresh
<1>7. CASE AuthLook
  <2>1. pc = "auth" /\ pc' \in {"top", "authRecv"} /\ UNCHANGED <<mode, net_state, session>>
    BY <1>7 DEF AuthLook, At, Goto, config, Socket
  <2> QED
    BY <2>1 DEF SeenInv, Fresh
<1>8. CASE AuthRecv
  <2>1. pc = "authRecv" /\ pc' = "top" /\ UNCHANGED <<mode, net_state>> /\ auth'.flag = 0
    BY <1>8 DEF AuthRecv, At, Goto, config, AuthDone
  <2> QED
    BY <2>1 DEF SeenInv, Fresh
<1>9. CASE RecvLook \/ RecvTake \/ Forward \/ SendLook \/ SendOut
  <2>1. /\ pc \in {"recv", "recvTake", "forward", "send", "sendOut"}
        /\ pc' \in {"top", "recvTake", "forward", "send", "sendOut"}
        /\ UNCHANGED <<mode, auth, net_state>>
        /\ sr' \in {sr, "CLOSED"} /\ session' \in {session, Carried, NoSession}
    BY <1>9, AtSame DEF RecvLook, RecvTake, Forward, SendLook, SendOut, Closed, Socket
  <2>2. Carried.passed = session.passed
    BY DEF Carried, TypeOK, HistoryType, Sessions
  <2>3. session'.passed => session.passed
    BY <1>0, <2>1, <2>2
  <2> QED
    BY <2>1, <2>3 DEF SeenInv, Fresh
<1> QED
  BY <1>1, <1>2, <1>3, <1>4, <1>5, <1>6, <1>7, <1>8, <1>9 DEF Next, MainStep

-----------------------------------------------------------------------------
(* The password *)

LEMMA AuthKept == TypeOK /\ StatusInv /\ OpenerInv /\ SeenInv /\ AuthInv /\ [Next]_vars => AuthInv'
<1> SUFFICES ASSUME TypeOK, StatusInv, OpenerInv, SeenInv, AuthInv, [Next]_vars, Owes'
             PROVE  ~session'.served /\ (sr' = "FIN_WAIT" \/ Unseen' \/ Asked')
  BY DEF AuthInv
<1>0. Owes => /\ sr \in {"ESTABLISHED", "CLOSE_WAIT", "FIN_WAIT"} /\ mode \in {"server", "mixed"}
              /\ (mode = "mixed" => mixed_state = "server")
              /\ ~session.served /\ (sr = "FIN_WAIT" \/ Unseen \/ Asked)
  BY DEF Owes, OpenerInv, Open, AuthInv
<1>1. CASE Network
  <2>1. CASE UNCHANGED session
    <3>1. Owes /\ (sr = "FIN_WAIT" => sr' = "FIN_WAIT" \/ session' = NoSession)
      BY <1>1, <2>1, NetworkMoves DEF Owes
    <3>2. session' # NoSession
      BY DEF Owes, NoSession
    <3> QED
      BY <1>0, <1>1, <2>1, <3>1, <3>2, NetworkMoves DEF Unseen, Asked, Early
  <2>2. CASE sr = "LISTEN" /\ sr' = "ESTABLISHED" /\ session' = [NoSession EXCEPT !.opener = "peer"]
    <3>1. Unseen
      BY <2>2 DEF StatusInv, Unseen, Early, Fresh, Now
    <3> QED
      BY <1>1, <2>2, <3>1, NetworkMoves DEF NoSession, Unseen, Early
  <2> QED
    BY <1>1, <2>1, <2>2, NetworkMoves DEF Owes, NoSession
<1>2. CASE SerialByte \/ Millisecond \/ Second \/ UNCHANGED vars
  BY <1>0, <1>2, QuietSteps DEF Same, Owes, Unseen, Asked, Early
<1>3. CASE ReadStatus
  BY <1>0, <1>3 DEF ReadStatus, Goto, Socket, timers, config, Owes, Unseen, Asked, Early
<1>4. CASE NetworkState
  <2>1. /\ pc = "state" /\ pc' = "dispatch" /\ UNCHANGED <<mode, pw, sr, session, sock_state>>
        /\ auth' = IF NeedsAuth THEN [auth EXCEPT !.flag = 1] ELSE auth
    BY <1>4 DEF NetworkState, Goto, Socket, config
  <2>2. Owes
    BY <2>1 DEF Owes
  <2>3. CASE Asked
    BY <1>0, <2>1, <2>2, <2>3 DEF Asked, Early, TypeOK, TimersType, Timer
  <2>4. CASE Unseen /\ sock_state = "ESTABLISHED"
    <3>1. NeedsAuth
      BY <1>0, <2>2, <2>4 DEF NeedsAuth, CameUp, Unseen, Owes
    <3> QED
      BY <1>0, <2>1, <2>2, <3>1 DEF Asked, Early, TypeOK, TimersType, Timer
  <2>5. CASE Unseen /\ sock_state # "ESTABLISHED"
    <3>1. sock_state # "UDP"
      BY <1>0, <2>1, <2>2 DEF StatusInv, Fresh, Now
    <3>2. net_state' = "disconnect"
      BY <1>4, <2>5, <3>1 DEF NetworkState, Unseen, CameUp, WentDown
    <3> QED
      BY <1>0, <2>1, <2>2, <2>5, <3>2 DEF Unseen, Early
  <2> QED
    BY <1>0, <2>1, <2>2, <2>3, <2>4, <2>5
<1>5. CASE SockClose \/ SockInit \/ SockUdp
  <2>1. session' = session /\ sr \in {"CLOSED", "INIT", "UDP"}
    BY <1>5, DispatchSame DEF SockClose, SockInit, SockUdp, Socket, StatusInv, Fresh, Now
  <2>2. pw' = pw
    BY <1>5, DispatchSame DEF SockClose, SockInit, SockUdp
  <2> QED
    BY <1>0, <2>1, <2>2 DEF Owes
<1>6. CASE SockListen \/ SockCloseWait \/ SockOther
  <2>1. session' # NoSession
    BY DEF Owes, NoSession
  <2>2. /\ pc = "dispatch" /\ pc' = "top" /\ UNCHANGED <<pw, auth, net_state, sr, session>>
    BY <1>6, <2>1, DispatchSame DEF SockListen, SockCloseWait, SockOther, Closed, Socket
  <2> QED
    BY <1>0, <2>2 DEF Owes, Unseen, Asked, Early
<1>7. CASE SockEstablished
  <2>1. /\ pc = "dispatch" /\ sock_state = "ESTABLISHED" /\ UNCHANGED <<pw, auth, session>>
        /\ pc' = IF Authenticates THEN "auth" ELSE "recv"
        /\ (sr = "FIN_WAIT" => sr' = "FIN_WAIT")
    BY <1>7, DispatchSame DEF SockEstablished, Disconnect
  <2>2. Owes /\ ~Unseen
    BY <2>1 DEF Owes, Unseen
  <2> QED
    BY <1>0, <2>1, <2>2 DEF Asked, Authenticates
<1>8. CASE AuthLook
  <2>1. /\ pc = "auth" /\ pc' \in {"top", "authRecv"} /\ UNCHANGED <<pw, session>>
        /\ \/ sr = "ESTABLISHED" /\ sr' = "FIN_WAIT"
           \/ sr' = sr /\ auth'.flag = auth.flag
    BY <1>8 DEF AuthLook, At, Goto, config, Disconnect, Socket, TypeOK, TimersType, Timer
  <2> QED
    BY <1>0, <2>1 DEF Owes, Unseen, Asked, Early
<1>9. CASE AuthRecv
  <2>1. pc = "authRecv" /\ pw' = pw
    BY <1>9 DEF AuthRecv, At, Goto, config
  <2>2. session' # NoSession
    BY DEF Owes, NoSession
  <2>3. PICK b \in BOOLEAN : /\ Readable /\ session' = [session EXCEPT !.passed = b]
                             /\ b \/ Disconnect
    BY <1>9, <2>2 DEF AuthRecv, Closed
  <2>4. /\ session.opener = "peer" /\ session'.served = session.served /\ b = FALSE
    BY <2>3 DEF Owes, TypeOK, HistoryType, Sessions
  <2>5. Owes
    BY <2>1, <2>4 DEF Owes, SeenInv
  <2>6. sr \in {"ESTABLISHED", "CLOSE_WAIT"}
    BY <1>0, <2>3, <2>5 DEF Readable
  <2> QED
    BY <1>0, <2>3, <2>4, <2>5, <2>6 DEF Disconnect
<1>10. CASE RecvLook \/ RecvTake \/ Forward \/ SendLook \/ SendOut
  <2>1. pc \in {"recv", "recvTake", "forward", "send", "sendOut"} /\ pw' = pw
    BY <1>10, AtSame DEF RecvLook, RecvTake, Forward, SendLook, SendOut
  <2>2. session' # NoSession /\ session'.opener = "peer" /\ ~session'.passed
    BY DEF Owes, NoSession
  <2>3. Owes
    BY <1>10, <2>1, <2>2 DEF RecvLook, RecvTake, Forward, SendLook, SendOut, Closed, Carried, Socket, Owes,
      TypeOK, HistoryType, Sessions
  <2>4. sr = "FIN_WAIT"
    BY <1>0, <2>1, <2>3 DEF Unseen, Asked, Early
  <2> QED
    BY <1>0, <1>10, <2>2, <2>3, <2>4 DEF RecvLook, RecvTake, Forward, SendLook, SendOut, Closed,
      Readable, Socket
<1> QED
  BY <1>1, <1>2, <1>3, <1>4, <1>5, <1>6, <1>7, <1>8, <1>9, <1>10 DEF Next, MainStep

-----------------------------------------------------------------------------
(* The pace of connects *)

LEMMA PaceKept == TypeOK /\ StatusInv /\ PaceInv /\ [Next]_vars => PaceInv'
<1> SUFFICES ASSUME TypeOK, StatusInv, PaceInv, [Next]_vars PROVE PaceInv'
  OBVIOUS
<1>0. /\ Reconnection \in Nat /\ Reconnection >= 1 /\ since \in 0 .. Reconnection
      /\ reconn \in [flag : {0, 1}, time : 0 .. Reconnection - 1]
      /\ reconn.flag \in {0, 1} /\ reconn.time \in 0 .. Reconnection - 1
  BY Constants DEF TypeOK, HistoryType, TimersType, Timer
<1>1. CASE Network
  BY <1>0, <1>1, NetworkMoves DEF PaceInv, Fresh
<1>2. CASE Millisecond \/ Second
  <2>1. Same
    BY <1>2, QuietSteps
  <2>2. since' = AtMost(since + 1, Reconnection) /\ ReconnTick
    BY <1>2 DEF Millisecond, Second
  <2>3. since' \in 0 .. Reconnection /\ since' >= since
        /\ (since' = Reconnection \/ since' = since + 1)
    BY <1>0, <2>2 DEF AtMost
  <2>4. CASE reconn.time + reconn.flag >= Reconnection
    <3>1. reconn' = Off
      BY <1>0, <2>2, <2>4 DEF ReconnTick
    <3>2. since' >= Reconnection - 1
      BY <1>0, <2>3, <2>4 DEF PaceInv
    <3> QED
      BY <1>0, <2>1, <2>3, <3>1, <3>2 DEF PaceInv, Off, Same, Fresh
  <2>5. CASE reconn.time + reconn.flag < Reconnection
    <3>1. reconn'.flag = reconn.flag /\ reconn'.time = reconn.time + reconn.flag
      BY <1>0, <2>2, <2>5 DEF ReconnTick
    <3> QED
      BY <1>0, <2>1, <2>3, <3>1 DEF PaceInv, Same, Fresh
  <2> QED
    BY <1>0, <2>4, <2>5
<1>3. CASE SerialByte \/ UNCHANGED vars
  BY <1>3 DEF SerialByte, vars, config, chip, timers, loop, PaceInv, Fresh
<1>4. CASE ReadStatus
  BY <1>4 DEF ReadStatus, Goto, Socket, timers, PaceInv, Fresh
<1>5. CASE NetworkState
  BY <1>5 DEF NetworkState, Goto, Socket, PaceInv, Fresh
<1>6. CASE SockInit
  <2>1. /\ pc = "dispatch" /\ pc' = "top" /\ sock_state = "INIT"
        /\ \/ sr' \in {"LISTEN", "CLOSED", sr} /\ UNCHANGED <<reconn, since>>
           \/ /\ reconn.flag = 0 /\ sr' = "SYNSENT" /\ reconn' = [reconn EXCEPT !.flag = 1]
              /\ since' = 0
    BY <1>6, DispatchSame DEF SockInit, Listen, Connect
  <2>2. sr' # "ESTABLISHED"
    BY <2>1 DEF StatusInv, Now, Fresh
  <2>3. CASE UNCHANGED <<reconn, since>>
    BY <2>1, <2>2, <2>3 DEF PaceInv, Fresh
  <2>4. CASE reconn.flag = 0 /\ reconn' = [reconn EXCEPT !.flag = 1] /\ since' = 0
    <3>1. reconn'.flag = 1 /\ reconn'.time = reconn.time
      BY <1>0, <2>4
    <3> QED
      BY <1>0, <2>1, <2>2, <2>4, <3>1 DEF PaceInv, Fresh
  <2> QED
    BY <2>1, <2>3, <2>4
<1>7. CASE SockClose \/ SockListen \/ SockCloseWait \/ SockUdp \/ SockOther
  <2>1. /\ pc' \in {"top", "recv"} /\ UNCHANGED <<reconn, since>>
        /\ sr' # "ESTABLISHED" \/ sr' = sr
    BY <1>7, DispatchSame DEF SockClose, SockListen, SockCloseWait, SockUdp, SockOther, Closed, Socket, Idle
  <2> QED
    BY <2>1 DEF PaceInv, Fresh
<1>8. CASE SockEstablished
  <2>1. /\ pc = "dispatch" /\ sock_state = "ESTABLISHED" /\ pc' \in {"auth", "recv"}
        /\ ResetReconn /\ since' = since
    BY <1>8, DispatchSame DEF SockEstablished
  <2>2. since = Reconnection
    BY <2>1 DEF PaceInv, Fresh
  <2>3. CASE reconn' = reconn
    BY <2>1, <2>2, <2>3 DEF PaceInv, Fresh
  <2>4. CASE \E t \in {0, 1} : reconn' = [flag |-> 0, time |-> AtMost(t, Reconnection - 1)]
    <3>1. reconn'.flag = 0 /\ reconn'.time <= 1
      BY <1>0, <2>4 DEF AtMost
    <3> QED
      BY <1>0, <2>1, <2>2, <3>1 DEF PaceInv, Fresh
  <2> QED
    BY <2>1, <2>3, <2>4 DEF ResetReconn
<1>9. CASE AuthLook \/ AuthRecv \/ RecvLook \/ RecvTake \/ Forward \/ SendLook \/ SendOut
  <2>1. /\ UNCHANGED <<reconn, since>> /\ pc' \notin {"state", "dispatch"}
        /\ sr' # "ESTABLISHED" \/ sr' = sr
    BY <1>9, DataMoves DEF Late
  <2> QED
    BY <2>1 DEF PaceInv, Fresh
<1> QED
  BY <1>1, <1>2, <1>3, <1>4, <1>5, <1>6, <1>7, <1>8, <1>9 DEF Next, MainStep

-----------------------------------------------------------------------------
(* The theorems *)

ConnInv == TypeOK /\ StatusInv /\ DataInv /\ OpenerInv /\ SeenInv /\ AuthInv /\ PaceInv

LEMMA InitInv == Init => ConnInv
<1> SUFFICES ASSUME Init PROVE ConnInv
  OBVIOUS
<1>1. TypeOK
  BY InitTypes
<1>2. StatusInv
  BY DEF Init, StatusInv, Early, Fresh
<1>3. DataInv
  BY DEF Init, DataInv
<1>4. OpenerInv
  BY DEF Init, OpenerInv, NoSession
<1>5. SeenInv
  BY DEF Init, SeenInv, Fresh, NoSession
<1>6. AuthInv
  BY DEF Init, AuthInv, Owes, NoSession
<1>7. PaceInv
  BY Constants DEF Init, PaceInv, Off, Fresh
<1> QED
  BY <1>1, <1>2, <1>3, <1>4, <1>5, <1>6, <1>7 DEF ConnInv

LEMMA InvKept == ConnInv /\ [Next]_vars => ConnInv'
BY TypesKept, StatusKept, DataKept, OpenerKept, SeenKept, AuthKept, PaceKept DEF ConnInv

(* Every variable of s2e_run, of the timer interrupt and of the socket     *)
(* keeps its type, and the timers stay below their limits.                 *)
THEOREM TypeCorrect == Spec => []TypeOK
<1>1. ConnInv => TypeOK
  BY DEF ConnInv
<1> QED
  BY InitInv, InvKept, <1>1, PTL DEF Spec

(* auth_process guards the data path: whatever the network, the timer and  *)
(* the serial side do, no payload passes over an accepted connection       *)
(* before its password was right.                                          *)
THEOREM Authenticated == Spec => []AuthBeforeData
<1>1. ConnInv => AuthBeforeData
  BY DEF ConnInv, AuthInv, Owes, AuthBeforeData
<1> QED
  BY InitInv, InvKept, <1>1, PTL DEF Spec

(* mixed_state, which decides whether a connection has to authenticate,    *)
(* tells who opened it.                                                    *)
THEOREM RolesAgree == Spec => []MixedRole
<1>1. ConnInv => MixedRole
  <2> SUFFICES ASSUME ConnInv, mode = "mixed", sr = "ESTABLISHED"
               PROVE  mixed_state = "client" <=> session.opener = "self"
    BY DEF MixedRole
  <2>1. session.opener \in {"peer", "self"}
    BY DEF ConnInv, OpenerInv, TypeOK, HistoryType, Sessions
  <2> QED
    BY <2>1 DEF ConnInv, OpenerInv
<1> QED
  BY InitInv, InvKept, <1>1, PTL DEF Spec

(* reconn_flag, which the timer interrupt takes back, keeps the connects   *)
(* of a client that nobody answers a reconnection interval apart.          *)
THEOREM Paced == Spec => PacedConnects
<1>1. ConnInv /\ [Next]_vars => [sr # "SYNSENT" /\ sr' = "SYNSENT" => since >= Reconnection - 1]_vars
  <2> SUFFICES ASSUME ConnInv, Next, sr # "SYNSENT", sr' = "SYNSENT"
               PROVE  since >= Reconnection - 1
    OBVIOUS
  <2>0. TypeOK /\ PaceInv
    BY DEF ConnInv
  <2>1. CASE Network
    BY <2>1, NetworkMoves
  <2>2. CASE SerialByte \/ Millisecond \/ Second
    BY <2>0, <2>2, QuietSteps DEF Same
  <2>3. CASE SockInit
    <3>1. reconn.flag = 0
      BY <2>3 DEF SockInit, Listen, Connect
    <3> QED
      BY <2>0, <3>1 DEF PaceInv
  <2>4. CASE AuthLook \/ AuthRecv \/ RecvLook \/ RecvTake \/ Forward \/ SendLook \/ SendOut
    BY <2>0, <2>4, DataMoves
  <2>5. CASE ReadStatus \/ NetworkState \/ SockClose \/ SockListen \/ SockEstablished
               \/ SockCloseWait \/ SockUdp \/ SockOther
    BY <2>5 DEF ReadStatus, NetworkState, SockClose, SockListen, SockEstablished, SockCloseWait,
      SockUdp, SockOther, Closed, Socket, Disconnect
  <2> QED
    BY <2>1, <2>2, <2>3, <2>4, <2>5 DEF Next, MainStep
<1> QED
  BY InitInv, InvKept, <1>1, PTL DEF Spec, PacedConnects
-----------------------------------------------------------------------------
(* A peer that does not send the password                                  *)

(* A connection whose password is owed.                                    *)
Doubted == sr = "ESTABLISHED" /\ Owes

(* How often what was received can still change, one that auth_process has *)
(* not seen yet counted besides; seconds left of the wait.                 *)
Changes == 2 * (RecvCap - Len(rsr)) + (IF Len(rsr) # prev_len THEN 1 ELSE 0)
Patience == AuthSeconds - auth.time
Closer == Changes' < Changes \/ (Changes' = Changes /\ Patience' < Patience)

LEMMA ChangesValue ==
  ASSUME TypeOK
  PROVE  /\ Len(rsr) \in 0 .. RecvCap /\ RecvCap \in Nat
         /\ auth.flag \in {0, 1} /\ auth.time \in 0 .. AuthSeconds /\ AuthSeconds \in Nat
         /\ Len(rsr) = prev_len => Changes = 2 * (RecvCap - Len(rsr))
         /\ Len(rsr) # prev_len => Changes = 2 * (RecvCap - Len(rsr)) + 1
<1>1. Len(rsr) \in 0 .. RecvCap /\ RecvCap \in Nat
  BY Constants, LenProperties DEF TypeOK, ChipType
<1>2. auth.flag \in {0, 1} /\ auth.time \in 0 .. AuthSeconds /\ AuthSeconds \in Nat
  BY Constants DEF TypeOK, TimersType, Timer
<1>3. Len(rsr) = prev_len => Changes = 2 * (RecvCap - Len(rsr)) + 0
  BY DEF Changes
<1>4. Len(rsr) # prev_len => Changes = 2 * (RecvCap - Len(rsr)) + 1
  BY DEF Changes
<1> QED
  BY <1>1, <1>2, <1>3, <1>4

LEMMA SamePatience ==
  ASSUME UNCHANGED <<rsr, prev_len>>, auth'.time = auth.time
  PROVE  UNCHANGED <<Changes, Patience>>
BY DEF Changes, Patience

(* The pass is not at the data path yet.                                   *)
LEMMA DoubtedPoint ==
  ASSUME ConnInv, Doubted
  PROVE  (Unseen \/ auth.flag = 1) /\ pc \in {"top", "state", "dispatch", "auth", "authRecv"}
BY DEF ConnInv, AuthInv, Doubted, Unseen, Asked, Early

(* More bytes.                                                             *)
LEMMA NetworkCloser ==
  ASSUME ConnInv, ConnInv', Network, Doubted, Doubted'
  PROVE  Closer \/ UNCHANGED <<Changes, Patience>>
<1>1. UNCHANGED <<auth, prev_len>>
  BY DEF Network, timers, loop
<1>2. rsr' = rsr \/ \E b \in Bytes : rsr' = Append(rsr, b)
  BY NetworkMoves DEF Doubted
<1>3. CASE rsr' = rsr
  BY <1>1, <1>3, SamePatience
<1>4. CASE \E b \in Bytes : rsr' = Append(rsr, b)
  <2>1. Len(rsr') = Len(rsr) + 1
    BY <1>4, AppendProperties DEF ConnInv, TypeOK, ChipType
  <2>2. Changes \in {2 * (RecvCap - Len(rsr)), 2 * (RecvCap - Len(rsr)) + 1}
        /\ Len(rsr) \in Nat /\ RecvCap \in Nat
    BY ChangesValue DEF ConnInv
  <2>3. Changes' \in {2 * (RecvCap - Len(rsr')), 2 * (RecvCap - Len(rsr')) + 1}
    <3>1. Len(rsr') = prev_len' => Changes' = 2 * (RecvCap - Len(rsr')) + 0
      BY DEF Changes
    <3>2. Len(rsr') # prev_len' => Changes' = 2 * (RecvCap - Len(rsr')) + 1
      BY DEF Changes
    <3> QED
      BY <2>1, <2>2, <3>1, <3>2
  <2>4. Changes' < Changes
    BY <2>1, <2>2, <2>3
  <2> QED
    BY <2>4 DEF Closer
<1> QED
  BY <1>2, <1>3, <1>4

LEMMA SecondCloser ==
  ASSUME ConnInv, Second
  PROVE  /\ Closer \/ UNCHANGED <<Changes, Patience>>
         /\ auth.flag = 1 /\ auth.time < AuthSeconds => Closer
<1>1. UNCHANGED <<rsr, prev_len>> /\ auth' = [auth EXCEPT !.time = AtMost(auth.time + auth.flag, AuthSeconds)]
  BY DEF Second, AuthSecond, chip, loop
<1>2. auth.flag \in {0, 1} /\ auth.time \in 0 .. AuthSeconds /\ AuthSeconds \in Nat
  BY ChangesValue DEF ConnInv
<1>3. Changes' = Changes
  BY <1>1 DEF Changes
<1>4. auth'.time = AtMost(auth.time + auth.flag, AuthSeconds)
  BY <1>1 DEF ConnInv, TypeOK, TimersType, Timer
<1>5. CASE auth.flag = 1 /\ auth.time < AuthSeconds
  <2>1. auth'.time = auth.time + 1
    BY <1>2, <1>4, <1>5 DEF AtMost
  <2>2. Patience' < Patience
    BY <1>2, <2>1 DEF Patience
  <2> QED
    BY <1>3, <2>2 DEF Closer
<1>6. CASE ~(auth.flag = 1 /\ auth.time < AuthSeconds)
  <2>1. auth'.time = auth.time
    BY <1>2, <1>4, <1>6 DEF AtMost
  <2> QED
    BY <1>1, <1>6, <2>1, SamePatience
<1> QED
  BY <1>5, <1>6

(* A change of the length is taken note of; without one the wait goes on   *)
(* until it is over.                                                       *)
LEMMA LookCloser ==
  ASSUME ConnInv, ConnInv', AuthLook, Doubted, Doubted'
  PROVE  Closer \/ (auth.time < AuthSeconds /\ UNCHANGED <<Changes, Patience>>)
<1>1. sr = "ESTABLISHED" /\ sr' = "ESTABLISHED"
  BY DEF Doubted
<1>2. rsr' = rsr /\ prev_len' = Len(rsr)
  BY <1>1 DEF AuthLook, Socket
<1>3. CASE Len(rsr) # prev_len
  <2>1. Changes' = 2 * (RecvCap - Len(rsr'))
    <3>1. Changes' = 2 * (RecvCap - Len(rsr')) + 0
      BY <1>2 DEF Changes
    <3>2. Len(rsr') \in Nat /\ RecvCap \in Nat
      BY <1>2, ChangesValue DEF ConnInv
    <3> QED
      BY <3>1, <3>2
  <2>2. Changes = 2 * (RecvCap - Len(rsr)) + 1 /\ Len(rsr) \in Nat /\ RecvCap \in Nat
    BY <1>3, ChangesValue DEF ConnInv
  <2>3. Changes' < Changes
    BY <1>2, <2>1, <2>2
  <2> QED
    BY <2>3 DEF Closer
<1>4. CASE Len(rsr) = prev_len
  <2>1. ~Disconnect
    BY <1>1 DEF Disconnect
  <2>2. auth.time < AuthSeconds /\ auth' = [auth EXCEPT !.time = auth.time]
    BY <1>1, <1>4, <2>1 DEF AuthLook
  <2>3. auth'.time = auth.time
    BY <2>2 DEF ConnInv, TypeOK, TimersType, Timer
  <2> QED
    BY <1>2, <1>4, <2>2, <2>3, SamePatience
<1> QED
  BY <1>3, <1>4

LEMMA DoubtCloser ==
  ASSUME ConnInv, ConnInv', [Next]_vars, Doubted, Doubted'
  PROVE  /\ Closer \/ UNCHANGED <<Changes, Patience>>
         /\ Second /\ auth.flag = 1 /\ auth.time < AuthSeconds => Closer
         /\ AuthLook => Closer \/ auth.time < AuthSeconds
<1>1. Second /\ auth.flag = 1 /\ auth.time < AuthSeconds => Closer
  BY SecondCloser
<1>2. AuthLook => Closer \/ auth.time < AuthSeconds
  BY LookCloser
<1>3. CASE Network \/ Second \/ AuthLook
  BY <1>1, <1>2, <1>3, NetworkCloser, SecondCloser, LookCloser
<1>4. ASSUME UNCHANGED <<rsr, prev_len>>, auth'.time = auth.time
      PROVE  UNCHANGED <<Changes, Patience>>
  BY <1>4, SamePatience
<1>5. CASE SerialByte \/ Millisecond \/ ReadStatus \/ UNCHANGED vars
  BY <1>1, <1>2, <1>4, <1>5 DEF SerialByte, Millisecond, ReadStatus, Socket, timers, chip, loop, vars
<1>6. CASE NetworkState
  <2>1. UNCHANGED <<rsr, prev_len>> /\ auth' \in {auth, [auth EXCEPT !.flag = 1]}
    BY <1>6 DEF NetworkState, Socket
  <2>2. auth'.time = auth.time
    BY <2>1 DEF ConnInv, TypeOK, TimersType, Timer
  <2> QED
    BY <1>1, <1>2, <1>4, <2>1, <2>2
<1>7. CASE SockClose \/ SockInit \/ SockListen \/ SockEstablished \/ SockCloseWait \/ SockUdp \/ SockOther
  <2>1. UNCHANGED <<auth, prev_len>>
    BY <1>7, DispatchSame
    DEF SockClose, SockInit, SockListen, SockEstablished, SockCloseWait, SockUdp, SockOther, Dispatch
  <2>2. rsr' = rsr
    BY <1>7 DEF SockClose, SockInit, SockListen, SockEstablished, SockCloseWait, SockUdp, SockOther,
      Closed, Socket, Doubted
  <2> QED
    BY <1>1, <1>2, <1>4, <2>1, <2>2
<1>8. CASE AuthRecv
  <2>1. session \in Sessions /\ sr' = "ESTABLISHED" /\ sr = "ESTABLISHED" /\ ~session'.passed
    BY DEF ConnInv, TypeOK, HistoryType, Doubted, Owes
  <2>2. SubSeq(rsr, 1, PwLen) = Password => session'.passed
    BY <1>8, <2>1 DEF AuthRecv, Closed, Sessions
  <2>3. SubSeq(rsr, 1, PwLen) # Password => sr' # "ESTABLISHED"
    BY <1>8, <2>1 DEF AuthRecv, Closed, Disconnect
  <2> QED
    BY <2>1, <2>2, <2>3
<1>9. CASE RecvLook \/ RecvTake \/ Forward \/ SendLook \/ SendOut
  BY <1>9, DoubtedPoint DEF RecvLook, RecvTake, Forward, SendLook, SendOut, At, Goto
<1> QED
  BY <1>3, <1>5, <1>6, <1>7, <1>8, <1>9 DEF Next, MainStep

(* auth_process gives up on a peer: while a connection owes its password,  *)
(* only bytes that arrive put the end of the wait off, and they do so as   *)
(* often as the buffer holds bytes at most; every second brings it closer, *)
(* and a pass that finds the wait over ends the connection.  A pass that   *)
(* has seen the connection has started the clock.  Of AuthDeadline this is *)
(* all but the fairness.                                                   *)
THEOREM PasswordCountsDown ==
  Spec => /\ [](Doubted => /\ Changes \in 0 .. 2 * RecvCap + 1 /\ Patience \in 0 .. AuthSeconds
                           /\ Unseen \/ auth.flag = 1)
          /\ [][Doubted /\ Doubted' =>
                  /\ Closer \/ UNCHANGED <<Changes, Patience>>
                  /\ Second /\ auth.flag = 1 /\ auth.time < AuthSeconds => Closer
                  /\ AuthLook => Closer \/ auth.time < AuthSeconds]_vars
<1> DEFINE Bound == Doubted => /\ Changes \in 0 .. 2 * RecvCap + 1 /\ Patience \in 0 .. AuthSeconds
                               /\ Unseen \/ auth.flag = 1
           CountDown == Doubted /\ Doubted' =>
                          /\ Closer \/ UNCHANGED <<Changes, Patience>>
                          /\ Second /\ auth.flag = 1 /\ auth.time < AuthSeconds => Closer
                          /\ AuthLook => Closer \/ auth.time < AuthSeconds
<1>1. ConnInv => Bound
  <2> SUFFICES ASSUME ConnInv, Doubted PROVE Bound
    OBVIOUS
  <2>1. Changes \in 0 .. 2 * RecvCap + 1
    BY ChangesValue DEF ConnInv
  <2>2. Patience \in 0 .. AuthSeconds
    BY ChangesValue DEF ConnInv, Patience
  <2> QED
    BY <2>1, <2>2, DoubtedPoint
<1>2. ConnInv /\ ConnInv' /\ [Next]_vars => [CountDown]_vars
  BY DoubtCloser
<1> HIDE DEF Bound, CountDown
<1>3. Spec => []Bound /\ [][CountDown]_vars
  BY InitInv, InvKept, <1>1, <1>2, PTL DEF Spec
<1> QED
  BY <1>3 DEF Bound, CountDown
=============================================================================
