---------------------------- MODULE AtSock_proofs ----------------------------
(***************************************************************************)
(* Safety of the socket commands for every set of protocols, and for every *)
(* peer, chip and order of their steps.                                    *)
(***************************************************************************)
EXTENDS AtSock, FiniteSetTheorems, TLAPS

-----------------------------------------------------------------------------
(* The inductive invariant.  What the properties say of the watches is not *)
(* inductive: that a watch is cleared in time needs that it belongs to the *)
(* protocol and to the state of the connection (Watches), that the chip's  *)
(* status does (Roles), and what a command knows while it is under way     *)
(* (Places).                                                               *)

OneTry == \A a, b \in watch_sock \cap Tries : a = b
BusyInv == (Awaiting => sockbusy) /\ OneTry /\ (sendsock => ~sockbusy)

Watches ==
  /\ "CONN_EVT" \in watch_sock => sockstat = "SRV" /\ ~connected
  /\ "CONN_TRY" \in watch_sock => sockstat = "CLT" /\ ~connected
  /\ "CLS_EVT" \in watch_sock => connected
  /\ "CLS_TRY" \in watch_sock => IsTcp /\ (sr = "CLOSED" \/ (mr = "TCP" /\ nonblock))
  /\ "UDP_SEND" \in watch_sock => sockstat = "UDP"
  /\ "RECV" \in watch_sock => connected \/ sockstat = "UDP"

Roles ==
  /\ sr = "UDP" => sockstat = "UDP"
  /\ sr \in {"LISTEN", "SYNRECV"} => sockstat = "SRV" /\ ~connected
  /\ sr = "SYNSENT" => sockstat = "CLT" /\ ~connected

Places ==
  /\ pc = "data" => sockstat = "IDLE"
  /\ pc = "clsTryIr" => "CLS_TRY" \in watch_sock /\ mr = "TCP" /\ nonblock
  /\ pc = "waitClose" => IsTcp /\ ~sockbusy /\ ~sendsock

AtInv == TypeOK /\ ReleasedIsClosed /\ BusyInv /\ NothingMissed /\ Watches /\ Roles /\ Places

-----------------------------------------------------------------------------
(* Steps that leave the allocation, the commands and the chip's role alone *)

Free == Points \ {"data", "clsTryIr", "waitClose"}  \* where pc alone says nothing

(* The chip's status stays, or goes towards CLOSED.                        *)
Falls == {"CLOSED", "FIN_WAIT", "CLOSING", "CLOSE_WAIT"}

LEMMA ChipFalls ==
  ASSUME AtInv, UNCHANGED <<alloc, command>>, ChipType',
         pc' \in Points, Places', pc = "halt" => pc' = "halt",
         \/ sr' = sr
         \/ sr' \in Falls /\ sr # "CLOSED"
         \/ sr' = "CLOSED",
         (mr' = mr /\ nonblock' = nonblock) \/ sr' = "CLOSED"
  PROVE  AtInv'
<1>1. TypeOK'
  BY DEF AtInv, TypeOK, AllocType, CommandType, IsTcp, alloc, command
<1>2. ReleasedIsClosed'
  BY DEF AtInv, ReleasedIsClosed, alloc
<1>3. BusyInv'
  BY DEF AtInv, BusyInv, Awaiting, OneTry, alloc, command
<1>4. NothingMissed'
  BY DEF AtInv, NothingMissed, Accepts, Connects, Carries, Falls, alloc
<1>5. Watches'
  BY DEF AtInv, Watches, IsTcp, alloc
<1>6. Roles'
  BY DEF AtInv, Roles, Falls, alloc
<1> QED
  BY <1>1, <1>2, <1>3, <1>4, <1>5, <1>6 DEF AtInv

(* A step of pc alone: a command that is refused, a watch that is not set. *)
LEMMA PcOnly ==
  ASSUME AtInv, UNCHANGED <<alloc, command, chip>>, pc' \in Free, pc # "halt"
  PROVE  AtInv'
<1>1. ChipType'
  BY DEF AtInv, TypeOK, ChipType, Status, chip
<1> QED
  BY <1>1, ChipFalls DEF Free, Places, chip

(* A socket that is given back.                                            *)
LEMMA PutBack ==
  ASSUME AtInv, sock_put, sr' = "CLOSED", ChipType', CommandType', (sendsock => ~sockbusy)',
         pc' \in Points \ {"clsTryIr", "waitClose"}
  PROVE  AtInv'
<1>1. TypeOK'
  BY DEF TypeOK, AllocType, sock_put
<1>2. ReleasedIsClosed' /\ BusyInv' /\ NothingMissed' /\ Watches' /\ Roles' /\ Places'
  BY DEF ReleasedIsClosed, BusyInv, Awaiting, OneTry, NothingMissed, Accepts, Connects, Carries,
    Watches, Roles, Places, sock_put
<1> QED
  BY <1>1, <1>2 DEF AtInv

LEMMA CloseTypes == AtInv /\ Close => ChipType'
BY DEF AtInv, TypeOK, ChipType, Close, Left, Status

LEMMA DisconTypes == AtInv /\ Discon => ChipType'
BY DEF AtInv, TypeOK, ChipType, Discon, Status

-----------------------------------------------------------------------------
(* The network *)

LEMMA NetworkKeeps == AtInv /\ Network => AtInv'
<1> SUFFICES ASSUME AtInv, Network PROVE AtInv'
  OBVIOUS
<1>1. UNCHANGED <<alloc, command, mr, nonblock, pc>>
  BY DEF Network
<1>0. pc' \in Points /\ Places'
  BY <1>1 DEF AtInv, TypeOK, Places, IsTcp, alloc, command
<1>2. ASSUME NEW move \in Moves, sr = move[1], sr' = move[2], UNCHANGED <<timeout, rx, sending>>
      PROVE  AtInv'
  <2>1. ChipType'
    BY <1>1, <1>2 DEF Moves, AtInv, TypeOK, ChipType, Status
  <2>2. CASE sr' \in Falls
    BY <1>0, <1>1, <1>2, <2>1, <2>2, ChipFalls DEF Moves
  <2>3. CASE sr = "LISTEN" /\ sr' = "SYNRECV"
    BY <1>1, <2>1, <2>3 DEF AtInv, TypeOK, AllocType, CommandType, IsTcp, ReleasedIsClosed, BusyInv,
      Awaiting, OneTry, NothingMissed, Accepts, Connects, Carries, Watches, Roles, Places, alloc,
      command
  <2>4. CASE sr \in {"SYNRECV", "SYNSENT"} /\ sr' = "ESTABLISHED"
    BY <1>1, <2>1, <2>4 DEF AtInv, TypeOK, AllocType, CommandType, IsTcp, ReleasedIsClosed, BusyInv,
      Awaiting, OneTry, NothingMissed, Accepts, Connects, Carries, Watches, Roles, Places, alloc,
      command
  <2> QED
    BY <1>2, <2>2, <2>3, <2>4 DEF Moves, Falls
<1>3. CASE Closes \/ TimesOut
  <2>1. ChipType' /\ sr' = "CLOSED"
    BY <1>1, <1>3 DEF Closes, TimesOut, Left, AtInv, TypeOK, ChipType, Status
  <2> QED
    BY <1>0, <1>1, <2>1, ChipFalls
<1>4. CASE PeerData \/ SendOk
  <2>1. ChipType' /\ sr' = sr
    BY <1>1, <1>4 DEF PeerData, SendOk, AtInv, TypeOK, ChipType, Status
  <2> QED
    BY <1>0, <1>1, <2>1, ChipFalls
<1> QED
  BY <1>2, <1>3, <1>4 DEF Network, Move

-----------------------------------------------------------------------------
(* The commands *)

(* NOPEN starts from a socket that was given back.                         *)
LEMMA NopenKeeps == AtInv /\ Nopen => AtInv'
<1> SUFFICES ASSUME AtInv, Nopen PROVE AtInv'
  OBVIOUS
<1>1. /\ sr = "CLOSED" /\ watch_sock = {} /\ ~connected /\ connected' = connected /\ ~sendsock
      /\ pc = "command" /\ pc' = "recv"
  BY DEF Nopen, AtInv, ReleasedIsClosed, Goto
<1>2. OpenServer \/ OpenClient \/ OpenUdp
  BY DEF Nopen
<1>3. TypeOK'
  <2>1. AllocType' /\ CommandType'
    BY <1>1, <1>2 DEF OpenServer, OpenClient, OpenUdp, AtInv, TypeOK, AllocType, CommandType, IsTcp,
      Items, Tries, command
  <2>2. ChipType'
    BY <1>1, <1>2 DEF OpenServer, OpenClient, OpenUdp, Opened, AtInv, TypeOK, ChipType, Status, chip
  <2> QED
    BY <1>1, <2>1, <2>2 DEF TypeOK, Points
<1>4. ReleasedIsClosed' /\ Places'
  BY <1>1, <1>2 DEF OpenServer, OpenClient, OpenUdp, ReleasedIsClosed, Places
<1>5. BusyInv'
  BY <1>1, <1>2 DEF OpenServer, OpenClient, OpenUdp, AtInv, BusyInv, Awaiting, OneTry, Tries, command
<1>6. NothingMissed'
  BY <1>1, <1>2 DEF OpenServer, OpenClient, OpenUdp, NothingMissed, Accepts, Connects, Carries, chip
<1>7. Watches'
  BY <1>1, <1>2 DEF OpenServer, OpenClient, OpenUdp, Watches
<1>8. Roles'
  BY <1>1, <1>2 DEF OpenServer, OpenClient, OpenUdp, Roles, chip
<1> QED
  BY <1>3, <1>4, <1>5, <1>6, <1>7, <1>8 DEF AtInv

(* DISCON moves the status towards CLOSED only.                            *)
LEMMA DisconFalls ==
  ASSUME AtInv, Discon, UNCHANGED <<alloc, command>>, pc' \in Free, pc # "halt"
  PROVE  AtInv'
<1>1. ChipType'
  BY DisconTypes
<1> QED
  BY <1>1, ChipFalls DEF Discon, Falls, Free, Places

LEMMA CloseFalls ==
  ASSUME AtInv, Close, UNCHANGED <<alloc, command>>, pc' \in Free, pc # "halt"
  PROVE  AtInv'
BY CloseTypes, ChipFalls DEF Close, Free, Places

(* The end of a disconnect that blocks: the socket stays, or is closed.    *)
LEMMA WaitFalls ==
  ASSUME AtInv, DisconnectOk \/ DisconnectTimeout, UNCHANGED <<alloc, command>>,
         pc # "halt", pc' \in Free
  PROVE  AtInv'
<1>1. CASE DisconnectOk
  BY <1>1, PcOnly DEF DisconnectOk
<1>2. CASE DisconnectTimeout
  BY <1>2, CloseFalls DEF DisconnectTimeout
<1> QED
  BY <1>1, <1>2

(* A close that is watched for: nothing else was.                          *)
LEMMA CloseWatched ==
  ASSUME AtInv, watch_sock' = ClosingWatched, sockbusy' = TRUE, UNCHANGED <<sockstat, connected>>,
         ~sockbusy, ~sendsock, sendsock' = sendsock, IsTcp, ChipType',
         pc' \in Free \ {"halt"}, pc # "halt",
         sr' = sr \/ (sr' \in Falls /\ sr # "CLOSED"),
         sr' = "CLOSED" \/ (mr' = "TCP" /\ nonblock')
  PROVE  AtInv'
<1>1. TypeOK'
  BY DEF AtInv, TypeOK, AllocType, CommandType, IsTcp, ClosingWatched, Items, Tries, Free
<1>2. ReleasedIsClosed' /\ BusyInv'
  BY DEF AtInv, ReleasedIsClosed, IsTcp, BusyInv, Awaiting, OneTry, ClosingWatched, Tries
<1>3. NothingMissed'
  BY DEF AtInv, NothingMissed, Accepts, Connects, Carries, ClosingWatched, Falls
<1>4. Watches' /\ Roles' /\ Places'
  BY DEF AtInv, Watches, Roles, Places, IsTcp, ClosingWatched, Falls, Free
<1> QED
  BY <1>1, <1>2, <1>3, <1>4 DEF AtInv

LEMMA NcloseTcpKeeps == AtInv /\ NcloseTcp => AtInv'
<1> SUFFICES ASSUME AtInv, NcloseTcp PROVE AtInv'
  OBVIOUS
<1>1. pc = "command" /\ ~sendsock /\ ~sockbusy /\ IsTcp /\ UNCHANGED <<sockstat, connected, sendsock>>
  BY DEF NcloseTcp, Disconnect
<1>2. CASE mr = "TCP" /\ nonblock
  <2>1. Discon /\ pc' = "recv" /\ watch_sock' = ClosingWatched /\ sockbusy' = TRUE
    BY <1>2 DEF NcloseTcp, Disconnect
  <2>2. mr' = "TCP" /\ nonblock' /\ (sr' = sr \/ (sr' \in Falls /\ sr # "CLOSED"))
    BY <1>2, <2>1 DEF Discon, Falls
  <2> QED
    BY <1>1, <2>1, <2>2, DisconTypes, CloseWatched DEF Free, Points
<1>3. CASE mr = "TCP" /\ ~nonblock
  <2>1. Discon /\ pc' = "waitClose" /\ UNCHANGED <<alloc, command>>
    BY <1>1, <1>3 DEF NcloseTcp, Disconnect, alloc, command
  <2>2. mr' = mr /\ nonblock' = nonblock /\ (sr' = sr \/ (sr' \in Falls /\ sr # "CLOSED"))
    BY <2>1 DEF Discon, Falls
  <2>3. pc' \in Points /\ Places' /\ pc # "halt"
    BY <1>1, <2>1 DEF Points, Stuck, Places, IsTcp, alloc, command
  <2> QED
    BY <2>1, <2>2, <2>3, DisconTypes, ChipFalls
<1>4. CASE mr # "TCP"
  <2>1. UNCHANGED <<alloc, command, chip>> /\ pc' = "recv"
    BY <1>1, <1>4 DEF NcloseTcp, Disconnect, alloc, command
  <2> QED
    BY <1>1, <2>1, PcOnly DEF Free, Points
<1> QED
  BY <1>2, <1>3, <1>4

LEMMA WaitCloseKeeps == AtInv /\ WaitClose => AtInv'
<1> SUFFICES ASSUME AtInv, WaitClose PROVE AtInv'
  OBVIOUS
<1>1. /\ pc = "waitClose" /\ pc' = "recv" /\ IsTcp /\ ~sockbusy /\ ~sendsock
      /\ UNCHANGED <<sockstat, connected, sendsock>>
  BY DEF WaitClose, Goto, AtInv, Places
<1>2. CASE DisconnectOk /\ watch_sock' = ClosingWatched /\ sockbusy' = TRUE
  <2>1. UNCHANGED chip /\ sr = "CLOSED"
    BY <1>2 DEF DisconnectOk
  <2>2. ChipType'
    BY <2>1 DEF AtInv, TypeOK, ChipType, Status, chip
  <2> QED
    BY <1>1, <1>2, <2>1, <2>2, CloseWatched DEF Free, Points, chip
<1>3. CASE DisconnectTimeout /\ UNCHANGED <<watch_sock, sockbusy>>
  BY <1>1, <1>3, CloseFalls DEF DisconnectTimeout, Free, Points, alloc, command
<1> QED
  BY <1>2, <1>3 DEF WaitClose

LEMMA NcloseUdpKeeps == AtInv /\ NcloseUdp => AtInv'
<1> SUFFICES ASSUME AtInv, NcloseUdp PROVE AtInv'
  OBVIOUS
<1>1. Close /\ sock_put /\ UNCHANGED command /\ ~sockbusy /\ pc' = "recv"
  BY DEF NcloseUdp, Goto
<1>2. CommandType' /\ (sendsock => ~sockbusy)'
  BY <1>1 DEF AtInv, TypeOK, CommandType, command
<1> QED
  BY <1>1, <1>2, CloseTypes, PutBack DEF Close, Points

(* NSEND begins to collect characters.                                     *)
LEMMA NsendKeeps == AtInv /\ Nsend => AtInv'
<1> SUFFICES ASSUME AtInv, Nsend PROVE AtInv'
  OBVIOUS
<1>1. /\ pc' = "recv" /\ pc = "command" /\ ~sockbusy /\ sendsock' = TRUE
      /\ UNCHANGED <<alloc, chip, sockbusy>>
  BY DEF Nsend, Goto
<1>2. TypeOK'
  BY <1>1 DEF AtInv, TypeOK, AllocType, CommandType, ChipType, IsTcp, Status, Points, alloc, chip
<1>3. ReleasedIsClosed' /\ BusyInv'
  BY <1>1 DEF AtInv, ReleasedIsClosed, BusyInv, Awaiting, OneTry, alloc, chip
<1>4. NothingMissed' /\ Watches' /\ Roles' /\ Places'
  BY <1>1 DEF AtInv, NothingMissed, Accepts, Connects, Carries, Watches, Roles, Places, IsTcp, alloc,
    chip
<1> QED
  BY <1>2, <1>3, <1>4 DEF AtInv

(* send leaves the watches alone; its end frees nothing that a try waits   *)
(* for, since NSEND was refused while one did.                             *)
LEMMA SendTcpKeeps ==
  ASSUME AtInv, SendTcp, sendsock, IsTcp
  PROVE  AtInv'
<1>1. /\ UNCHANGED alloc /\ sendsock' = FALSE /\ ~sockbusy /\ sockbusy' = FALSE /\ mr' = mr
      /\ pc = "command" /\ pc' \in {"recv", "halt"} /\ sr' \in {sr, "CLOSED"}
      /\ "CLS_TRY" \notin watch_sock
  BY DEF SendTcp, Goto, Close, AtInv, BusyInv, Awaiting, Tries, TypeOK, CommandType
<1>2. ChipType'
  BY CloseTypes DEF SendTcp, AtInv, TypeOK, ChipType, Status
<1>3. TypeOK'
  BY <1>1, <1>2 DEF AtInv, TypeOK, AllocType, CommandType, IsTcp, Points, Stuck, alloc
<1>4. ReleasedIsClosed' /\ BusyInv'
  BY <1>1 DEF AtInv, ReleasedIsClosed, BusyInv, Awaiting, OneTry, alloc
<1>5. NothingMissed' /\ Watches' /\ Roles' /\ Places'
  BY <1>1 DEF AtInv, NothingMissed, Accepts, Connects, Carries, Watches, Roles, Places, IsTcp, alloc
<1> QED
  BY <1>3, <1>4, <1>5 DEF AtInv

LEMMA SendUdpKeeps ==
  ASSUME AtInv, SendUdp, sendsock
  PROVE  AtInv'
<1>1. /\ UNCHANGED <<chip, sockstat, connected>> /\ sendsock' = FALSE /\ ~sockbusy
      /\ pc = "command" /\ pc' = "recv"
  BY DEF SendUdp, Goto, AtInv, BusyInv
<1>2. ChipType'
  BY <1>1 DEF AtInv, TypeOK, ChipType, Status, chip
<1>3. watch_sock \cap Tries = {}
  BY <1>1 DEF AtInv, BusyInv, Awaiting
<1>4. CASE sr = "UDP" /\ watch_sock' = watch_sock \cup {"UDP_SEND"} /\ sockbusy' = TRUE
  <2>1. sockstat = "UDP"
    BY <1>4 DEF AtInv, Roles
  <2>2. TypeOK'
    BY <1>1, <1>2, <1>4 DEF AtInv, TypeOK, AllocType, CommandType, IsTcp, Items, Tries, Points
  <2>3. ReleasedIsClosed' /\ BusyInv'
    BY <1>1, <1>3, <1>4, <2>1 DEF ReleasedIsClosed, BusyInv, Awaiting, OneTry
  <2>4. NothingMissed' /\ Watches' /\ Roles' /\ Places'
    BY <1>1, <1>4, <2>1 DEF AtInv, NothingMissed, Accepts, Connects, Carries, Watches, Roles, Places,
      IsTcp, chip
  <2> QED
    BY <2>2, <2>3, <2>4 DEF AtInv
<1>5. CASE UNCHANGED <<watch_sock, sockbusy>>
  <2>1. TypeOK'
    BY <1>1, <1>2, <1>5 DEF AtInv, TypeOK, AllocType, CommandType, IsTcp, Points
  <2>2. ReleasedIsClosed' /\ BusyInv'
    BY <1>1, <1>5 DEF AtInv, ReleasedIsClosed, BusyInv, Awaiting, OneTry, chip
  <2>3. NothingMissed' /\ Watches' /\ Roles' /\ Places'
    BY <1>1, <1>5 DEF AtInv, NothingMissed, Accepts, Connects, Carries, Watches, Roles, Places, IsTcp,
      chip
  <2> QED
    BY <2>1, <2>2, <2>3 DEF AtInv
<1> QED
  BY <1>4, <1>5 DEF SendUdp

LEMMA MdataKeeps == AtInv /\ Mdata => AtInv'
<1> SUFFICES ASSUME AtInv, Mdata PROVE AtInv'
  OBVIOUS
<1>1. UNCHANGED <<alloc, command>> /\ pc = "command" /\ pc' \in {"leave", "waitData"}
  BY DEF Mdata, Disconnect, AtInv, TypeOK, ChipType
<1>2. pc' \in Free
  BY <1>1 DEF Free, Points, Stuck
<1>3. CASE Discon
  BY <1>1, <1>2, <1>3, DisconFalls
<1>4. CASE UNCHANGED chip
  BY <1>1, <1>2, <1>4, PcOnly
<1> QED
  BY <1>3, <1>4 DEF Mdata, Disconnect

LEMMA LeaveKeeps == AtInv /\ Leave => AtInv'
<1> SUFFICES ASSUME AtInv, Leave PROVE AtInv'
  OBVIOUS
<1>1. Close /\ sock_put /\ UNCHANGED command /\ pc' = "data"
  BY DEF Leave, LeaveCommands, Goto
<1>2. CommandType' /\ (sendsock => ~sockbusy)'
  BY <1>1 DEF AtInv, TypeOK, CommandType, BusyInv, command
<1> QED
  BY <1>1, <1>2, CloseTypes, PutBack DEF Close, Points

LEMMA TriggerKeeps == AtInv /\ Trigger => AtInv'
<1> SUFFICES ASSUME AtInv, Trigger PROVE AtInv'
  OBVIOUS
<1>1. UNCHANGED <<alloc, command>> /\ pc = "data" /\ pc' = "command" /\ sr' = "CLOSED" /\ ChipType'
  BY DEF Trigger, Goto, ChipType, Status
<1> QED
  BY <1>1, ChipFalls DEF Points, Places

-----------------------------------------------------------------------------
(* sockwatch_run *)

LEMMA SkipKeeps ==
  ASSUME AtInv, NEW item, NEW a \in Free \ {"halt"}, NEW b \in Free, Skip(item, a, b)
  PROVE  AtInv'
BY PcOnly DEF Skip, Goto, alloc, command, chip

(* RECV is cleared only where the socket has no connection.                *)
LEMMA WatchRecvKeeps == AtInv /\ WatchRecv => AtInv'
<1> SUFFICES ASSUME AtInv, WatchRecv PROVE AtInv'
  OBVIOUS
<1>1. CASE Skip("RECV", "recv", "cls")
  BY <1>1, SkipKeeps DEF Free, Points
<1>2. CASE ~Skip("RECV", "recv", "cls")
  <2>1. pc = "recv" /\ pc' = "cls" /\ UNCHANGED <<command, sockstat, connected>>
    BY <1>2 DEF WatchRecv, Goto
  <2>2. CASE UNCHANGED <<watch_sock, chip>>
    BY <2>1, <2>2, PcOnly DEF Free, Points, alloc
  <2>3. CASE rx' = FALSE /\ UNCHANGED <<watch_sock, mr, sr, timeout, nonblock, sending>>
    <3>1. ChipType'
      BY <2>3 DEF AtInv, TypeOK, ChipType, Status
    <3> QED
      BY <2>1, <2>3, <3>1, ChipFalls DEF Points, Places, alloc
  <2>4. CASE watch_sock' = Cleared("RECV") /\ Close
    <3>1. TypeOK'
      BY <2>1, <2>4, CloseTypes DEF AtInv, TypeOK, AllocType, CommandType, IsTcp, Cleared, Points,
        command
    <3>2. ReleasedIsClosed' /\ BusyInv' /\ Places'
      BY <2>1, <2>4 DEF AtInv, ReleasedIsClosed, BusyInv, Awaiting, OneTry, Places, Cleared, Close,
        command
    <3>3. NothingMissed' /\ Watches' /\ Roles'
      BY <2>1, <2>4 DEF AtInv, NothingMissed, Accepts, Connects, Carries, Watches, Roles, IsTcp,
        Cleared, Close
    <3> QED
      BY <3>1, <3>2, <3>3 DEF AtInv
  <2> QED
    BY <1>2, <2>2, <2>3, <2>4 DEF WatchRecv
<1> QED
  BY <1>1, <1>2

(* A server that listens again, or whatever else has ended.                *)
LEMMA EndedKeeps ==
  ASSUME AtInv, sr = "CLOSED", pc' = "conn", sockbusy' = FALSE, UNCHANGED sendsock,
         (sockstat = "SRV" /\ Relisten) \/ (sockstat # "SRV" /\ sock_put /\ UNCHANGED chip)
  PROVE  AtInv'
<1>1. CommandType' /\ (sendsock => ~sockbusy)' /\ pc' \in Points \ {"clsTryIr", "waitClose"}
  BY DEF AtInv, TypeOK, CommandType, Points
<1>2. ChipType'
  BY DEF Relisten, Opened, AtInv, TypeOK, ChipType, Status, chip
<1>3. CASE sock_put
  <2>1. sr' = "CLOSED"
    BY <1>3 DEF Relisten, sock_put, chip
  <2> QED
    BY <1>1, <1>2, <1>3, <2>1, PutBack
<1>4. CASE ~sock_put
  <2>1. /\ sr' = "LISTEN" /\ connected' = FALSE /\ watch_sock' = {"CONN_EVT"}
        /\ sockstat' = "SRV"
    BY <1>4 DEF Relisten
  <2>2. TypeOK'
    BY <1>1, <1>2, <2>1 DEF TypeOK, AllocType, Items, IsTcp
  <2>3. ReleasedIsClosed' /\ BusyInv' /\ Places'
    BY <1>1, <2>1 DEF ReleasedIsClosed, BusyInv, Awaiting, OneTry, Tries, Places
  <2>4. NothingMissed' /\ Watches' /\ Roles'
    BY <2>1 DEF NothingMissed, Accepts, Connects, Carries, Watches, Roles
  <2> QED
    BY <2>2, <2>3, <2>4 DEF AtInv
<1> QED
  BY <1>3, <1>4

LEMMA WatchClsEvtKeeps == AtInv /\ WatchClsEvt => AtInv'
<1> SUFFICES ASSUME AtInv, WatchClsEvt PROVE AtInv'
  OBVIOUS
<1>1. CASE Skip("CLS_EVT", "cls", "conn")
  BY <1>1, SkipKeeps DEF Free, Points
<1>2. CASE ~Skip("CLS_EVT", "cls", "conn") /\ sr = "CLOSED"
  BY <1>2, EndedKeeps DEF WatchClsEvt, Goto
<1>3. CASE ~Skip("CLS_EVT", "cls", "conn") /\ sr = "CLOSE_WAIT"
  <2>1. Disconnect("cls", "conn", "waitCls") /\ UNCHANGED <<alloc, command>>
    BY <1>3 DEF WatchClsEvt, command
  <2>2. pc' \in Free /\ pc # "halt"
    BY <2>1 DEF Disconnect, Free, Points, Stuck, AtInv, TypeOK, ChipType
  <2> QED
    BY <2>1, <2>2, DisconFalls, PcOnly DEF Disconnect
<1>4. CASE ~Skip("CLS_EVT", "cls", "conn") /\ sr \notin {"CLOSED", "CLOSE_WAIT"}
  BY <1>4, PcOnly DEF WatchClsEvt, Goto, Free, Points, command
<1> QED
  BY <1>1, <1>2, <1>3, <1>4

(* A connection is reported: its watch goes, those of its end and its data *)
(* come.                                                                   *)
LEMMA UpKeeps ==
  ASSUME AtInv, NEW item \in {"CONN_EVT", "CONN_TRY"}, item \in watch_sock, Up(item),
         sr = "ESTABLISHED", UNCHANGED <<sockstat, chip, sendsock>>,
         pc' \in Free \ {"halt"},
         item = "CONN_EVT" => sockbusy' = sockbusy, item = "CONN_TRY" => sockbusy' = FALSE
  PROVE  AtInv'
<1>1. IsTcp /\ "UDP_SEND" \notin watch_sock /\ "CLS_EVT" \notin watch_sock
  BY DEF AtInv, Watches, IsTcp
<1>2. TypeOK'
  BY <1>1 DEF Up, Cleared, AtInv, TypeOK, AllocType, CommandType, ChipType, Status, IsTcp, Items,
    Tries, Free, chip
<1>3. ReleasedIsClosed' /\ Places'
  BY <1>1 DEF ReleasedIsClosed, Places, IsTcp, Free
<1>4. BusyInv'
  BY <1>1 DEF Up, Cleared, AtInv, BusyInv, Awaiting, OneTry, Tries, TypeOK, CommandType
<1>5. NothingMissed'
  BY <1>1 DEF Up, NothingMissed, Accepts, Connects, Carries
<1>6. Watches' /\ Roles'
  BY <1>1 DEF Up, Cleared, AtInv, Watches, Roles, IsTcp, chip
<1> QED
  BY <1>2, <1>3, <1>4, <1>5, <1>6 DEF AtInv

LEMMA WatchConnEvtKeeps == AtInv /\ WatchConnEvt => AtInv'
<1> SUFFICES ASSUME AtInv, WatchConnEvt PROVE AtInv'
  OBVIOUS
<1>1. CASE Skip("CONN_EVT", "conn", "clsTry")
  BY <1>1, SkipKeeps DEF Free, Points
<1>2. CASE ~Skip("CONN_EVT", "conn", "clsTry")
  <2>1. /\ pc = "conn" /\ pc' = "clsTry" /\ "CONN_EVT" \in watch_sock
        /\ UNCHANGED <<sockstat, command, chip>>
    BY <1>2 DEF WatchConnEvt, Goto
  <2>2. CASE sr = "ESTABLISHED"
    BY <1>2, <2>1, <2>2, UpKeeps DEF WatchConnEvt, Free, Points, command
  <2>3. CASE sr # "ESTABLISHED"
    BY <1>2, <2>1, <2>3, PcOnly DEF WatchConnEvt, Free, Points, alloc
  <2> QED
    BY <2>2, <2>3
<1> QED
  BY <1>1, <1>2

LEMMA WatchClsTryKeeps == AtInv /\ WatchClsTry => AtInv'
<1> SUFFICES ASSUME AtInv, WatchClsTry PROVE AtInv'
  OBVIOUS
<1>1. CASE Skip("CLS_TRY", "clsTry", "connTry")
  BY <1>1, SkipKeeps DEF Free, Points
<1>2. CASE ~Skip("CLS_TRY", "clsTry", "connTry") /\ sr \in {"LISTEN", "CLOSED"}
  <2>1. /\ pc' = "connTry" /\ sock_put /\ sockbusy' = FALSE /\ UNCHANGED sendsock
        /\ Close \/ (sr = "CLOSED" /\ UNCHANGED chip)
    BY <1>2 DEF WatchClsTry, Goto
  <2>2. ChipType' /\ sr' = "CLOSED"
    BY <2>1, CloseTypes DEF Close, AtInv, TypeOK, ChipType, Status, chip
  <2>3. CommandType' /\ (sendsock => ~sockbusy)'
    BY <2>1 DEF AtInv, TypeOK, CommandType
  <2> QED
    BY <2>1, <2>2, <2>3, PutBack DEF Points
<1>3. CASE ~Skip("CLS_TRY", "clsTry", "connTry") /\ sr = "FIN_WAIT"
  BY <1>3, CloseFalls DEF WatchClsTry, Goto, Free, Points, command
<1>4. CASE ~Skip("CLS_TRY", "clsTry", "connTry") /\ sr \notin {"LISTEN", "CLOSED", "FIN_WAIT"}
  <2>1. /\ pc = "clsTry" /\ pc' = "clsTryIr" /\ "CLS_TRY" \in watch_sock
        /\ UNCHANGED <<alloc, command, chip>>
    BY <1>4 DEF WatchClsTry, Goto, command
  <2>2. mr = "TCP" /\ nonblock
    BY <1>4, <2>1 DEF AtInv, Watches
  <2>3. ChipType' /\ Places' /\ pc' \in Points
    BY <2>1, <2>2 DEF AtInv, TypeOK, ChipType, Status, Places, Points, alloc, chip
  <2> QED
    BY <2>1, <2>3, ChipFalls DEF chip
<1> QED
  BY <1>1, <1>2, <1>3, <1>4

LEMMA WatchClsTryIrKeeps == AtInv /\ WatchClsTryIr => AtInv'
<1> SUFFICES ASSUME AtInv, WatchClsTryIr PROVE AtInv'
  OBVIOUS
<1>1. CASE timeout
  <2>1. /\ pc = "clsTryIr" /\ pc' = "halt" /\ Close /\ sockbusy' = FALSE
        /\ watch_sock' = Cleared("CLS_TRY") /\ UNCHANGED <<sockstat, connected, sendsock>>
    BY <1>1 DEF WatchClsTryIr, Goto
  <2>2. "CLS_TRY" \in watch_sock /\ sr' = "CLOSED"
    BY <2>1 DEF AtInv, Places, Close
  <2>3. TypeOK'
    BY <2>1, CloseTypes DEF AtInv, TypeOK, AllocType, CommandType, IsTcp, Cleared, Points, Stuck
  <2>4. ReleasedIsClosed' /\ BusyInv' /\ Places'
    BY <2>1, <2>2 DEF AtInv, ReleasedIsClosed, BusyInv, Awaiting, OneTry, Tries, Places, Cleared
  <2>5. NothingMissed' /\ Watches' /\ Roles'
    BY <2>1, <2>2 DEF AtInv, NothingMissed, Accepts, Connects, Carries, Watches, Roles, IsTcp,
      Cleared
  <2> QED
    BY <2>3, <2>4, <2>5 DEF AtInv
<1>2. CASE ~timeout
  BY <1>2, DisconFalls DEF WatchClsTryIr, Goto, Free, Points, command
<1> QED
  BY <1>1, <1>2

LEMMA WatchConnTryKeeps == AtInv /\ WatchConnTry => AtInv'
<1> SUFFICES ASSUME AtInv, WatchConnTry PROVE AtInv'
  OBVIOUS
<1>1. CASE Skip("CONN_TRY", "connTry", "udpSend")
  BY <1>1, SkipKeeps DEF Free, Points
<1>2. CASE ~Skip("CONN_TRY", "connTry", "udpSend")
  <2>1. pc = "connTry" /\ pc' = "udpSend" /\ "CONN_TRY" \in watch_sock /\ UNCHANGED sendsock
    BY <1>2 DEF WatchConnTry, Goto
  <2>2. CASE sr = "ESTABLISHED"
    BY <1>2, <2>1, <2>2, UpKeeps DEF WatchConnTry, Free, Points
  <2>3. CASE sr # "ESTABLISHED" /\ timeout
    <3>1. Close /\ sock_put /\ sockbusy' = FALSE
      BY <1>2, <2>3 DEF WatchConnTry
    <3>2. CommandType' /\ (sendsock => ~sockbusy)'
      BY <2>1, <3>1 DEF AtInv, TypeOK, CommandType
    <3> QED
      BY <2>1, <3>1, <3>2, CloseTypes, PutBack DEF Close, Points
  <2>4. CASE sr # "ESTABLISHED" /\ ~timeout
    BY <1>2, <2>1, <2>4, PcOnly DEF WatchConnTry, Free, Points, command
  <2> QED
    BY <2>2, <2>3, <2>4
<1> QED
  BY <1>1, <1>2

LEMMA WatchUdpSendKeeps == AtInv /\ WatchUdpSend => AtInv'
<1> SUFFICES ASSUME AtInv, WatchUdpSend PROVE AtInv'
  OBVIOUS
<1>1. CASE Skip("UDP_SEND", "udpSend", "command")
  BY <1>1, SkipKeeps DEF Free, Points
<1>2. CASE ~Skip("UDP_SEND", "udpSend", "command")
  <2>1. /\ pc = "udpSend" /\ pc' = "command" /\ "UDP_SEND" \in watch_sock
        /\ watch_sock' = Cleared("UDP_SEND") /\ sockbusy' = FALSE
        /\ UNCHANGED <<sockstat, connected, sendsock, chip>>
    BY <1>2 DEF WatchUdpSend, Goto
  <2>2. TypeOK'
    <3>1. AllocType'
      BY <2>1 DEF AtInv, TypeOK, AllocType, IsTcp, Cleared
    <3>2. CommandType'
      BY <2>1 DEF AtInv, TypeOK, CommandType
    <3>3. ChipType'
      BY <2>1 DEF AtInv, TypeOK, ChipType, chip
    <3> QED
      BY <2>1, <3>1, <3>2, <3>3 DEF TypeOK, Points
  <2>3. ReleasedIsClosed' /\ BusyInv' /\ Places'
    BY <2>1 DEF AtInv, ReleasedIsClosed, BusyInv, Awaiting, OneTry, Tries, Places, Cleared, chip
  <2>4. NothingMissed' /\ Watches' /\ Roles'
    BY <2>1 DEF AtInv, NothingMissed, Accepts, Connects, Carries, Watches, Roles, IsTcp, Cleared, chip
  <2> QED
    BY <2>2, <2>3, <2>4 DEF AtInv
<1> QED
  BY <1>1, <1>2

LEMMA WatchdogKeeps == AtInv /\ Watchdog => AtInv'
<1> SUFFICES ASSUME AtInv, Watchdog PROVE AtInv'
  OBVIOUS
<1>1. pc' = "data" /\ sock_put /\ sockbusy' = FALSE /\ sendsock' = FALSE /\ Close
  BY DEF Watchdog
<1>2. CommandType' /\ (sendsock => ~sockbusy)'
  BY <1>1 DEF CommandType
<1> QED
  BY <1>1, <1>2, CloseTypes, PutBack DEF Close, Points

-----------------------------------------------------------------------------
(* Theorems *)

LEMMA InitInv == Init => AtInv
<1> SUFFICES ASSUME Init PROVE AtInv
  OBVIOUS
<1>1. TypeOK
  BY DEF Init, TypeOK, AllocType, CommandType, ChipType, IsTcp, Status, Points
<1>2. ReleasedIsClosed /\ BusyInv /\ NothingMissed /\ Watches /\ Roles /\ Places
  BY DEF Init, ReleasedIsClosed, BusyInv, Awaiting, OneTry, NothingMissed, Accepts, Connects,
    Carries, Watches, Roles, Places
<1> QED
  BY <1>1, <1>2 DEF AtInv

LEMMA Invariant == Spec => []AtInv
<1>1. AtInv /\ [Next]_vars => AtInv'
  <2> SUFFICES ASSUME AtInv, [Next]_vars PROVE AtInv'
    OBVIOUS
  <2>1. CASE Commands
    <3>1. CASE SendData
      BY <3>1, SendTcpKeeps, SendUdpKeeps DEF SendData
    <3>2. CASE NoCommand
      BY <3>2, PcOnly DEF NoCommand, Goto, Free, Points
    <3> QED
      BY <2>1, <3>1, <3>2, NopenKeeps, NcloseTcpKeeps, NcloseUdpKeeps, NsendKeeps, MdataKeeps
        DEF Commands
  <2>2. CASE Waits
    BY <2>2, WaitCloseKeeps, WaitFalls DEF Waits, WaitData, WaitCls, Goto, Free, Points, Stuck
  <2>3. CASE Sockwatch
    BY <2>3, WatchRecvKeeps, WatchClsEvtKeeps, WatchConnEvtKeeps, WatchClsTryKeeps,
      WatchClsTryIrKeeps, WatchConnTryKeeps, WatchUdpSendKeeps DEF Sockwatch
  <2>4. CASE UNCHANGED vars
    <3>1. /\ UNCHANGED <<alloc, command, chip>> /\ pc' = pc
      BY <2>4 DEF vars
    <3>2. ChipType' /\ Places' /\ pc' \in Points
      BY <3>1 DEF AtInv, TypeOK, ChipType, Status, Places, IsTcp, alloc, command, chip
    <3> QED
      BY <3>1, <3>2, ChipFalls DEF chip
  <2> QED
    BY <2>1, <2>2, <2>3, <2>4, NetworkKeeps, LeaveKeeps, TriggerKeeps, WatchdogKeeps DEF Next
<1> QED
  BY <1>1, InitInv, PTL DEF Spec

(* Every variable keeps its type, and a socket with the CONNECTED bit is a *)
(* TCP socket, as the readers of sockstat in cmdrun.c take it to be.      *)
THEOREM TypeCorrect == Spec => []TypeOK
<1>1. AtInv => TypeOK
  BY DEF AtInv
<1> QED
  BY <1>1, Invariant, PTL

(* sock_put is only ever called for a socket that is closed and that       *)
(* sockwatch_run does not watch any more.                                  *)
THEOREM ReleasedClosed == Spec => []ReleasedIsClosed
<1>1. AtInv => ReleasedIsClosed
  BY DEF AtInv
<1> QED
  BY <1>1, Invariant, PTL

(* One command at most waits for sockwatch_run to answer it, and sockbusy  *)
(* refuses the others; act_nclose's second disconnect does not block.      *)
THEOREM OneAnswer == Spec => []TriesAreBusy
<1>1. AtInv => TriesAreBusy
  <2> SUFFICES ASSUME AtInv PROVE TriesAreBusy
    OBVIOUS
  <2>1. Cardinality(watch_sock \cap Tries) <= 1
    <3>1. CASE watch_sock \cap Tries = {}
      BY <3>1, FS_EmptySet
    <3>2. CASE \E a \in watch_sock \cap Tries : TRUE
      <4>1. PICK a \in watch_sock \cap Tries : TRUE
        BY <3>2
      <4>2. watch_sock \cap Tries = {a}
        BY <4>1 DEF AtInv, BusyInv, OneTry
      <4> QED
        BY <4>2, FS_Singleton
    <3> QED
      BY <3>1, <3>2
  <2>2. /\ Awaiting => sockbusy
        /\ pc = "clsTryIr" => mr = "TCP" /\ nonblock
    BY DEF AtInv, BusyInv, Places
  <2> QED
    BY <2>1, <2>2 DEF TriesAreBusy
<1> QED
  BY <1>1, Invariant, PTL

(* Whatever can still happen to the socket is watched for: sockwatch_clr   *)
(* and sockwatch_set keep the watches in step with the connection.         *)
THEOREM EverythingWatched == Spec => []NothingMissed
<1>1. AtInv => NothingMissed
  BY DEF AtInv
<1> QED
  BY <1>1, Invariant, PTL
=============================================================================
