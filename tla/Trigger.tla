------------------------------- MODULE Trigger -------------------------------
(***************************************************************************)
(* What the data mode does with the bytes of the serial side: the packing  *)
(* conditions of uart_to_ether and the guard-time state machine of the     *)
(* serial command trigger (S2E.c), both driven by the millisecond timer    *)
(* interrupt (timerHandler.c), over the bytes in rxring and the socket     *)
(* coming up and going down.                                               *)
(*                                                                         *)
(* RingBuffer_SerachPattern subtracts the offset from the count in 32 bits *)
(* without a sign, so that an offset behind the data makes it look through *)
(* bytes that are no longer there; what it finds is left open.  Bytes that *)
(* find the ring full are the subject of UartRing; the connection is taken *)
(* as authenticated.  pattern_cnt is pattern_offset wherever it is read.   *)
(***************************************************************************)
EXTENDS Integers, Sequences, FiniteSets

CONSTANTS
  Size,       \* bytes rxring holds (UART_RRB_SIZE)
  Chars,      \* the bytes that arrive
  Code,       \* serial_trigger: three bytes
  Guard,      \* milliseconds of silence around the code (500)
  Configs     \* records of the settings: see Settings

Settings == [packing_size: 0..Size, packing_time: Nat, packing_delimiter: Seq(Chars),
             packing_data_appendix: 0..2, mixed: BOOLEAN, serial_command: BOOLEAN]

ASSUME TriggerAssumption ==
  /\ Size \in Nat /\ Size >= 3 /\ Guard \in Nat \ {0}
  /\ Code \in Seq(Chars) /\ Len(Code) = 3
  /\ \A c \in Configs : c \in Settings

VARIABLES
  config,                         \* the settings, which this module does not change
  rxring,                         \* the bytes waiting, oldest first
  up,                             \* the socket is ESTABLISHED or UDP
  sock_up,                        \* it was when s2e_run looked
  trigger_state, trigger_flag, trigger_time,
  uart_size_prev, ready_cnt, pattern_offset,
  nagle_flag, nagle_time, uart_recv_count,
  read_len,                       \* uart_read_len of the pass
  pc                              \* where the main loop is

link == <<up, sock_up>>
trigger == <<trigger_state, trigger_flag, trigger_time, uart_size_prev, ready_cnt>>
nagle == <<nagle_flag, nagle_time, uart_recv_count>>
vars == <<config, rxring, link, trigger, pattern_offset, nagle, read_len, pc>>

Init ==
  /\ config \in Configs
  /\ rxring = <<>> /\ up = FALSE /\ sock_up = FALSE
  /\ trigger_state = "NONE" /\ trigger_flag = 0 /\ trigger_time = 0
  /\ uart_size_prev = 0 /\ ready_cnt = 0 /\ pattern_offset = 0
  /\ nagle_flag = FALSE /\ nagle_time = 0 /\ uart_recv_count = 0
  /\ read_len = 0 /\ pc = "top"

-----------------------------------------------------------------------------
(* rxring *)

Count == Len(rxring)

Pop(n) == rxring' = SubSeq(rxring, n + 1, Count)
Flush == rxring' = <<>>

SerialByte ==
  /\ pc # "hang" /\ Count < Size
  /\ \E c \in Chars : rxring' = Append(rxring, c)
  /\ UNCHANGED <<config, link, trigger, pattern_offset, nagle, read_len, pc>>

(* RingBuffer_SerachPattern: the end of the first match from an offset on. *)
(* A count below the offset leaves 2^32 less the difference to look        *)
(* through: all of the storage, where any place may match, or none, again  *)
(* and again.                                                              *)
Endless == -1
Matches_Short(at, string) == \A k \in 1..Len(string)-1 : rxring[at + k] = string[k]
Matches(at, string) == \A k \in 1..Len(string) : rxring[at + k] = string[k]
Found(offset, string) == {at \in offset..(Count - Len(string)) : Matches(at, string)}
Ends(offset, string) ==
  {at + Len(string) :
     at \in {n \in Found(offset, string) : \A m \in Found(offset, string) : n <= m}}
FirstEnd(offset, string) ==
  IF Ends(offset, string) = {} THEN 0 ELSE CHOOSE n \in Ends(offset, string) : TRUE
Search(offset, string) ==
  IF offset <= Count
    THEN {FirstEnd(offset, string)}
    ELSE {Endless} \cup {offset + Len(string) + i : i \in 0..Size-1}
CodeStart(n) == SubSeq(Code, 1, n)

(* Far stands for every offset that stays beyond any count when a search   *)
(* begins up to two bytes before it.                                       *)
Far == Size + 3
Offset(n) == IF n < Far THEN n ELSE Far

-----------------------------------------------------------------------------
(* The socket, and the timer interrupt *)

Link ==
  /\ pc \notin {"command", "hang"} /\ up' = ~up
  /\ UNCHANGED <<config, rxring, sock_up, trigger, pattern_offset, nagle, read_len, pc>>

NagleTick ==
  LET quiet == Count # 0 /\ Count = uart_recv_count
      time == IF quiet THEN nagle_time + 1 ELSE 0
      over == time >= config.packing_time
  IN IF ~nagle_flag /\ config.packing_time # 0
       THEN /\ nagle_flag' = over
            /\ nagle_time' = IF over THEN 0 ELSE time
            /\ uart_recv_count' = Count
       ELSE UNCHANGED nagle

TriggerTick_NoReset ==
  LET time == IF trigger_flag = 1 THEN trigger_time + 1 ELSE trigger_time
  IN /\ trigger_flag' = IF time >= Guard THEN 2 ELSE trigger_flag
     /\ trigger_time' = time

TriggerTick ==
  LET time == IF trigger_flag = 1 THEN trigger_time + 1 ELSE trigger_time
  IN /\ trigger_flag' = IF time >= Guard THEN 2 ELSE trigger_flag
     /\ trigger_time' = IF time >= Guard THEN 0 ELSE time

Tick ==
  /\ pc # "hang" /\ NagleTick /\ TriggerTick
  /\ UNCHANGED <<config, rxring, link, trigger_state, uart_size_prev, ready_cnt, pattern_offset,
                 read_len, pc>>

-----------------------------------------------------------------------------
(* The serial command trigger *)

Goto(a, b) == pc = a /\ pc' = b
In(state) == config.serial_command /\ trigger_state = state

ReadStatus ==
  /\ Goto("top", "trigger") /\ sock_up' = up
  /\ UNCHANGED <<config, rxring, up, trigger, pattern_offset, nagle, read_len>>

Unused == ~sock_up /\ ~config.mixed  \* nobody to send to: input is thrown away

TriggerOff ==
  /\ Goto("trigger", "look") /\ ~config.serial_command
  /\ IF Unused THEN Flush /\ uart_size_prev' = 0 ELSE UNCHANGED <<rxring, uart_size_prev>>
  /\ UNCHANGED <<config, link, trigger_state, trigger_flag, trigger_time, ready_cnt, pattern_offset,
                 nagle, read_len>>

TriggerNone ==
  /\ Goto("trigger", "look") /\ In("NONE")
  /\ \/ /\ trigger_flag = 2 /\ trigger_state' = "READY" /\ trigger_flag' = 0
        /\ uart_size_prev' = Count /\ UNCHANGED <<rxring, trigger_time>>
     \/ /\ trigger_flag # 2 /\ uart_size_prev = Count /\ trigger_flag' = 1
        /\ UNCHANGED <<rxring, trigger_state, trigger_time, uart_size_prev>>
     \/ /\ trigger_flag # 2 /\ uart_size_prev # Count
        /\ trigger_flag' = 0 /\ trigger_time' = 0 /\ UNCHANGED trigger_state
        /\ IF Unused THEN Flush /\ uart_size_prev' = 0
                     ELSE uart_size_prev' = Count /\ UNCHANGED rxring
  /\ UNCHANGED <<config, link, ready_cnt, pattern_offset, nagle, read_len>>

(* A byte came that is not the next one of the code.                       *)
Dismissed ==
  /\ trigger_state' = "NONE"
  /\ trigger_flag' = 0 /\ trigger_time' = 0 /\ uart_size_prev' = 0

TriggerReady ==
  /\ pc = "trigger" /\ In("READY")
  /\ \E len \in Search(pattern_offset, CodeStart(1)) :
        \/ len = Endless /\ pc' = "hang" /\ UNCHANGED <<trigger, pattern_offset>>
        \/ /\ len = 0 /\ pc' = "ready"
           /\ UNCHANGED <<trigger, pattern_offset>>
        \/ /\ len > 0 /\ pc' = "look"
           /\ pattern_offset' = Offset(len)
           /\ trigger_state' = "1" /\ trigger_time' = 0 /\ uart_size_prev' = 0
           /\ trigger_flag' = 1 /\ UNCHANGED ready_cnt
  /\ UNCHANGED <<config, rxring, link, nagle, read_len>>

ReadyCount_NoCount ==
  /\ Goto("ready", "look") /\ UNCHANGED ready_cnt
  /\ IF uart_size_prev # Count
       THEN Dismissed
       ELSE UNCHANGED <<trigger_state, trigger_flag, trigger_time, uart_size_prev>>
  /\ UNCHANGED <<config, rxring, link, pattern_offset, nagle, read_len>>

(* The rest of trigger_ready_process, after bytes that came meanwhile.     *)
ReadyCount ==
  /\ Goto("ready", "look") /\ ready_cnt' = Count
  /\ IF uart_size_prev # Count
       THEN Dismissed
       ELSE UNCHANGED <<trigger_state, trigger_flag, trigger_time, uart_size_prev>>
  /\ UNCHANGED <<config, rxring, link, pattern_offset, nagle, read_len>>

(* A part of the code, then nothing.                                       *)
TriggerPart ==
  /\ pc = "trigger" /\ (In("1") \/ In("2"))
  /\ \/ /\ trigger_flag = 2 /\ pc' = "look"
        /\ trigger_state' = "NONE" /\ trigger_flag' = 0 /\ uart_size_prev' = 0
        /\ UNCHANGED <<trigger_time, ready_cnt>>
     \/ trigger_flag # 2 /\ pc' = "search" /\ UNCHANGED trigger
  /\ UNCHANGED <<config, rxring, link, pattern_offset, nagle, read_len>>

(* States 1 and 2 look for one byte more, from the first of the code on.   *)
SearchPart ==
  /\ pc = "search"
  /\ LET seen == IF trigger_state = "1" THEN 1 ELSE 2
     IN \E len \in Search(pattern_offset - seen, CodeStart(seen + 1)) :
        LET next == len = pattern_offset + 1 IN
        \/ len = Endless /\ pc' = "hang" /\ UNCHANGED <<trigger, pattern_offset>>
        \/ /\ next /\ pc' = "look"
           /\ pattern_offset' = Offset(len) /\ trigger_time' = 0
           /\ \/ seen = 1 /\ trigger_state' = "2" /\ UNCHANGED uart_size_prev
              \/ seen = 2 /\ trigger_state' = "3" /\ uart_size_prev' = Count
           /\ UNCHANGED <<trigger_flag, ready_cnt>>
        \/ /\ len # Endless /\ ~next /\ pc' = "part"
           /\ UNCHANGED <<trigger, pattern_offset>>
  /\ UNCHANGED <<config, rxring, link, nagle, read_len>>

(* The count is read again: a byte that came since the search is dismissed *)
(* unseen, the next one of the code too.                                   *)
PartCount ==
  /\ Goto("part", "look") /\ UNCHANGED ready_cnt
  /\ IF pattern_offset < Count
       THEN Dismissed
       ELSE UNCHANGED <<trigger_state, trigger_flag, trigger_time, uart_size_prev>>
  /\ UNCHANGED <<config, rxring, link, pattern_offset, nagle, read_len>>

(* The whole code: the command mode after the guard time, unless a byte    *)
(* came.                                                                   *)
TriggerWhole ==
  /\ Goto("trigger", "look") /\ In("3") /\ trigger_flag # 2
  /\ IF pattern_offset < Count \/ uart_size_prev # Count
       THEN Dismissed
       ELSE UNCHANGED <<trigger_state, trigger_flag, trigger_time, uart_size_prev>>
  /\ UNCHANGED <<config, rxring, link, ready_cnt, pattern_offset, nagle, read_len>>
EnterCommands ==
  /\ Goto("trigger", "command") /\ In("3") /\ trigger_flag = 2
  /\ trigger_state' = "NONE" /\ trigger_flag' = 0 /\ uart_size_prev' = 0
  /\ pattern_offset' = 0 /\ Flush /\ up' = FALSE /\ sock_up' = FALSE
  /\ UNCHANGED <<config, trigger_time, ready_cnt, nagle, read_len>>

-----------------------------------------------------------------------------
(* uart_to_ether *)

BySize == config.packing_size # 0
ByTime == config.packing_time # 0
ByDelimiter == config.packing_delimiter # <<>>

SizeMet == BySize /\ Count >= config.packing_size
TimeMet == ByTime /\ nagle_flag
(* Where the packet ends by its delimiter, with the appendix; 0: it does   *)
(* not.                                                                    *)
DelimiterEnd == FirstEnd(0, config.packing_delimiter)
PacketEnd == DelimiterEnd + config.packing_data_appendix
EndsByDelimiter ==
  ByDelimiter /\ DelimiterEnd # 0 /\ (SizeMet => PacketEnd < config.packing_size)
DelimiterMet == ByDelimiter /\ DelimiterEnd # 0 /\ (EndsByDelimiter => Count >= PacketEnd)

Due == (BySize \/ ByTime \/ ByDelimiter) => (SizeMet \/ TimeMet \/ DelimiterMet)

ReadLength_NoAppendix ==
  IF EndsByDelimiter THEN DelimiterEnd ELSE IF SizeMet THEN config.packing_size ELSE Size

ReadLength ==
  IF EndsByDelimiter THEN PacketEnd ELSE IF SizeMet THEN config.packing_size ELSE Size

(* Bytes that may be part of the code are kept.                            *)
Held == trigger_state \notin {"NONE", "READY"}

Look ==
  /\ pc = "look"
  /\ IF /\ sock_up /\ Count > 0 /\ ~Held /\ Due
        /\ trigger_state = "READY" => ready_cnt = Count
        /\ up
       THEN pc' = "take" /\ read_len' = ReadLength
       ELSE pc' = "top" /\ UNCHANGED read_len
  /\ sock_up' = FALSE  \* a local variable
  /\ UNCHANGED <<config, rxring, up, trigger, pattern_offset, nagle>>

(* Bytes may have come since the look, but none have gone.                 *)
Taken == IF read_len < Count THEN read_len ELSE Count

Take_KeepOffset ==
  /\ Goto("take", "send") /\ Pop(Taken) /\ read_len' = 0
  /\ UNCHANGED <<config, link, trigger, pattern_offset, nagle>>

Take ==
  /\ Goto("take", "send") /\ Pop(Taken) /\ read_len' = 0
  /\ pattern_offset' = 0
  /\ UNCHANGED <<config, link, trigger, nagle>>

(* What send refuses, because it is busy or the connection has gone, is    *)
(* lost, and the packing timer goes on as it was.                          *)
Send ==
  /\ Goto("send", "top")
  /\ \/ up /\ nagle_flag' = FALSE /\ nagle_time' = 0 /\ uart_recv_count' = 0
     \/ UNCHANGED nagle
  /\ UNCHANGED <<config, rxring, link, trigger, pattern_offset, read_len>>

-----------------------------------------------------------------------------
(* The command mode takes the bytes one by one; MDATA ends it.             *)
ReadCommand ==
  /\ pc = "command" /\ Count > 0 /\ Pop(1)
  /\ UNCHANGED <<config, link, trigger, pattern_offset, nagle, read_len, pc>>
Mdata ==
  /\ Goto("command", "top") /\ Flush
  /\ UNCHANGED <<config, link, trigger, pattern_offset, nagle, read_len>>

(* Only the main loop reloads the watchdog.                                *)
Watchdog ==
  /\ pc = "hang"
  /\ rxring' = <<>> /\ up' = FALSE /\ sock_up' = FALSE
  /\ trigger_state' = "NONE" /\ trigger_flag' = 0 /\ trigger_time' = 0
  /\ uart_size_prev' = 0 /\ ready_cnt' = 0 /\ pattern_offset' = 0
  /\ nagle_flag' = FALSE /\ nagle_time' = 0 /\ uart_recv_count' = 0
  /\ read_len' = 0 /\ pc' = "top"
  /\ UNCHANGED config

-----------------------------------------------------------------------------
MainStep ==
  \/ ReadStatus \/ TriggerOff \/ TriggerNone \/ TriggerReady \/ ReadyCount \/ TriggerPart
  \/ SearchPart \/ PartCount \/ TriggerWhole \/ EnterCommands \/ Look \/ Take \/ Send

Next == MainStep \/ SerialByte \/ Link \/ Tick \/ ReadCommand \/ Mdata \/ Watchdog

Spec == Init /\ [][Next]_vars

(* The main loop and the timer go on; no byte has to come, and the command *)
(* mode may last.                                                          *)
FairSpec == Spec /\ WF_vars(MainStep) /\ WF_vars(Tick) /\ WF_vars(Watchdog)
-----------------------------------------------------------------------------
(* Properties *)

(* Every variable keeps its type.                                          *)
TypeOK ==
  /\ config \in Configs
  /\ rxring \in Seq(Chars) /\ Count <= Size
  /\ up \in BOOLEAN /\ sock_up \in BOOLEAN
  /\ trigger_state \in {"NONE", "READY", "1", "2", "3"}
  /\ trigger_flag \in 0..2 /\ trigger_time \in 0..Guard-1
  /\ uart_size_prev \in 0..Size /\ ready_cnt \in 0..Size
  /\ pattern_offset \in 0..Far
  /\ nagle_flag \in BOOLEAN /\ nagle_time \in Nat /\ uart_recv_count \in 0..Size
  /\ read_len \in 0..(Size + 2)
  /\ pc \in {"top", "trigger", "ready", "search", "part", "look", "take", "send", "command",
             "hang"}

(* The offset the search starts from lies within the data, and no search   *)
(* is endless, where the ring is only ever emptied by sending: in mixed    *)
(* mode.  In the other modes the flush of input that nobody listens to     *)
(* leaves the offset behind.                                               *)
OffsetInData == config.mixed => pattern_offset <= Count /\ pc # "hang"

(* Where the trigger is about to give up the connection for the command    *)
(* mode, the three bytes of the code are in the ring, in order and next to *)
(* each other, if its offset lies within the data it has counted: in mixed *)
(* mode always.  In the others a flush leaves the offset behind, and from  *)
(* an offset behind the data the search finds whatever the storage still   *)
(* holds, bytes that were sent as data included: there nobody need have    *)
(* typed the code.                                                         *)
CodeSeen ==
  trigger_state = "3" /\ (config.mixed \/ pattern_offset <= uart_size_prev) =>
    /\ 3 <= pattern_offset /\ uart_size_prev <= Count
    /\ SubSeq(rxring, pattern_offset - 2, pattern_offset) = Code

(* A packet is what the settings ask for, whatever arrived between the     *)
(* look at the ring and the read: with a size alone, that many bytes; with *)
(* a delimiter alone, everything up to the first delimiter and as many     *)
(* bytes after it as are wanted.                                           *)
Packet == Count - Len(rxring')
FirstDelimiter(n) ==
  LET length == Len(config.packing_delimiter)
      At(m) == m >= length /\ SubSeq(rxring, m - length + 1, m) = config.packing_delimiter
  IN At(n) /\ \A m \in 1..n-1 : ~At(m)
PacketsAsConfigured ==
  [][Take =>
       /\ BySize /\ ~ByTime /\ ~ByDelimiter => Packet = config.packing_size
       /\ ByDelimiter /\ ~ByTime /\ ~BySize =>
            FirstDelimiter(Packet - config.packing_data_appendix)]_vars

(* Bytes for which a packing condition is met are sent while the socket    *)
(* stays up, whatever the trigger takes them for: it never keeps for long  *)
(* what turns out to be no code.                                           *)
DataGoes == []<>(pc \in {"send", "command", "hang"} \/ Count = 0 \/ ~up \/ ~Due)
=============================================================================
