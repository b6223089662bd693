--------------------------- MODULE Trigger_proofs ---------------------------
(***************************************************************************)
(* Safety of the packing and of the serial trigger for every ring size,    *)
(* trigger code, guard time and settings.                                  *)
(***************************************************************************)
EXTENDS Trigger, SequenceTheorems, TLAPS

-----------------------------------------------------------------------------
(* The inductive invariant.  Beside the properties it says in which states *)
(* of the trigger each place of the main loop is reached, and that a       *)
(* packet whose length has been decided is in the ring.                    *)

RingType == rxring \in Seq(Chars) /\ Count <= Size
StateType ==
  /\ trigger_state \in {"NONE", "READY", "1", "2", "3"}
  /\ trigger_flag \in 0..2 /\ trigger_time \in 0..Guard-1
SizesType == uart_size_prev \in 0..Size /\ ready_cnt \in 0..Size
OffsetType == pattern_offset \in 0..Far
NagleType == nagle_flag \in BOOLEAN /\ nagle_time \in Nat /\ uart_recv_count \in 0..Size
PassType ==
  /\ config \in Configs
  /\ up \in BOOLEAN /\ sock_up \in BOOLEAN
  /\ read_len \in 0..(Size + 2)
  /\ pc \in {"top", "trigger", "ready", "search", "part", "look", "take", "send", "command",
            "hang"}

Places ==
  /\ trigger_state # "NONE" => config.serial_command
  /\ pc \in {"take", "send"} => trigger_state \in {"NONE", "READY"}
  /\ pc \in {"search", "part"} => trigger_state \in {"1", "2"}
  /\ pc = "command" => trigger_state = "NONE" /\ pattern_offset = 0

CodeBegun ==
  /\ trigger_state = "1" => pattern_offset >= 1
  /\ trigger_state = "2" => pattern_offset >= 2

(* What the count taken with the last byte of the code says: in mixed mode *)
(* the search ended within the data, and wherever it did the code is there.*)
CodeInRing ==
  trigger_state = "3" =>
    /\ config.mixed => pattern_offset <= uart_size_prev
    /\ pattern_offset <= uart_size_prev =>
         /\ 3 <= pattern_offset /\ uart_size_prev <= Count
         /\ SubSeq(rxring, pattern_offset - 2, pattern_offset) = Code

OnlySize == BySize /\ ~ByTime /\ ~ByDelimiter
OnlyDelimiter == ByDelimiter /\ ~ByTime /\ ~BySize
PacketReady ==
  pc = "take" =>
    /\ OnlySize => read_len = config.packing_size /\ read_len <= Count
    /\ OnlyDelimiter =>
         /\ read_len <= Count
         /\ read_len - config.packing_data_appendix \in 1..Count
         /\ FirstDelimiter(read_len - config.packing_data_appendix)

Types == RingType /\ StateType /\ SizesType /\ OffsetType /\ NagleType /\ PassType
Inv == Types /\ Places /\ CodeBegun /\ OffsetInData /\ CodeInRing /\ PacketReady

-----------------------------------------------------------------------------
(* The ring and the search *)

LEMMA Zeros == 0 \in 0..Size /\ 0 \in 0..Far /\ 0 \in 0..Guard-1 /\ 0 \in 0..(Size + 2)
BY TriggerAssumption DEF Far

LEMMA CountType == RingType => Count \in 0..Size
BY TriggerAssumption, LenProperties DEF RingType, Count

LEMMA SettingsType ==
  ASSUME PassType
  PROVE  /\ config.packing_size \in 0..Size /\ config.packing_time \in Nat
         /\ config.packing_delimiter \in Seq(Chars)
         /\ config.packing_data_appendix \in 0..2
BY TriggerAssumption DEF PassType, Settings

LEMMA PopRing ==
  ASSUME RingType, NEW n \in 0..Count, Pop(n)
  PROVE  RingType' /\ Len(rxring') = Count - n
<1>1. Count \in 0..Size
  BY CountType
<1>2. \A i \in n+1..Count : rxring[i] \in Chars
  BY <1>1, ElementOfSeq DEF RingType, Count
<1>3. /\ SubSeq(rxring, n + 1, Count) \in Seq(Chars)
      /\ Len(SubSeq(rxring, n + 1, Count)) = IF n + 1 <= Count THEN Count - (n + 1) + 1 ELSE 0
  BY <1>1, <1>2, SubSeqProperties
<1>4. Len(SubSeq(rxring, n + 1, Count)) = Count - n
  BY <1>1, <1>3
<1>5. Count' = Count - n
  BY <1>4 DEF Pop, Count
<1> QED
  BY <1>1, <1>3, <1>5, TriggerAssumption DEF Pop, RingType, Count

LEMMA FlushRing == ASSUME Flush PROVE RingType' /\ Count' = 0
BY TriggerAssumption DEF Flush, RingType, Count

LEMMA MatchIsSubSeq ==
  ASSUME NEW s \in Seq(Chars), NEW string \in Seq(Chars), NEW at \in Nat,
         at + Len(string) <= Len(s)
  PROVE  SubSeq(s, at + 1, at + Len(string)) = string
         <=> \A k \in 1..Len(string) : s[at + k] = string[k]
<1> DEFINE t == SubSeq(s, at + 1, at + Len(string))
<1>1. Len(string) \in Nat /\ Len(s) \in Nat
  BY LenProperties
<1>2. \A i \in at+1..at+Len(string) : s[i] \in Chars
  BY <1>1, ElementOfSeq
<1>3. /\ t \in Seq(Chars) /\ Len(t) = Len(string)
      /\ \A i \in 1..Len(string) : t[i] = s[at + i]
  <2> DEFINE m == at + 1
             n == at + Len(string)
  <2>1. m \in Int /\ n \in Int /\ n - m + 1 = Len(string) /\ \A i \in 1..Len(string) : m + i - 1 = at + i
    BY <1>1
  <2>2. /\ SubSeq(s, m, n) \in Seq(Chars) /\ Len(SubSeq(s, m, n)) = IF m <= n THEN n - m + 1 ELSE 0
        /\ \A i \in 1..n-m+1 : SubSeq(s, m, n)[i] = s[m + i - 1]
    <3> HIDE DEF m, n
    <3> QED
      BY <1>2, <2>1, SubSeqProperties DEF m, n
  <2> QED
    BY <1>1, <2>1, <2>2
<1>4. t = string <=> \A k \in 1..Len(string) : t[k] = string[k]
  BY <1>3, SeqEqual
<1> QED
  BY <1>3, <1>4

(* What is in the ring stays where it is while bytes arrive.               *)
LEMMA AppendKeeps ==
  ASSUME NEW s \in Seq(Chars), NEW c \in Chars, NEW string \in Seq(Chars), NEW at \in Nat,
         at + Len(string) <= Len(s)
  PROVE  SubSeq(Append(s, c), at + 1, at + Len(string)) = string
         <=> SubSeq(s, at + 1, at + Len(string)) = string
<1>1. /\ Append(s, c) \in Seq(Chars) /\ Len(Append(s, c)) = Len(s) + 1
      /\ \A i \in 1..Len(s) : Append(s, c)[i] = s[i]
  BY AppendProperties
<1>2. Len(string) \in Nat /\ Len(s) \in Nat
  BY LenProperties
<1>3. \A k \in 1..Len(string) : Append(s, c)[at + k] = s[at + k]
  BY <1>1, <1>2
<1>4. SubSeq(Append(s, c), at + 1, at + Len(string)) = string
      <=> \A k \in 1..Len(string) : Append(s, c)[at + k] = string[k]
  <2>1. at + Len(string) <= Len(Append(s, c))
    BY <1>1, <1>2
  <2> QED
    BY <1>1, <2>1, MatchIsSubSeq
<1>5. SubSeq(s, at + 1, at + Len(string)) = string
      <=> \A k \in 1..Len(string) : s[at + k] = string[k]
  BY MatchIsSubSeq
<1> QED
  BY <1>3, <1>4, <1>5

LEMMA FirstEndFound ==
  ASSUME NEW offset, NEW string, FirstEnd(offset, string) # 0
  PROVE  \E at \in Found(offset, string) :
           /\ FirstEnd(offset, string) = at + Len(string)
           /\ \A m \in Found(offset, string) : at <= m
BY DEF FirstEnd, Ends

LEMMA CodeStartType ==
  ASSUME NEW n \in 1..3
  PROVE  /\ CodeStart(n) \in Seq(Chars) /\ Len(CodeStart(n)) = n
         /\ \A i \in 1..n : CodeStart(n)[i] = Code[i]
<1>1. \A i \in 1..n : i \in 1..Len(Code)
  BY TriggerAssumption
<1>2. \A i \in 1..n : Code[i] \in Chars
  BY <1>1, TriggerAssumption, ElementOfSeq
<1> QED
  BY <1>2, SubSeqProperties DEF CodeStart

(* Where the offset lies within the data, the search ends within it too.   *)
LEMMA SearchInData ==
  ASSUME RingType, NEW offset \in Nat, offset <= Count, NEW n \in 1..3,
         NEW len \in Search(offset, CodeStart(n)), len # 0
  PROVE  /\ len \in 1..Count /\ len >= offset + n
         /\ \A k \in 1..n : rxring[len - n + k] = Code[k]
<1>1. len = FirstEnd(offset, CodeStart(n))
  BY DEF Search
<1>2. PICK at \in Found(offset, CodeStart(n)) : len = at + n
  BY <1>1, FirstEndFound, CodeStartType
<1>3. at \in offset..(Count - n) /\ \A k \in 1..n : rxring[at + k] = CodeStart(n)[k]
  BY <1>2, CodeStartType DEF Found, Matches
<1>4. len - n = at /\ len \in 1..Count /\ len >= offset + n
  BY <1>2, <1>3, CountType
<1>5. \A k \in 1..n : rxring[at + k] = Code[k]
  BY <1>3, CodeStartType
<1> QED
  BY <1>4, <1>5

LEMMA SearchType ==
  ASSUME RingType, NEW offset \in Nat, NEW n \in 1..3, NEW len \in Search(offset, CodeStart(n))
  PROVE  len \in Nat \cup {Endless}
<1>1. CASE offset <= Count
  BY <1>1, SearchInData, CountType
<1>2. CASE ~(offset <= Count)
  BY <1>2, CodeStartType, TriggerAssumption DEF Search
<1> QED
  BY <1>1, <1>2

LEMMA OffsetOf ==
  ASSUME NEW n \in Nat
  PROVE  Offset(n) \in 0..Far /\ (n <= Size => Offset(n) = n) /\ Offset(n) <= n
         /\ (Offset(n) = n \/ Offset(n) = Size + 3)
BY TriggerAssumption DEF Offset, Far

-----------------------------------------------------------------------------
(* Bytes that arrive *)

LEMMA CodeStays ==
  ASSUME Inv, NEW c \in Chars, rxring' = Append(rxring, c),
         UNCHANGED <<config, trigger_state, uart_size_prev, pattern_offset>>
  PROVE  CodeInRing'
<1> SUFFICES ASSUME trigger_state = "3", pattern_offset <= uart_size_prev
             PROVE  /\ 3 <= pattern_offset /\ uart_size_prev <= Count'
                    /\ SubSeq(rxring', pattern_offset - 2, pattern_offset) = Code
  BY DEF Inv, CodeInRing
<1>1. /\ 3 <= pattern_offset /\ uart_size_prev <= Count
      /\ SubSeq(rxring, pattern_offset - 2, pattern_offset) = Code
  BY DEF Inv, CodeInRing
<1>2. Count' = Count + 1 /\ Count \in Nat
  BY AppendProperties, CountType DEF Count, Inv, Types, RingType
<1>3. pattern_offset \in Nat /\ uart_size_prev \in Nat
  BY TriggerAssumption DEF Inv, Types, OffsetType, SizesType, Far
<1> DEFINE at == pattern_offset - 3
<1>4. at \in Nat /\ at + 1 = pattern_offset - 2 /\ at + Len(Code) = pattern_offset
  BY <1>1, <1>3, TriggerAssumption
<1>5. rxring \in Seq(Chars) /\ at + Len(Code) <= Len(rxring) /\ Code \in Seq(Chars)
  BY <1>1, <1>2, <1>3, <1>4, TriggerAssumption DEF Inv, Types, RingType, Count
<1> HIDE DEF at
<1>6. SubSeq(Append(rxring, c), at + 1, at + Len(Code)) = Code
  BY <1>1, <1>4, <1>5, AppendKeeps
<1>7. SubSeq(rxring', pattern_offset - 2, pattern_offset) = Code
  BY <1>4, <1>6
<1>8. uart_size_prev <= Count'
  BY <1>1, <1>2, <1>3
<1> QED
  BY <1>1, <1>7, <1>8

LEMMA DelimiterStays ==
  ASSUME Inv, NEW c \in Chars, rxring' = Append(rxring, c), UNCHANGED config,
         NEW n \in 1..Count, FirstDelimiter(n)
  PROVE  FirstDelimiter(n)'
<1> DEFINE d == config.packing_delimiter
           At(m) == m >= Len(d) /\ SubSeq(rxring, m - Len(d) + 1, m) = d
           AtNext(m) == m >= Len(d) /\ SubSeq(Append(rxring, c), m - Len(d) + 1, m) = d
<1>1. rxring \in Seq(Chars) /\ d \in Seq(Chars) /\ Len(d) \in Nat /\ Count \in Nat
  BY SettingsType, CountType, LenProperties DEF Inv, Types, RingType
<1>2. ASSUME NEW m \in 1..n
      PROVE  AtNext(m) <=> At(m)
  <2> SUFFICES ASSUME m >= Len(d)
               PROVE  SubSeq(Append(rxring, c), m - Len(d) + 1, m) = d
                      <=> SubSeq(rxring, m - Len(d) + 1, m) = d
    OBVIOUS
  <2> DEFINE at == m - Len(d)
  <2>1. at \in Nat /\ at + Len(d) = m /\ at + Len(d) <= Len(rxring) /\ m - Len(d) + 1 = at + 1
    BY <1>1 DEF Count
  <2> HIDE DEF at
  <2>2. SubSeq(Append(rxring, c), at + 1, at + Len(d)) = d
        <=> SubSeq(rxring, at + 1, at + Len(d)) = d
    BY <1>1, <2>1, AppendKeeps
  <2> QED
    BY <2>1, <2>2
<1>3. At(n) /\ \A m \in 1..n-1 : ~At(m)
  BY DEF FirstDelimiter
<1>4. n \in 1..n /\ \A m \in 1..n-1 : m \in 1..n
  BY <1>1
<1>5. AtNext(n) /\ \A m \in 1..n-1 : ~AtNext(m)
  <2> HIDE DEF At, AtNext
  <2> QED
    BY <1>2, <1>3, <1>4
<1> QED
  BY <1>5 DEF FirstDelimiter

LEMMA ByteArrives == Inv /\ SerialByte => Inv'
<1> SUFFICES ASSUME Inv, SerialByte PROVE Inv'
  OBVIOUS
<1>1. PICK c \in Chars : rxring' = Append(rxring, c)
  BY DEF SerialByte
<1>2. UNCHANGED <<config, link, trigger, pattern_offset, nagle, read_len, pc>>
  BY DEF SerialByte
<1>3. rxring' \in Seq(Chars) /\ Count' = Count + 1
  BY <1>1, AppendProperties DEF Inv, Types, RingType, Count
<1>4. RingType'
  BY <1>3, CountType, TriggerAssumption DEF SerialByte, Inv, Types, RingType
<1>5. Types'
  BY <1>2, <1>4 DEF Inv, Types, StateType, SizesType, OffsetType, NagleType, PassType, link, trigger,
    nagle
<1>6. Places' /\ CodeBegun'
  BY <1>2 DEF Inv, Places, CodeBegun, trigger
<1>7. OffsetInData'
  BY <1>2, <1>3, CountType, TriggerAssumption DEF Inv, Types, OffsetType, OffsetInData, Far
<1>8. CodeInRing'
  BY <1>1, <1>2, CodeStays DEF trigger
<1>9. PacketReady'
  <2>1. read_len \in Nat /\ Count \in Nat /\ (pc' = "take" => pc = "take") /\ UNCHANGED config
        /\ (OnlySize' <=> OnlySize) /\ (OnlyDelimiter' <=> OnlyDelimiter) /\ read_len' = read_len
    BY <1>2, CountType, TriggerAssumption DEF Inv, Types, PassType, OnlySize, OnlyDelimiter, BySize,
      ByTime, ByDelimiter
  <2>2. ASSUME pc' = "take", OnlySize
        PROVE  read_len = config.packing_size /\ read_len <= Count'
    BY <1>3, <2>1, <2>2 DEF Inv, PacketReady
  <2>3. ASSUME pc' = "take", OnlyDelimiter
        PROVE  /\ read_len <= Count'
               /\ read_len - config.packing_data_appendix \in 1..Count'
               /\ FirstDelimiter(read_len - config.packing_data_appendix)'
    BY <1>1, <1>3, <2>1, <2>3, DelimiterStays DEF Inv, PacketReady
  <2> QED
    BY <2>1, <2>2, <2>3 DEF PacketReady
<1> QED
  BY <1>5, <1>6, <1>7, <1>8, <1>9 DEF Inv

-----------------------------------------------------------------------------
(* The timer, the socket, and what else leaves the ring and the trigger's  *)
(* state alone.                                                            *)

LEMMA PacketStays ==
  ASSUME Inv, UNCHANGED <<config, rxring, read_len, pc>> PROVE PacketReady'
BY DEF Inv, PacketReady, OnlySize, OnlyDelimiter, BySize, ByTime, ByDelimiter, FirstDelimiter, Count

LEMMA PlacesStay ==
  ASSUME Inv, UNCHANGED <<config, rxring, trigger_state, uart_size_prev, pattern_offset>>,
         pc' \in {pc, "top", "trigger", "look"}
  PROVE  Places' /\ CodeBegun' /\ OffsetInData' /\ CodeInRing'
BY DEF Inv, Places, CodeBegun, OffsetInData, CodeInRing, Count

LEMMA TickKeeps == Inv /\ Tick => Inv'
<1> SUFFICES ASSUME Inv, Tick PROVE Inv'
  OBVIOUS
<1>1. Places' /\ CodeBegun' /\ OffsetInData' /\ CodeInRing' /\ PacketReady'
  BY PlacesStay, PacketStays DEF Tick
<1>2. nagle_flag' \in BOOLEAN /\ nagle_time' \in Nat /\ uart_recv_count' \in 0..Size
  <2>1. CASE ~nagle_flag /\ config.packing_time # 0
    <3> DEFINE time == IF Count # 0 /\ Count = uart_recv_count THEN nagle_time + 1 ELSE 0
               over == time >= config.packing_time
    <3>1. nagle_flag' = over /\ nagle_time' = IF over THEN 0 ELSE time
      BY <2>1, Zenon DEF Tick, NagleTick
    <3>2. uart_recv_count' = Count
      BY <2>1 DEF Tick, NagleTick
    <3>3. time \in Nat
      BY DEF Inv, Types, NagleType
    <3>4. over \in BOOLEAN
      OBVIOUS
    <3> HIDE DEF time, over
    <3> QED
      BY <3>1, <3>2, <3>3, <3>4, CountType DEF Inv, Types
  <2>2. CASE ~(~nagle_flag /\ config.packing_time # 0)
    BY <2>2 DEF Tick, NagleTick, Inv, Types, NagleType, nagle
  <2> QED
    BY <2>1, <2>2
<1>3. trigger_flag' \in 0..2 /\ trigger_time' \in 0..Guard-1
  BY TriggerAssumption DEF Tick, TriggerTick, Inv, Types, StateType
<1>4. Types'
  BY <1>2, <1>3 DEF Tick, Inv, Types, RingType, StateType, SizesType, OffsetType, NagleType, PassType,
    link, Count
<1> QED
  BY <1>1, <1>4 DEF Inv

LEMMA LinkKeeps == Inv /\ Link => Inv'
<1> SUFFICES ASSUME Inv, Link PROVE Inv'
  OBVIOUS
<1>1. Places' /\ CodeBegun' /\ OffsetInData' /\ CodeInRing' /\ PacketReady'
  BY PlacesStay, PacketStays DEF Link, trigger
<1>2. up' \in BOOLEAN
  BY Zenon DEF Link, Inv, Types, PassType
<1>3. Types'
  BY <1>2 DEF Link, Inv, Types, RingType, StateType, SizesType, OffsetType, NagleType, PassType,
    trigger, nagle, Count
<1> QED
  BY <1>1, <1>3 DEF Inv

LEMMA StutterKeeps == Inv /\ UNCHANGED vars => Inv'
<1> SUFFICES ASSUME Inv, UNCHANGED vars PROVE Inv'
  OBVIOUS
<1>1. Places' /\ CodeBegun' /\ OffsetInData' /\ CodeInRing' /\ PacketReady'
  BY PlacesStay, PacketStays DEF vars, trigger
<1>2. Types'
  BY DEF vars, Inv, Types, RingType, StateType, SizesType, OffsetType, NagleType, PassType, link,
    trigger, nagle, Count
<1> QED
  BY <1>1, <1>2 DEF Inv

LEMMA PassKeeps == Inv /\ (ReadStatus \/ Send) => Inv'
<1> SUFFICES ASSUME Inv, ReadStatus \/ Send PROVE Inv'
  OBVIOUS
<1>1. Places' /\ CodeBegun' /\ OffsetInData' /\ CodeInRing'
  BY PlacesStay DEF ReadStatus, Send, Goto, trigger
<1>2. CASE ReadStatus
  BY <1>1, <1>2 DEF ReadStatus, Goto, Inv, Types, RingType, StateType, SizesType, OffsetType,
    NagleType, PassType, PacketReady, trigger, nagle, Count
<1>3. CASE Send
  <2>1. /\ nagle_flag' \in {FALSE, nagle_flag} /\ nagle_time' \in {0, nagle_time}
        /\ uart_recv_count' \in {0, uart_recv_count}
    BY <1>3 DEF Send, nagle
  <2>2. nagle_flag' \in BOOLEAN
    BY <2>1, Zenon DEF Inv, Types, NagleType
  <2>3. NagleType'
    BY <2>1, <2>2, TriggerAssumption DEF Inv, Types, NagleType
  <2> QED
    BY <1>1, <1>3, <2>3 DEF Send, Goto, Inv, Types, RingType, StateType, SizesType, OffsetType,
      PassType, PacketReady, link, trigger, Count
<1> QED
  BY <1>2, <1>3

-----------------------------------------------------------------------------
(* The trigger *)

LEMMA OtherTypes ==
  ASSUME Types, UNCHANGED <<config, link, nagle, read_len>>, pc' \in {"look", "ready", "search", "part", "hang"}
  PROVE  NagleType' /\ PassType'
BY DEF Types, NagleType, PassType, link, nagle

LEMMA RingStays == RingType /\ UNCHANGED rxring => RingType' /\ Count' = Count
BY DEF RingType, Count

(* With nothing typed, what is left to show is that input is thrown away   *)
(* outside the mixed mode only.                                            *)
LEMMA IdleKeeps == Inv /\ (TriggerOff \/ TriggerNone) => Inv'
<1> SUFFICES ASSUME Inv, TriggerOff \/ TriggerNone PROVE Inv'
  OBVIOUS
<1>1. trigger_state = "NONE" /\ trigger_state' \in {"NONE", "READY"} /\ pc' = "look"
  BY DEF TriggerOff, TriggerNone, In, Goto, Inv, Places
<1>2. UNCHANGED <<config, link, ready_cnt, pattern_offset, nagle, read_len>>
  BY DEF TriggerOff, TriggerNone
<1>3. /\ UNCHANGED rxring \/ (Flush /\ ~config.mixed)
      /\ uart_size_prev' \in {0, uart_size_prev, Count}
  BY DEF TriggerOff, TriggerNone, Unused
<1>4. Count \in 0..Size
  BY CountType DEF Inv, Types
<1>5. RingType' /\ SizesType' /\ OffsetType'
  <2>1. RingType'
    BY <1>3, FlushRing, RingStays DEF Inv, Types
  <2>2. SizesType'
    BY <1>2, <1>3, <1>4, Zeros DEF Inv, Types, SizesType
  <2> QED
    BY <1>2, <2>1, <2>2 DEF Inv, Types, OffsetType
<1>6. StateType'
  BY <1>1, TriggerAssumption DEF TriggerOff, TriggerNone, Inv, Types, StateType
<1>7. Types'
  BY <1>1, <1>2, <1>5, <1>6, OtherTypes DEF Inv, Types
<1>8. Places' /\ CodeBegun' /\ CodeInRing' /\ PacketReady'
  BY <1>1, <1>2 DEF TriggerOff, TriggerNone, In, Inv, Places, CodeBegun, CodeInRing, PacketReady
<1>9. OffsetInData'
  BY <1>1, <1>2, <1>3, RingStays DEF Inv, Types, OffsetInData
<1> QED
  BY <1>7, <1>8, <1>9 DEF Inv

(* Steps that leave the ring alone and end the pass of the trigger with    *)
(* the state it had, or with NONE.                                         *)
LEMMA UndoneKeeps ==
  ASSUME Inv, UNCHANGED <<config, rxring, link, pattern_offset, nagle, read_len>>,
         pc' \in {"look", "ready", "search", "part"}, SizesType', StateType',
         \/ trigger_state' = "NONE" /\ pc' = "look"
         \/ /\ UNCHANGED <<trigger_state, uart_size_prev>>
            /\ pc' \in {"search", "part"} => trigger_state \in {"1", "2"}
  PROVE  Inv'
<1>1. RingType' /\ Count' = Count /\ OffsetType'
  BY RingStays DEF Inv, Types, OffsetType
<1>2. Types'
  BY <1>1, OtherTypes DEF Inv, Types
<1>3. Places' /\ CodeBegun' /\ OffsetInData' /\ PacketReady'
  BY <1>1 DEF Inv, Places, CodeBegun, OffsetInData, PacketReady
<1>4. CodeInRing'
  BY <1>1 DEF Inv, CodeInRing
<1> QED
  BY <1>2, <1>3, <1>4 DEF Inv

LEMMA CountKeeps == Inv /\ (ReadyCount \/ PartCount) => Inv'
<1> SUFFICES ASSUME Inv, ReadyCount \/ PartCount PROVE Inv'
  OBVIOUS
<1>1. UNCHANGED <<config, rxring, link, pattern_offset, nagle, read_len>> /\ pc' = "look"
  BY DEF ReadyCount, PartCount, Goto
<1>2. \/ trigger_state' = "NONE"
      \/ UNCHANGED <<trigger_state, uart_size_prev>>
  BY DEF ReadyCount, PartCount, Dismissed
<1>3. SizesType' /\ StateType'
  BY TriggerAssumption, CountType DEF ReadyCount, PartCount, Dismissed, Inv, Types, SizesType, StateType
<1> QED
  BY <1>1, <1>2, <1>3, UndoneKeeps

LEMMA PartKeeps == Inv /\ (TriggerPart \/ TriggerWhole) => Inv'
<1> SUFFICES ASSUME Inv, TriggerPart \/ TriggerWhole PROVE Inv'
  OBVIOUS
<1>1. UNCHANGED <<config, rxring, link, pattern_offset, nagle, read_len>> /\ pc' \in {"look", "search"}
  BY DEF TriggerPart, TriggerWhole, Goto
<1>2. \/ trigger_state' = "NONE" /\ pc' = "look"
      \/ UNCHANGED <<trigger_state, uart_size_prev>> /\ (pc' = "search" => trigger_state \in {"1", "2"})
  BY DEF TriggerPart, TriggerWhole, Goto, In, Dismissed, trigger
<1>3. SizesType' /\ StateType'
  BY TriggerAssumption DEF TriggerPart, TriggerWhole, Dismissed, trigger, Inv, Types, SizesType,
    StateType
<1> QED
  BY <1>1, <1>2, <1>3, UndoneKeeps

LEMMA ReadyKeeps == Inv /\ TriggerReady => Inv'
<1> SUFFICES ASSUME Inv, TriggerReady PROVE Inv'
  OBVIOUS
<1>1. UNCHANGED <<config, rxring, link, nagle, read_len>> /\ pc' \in {"look", "ready", "hang"}
      /\ trigger_state = "READY" /\ config.serial_command
  BY DEF TriggerReady, In
<1>2. PICK len \in Search(pattern_offset, CodeStart(1)) :
        \/ len = Endless /\ pc' = "hang" /\ UNCHANGED <<trigger, pattern_offset>>
        \/ pc' = "ready" /\ UNCHANGED <<trigger, pattern_offset>>
        \/ /\ len > 0 /\ pc' = "look"
           /\ pattern_offset' = Offset(len)
           /\ trigger_state' = "1" /\ trigger_time' = 0 /\ uart_size_prev' = 0
           /\ trigger_flag' = 1 /\ UNCHANGED ready_cnt
  BY DEF TriggerReady
<1>3. RingType' /\ Count' = Count /\ Count \in 0..Size /\ pattern_offset \in Nat
  BY <1>1, RingStays, CountType, TriggerAssumption DEF Inv, Types, OffsetType, Far
<1>4. len \in Nat \cup {Endless}
  BY <1>3, SearchType DEF Inv, Types
<1>5. pattern_offset' = pattern_offset \/ (len > 0 /\ len \in Nat /\ pattern_offset' = Offset(len))
  BY <1>2, <1>4 DEF Endless
<1>6. OffsetType' /\ (trigger_state' = "1" => pattern_offset' >= 1)
  BY <1>1, <1>2, <1>4, <1>5, OffsetOf, TriggerAssumption DEF Inv, Types, OffsetType, Endless, trigger
<1>7. StateType' /\ SizesType'
  BY <1>2, TriggerAssumption DEF Inv, Types, StateType, SizesType, trigger
<1>8. Types'
  BY <1>1, <1>3, <1>6, <1>7, OtherTypes DEF Inv, Types
<1>9. Places' /\ CodeBegun' /\ CodeInRing' /\ PacketReady'
  BY <1>1, <1>2, <1>6 DEF Places, CodeBegun, CodeInRing, PacketReady, trigger
<1>10. OffsetInData'
  <2> SUFFICES ASSUME config.mixed PROVE pattern_offset' <= Count /\ pc' # "hang"
    BY <1>1, <1>3 DEF OffsetInData
  <2>1. pattern_offset <= Count
    BY DEF Inv, OffsetInData
  <2>2. len # 0 => len \in 1..Count
    BY <1>3, <2>1, SearchInData DEF Inv, Types
  <2>3. len # Endless
    BY <1>3, <2>2 DEF Endless
  <2> QED
    BY <1>2, <1>3, <1>5, <2>1, <2>2, <2>3, OffsetOf
<1> QED
  BY <1>8, <1>9, <1>10 DEF Inv

(* The search of states 1 and 2.  The code is complete where the search    *)
(* that starts at its first byte ends one byte behind the offset.          *)
Hangs(len) == len = Endless /\ pc' = "hang" /\ UNCHANGED <<trigger, pattern_offset>>
Goes(seen, len) ==
  /\ len = pattern_offset + 1 /\ pc' = "look"
  /\ pattern_offset' = Offset(len) /\ trigger_time' = 0
  /\ \/ seen = 1 /\ trigger_state' = "2" /\ UNCHANGED uart_size_prev
     \/ seen = 2 /\ trigger_state' = "3" /\ uart_size_prev' = Count
  /\ UNCHANGED <<trigger_flag, ready_cnt>>
Stops ==
  pc' = "part" /\ UNCHANGED <<trigger, pattern_offset>>

LEMMA PartSearched ==
  ASSUME Inv, SearchPart
  PROVE  \E seen \in 1..2 : \E len \in Search(pattern_offset - seen, CodeStart(seen + 1)) :
           /\ trigger_state = IF seen = 1 THEN "1" ELSE "2"
           /\ pattern_offset - seen \in Nat /\ len \in Nat \cup {Endless}
           /\ Hangs(len) \/ Goes(seen, len) \/ Stops
<1> DEFINE seen == IF trigger_state = "1" THEN 1 ELSE 2
<1>1. /\ trigger_state \in {"1", "2"} /\ pattern_offset \in Nat
      /\ trigger_state = "1" => pattern_offset >= 1
      /\ trigger_state = "2" => pattern_offset >= 2
  BY TriggerAssumption DEF SearchPart, Inv, Types, OffsetType, Far, Places, CodeBegun
<1>2. /\ seen \in 1..2 /\ trigger_state = IF seen = 1 THEN "1" ELSE "2"
      /\ pattern_offset - seen \in Nat /\ seen + 1 \in 1..3
  BY <1>1
<1>3. PICK len \in Search(pattern_offset - seen, CodeStart(seen + 1)) :
        Hangs(len) \/ Goes(seen, len) \/ Stops
  BY DEF SearchPart, Hangs, Goes, Stops
<1> HIDE DEF seen
<1>4. len \in Nat \cup {Endless}
  BY <1>2, SearchType DEF Inv, Types
<1> QED
  BY <1>2, <1>3, <1>4

LEMMA SearchKeeps == Inv /\ SearchPart => Inv'
<1> SUFFICES ASSUME Inv, SearchPart PROVE Inv'
  OBVIOUS
<1>1. UNCHANGED <<config, rxring, link, nagle, read_len>>
  BY DEF SearchPart
<1>2. RingType' /\ Count' = Count /\ Count \in 0..Size /\ pattern_offset \in 0..Far
  BY <1>1, RingStays, CountType DEF Inv, Types, OffsetType
<1>3. PICK seen \in 1..2 : \E len \in Search(pattern_offset - seen, CodeStart(seen + 1)) :
        /\ trigger_state = IF seen = 1 THEN "1" ELSE "2"
        /\ pattern_offset - seen \in Nat /\ len \in Nat \cup {Endless}
        /\ Hangs(len) \/ Goes(seen, len) \/ Stops
  BY PartSearched
<1>4. PICK len \in Search(pattern_offset - seen, CodeStart(seen + 1)) :
        /\ trigger_state = IF seen = 1 THEN "1" ELSE "2"
        /\ pattern_offset - seen \in Nat /\ len \in Nat \cup {Endless}
        /\ Hangs(len) \/ Goes(seen, len) \/ Stops
  BY <1>3
<1>5. config.serial_command
  BY <1>4 DEF Inv, Places
<1>6. ASSUME config.mixed
      PROVE  len # Endless /\ (len # 0 => len \in 1..Count)
  <2>1. pattern_offset - seen <= Count /\ seen + 1 \in 1..3
    BY <1>2, <1>4, <1>6 DEF Inv, OffsetInData
  <2>2. len # 0 => len \in 1..Count
    BY <1>4, <2>1, SearchInData DEF Inv, Types
  <2> QED
    BY <1>2, <2>2 DEF Endless
<1>7. CASE Hangs(len)
  <2>1. Types'
    BY <1>1, <1>2, <1>7, OtherTypes DEF Hangs, Inv, Types, StateType, SizesType, OffsetType, trigger
  <2>2. ~config.mixed
    BY <1>6, <1>7 DEF Hangs
  <2> QED
    BY <1>1, <1>2, <1>4, <1>7, <2>1, <2>2 DEF Hangs, Inv, Places, CodeBegun, OffsetInData, CodeInRing,
      PacketReady, trigger
<1>8. CASE Goes(seen, len)
  <2>1. pattern_offset \in Nat /\ Far \in Nat /\ Far = Size + 3 /\ Size \in Nat
    BY <1>2, TriggerAssumption DEF Far
  <2>2. /\ len \in Nat /\ pattern_offset' \in 0..Far /\ (len <= Size => pattern_offset' = len)
        /\ pattern_offset' <= len /\ (pattern_offset' = len \/ pattern_offset' = Size + 3)
    BY <1>8, <2>1, OffsetOf DEF Goes
  <2>3. StateType' /\ SizesType'
    BY <1>2, <1>8, TriggerAssumption DEF Goes, Inv, Types, StateType, SizesType
  <2>4. Types'
    BY <1>1, <1>2, <1>8, <2>2, <2>3, OtherTypes DEF Goes, Inv, Types, OffsetType
  <2>5. Places' /\ PacketReady'
    BY <1>1, <1>5, <1>8 DEF Goes, Places, PacketReady
  <2>6. CodeBegun'
    BY <1>4, <1>8, <2>1, <2>2 DEF Goes, CodeBegun, Inv
  <2>7. OffsetInData'
    BY <1>1, <1>2, <1>6, <1>8, <2>1, <2>2 DEF Goes, OffsetInData
  <2>8. CodeInRing'
    <3>0. ASSUME config.mixed, trigger_state' = "3"
          PROVE  pattern_offset' <= uart_size_prev'
      <4>1. len \in 1..Count
        BY <1>6, <1>8, <2>1, <3>0 DEF Goes
      <4> QED
        BY <1>2, <1>4, <1>8, <2>1, <2>2, <3>0, <4>1 DEF Goes
    <3> SUFFICES ASSUME trigger_state' = "3", pattern_offset' <= uart_size_prev'
                 PROVE  /\ 3 <= pattern_offset' /\ uart_size_prev' <= Count'
                        /\ SubSeq(rxring', pattern_offset' - 2, pattern_offset') = Code
      BY <1>1, <3>0 DEF CodeInRing
    <3>1. seen = 2 /\ uart_size_prev' = Count /\ trigger_state = "2"
      BY <1>4, <1>8 DEF Goes
    <3>2. len \in 1..Count /\ pattern_offset' = len /\ pattern_offset - 2 <= Count
      BY <1>2, <1>8, <2>1, <2>2, <3>1 DEF Goes
    <3>3. \A k \in 1..3 : rxring[len - 3 + k] = Code[k]
      <4>1. len \in Search(pattern_offset - 2, CodeStart(3)) /\ pattern_offset - 2 \in Nat /\ len # 0
        BY <1>4, <3>1, <3>2
      <4> QED
        BY <4>1, <3>2, SearchInData DEF Inv, Types
    <3>4. pattern_offset >= 2
      BY <3>1 DEF Inv, CodeBegun
    <3> DEFINE at == len - 3
    <3>5. at \in Nat /\ at + 1 = len - 2 /\ at + Len(Code) = len /\ 3 <= len
      BY <1>2, <1>8, <2>1, <3>2, <3>4, TriggerAssumption DEF Goes
    <3>6. at + Len(Code) <= Len(rxring) /\ rxring \in Seq(Chars) /\ Code \in Seq(Chars)
      BY <1>2, <3>2, <3>5, TriggerAssumption DEF Inv, Types, RingType, Count
    <3>7. \A k \in 1..Len(Code) : rxring[at + k] = Code[k]
      BY <3>3, TriggerAssumption
    <3> HIDE DEF at
    <3>8. SubSeq(rxring, at + 1, at + Len(Code)) = Code
      BY <3>5, <3>6, <3>7, MatchIsSubSeq
    <3> QED
      BY <1>1, <1>2, <3>1, <3>2, <3>5, <3>8
  <2> QED
    BY <2>4, <2>5, <2>6, <2>7, <2>8 DEF Inv
<1>9. CASE Stops
  <2>1. StateType' /\ SizesType'
    BY <1>9 DEF Stops, Inv, Types, StateType, SizesType, trigger
  <2>2. trigger_state \in {"1", "2"}
    BY <1>4
  <2> QED
    BY <1>1, <1>9, <2>1, <2>2, UndoneKeeps DEF Stops, trigger
<1> QED
  BY <1>4, <1>7, <1>8, <1>9

LEMMA CommandsKeep == Inv /\ (EnterCommands \/ ReadCommand \/ Mdata) => Inv'
<1> SUFFICES ASSUME Inv, EnterCommands \/ ReadCommand \/ Mdata PROVE Inv'
  OBVIOUS
<1>1. /\ trigger_state' = "NONE" /\ pattern_offset' = 0 /\ UNCHANGED <<config, nagle, read_len>>
      /\ pc' \in {"command", "top"}
  BY DEF EnterCommands, ReadCommand, Mdata, Goto, Inv, Places, trigger
<1>2. RingType'
  BY CountType, PopRing, FlushRing DEF EnterCommands, ReadCommand, Mdata, Inv, Types
<1>3. Count' \in 0..Size
  <2>1. rxring' \in Seq(Chars) /\ Len(rxring') <= Size /\ Count' = Len(rxring')
    BY <1>2 DEF RingType, Count
  <2> QED
    BY <2>1, TriggerAssumption, LenProperties
<1>4. StateType' /\ SizesType' /\ OffsetType'
  BY <1>1, TriggerAssumption DEF EnterCommands, ReadCommand, Mdata, trigger, Inv, Types, StateType,
    SizesType, OffsetType, Far
<1>5. up' \in {FALSE, up} /\ sock_up' \in {FALSE, sock_up}
  BY DEF EnterCommands, ReadCommand, Mdata, link
<1>6. up' \in BOOLEAN /\ sock_up' \in BOOLEAN
  BY <1>5, Zenon DEF Inv, Types, PassType
<1>7. NagleType' /\ PassType'
  BY <1>1, <1>6 DEF Inv, Types, NagleType, PassType, nagle
<1>8. Places' /\ CodeBegun' /\ OffsetInData' /\ CodeInRing' /\ PacketReady'
  BY <1>1, <1>3, TriggerAssumption DEF Places, CodeBegun, OffsetInData, CodeInRing, PacketReady
<1> QED
  BY <1>2, <1>4, <1>7, <1>8 DEF Inv, Types

-----------------------------------------------------------------------------
(* uart_to_ether *)

LEMMA DelimiterFound ==
  ASSUME Inv, DelimiterEnd # 0
  PROVE  DelimiterEnd \in Nat /\ DelimiterEnd <= Count
         /\ (DelimiterEnd \in 1..Count => FirstDelimiter(DelimiterEnd))
<1> DEFINE d == config.packing_delimiter
           end == DelimiterEnd
<1>1. rxring \in Seq(Chars) /\ d \in Seq(Chars) /\ Len(d) \in Nat /\ Count \in Nat
      /\ Len(rxring) = Count
  BY SettingsType, CountType, LenProperties DEF Inv, Types, RingType, Count
<1>2. PICK at \in Found(0, d) : end = at + Len(d) /\ \A m \in Found(0, d) : at <= m
  BY FirstEndFound DEF DelimiterEnd
<1>3. at \in Nat /\ end \in Nat /\ end <= Count /\ at + Len(d) <= Len(rxring)
  BY <1>1, <1>2 DEF Found
<1>4. SubSeq(rxring, at + 1, at + Len(d)) = d
  BY <1>1, <1>2, <1>3, MatchIsSubSeq DEF Found, Matches
<1> HIDE DEF d, end
<1>5. end >= Len(d) /\ SubSeq(rxring, end - Len(d) + 1, end) = d
  <2>1. end - Len(d) + 1 = at + 1 /\ end = at + Len(d) /\ end >= Len(d)
    BY <1>1, <1>2, <1>3
  <2> QED
    BY <1>4, <2>1
<1>6. ASSUME NEW m \in 1..end-1, m >= Len(d), SubSeq(rxring, m - Len(d) + 1, m) = d
      PROVE  FALSE
  <2> DEFINE n == m - Len(d)
  <2>1. n \in Nat /\ n + Len(d) = m /\ m - Len(d) + 1 = n + 1 /\ n + Len(d) <= Len(rxring)
        /\ n < at
    BY <1>1, <1>2, <1>3, <1>6
  <2> HIDE DEF n
  <2>2. SubSeq(rxring, n + 1, n + Len(d)) = d
    BY <1>6, <2>1
  <2>3. \A k \in 1..Len(d) : rxring[n + k] = d[k]
    BY <1>1, <2>1, <2>2, MatchIsSubSeq
  <2>4. n \in 0..(Count - Len(d))
    BY <1>1, <2>1
  <2>5. n \in Found(0, d)
    BY <2>3, <2>4 DEF Found, Matches
  <2> QED
    BY <1>2, <1>3, <2>1, <2>5
<1>7. FirstDelimiter(end)
  BY <1>5, <1>6 DEF FirstDelimiter, d
<1> QED
  BY <1>3, <1>7 DEF end

LEMMA ReadLengthType == Inv => ReadLength \in 0..(Size + 2)
<1> SUFFICES ASSUME Inv PROVE ReadLength \in 0..(Size + 2)
  OBVIOUS
<1>1. /\ config.packing_size \in 0..Size /\ config.packing_data_appendix \in 0..2
      /\ Size \in Nat /\ Count \in 0..Size
  BY SettingsType, CountType, TriggerAssumption DEF Inv, Types
<1>2. CASE EndsByDelimiter
  <2>1. DelimiterEnd \in Nat /\ DelimiterEnd <= Count
    BY <1>2, DelimiterFound DEF EndsByDelimiter
  <2> QED
    BY <1>1, <1>2, <2>1 DEF ReadLength, PacketEnd
<1>3. CASE ~EndsByDelimiter
  BY <1>1, <1>3 DEF ReadLength
<1> QED
  BY <1>2, <1>3

LEMMA LookKeeps == Inv /\ Look => Inv'
<1> SUFFICES ASSUME Inv, Look PROVE Inv'
  OBVIOUS
<1>1. UNCHANGED <<config, rxring, up, trigger, pattern_offset, nagle>> /\ sock_up' = FALSE
      /\ pc' \in {"take", "top"}
  BY DEF Look
<1>2. RingType' /\ Count' = Count /\ Count \in 0..Size
  BY <1>1, RingStays, CountType DEF Inv, Types
<1>3. read_len' \in 0..(Size + 2)
  BY ReadLengthType DEF Look, Inv, Types, PassType
<1>4. Types'
  BY <1>1, <1>2, <1>3 DEF Inv, Types, StateType, SizesType, OffsetType, NagleType, PassType, trigger,
    nagle
<1>5. pc' = "take" => trigger_state \in {"NONE", "READY"}
  BY DEF Look, Held, Inv, Types, StateType
<1>6. Places' /\ CodeBegun' /\ OffsetInData'
  BY <1>1, <1>2, <1>5 DEF Inv, Places, CodeBegun, OffsetInData, trigger
<1>7. CodeInRing'
  BY <1>1, <1>2 DEF Inv, CodeInRing, trigger
<1>8. PacketReady'
  <2> SUFFICES ASSUME pc' = "take" PROVE PacketReady'
    BY DEF PacketReady
  <2>1. Due /\ read_len' = ReadLength
    BY <1>1 DEF Look
  <2>2. (OnlySize' <=> OnlySize) /\ (OnlyDelimiter' <=> OnlyDelimiter) /\ config' = config
    BY <1>1 DEF OnlySize, OnlyDelimiter, BySize, ByTime, ByDelimiter
  <2>3. ASSUME OnlySize
        PROVE  read_len' = config.packing_size /\ read_len' <= Count
    BY <2>1, <2>3, <1>2, SettingsType DEF OnlySize, Due, SizeMet, TimeMet, DelimiterMet, ReadLength,
      EndsByDelimiter, Inv, Types
  <2>4. ASSUME OnlyDelimiter
        PROVE  /\ read_len' <= Count
               /\ read_len' - config.packing_data_appendix \in 1..Count
               /\ FirstDelimiter(read_len' - config.packing_data_appendix)
    <3>1. DelimiterEnd # 0 /\ Count >= PacketEnd /\ read_len' = PacketEnd
      BY <2>1, <2>4 DEF OnlyDelimiter, Due, SizeMet, TimeMet, DelimiterMet, ReadLength, EndsByDelimiter
    <3>2. /\ DelimiterEnd \in 1..Count /\ FirstDelimiter(DelimiterEnd)
          /\ config.packing_data_appendix \in 0..2
      BY <1>2, <3>1, DelimiterFound, SettingsType DEF Inv, Types
    <3>3. PacketEnd = DelimiterEnd + config.packing_data_appendix
      BY DEF PacketEnd
    <3>4. read_len' - config.packing_data_appendix = DelimiterEnd
      BY <1>2, <3>1, <3>2, <3>3
    <3> QED
      BY <3>1, <3>2, <3>4
  <2>5. FirstDelimiter(read_len' - config.packing_data_appendix) =>
          FirstDelimiter(read_len - config.packing_data_appendix)'
    BY <1>1 DEF FirstDelimiter
  <2> QED
    BY <1>2, <2>2, <2>3, <2>4, <2>5 DEF PacketReady
<1> QED
  BY <1>4, <1>6, <1>7, <1>8 DEF Inv

LEMMA TakenType ==
  ASSUME Inv
  PROVE  Taken \in 0..Count /\ (read_len <= Count => Taken = read_len)
BY CountType, TriggerAssumption DEF Taken, Inv, Types, PassType

LEMMA TakeKeeps == Inv /\ Take => Inv'
<1> SUFFICES ASSUME Inv, Take PROVE Inv'
  OBVIOUS
<1>1. RingType' /\ Count' \in Nat
  BY TakenType, PopRing, CountType DEF Take, Inv, Types, Count
<1>2. trigger_state' \in {"NONE", "READY"} /\ pc' = "send" /\ pattern_offset' = 0 /\ read_len' = 0
  BY DEF Take, Goto, Inv, Places, trigger
<1>3. Types'
  BY <1>1, <1>2, TriggerAssumption DEF Take, Inv, Types, StateType, SizesType, OffsetType, Far, NagleType,
    PassType, link, trigger, nagle
<1>4. Places' /\ CodeBegun' /\ OffsetInData' /\ CodeInRing' /\ PacketReady'
  BY <1>1, <1>2 DEF Take, Inv, Places, CodeBegun, OffsetInData, CodeInRing, PacketReady, trigger
<1> QED
  BY <1>3, <1>4 DEF Inv

-----------------------------------------------------------------------------
(* Start and restart *)

LEMMA InitInv == Init => Inv
<1> SUFFICES ASSUME Init PROVE Inv
  OBVIOUS
<1>1. RingType /\ Count = 0
  BY TriggerAssumption DEF Init, RingType, Count
<1>2. StateType /\ SizesType /\ OffsetType
  BY Zeros DEF Init, StateType, SizesType, OffsetType
<1>3. NagleType /\ PassType
  BY Zeros DEF Init, NagleType, PassType
<1> QED
  BY <1>1, <1>2, <1>3 DEF Types, Init, Inv, Places, CodeBegun, OffsetInData, CodeInRing, PacketReady

LEMMA WatchdogKeeps == Inv /\ Watchdog => Inv'
<1> SUFFICES ASSUME Inv, Watchdog PROVE Inv'
  OBVIOUS
<1>1. RingType' /\ Count' = 0
  BY FlushRing DEF Watchdog, Flush
<1>2. StateType' /\ SizesType' /\ OffsetType'
  BY Zeros DEF Watchdog, StateType, SizesType, OffsetType
<1>3. NagleType' /\ PassType'
  BY Zeros DEF Watchdog, NagleType, PassType, Inv, Types
<1> QED
  BY <1>1, <1>2, <1>3 DEF Watchdog, Types, Inv, Places, CodeBegun, OffsetInData, CodeInRing, PacketReady

-----------------------------------------------------------------------------
(* Theorems *)

LEMMA Invariant == Spec => []Inv
<1>1. Inv /\ [Next]_vars => Inv'
  BY PassKeeps, IdleKeeps, ReadyKeeps, CountKeeps, PartKeeps, SearchKeeps, CommandsKeep, LookKeeps,
    TakeKeeps, ByteArrives, LinkKeeps, TickKeeps, WatchdogKeeps, StutterKeeps DEF Next, MainStep
<1> QED
  BY <1>1, InitInv, PTL DEF Spec

(* Every variable keeps its type: the ring its size, and every count that  *)
(* is compared with it later.                                              *)
THEOREM TypeCorrect == Spec => []TypeOK
<1>1. Inv => TypeOK
  BY DEF Inv, Types, RingType, StateType, SizesType, OffsetType, NagleType, PassType, TypeOK
<1> QED
  BY <1>1, Invariant, PTL

(* In mixed mode the search never starts behind the data, so that the main *)
(* loop never hangs in it.                                                 *)
THEOREM SearchEnds == Spec => []OffsetInData
<1>1. Inv => OffsetInData
  BY DEF Inv
<1> QED
  BY <1>1, Invariant, PTL

(* In mixed mode the command mode is only ever about to be entered with    *)
(* the three bytes of the code in the ring; in the other modes wherever    *)
(* the search ended within the data, which after a flush that left the     *)
(* offset behind it need not.                                              *)
THEOREM CodeTyped == Spec => []CodeSeen
<1>1. Inv => CodeSeen
  BY DEF Inv, CodeInRing, CodeSeen
<1> QED
  BY <1>1, Invariant, PTL

(* With one packing condition, every packet is what the condition asks     *)
(* for.                                                                    *)
THEOREM Packed == Spec => PacketsAsConfigured
<1>1. ASSUME Inv, Take
      PROVE  /\ OnlySize => Packet = config.packing_size
             /\ OnlyDelimiter => FirstDelimiter(Packet - config.packing_data_appendix)
  <2>1. Len(rxring') = Count - Taken /\ pc = "take" /\ Count \in Nat /\ Taken \in Nat
    BY <1>1, TakenType, PopRing, CountType DEF Take, Goto, Inv, Types
  <2>2. Packet = Taken
    BY <2>1 DEF Packet
  <2> QED
    BY <1>1, <2>1, <2>2, TakenType DEF Inv, PacketReady
<1>2. Inv /\ [Next]_vars =>
        [Take => /\ BySize /\ ~ByTime /\ ~ByDelimiter => Packet = config.packing_size
                 /\ ByDelimiter /\ ~ByTime /\ ~BySize =>
                      FirstDelimiter(Packet - config.packing_data_appendix)]_vars
  BY <1>1 DEF OnlySize, OnlyDelimiter
<1> QED
  BY <1>2, Invariant, PTL DEF Spec, PacketsAsConfigured
=============================================================================
