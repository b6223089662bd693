--------------------------- MODULE NetStart_proofs ---------------------------
(***************************************************************************)
(* Safety of the start and of the main loop for every set of addresses and *)
(* lease times, every limit, and whatever the servers say.                 *)
(***************************************************************************)
EXTENDS NetStart, TLAPS

-----------------------------------------------------------------------------
(* The inductive invariant: an address that was offered stays known until  *)
(* it is acknowledged, and the one in use is never taken back.             *)

LeaseInv ==
  /\ dhcp_state = "REQUEST" => allocated \in Addresses
  /\ dhcp_state \in {"LEASED", "REREQUEST"} =>
       local_ip # Unset /\ (local_ip = allocated \/ local_ip = Static)

ClientInv == DhcpTypeOK /\ LeaseInv

MainType ==
  /\ dhcp_use \in BOOLEAN /\ dns_use \in BOOLEAN /\ run_dns \in BOOLEAN /\ silent \in BOOLEAN
  /\ dhcp_retry \in 0..MaxFailed /\ dns_retry \in 0..MaxFailed /\ starved \in 0..Starved
  /\ pc \in {"dhcp", "netconf", "dns", "dnsDhcp", "main", "nset", "fdns", "mainDhcp", "mainDns"}
HasAddress == pc \notin {"dhcp", "netconf"} => local_ip # Unset

StartInv == ClientInv /\ DnsTypeOK /\ MainType /\ HasAddress

-----------------------------------------------------------------------------
LEMMA Zeros ==
  /\ 0 \in 0..MaxTick /\ 0 \in 0..MAX_DHCP_RETRY /\ 0 \in 0..DNS_WAIT_TIME
  /\ 0 \in 0..MAX_DNS_RETRY /\ 0 \in 0..MaxFailed /\ 0 \in 0..Starved /\ -1 \in -1..2
BY DhcpAssumption, DnsAssumption, NetStartAssumption DEF Starved

-----------------------------------------------------------------------------
(* The DHCP client *)

LEMMA MessageType ==
  ASSUME NEW message \in {NoMessage} \cup Messages
  PROVE  /\ message.type = "OFFER" => message.yiaddr \in Addresses
         /\ message.lease \in Leases \cup {Keep}
BY DEF NoMessage, Messages, Types

LEMMA LeaseTimeType ==
  ASSUME DhcpTypeOK, NEW message \in {NoMessage} \cup Messages, parseDHCPMSG(message)
  PROVE  dhcp_lease_time' \in Leases \cup {INFINITE_LEASETIME}
BY MessageType DEF parseDHCPMSG, DhcpTypeOK

(* One call: what DHCP_run answers LEASED for is an address in use.        *)
LEMMA RunKeeps ==
  ASSUME ClientInv, NEW inbox, inbox \subseteq {NoMessage} \cup Messages, NEW ret,
         DHCP_run(inbox, ret)
  PROVE  /\ ClientInv'
         /\ local_ip # Unset => local_ip' # Unset
         /\ ret = "LEASED" => local_ip' # Unset
<1> USE DhcpAssumption
<1>1. CASE ret = "RUNNING" /\ Declined
  BY <1>1 DEF Declined, reset_DHCP_timeout, ClientInv, DhcpTypeOK, LeaseInv
<1>2. ASSUME NEW message \in inbox,
             \/ ret = "RUNNING" /\ (\/ Discover(message) \/ Request(message) \/ Assign(message)
                                   \/ Wait(message) \/ Repeat(message))
             \/ ret = "none" /\ Decline(message)
             \/ ret = "LEASED" /\ (Leased(message) \/ Renew(message) \/ Renewed(message))
             \/ Refused(message, ret) \/ GiveUp(message, ret)
      PROVE  /\ ClientInv'
             /\ local_ip # Unset => local_ip' # Unset
             /\ ret = "LEASED" => local_ip' # Unset
  <2>0. message \in {NoMessage} \cup Messages
    OBVIOUS
  <2>1. CASE Discover(message) /\ ret = "RUNNING"
    BY <2>0, <2>1, LeaseTimeType DEF Discover, Begin, ClientInv, DhcpTypeOK, LeaseInv, timer
  <2>2. CASE Request(message) /\ ret = "RUNNING"
    BY <2>0, <2>2, LeaseTimeType, MessageType DEF Request, Begin, ClientInv, DhcpTypeOK, LeaseInv, timer
  <2>3. CASE Assign(message) /\ ret = "RUNNING"
    BY <2>0, <2>3, LeaseTimeType DEF Assign, Begin, reset_DHCP_timeout, ClientInv, DhcpTypeOK, LeaseInv
  <2>4. CASE Decline(message) /\ ret = "none"
    BY <2>0, <2>4, LeaseTimeType DEF Decline, Begin, ClientInv, DhcpTypeOK, LeaseInv, timer
  <2>5. CASE Refused(message, ret)
    BY <2>0, <2>5, LeaseTimeType DEF Refused, Begin, reset_DHCP_timeout, ClientInv, DhcpTypeOK, LeaseInv
  <2>6. CASE Leased(message)
    BY <2>0, <2>6, LeaseTimeType DEF Leased, Begin, ClientInv, DhcpTypeOK, LeaseInv, timer
  <2>7. CASE Renew(message)
    BY <2>0, <2>7, LeaseTimeType DEF Renew, Begin, reset_DHCP_timeout, ClientInv, DhcpTypeOK, LeaseInv
  <2>8. CASE Renewed(message)
    BY <2>0, <2>8, LeaseTimeType DEF Renewed, Begin, reset_DHCP_timeout, ClientInv, DhcpTypeOK, LeaseInv
  <2>9. CASE Wait(message) /\ ret = "RUNNING"
    BY <2>0, <2>9, LeaseTimeType DEF Wait, Unanswered, Begin, ClientInv, DhcpTypeOK, LeaseInv, timer
  <2>10. CASE Repeat(message) /\ ret = "RUNNING"
    BY <2>0, <2>10, LeaseTimeType DEF Repeat, Unanswered, Begin, ClientInv, DhcpTypeOK, LeaseInv
  <2>11. CASE GiveUp(message, ret)
    BY <2>0, <2>11, LeaseTimeType DEF GiveUp, Unanswered, Begin, reset_DHCP_timeout, ClientInv,
      DhcpTypeOK, LeaseInv
  <2> QED
    BY <1>2, <2>1, <2>2, <2>3, <2>4, <2>5, <2>6, <2>7, <2>8, <2>9, <2>10, <2>11
<1> QED
  BY <1>1, <1>2 DEF DHCP_run

LEMMA InboxRun ==
  ASSUME ClientInv, NEW ret, Run(ret)
  PROVE  /\ ClientInv'
         /\ local_ip # Unset => local_ip' # Unset
         /\ ret = "LEASED" => local_ip' # Unset
<1>1. Inbox \subseteq {NoMessage} \cup Messages
  BY DEF Inbox
<1> QED
  BY <1>1, RunKeeps DEF Run

LEMMA ClientStays == ClientInv /\ UNCHANGED dhcp => ClientInv' /\ local_ip' = local_ip
BY DEF ClientInv, DhcpTypeOK, LeaseInv, dhcp

LEMMA Configured ==
  ASSUME ClientInv, NEW address \in {local_ip, Static}, Net_Conf(address)
  PROVE  ClientInv' /\ (local_ip # Unset => local_ip' # Unset) /\ (address = Static => local_ip' # Unset)
<1>1. local_ip' \in {local_ip, Static} /\ Static # Unset
  BY DEF Net_Conf, Static, Unset
<1>2. UNCHANGED <<dhcp_state, allocated, dhcp_lease_time, dhcp_tick_1s, dhcp_retry_count, declining>>
  BY DEF Net_Conf, timer
<1>3. DhcpTypeOK'
  BY <1>1, <1>2 DEF ClientInv, DhcpTypeOK
<1>4. LeaseInv'
  BY <1>1, <1>2 DEF ClientInv, LeaseInv
<1> QED
  BY <1>1, <1>3, <1>4 DEF ClientInv, Net_Conf

-----------------------------------------------------------------------------
(* The name lookup *)

LEMMA DnsStays == DnsTypeOK /\ UNCHANGED dns => DnsTypeOK'
BY DEF DnsTypeOK, dns

LEMMA LookupTypes ==
  ASSUME DnsTypeOK, Query \/ Again \/ (\E ret \in {-1, 0, 1} : Lookup(ret))
  PROVE  DnsTypeOK'
<1> USE DnsAssumption
<1>1. CASE Query
  BY <1>1 DEF DnsTypeOK, Query
<1>2. CASE Again
  BY <1>2 DEF DnsTypeOK, Again, Over
<1>3. CASE \E ret \in {-1, 0, 1} : Lookup(ret)
  <2>1. looking' = FALSE
    BY <1>3 DEF Lookup, Looked, Answered, TimedOut
  <2>2. \/ UNCHANGED <<dns_1s_tick, retry_count>>
        \/ dns_1s_tick' = 0 /\ retry_count' = 0
    BY <1>3 DEF Lookup, Looked, Answered, TimedOut
  <2>3. dns_1s_tick' \in 0..DNS_WAIT_TIME /\ retry_count' \in 0..MAX_DNS_RETRY
    BY <2>2, Zeros DEF DnsTypeOK
  <2> QED
    BY <2>1, <2>3 DEF DnsTypeOK
<1> QED
  BY <1>1, <1>2, <1>3

-----------------------------------------------------------------------------
(* The steps *)

LEMMA InitInv == Init => StartInv
<1> SUFFICES ASSUME Init PROVE StartInv
  OBVIOUS
<1>1. DhcpTypeOK
  BY Zeros DEF Init, DhcpInit, DhcpTypeOK
<1>2. LeaseInv
  BY DEF Init, DhcpInit, LeaseInv
<1>3. DnsTypeOK
  BY Zeros DEF Init, DnsInit, DnsTypeOK
<1>4. MainType
  BY Zeros DEF Init, MainType
<1> QED
  BY <1>1, <1>2, <1>3, <1>4 DEF Init, StartInv, ClientInv, HasAddress

LEMMA StartSteps ==
  ASSUME StartInv,
         StartStatic \/ StartDhcp \/ StartAddress \/ StartNoDns \/ StartDns \/ StartDnsDhcp
  PROVE  StartInv'
<1> USE NetStartAssumption
<1>1. CASE StartStatic \/ StartNoDns
  BY <1>1, ClientStays, DnsStays DEF StartStatic, StartNoDns, StartInv, MainType, HasAddress,
    settings, failures
<1>2. CASE StartDhcp
  <2>1. MainType' /\ DnsTypeOK'
    BY <1>2, DnsStays DEF StartDhcp, StartInv, MainType, settings
  <2>2. ClientInv' /\ HasAddress'
    BY <1>2, InboxRun DEF StartDhcp, StartInv, HasAddress
  <2> QED
    BY <2>1, <2>2 DEF StartInv
<1>3. CASE StartAddress
  BY <1>3, Configured, DnsStays DEF StartAddress, StartInv, MainType, HasAddress, settings, failures
<1>4. CASE StartDns
  <2>1. MainType'
    BY <1>4 DEF StartDns, StartInv, MainType, settings
  <2>2. DnsTypeOK'
    BY <1>4, LookupTypes DEF StartDns, StartInv
  <2>3. ClientInv' /\ HasAddress'
    BY <1>4, ClientStays DEF StartDns, StartInv, HasAddress
  <2> QED
    BY <2>1, <2>2, <2>3 DEF StartInv
<1>5. CASE StartDnsDhcp
  <2>1. MainType' /\ DnsTypeOK'
    BY <1>5, DnsStays DEF StartDnsDhcp, StartInv, MainType, settings, failures
  <2>2. ClientInv' /\ HasAddress'
    BY <1>5, InboxRun, ClientStays DEF StartDnsDhcp, StartInv, HasAddress
  <2> QED
    BY <2>1, <2>2 DEF StartInv
<1> QED
  BY <1>1, <1>2, <1>3, <1>4, <1>5

LEMMA LoopSteps ==
  ASSUME StartInv, LoopTop \/ Nset \/ Fdns \/ LoopDhcp \/ LoopDns
  PROVE  StartInv'
<1>1. CASE LoopTop
  BY <1>1, ClientStays, DnsStays DEF LoopTop, StartInv, MainType, HasAddress, Starved, settings,
    failures
<1>2. CASE Nset
  <2>1. MainType' /\ DnsTypeOK'
    BY <1>2, DnsStays DEF Nset, StartInv, MainType, failures
  <2>2. ClientInv' /\ HasAddress'
    BY <1>2, Configured DEF Nset, StartInv, HasAddress
  <2> QED
    BY <2>1, <2>2 DEF StartInv
<1>3. CASE Fdns
  <2>1. MainType' /\ ClientInv' /\ HasAddress'
    BY <1>3, ClientStays DEF Fdns, StartInv, MainType, HasAddress, settings, failures
  <2>2. DnsTypeOK'
    BY <1>3, LookupTypes DEF Fdns, StartInv
  <2> QED
    BY <2>1, <2>2 DEF StartInv
<1>4. CASE LoopDhcp
  <2>1. MainType' /\ DnsTypeOK'
    BY <1>4, DnsStays DEF LoopDhcp, StartInv, MainType, settings, failures
  <2>2. ClientInv' /\ HasAddress'
    BY <1>4, InboxRun, ClientStays DEF LoopDhcp, StartInv, HasAddress
  <2> QED
    BY <2>1, <2>2 DEF StartInv
<1>5. CASE LoopDns
  <2>1. MainType' /\ ClientInv' /\ HasAddress'
    BY <1>5, ClientStays DEF LoopDns, StartInv, MainType, HasAddress, settings, failures
  <2>2. DnsTypeOK'
    BY <1>5, LookupTypes, DnsStays DEF LoopDns, StartInv
  <2> QED
    BY <2>1, <2>2 DEF StartInv
<1> QED
  BY <1>1, <1>2, <1>3, <1>4, <1>5

LEMMA SecondKeeps == StartInv /\ SecondProcess => StartInv'
<1> SUFFICES ASSUME StartInv, SecondProcess PROVE StartInv'
  OBVIOUS
<1>1. run_dns' \in BOOLEAN
  BY Zenon DEF SecondProcess, StartInv, MainType, NamesWanted
<1>2. starved' \in 0..Starved
  BY DEF SecondProcess, StartInv, MainType, Starting, Starved
<1>3. MainType'
  BY <1>1, <1>2 DEF SecondProcess, StartInv, MainType, settings, failures
<1>4. ClientInv' /\ local_ip' = local_ip
  BY DhcpAssumption, ClientStays DEF SecondProcess, DHCP_time_handler, StartInv, ClientInv,
    DhcpTypeOK, LeaseInv
<1>5. DnsTypeOK'
  BY DnsAssumption, DnsStays DEF SecondProcess, DNS_time_handler, StartInv, DnsTypeOK
<1> QED
  BY <1>3, <1>4, <1>5 DEF SecondProcess, StartInv, HasAddress

LEMMA OtherSteps == StartInv /\ (Watchdog \/ FallSilent \/ UNCHANGED vars) => StartInv'
<1> SUFFICES ASSUME StartInv, Watchdog \/ FallSilent \/ UNCHANGED vars PROVE StartInv'
  OBVIOUS
<1>1. CASE Watchdog
  <2>1. DhcpTypeOK'
    BY <1>1, Zeros DEF Watchdog, DhcpReset, DhcpTypeOK
  <2>2. LeaseInv'
    BY <1>1 DEF Watchdog, DhcpReset, LeaseInv
  <2>3. DnsTypeOK'
    BY <1>1, Zeros DEF Watchdog, DnsReset, DnsTypeOK
  <2>4. MainType'
    BY <1>1, Zeros DEF Watchdog, MainType
  <2> QED
    BY <1>1, <2>1, <2>2, <2>3, <2>4 DEF Watchdog, StartInv, ClientInv, HasAddress
<1>2. CASE FallSilent \/ UNCHANGED vars
  BY <1>2, ClientStays, DnsStays DEF FallSilent, StartInv, MainType, HasAddress, vars, settings,
    failures
<1> QED
  BY <1>1, <1>2

-----------------------------------------------------------------------------
(* Theorems *)

LEMMA Invariant == Spec => []StartInv
<1>1. StartInv /\ [Next]_vars => StartInv'
  BY StartSteps, LoopSteps, SecondKeeps, OtherSteps DEF Next, MainStep
<1> QED
  BY <1>1, InitInv, PTL DEF Spec

(* Every variable keeps its type: DHCP's and DNS's retry counters and the  *)
(* failures that main counts stay within their limits.                     *)
THEOREM TypeCorrect == Spec => []TypeOK
<1>1. StartInv => TypeOK
  BY DEF StartInv, ClientInv, MainType, TypeOK
<1> QED
  BY <1>1, Invariant, PTL

(* main never enters its loop without an address, and the one in use is    *)
(* the one the lease began with or the stored one, whatever DHCP_run was   *)
(* told.                                                                   *)
THEOREM AddressHeld == Spec => []AddressInUse
<1>1. StartInv => AddressInUse
  BY DEF StartInv, ClientInv, LeaseInv, HasAddress, AddressInUse
<1> QED
  BY <1>1, Invariant, PTL
-----------------------------------------------------------------------------
(* A start that no server answers                                          *)

Unheard == silent /\ Starting

(* What is left of the start: its phases; failures that are still accepted *)
(* in this one; the way through one attempt; repetitions; seconds.         *)
Phase == IF pc = "dhcp" THEN 2 ELSE IF pc = "netconf" THEN 1 ELSE 0
Tries == MaxFailed - (IF pc = "dhcp" THEN dhcp_retry ELSE dns_retry)
ClientStage == IF dhcp_state = "DISCOVER" THEN 0 ELSE IF dhcp_state = "INIT" THEN 1 ELSE 2
LookupStage == IF pc = "dnsDhcp" THEN 2 ELSE IF looking THEN 0 ELSE 1
Stage == IF pc = "dhcp" THEN ClientStage ELSE LookupStage
Repeats ==
  IF pc = "dhcp" THEN MAX_DHCP_RETRY - dhcp_retry_count ELSE MAX_DNS_RETRY - retry_count
ClientSeconds ==
  IF declining # -1 THEN 2 - declining
  ELSE IF dhcp_tick_1s > DHCP_WAIT_TIME THEN 0 ELSE DHCP_WAIT_TIME + 1 - dhcp_tick_1s
Seconds == IF pc \in {"dhcp", "dnsDhcp"} THEN ClientSeconds ELSE DNS_WAIT_TIME - dns_1s_tick
Remaining == <<Phase, Tries, Stage, Repeats, Seconds>>

(* The lexicographic order, of five natural numbers.                       *)
Closer ==
  \/ Phase' < Phase
  \/ Phase' = Phase /\ Tries' < Tries
  \/ UNCHANGED <<Phase, Tries>> /\ Stage' < Stage
  \/ UNCHANGED <<Phase, Tries, Stage>> /\ Repeats' < Repeats
  \/ UNCHANGED <<Phase, Tries, Stage, Repeats>> /\ Seconds' < Seconds

Limited ==
  Unheard => /\ Phase \in 0..2 /\ Tries \in 0..MaxFailed /\ Stage \in 0..2
             /\ Repeats \in Nat /\ Seconds \in Nat

(* Nothing is left to do before the next second: the client waits, for an  *)
(* answer or after a DECLINE, or the lookup does.                          *)
ClientWaits ==
  /\ dhcp_use
  /\ \/ declining \in 0..1
     \/ /\ pc = "dhcp" /\ declining = -1 /\ dhcp_state \in {"DISCOVER", "REQUEST", "REREQUEST"}
        /\ dhcp_retry_count < MAX_DHCP_RETRY /\ dhcp_tick_1s <= DHCP_WAIT_TIME
Waiting ==
  \/ pc \in {"dhcp", "dnsDhcp"} /\ ClientWaits
  \/ pc = "dns" /\ dns_use /\ looking /\ dns_1s_tick < DNS_WAIT_TIME

(* Only the address of a request is declined.                              *)
DeclineInv == declining # -1 => dhcp_state = "REQUEST"

LEMMA InitDecline == Init => DeclineInv
BY DEF Init, DhcpInit, DeclineInv

LEMMA DeclineKept == DeclineInv /\ [Next]_vars => DeclineInv'
<1> SUFFICES ASSUME DeclineInv, [Next]_vars PROVE DeclineInv'
  OBVIOUS
<1>1. ASSUME NEW inbox, NEW ret, DHCP_run(inbox, ret) PROVE DeclineInv'
  BY <1>1 DEF DHCP_run, Discover, Request, Assign, Decline, Declined, Refused, Leased, Renew, Renewed,
    Wait, Repeat, GiveUp, Begin, Unanswered, DeclineInv
<1>2. ASSUME NEW ret, Run(ret) PROVE DeclineInv'
  BY <1>1, <1>2 DEF Run
<1>3. ASSUME UNCHANGED <<dhcp_state, declining>> PROVE DeclineInv'
  BY <1>3 DEF DeclineInv
<1>4. CASE StartDhcp \/ StartDnsDhcp \/ LoopDhcp
  BY <1>2, <1>3, <1>4 DEF StartDhcp, StartDnsDhcp, LoopDhcp, dhcp
<1>5. CASE StartAddress \/ Nset
  BY <1>3, <1>5 DEF StartAddress, Nset, Net_Conf
<1>6. CASE SecondProcess
  BY <1>3, <1>6 DEF SecondProcess, DHCP_time_handler, dhcp, DeclineInv
<1>7. CASE Watchdog
  BY <1>7 DEF Watchdog, DhcpReset, DeclineInv
<1>8. CASE StartStatic \/ StartNoDns \/ StartDns \/ LoopTop \/ Fdns \/ LoopDns \/ FallSilent
             \/ UNCHANGED vars
  BY <1>3, <1>8 DEF StartStatic, StartNoDns, StartDns, LoopTop, Fdns, LoopDns, FallSilent, dhcp, vars
<1> QED
  BY <1>4, <1>5, <1>6, <1>7, <1>8 DEF Next, MainStep

LEMMA ClientSecondsType == ASSUME DhcpTypeOK PROVE ClientSeconds \in Nat
<1>1. declining \in -1..2 /\ dhcp_tick_1s \in Nat /\ DHCP_WAIT_TIME \in Nat
  BY DhcpAssumption DEF DhcpTypeOK
<1>2. declining # -1 => ClientSeconds = 2 - declining
  BY DEF ClientSeconds
<1>3. declining = -1 /\ dhcp_tick_1s > DHCP_WAIT_TIME => ClientSeconds = 0
  BY DEF ClientSeconds
<1>4. declining = -1 /\ ~(dhcp_tick_1s > DHCP_WAIT_TIME) => ClientSeconds = DHCP_WAIT_TIME + 1 - dhcp_tick_1s
  BY DEF ClientSeconds
<1> QED
  BY <1>1, <1>2, <1>3, <1>4

(* A second of the client.                                                 *)
LEMMA ClientSecond ==
  ASSUME DhcpTypeOK, DHCP_time_handler
  PROVE  /\ ClientSeconds' < ClientSeconds \/ ClientSeconds' = ClientSeconds
         /\ declining \in 0..1 \/ (declining = -1 /\ dhcp_tick_1s <= DHCP_WAIT_TIME) =>
              ClientSeconds' < ClientSeconds
<1>1. /\ declining \in -1..2 /\ dhcp_tick_1s \in 0..MaxTick
      /\ DHCP_WAIT_TIME \in Nat /\ MaxTick \in Nat /\ MaxTick > DHCP_WAIT_TIME
  BY DhcpAssumption DEF DhcpTypeOK
<1>2. CASE declining # -1
  <2>1. declining' = IF declining \in 0..1 THEN declining + 1 ELSE declining
    BY DEF DHCP_time_handler
  <2>2. ClientSeconds = 2 - declining /\ (declining' # -1 => ClientSeconds' = 2 - declining')
    BY <1>2 DEF ClientSeconds
  <2>3. CASE declining \in 0..1
    BY <2>1, <2>2, <2>3
  <2>4. CASE declining = 2
    BY <2>1, <2>2, <2>4
  <2> QED
    BY <1>1, <1>2, <2>3, <2>4
<1>3. CASE declining = -1
  <2>1. declining' = -1
    BY <1>3 DEF DHCP_time_handler
  <2>2. dhcp_tick_1s' = IF dhcp_tick_1s < MaxTick THEN dhcp_tick_1s + 1 ELSE dhcp_tick_1s
    BY DEF DHCP_time_handler
  <2>3. CASE dhcp_tick_1s > DHCP_WAIT_TIME
    <3>1. dhcp_tick_1s' > DHCP_WAIT_TIME
      BY <1>1, <2>2, <2>3
    <3> QED
      BY <1>1, <1>3, <2>1, <2>3, <3>1 DEF ClientSeconds
  <2>4. CASE dhcp_tick_1s <= DHCP_WAIT_TIME
    <3>1. dhcp_tick_1s' = dhcp_tick_1s + 1
      BY <1>1, <2>2, <2>4
    <3>2. ClientSeconds = DHCP_WAIT_TIME + 1 - dhcp_tick_1s
      BY <1>1, <1>3, <2>4 DEF ClientSeconds
    <3>3. ClientSeconds' \in {0, DHCP_WAIT_TIME + 1 - dhcp_tick_1s'}
      BY <2>1 DEF ClientSeconds
    <3> QED
      BY <1>1, <2>4, <3>1, <3>2, <3>3
  <2> QED
    BY <1>1, <2>3, <2>4
<1> QED
  BY <1>2, <1>3

LEMMA SameRemaining ==
  ASSUME UNCHANGED <<pc, dhcp_retry, dns_retry, looking, retry_count, dns_1s_tick>>,
         UNCHANGED <<dhcp_state, dhcp_retry_count, declining, dhcp_tick_1s>>
  PROVE  UNCHANGED Remaining
BY DEF Remaining, Phase, Tries, Stage, ClientStage, LookupStage, Repeats, Seconds, ClientSeconds

LEMMA SecondCloser ==
  ASSUME StartInv, Unheard, SecondProcess
  PROVE  (Closer \/ UNCHANGED Remaining) /\ (~Waiting \/ Closer)
<1>1. /\ UNCHANGED <<pc, failures>> /\ UNCHANGED <<looking, retry_count, dhcp_state, dhcp_retry_count>>
  BY DEF SecondProcess, DHCP_time_handler, DNS_time_handler, dhcp, dns, timer
<1>2. UNCHANGED <<Phase, Tries, Stage, Repeats>>
  BY <1>1 DEF Phase, Tries, Stage, ClientStage, LookupStage, Repeats, failures
<1>3. ASSUME Seconds' < Seconds PROVE Closer
  BY <1>2, <1>3 DEF Closer
<1>4. ASSUME Seconds' = Seconds PROVE UNCHANGED Remaining
  BY <1>2, <1>4 DEF Remaining
<1>5. CASE pc \in {"dhcp", "dnsDhcp"}
  <2>1. Seconds = ClientSeconds /\ Seconds' = ClientSeconds'
    BY <1>1, <1>5 DEF Seconds
  <2>2. CASE dhcp_use
    <3>1. DHCP_time_handler /\ DhcpTypeOK
      BY <2>2 DEF SecondProcess, StartInv, ClientInv
    <3>2. /\ ClientSeconds' < ClientSeconds \/ ClientSeconds' = ClientSeconds
          /\ Waiting => ClientSeconds' < ClientSeconds
      BY <1>5, <3>1, ClientSecond DEF Waiting, ClientWaits
    <3> QED
      BY <1>3, <1>4, <2>1, <3>2
  <2>3. CASE ~dhcp_use
    <3>1. UNCHANGED dhcp /\ ~Waiting
      BY <1>5, <2>3 DEF SecondProcess, Waiting, ClientWaits
    <3>2. Seconds' = Seconds
      BY <2>1, <3>1 DEF ClientSeconds, dhcp
    <3> QED
      BY <1>4, <3>1, <3>2
  <2> QED
    BY <2>2, <2>3
<1>6. CASE pc \in {"netconf", "dns"}
  <2>1. Seconds = DNS_WAIT_TIME - dns_1s_tick /\ Seconds' = DNS_WAIT_TIME - dns_1s_tick'
    BY <1>1, <1>6 DEF Seconds
  <2>2. dns_1s_tick \in 0..DNS_WAIT_TIME /\ DNS_WAIT_TIME \in Nat
    BY DnsAssumption DEF StartInv, DnsTypeOK
  <2>3. CASE dns_use /\ dns_1s_tick < DNS_WAIT_TIME
    <3>1. dns_1s_tick' = dns_1s_tick + 1
      BY <2>3 DEF SecondProcess, NamesWanted, DNS_time_handler
    <3> QED
      BY <1>3, <2>1, <2>2, <3>1
  <2>4. CASE ~(dns_use /\ dns_1s_tick < DNS_WAIT_TIME)
    <3>1. dns_1s_tick' = dns_1s_tick
      BY <1>6, <2>2, <2>4 DEF SecondProcess, NamesWanted, DNS_time_handler, dns
    <3>2. ~Waiting
      BY <1>6, <2>4 DEF Waiting
    <3> QED
      BY <1>4, <2>1, <3>1, <3>2
  <2> QED
    BY <2>3, <2>4
<1> QED
  BY <1>5, <1>6 DEF Unheard, Starting

(* A call of the client that hears nothing waits or gets on.               *)
LEMMA ClientStep ==
  ASSUME DeclineInv, NEW ret, DHCP_run({NoMessage}, ret), ret \in {"RUNNING", "none"}
  PROVE  \/ ClientStage' < ClientStage
         \/ ClientStage' = ClientStage /\ dhcp_retry_count' = dhcp_retry_count + 1
         \/ /\ UNCHANGED <<dhcp_state, dhcp_tick_1s, dhcp_retry_count, declining>>
            /\ declining = -1 /\ dhcp_state \in {"DISCOVER", "REQUEST", "REREQUEST"}
            /\ dhcp_retry_count < MAX_DHCP_RETRY /\ dhcp_tick_1s <= DHCP_WAIT_TIME
<1>0. NoMessage.type = "none"
  BY DEF NoMessage
<1>1. CASE Discover(NoMessage)
  BY <1>1 DEF Discover, Begin, ClientStage
<1>2. CASE Declined
  BY <1>2 DEF Declined, DeclineInv, ClientStage
<1>3. CASE Repeat(NoMessage)
  BY <1>3 DEF Repeat, ClientStage
<1>4. CASE GiveUp(NoMessage, ret)
  BY <1>4 DEF GiveUp, Unanswered, Begin, ClientStage
<1>5. CASE Wait(NoMessage) /\ declining = -1
  BY <1>5 DEF Wait, Unanswered, Begin, timer
<1>6. CASE Request(NoMessage) \/ Assign(NoMessage) \/ Decline(NoMessage)
             \/ Refused(NoMessage, ret) \/ Renewed(NoMessage)
  BY <1>0, <1>6 DEF Request, Assign, Decline, Refused, Renewed
<1>7. CASE ret = "LEASED"
  BY <1>7
<1> QED
  BY <1>1, <1>2, <1>3, <1>4, <1>5, <1>6, <1>7 DEF DHCP_run

LEMMA DhcpCloser ==
  ASSUME StartInv, DeclineInv, silent, StartStatic \/ StartDhcp \/ StartAddress
  PROVE  Closer \/ (Waiting /\ UNCHANGED Remaining)
<1> USE NetStartAssumption, DhcpAssumption
<1>1. CASE StartStatic \/ StartAddress \/ pc' # "dhcp"
  <2>1. \/ pc = "dhcp" /\ pc' \in {"netconf", "dns"}
        \/ pc = "netconf" /\ pc' = "dns"
    BY <1>1 DEF StartStatic, StartDhcp, StartAddress
  <2>2. Phase' < Phase
    BY <2>1 DEF Phase
  <2> QED
    BY <2>2 DEF Closer
<1>2. CASE StartDhcp /\ pc' = "dhcp"
  <2>1. pc = "dhcp" /\ dhcp_use /\ UNCHANGED <<dns, dns_retry>>
    BY <1>2 DEF StartDhcp
  <2>2. Phase' = Phase
    BY <1>2, <2>1 DEF Phase
  <2>3. CASE dhcp_retry' = dhcp_retry + 1
    <3>1. Tries = MaxFailed - dhcp_retry /\ Tries' = MaxFailed - dhcp_retry'
      BY <1>2, <2>1 DEF Tries
    <3>2. dhcp_retry \in 0..MaxFailed
      BY DEF StartInv, MainType
    <3>3. Tries' < Tries
      BY <2>3, <3>1, <3>2
    <3> QED
      BY <2>2, <3>3 DEF Closer
  <2>4. CASE (Run("RUNNING") \/ Run("none")) /\ UNCHANGED dhcp_retry
    <3>1. PICK ret \in {"RUNNING", "none"} : DHCP_run({NoMessage}, ret)
      BY <2>4 DEF Run, Inbox
    <3>2. Tries' = Tries
      BY <1>2, <2>1, <2>4 DEF Tries
    <3>3. Stage = ClientStage /\ Stage' = ClientStage'
      BY <1>2, <2>1 DEF Stage
    <3>4. CASE ClientStage' < ClientStage
      BY <2>2, <3>2, <3>3, <3>4 DEF Closer
    <3>5. CASE ClientStage' = ClientStage /\ dhcp_retry_count' = dhcp_retry_count + 1
      <4>1. Repeats = MAX_DHCP_RETRY - dhcp_retry_count /\ Repeats' = MAX_DHCP_RETRY - dhcp_retry_count'
        BY <1>2, <2>1 DEF Repeats
      <4>2. dhcp_retry_count \in 0..MAX_DHCP_RETRY
        BY DEF StartInv, ClientInv, DhcpTypeOK
      <4>3. Repeats' < Repeats
        BY <3>5, <4>1, <4>2
      <4> QED
        BY <2>2, <3>2, <3>3, <3>5, <4>3 DEF Closer
    <3>6. CASE /\ UNCHANGED <<dhcp_state, dhcp_tick_1s, dhcp_retry_count, declining>>
               /\ declining = -1 /\ dhcp_state \in {"DISCOVER", "REQUEST", "REREQUEST"}
               /\ dhcp_retry_count < MAX_DHCP_RETRY /\ dhcp_tick_1s <= DHCP_WAIT_TIME
      <4>1. UNCHANGED Remaining
        BY <1>2, <2>1, <2>4, <3>6, SameRemaining DEF dns
      <4> QED
        BY <2>1, <3>6, <4>1 DEF Waiting, ClientWaits
    <3> QED
      BY <3>1, <3>4, <3>5, <3>6, ClientStep
  <2> QED
    BY <1>2, <2>3, <2>4 DEF StartDhcp
<1> QED
  BY <1>1, <1>2

LEMMA LookupCloser ==
  ASSUME StartInv, DeclineInv, silent, StartNoDns \/ StartDns \/ StartDnsDhcp, Starting'
  PROVE  Closer
<1> USE NetStartAssumption, DnsAssumption
<1>1. pc \in {"dns", "dnsDhcp"} /\ pc' \in {"dns", "dnsDhcp"}
  BY DEF StartNoDns, StartDns, StartDnsDhcp, Starting
<1>2. Phase' = Phase
  BY <1>1 DEF Phase
<1>3. Tries = MaxFailed - dns_retry /\ Tries' = MaxFailed - dns_retry'
  BY <1>1 DEF Tries
<1>4. Repeats = MAX_DNS_RETRY - retry_count /\ Repeats' = MAX_DNS_RETRY - retry_count'
  BY <1>1 DEF Repeats
<1>5. Stage = LookupStage /\ Stage' = LookupStage'
  BY <1>1 DEF Stage
<1>6. ASSUME dns_retry' = dns_retry + 1 PROVE Closer
  <2>1. dns_retry \in 0..MaxFailed
    BY DEF StartInv, MainType
  <2>2. Tries' < Tries
    BY <1>3, <1>6, <2>1
  <2> QED
    BY <1>2, <2>2 DEF Closer
<1>7. ASSUME dns_retry' = dns_retry, Stage' < Stage PROVE Closer
  <2>1. Tries' = Tries
    BY <1>3, <1>7
  <2> QED
    BY <1>2, <1>7, <2>1 DEF Closer
<1>8. CASE StartDnsDhcp
  <2>1. dns_retry' = dns_retry /\ UNCHANGED looking /\ pc = "dnsDhcp"
    BY <1>8 DEF StartDnsDhcp, failures, dns
  <2>2. pc' = "dns"
    <3>1. CASE dhcp_use /\ Run("none")
      <4>1. DHCP_run({NoMessage}, "none")
        BY <3>1 DEF Run, Inbox
      <4>2. Decline(NoMessage)
        BY <4>1 DEF DHCP_run, Discover, Request, Assign, Declined, Refused, Leased, Renew, Renewed,
          Wait, Repeat, GiveUp
      <4> QED
        BY <4>2 DEF Decline, NoMessage
    <3> QED
      BY <1>8, <3>1 DEF StartDnsDhcp
  <2>3. Stage' < Stage
    BY <1>5, <2>1, <2>2 DEF LookupStage
  <2> QED
    BY <1>7, <2>1, <2>3
<1>9. CASE StartDns
  <2>1. pc = "dns"
    BY <1>9 DEF StartDns
  <2>2. CASE Query /\ UNCHANGED <<dns_retry, pc>>
    <3>1. Stage' < Stage
      BY <1>5, <2>1, <2>2 DEF Query, LookupStage
    <3> QED
      BY <1>7, <2>2, <3>1
  <2>3. CASE Again /\ UNCHANGED <<dns_retry, pc>>
    <3>1. retry_count \in 0..MAX_DNS_RETRY /\ retry_count' = retry_count + 1 /\ looking' = looking
      BY <2>3 DEF Again, StartInv, DnsTypeOK
    <3>2. Repeats' < Repeats
      BY <1>4, <3>1
    <3>3. Tries' = Tries /\ Stage' = Stage
      BY <1>3, <1>5, <2>3, <3>1 DEF LookupStage
    <3> QED
      BY <1>2, <3>2, <3>3 DEF Closer
  <2>4. CASE dns_retry' = dns_retry + 1
    BY <1>6, <2>4
  <2>5. CASE Lookup(1)
    BY <2>5 DEF Lookup, TimedOut
  <2> QED
    BY <1>1, <1>9, <2>2, <2>3, <2>4, <2>5 DEF StartDns
<1>10. CASE StartNoDns
  BY <1>1, <1>10 DEF StartNoDns
<1> QED
  BY <1>8, <1>9, <1>10

LEMMA StartCloser ==
  ASSUME StartInv, DeclineInv, [Next]_vars, Unheard, Starting'
  PROVE  /\ Closer \/ UNCHANGED Remaining
         /\ MainStep => Waiting \/ Closer
         /\ SecondProcess => ~Waiting \/ Closer
<1>1. CASE MainStep
  <2>1. Closer \/ (Waiting /\ UNCHANGED Remaining)
    <3>1. ~(LoopTop \/ Nset \/ Fdns \/ LoopDhcp \/ LoopDns)
      BY DEF Unheard, Starting, LoopTop, Nset, Fdns, LoopDhcp, LoopDns
    <3>2. \/ StartStatic \/ StartDhcp \/ StartAddress
          \/ StartNoDns \/ StartDns \/ StartDnsDhcp
      BY <1>1, <3>1 DEF MainStep
    <3>3. silent
      BY DEF Unheard
    <3>4. CASE StartStatic \/ StartDhcp \/ StartAddress
      BY <3>3, <3>4, DhcpCloser
    <3>5. CASE StartNoDns \/ StartDns \/ StartDnsDhcp
      BY <3>3, <3>5, LookupCloser
    <3> QED
      BY <3>2, <3>4, <3>5
  <2>2. SecondProcess => ~Waiting \/ Closer
    BY SecondCloser
  <2> QED
    BY <2>1, <2>2
<1>2. CASE SecondProcess /\ ~MainStep
  BY <1>2, SecondCloser
<1>3. CASE (Watchdog \/ FallSilent \/ UNCHANGED vars) /\ ~MainStep /\ ~SecondProcess
  <2>1. FallSilent \/ UNCHANGED vars
    BY <1>3 DEF Watchdog, Unheard
  <2>2. UNCHANGED Remaining
    BY <2>1, SameRemaining DEF FallSilent, vars, dhcp, dns, failures
  <2> QED
    BY <1>3, <2>2
<1> QED
  BY <1>1, <1>2, <1>3 DEF Next

(* Without any server the start comes to its end: no step takes it further *)
(* away, every step of main that finds more to do than to wait brings it   *)
(* closer, and so does every second that finds main waiting, down to a     *)
(* bound.  Of StartEnds this is all but the fairness.                      *)
THEOREM StartCountsDown ==
  Spec => /\ []Limited
          /\ [][Unheard /\ Starting' =>
                  /\ Closer \/ UNCHANGED Remaining
                  /\ MainStep => Waiting \/ Closer
                  /\ SecondProcess => ~Waiting \/ Closer]_vars
<1> DEFINE CountDown == Unheard /\ Starting' =>
                          /\ Closer \/ UNCHANGED Remaining
                          /\ MainStep => Waiting \/ Closer
                          /\ SecondProcess => ~Waiting \/ Closer
<1>1. StartInv => Limited
  <2> SUFFICES ASSUME StartInv PROVE Limited
    OBVIOUS
  <2>1. Phase \in 0..2 /\ Stage \in 0..2
    BY DEF Phase, Stage, ClientStage, LookupStage
  <2>2. Tries \in 0..MaxFailed
    BY NetStartAssumption DEF StartInv, MainType, Tries
  <2>3. Repeats \in Nat
    BY DhcpAssumption, DnsAssumption DEF StartInv, ClientInv, DhcpTypeOK, DnsTypeOK, Repeats
  <2>4. ClientSeconds \in Nat
    BY ClientSecondsType DEF StartInv, ClientInv
  <2>5. DNS_WAIT_TIME - dns_1s_tick \in Nat
    BY DnsAssumption DEF StartInv, DnsTypeOK
  <2>6. Seconds \in Nat
    BY <2>4, <2>5 DEF Seconds
  <2> QED
    BY <2>1, <2>2, <2>3, <2>6 DEF Limited
<1>2. StartInv /\ DeclineInv /\ [Next]_vars => [CountDown]_vars
  BY StartCloser
<1>3. Spec => []DeclineInv
  BY InitDecline, DeclineKept, PTL DEF Spec
<1> HIDE DEF CountDown
<1>4. Spec => []Limited /\ [][CountDown]_vars
  BY Invariant, <1>1, <1>2, <1>3, PTL DEF Spec
<1> QED
  BY <1>4 DEF CountDown
=============================================================================
