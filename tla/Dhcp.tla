-------------------------------- MODULE Dhcp --------------------------------
(***************************************************************************)
(* The DHCP client, DHCP_run of ioLibrary/Internet/DHCP/dhcp.c, which the  *)
(* main loop calls again and again, and the callback that puts the address *)
(* to use (callback/dhcp_cb.c).                                            *)
(*                                                                         *)
(* The client compares neither the transaction nor the server of a message *)
(* with its own, so that whatever any server sent, for this request or for *)
(* an earlier one, may be the next message: any message, at any time.      *)
(* Each action is one call, with the message it finds in the socket and    *)
(* what it answers.                                                        *)
(***************************************************************************)
EXTENDS Integers

CONSTANTS
  Addresses,       \* what servers offer
  Leases,          \* lease times in seconds
  DHCP_WAIT_TIME,  \* seconds before a message is repeated (10)
  MAX_DHCP_RETRY,  \* repetitions (2)
  MaxTick          \* the bound of the seconds counter

INFINITE_LEASETIME == -1
Unset == "0.0.0.0"
Static == "static"  \* the stored address, which Net_Conf puts to use

(* Beyond MaxTick every comparison with dhcp_tick_1s has the same outcome. *)
ASSUME DhcpAssumption ==
  /\ DHCP_WAIT_TIME \in Nat /\ MAX_DHCP_RETRY \in Nat
  /\ Leases \subseteq Nat \cup {INFINITE_LEASETIME}
  /\ MaxTick \in Nat /\ MaxTick > DHCP_WAIT_TIME
  /\ \A lease \in Leases : MaxTick > lease \div 2
  /\ Unset \notin Addresses /\ Static \notin Addresses

VARIABLES
  dhcp_state,
  allocated,         \* DHCP_allocated_ip
  dhcp_lease_time,
  dhcp_tick_1s, dhcp_retry_count,
  declining,         \* seconds check_DHCP_leasedIP has waited after a DECLINE, or -1
  local_ip           \* the address in use

dhcp == <<dhcp_state, allocated, dhcp_lease_time, dhcp_tick_1s, dhcp_retry_count, declining,
          local_ip>>
timer == <<dhcp_tick_1s, dhcp_retry_count>>

Types == {"OFFER", "ACK", "NAK", "other"}
(* A message without a lease time leaves the one that was there; so does   *)
(* one that does not come from a server's port, whose type is whatever the *)
(* uninitialized variable holds.                                           *)
Keep == -2
NoMessage == [type |-> "none", yiaddr |-> Unset, lease |-> Keep]
(* Only an OFFER's address is read.                                        *)
Messages ==
  [type: {"OFFER"}, yiaddr: Addresses, lease: Leases \cup {Keep}] \cup
  [type: Types \ {"OFFER"}, yiaddr: {Unset}, lease: Leases \cup {Keep}]

DhcpInit ==
  /\ dhcp_state = "INIT" /\ allocated = Unset /\ dhcp_lease_time = INFINITE_LEASETIME
  /\ dhcp_tick_1s = 0 /\ dhcp_retry_count = 0 /\ declining = -1
  /\ local_ip = Unset

DhcpReset ==
  /\ dhcp_state' = "INIT" /\ allocated' = Unset /\ dhcp_lease_time' = INFINITE_LEASETIME
  /\ dhcp_tick_1s' = 0 /\ dhcp_retry_count' = 0 /\ declining' = -1
  /\ local_ip' = Unset

-----------------------------------------------------------------------------
DHCP_time_handler ==
  /\ dhcp_tick_1s' = IF dhcp_tick_1s < MaxTick THEN dhcp_tick_1s + 1 ELSE dhcp_tick_1s
  /\ declining' = IF declining \in 0..1 THEN declining + 1 ELSE declining
  /\ UNCHANGED <<dhcp_state, allocated, dhcp_lease_time, dhcp_retry_count, local_ip>>

-----------------------------------------------------------------------------
(* DHCP_run: with one of the messages of inbox it answers ret, or "none"   *)
(* while it waits after a DECLINE.                                         *)

reset_DHCP_timeout == dhcp_tick_1s' = 0 /\ dhcp_retry_count' = 0

(* parseDHCPMSG, the first thing DHCP_run does in any state.               *)
parseDHCPMSG(message) ==
  dhcp_lease_time' = IF message.lease = Keep THEN dhcp_lease_time ELSE message.lease

Begin(state, message) == dhcp_state = state /\ parseDHCPMSG(message)

Discover(message) ==
  /\ Begin("INIT", message)
  /\ allocated' = Unset /\ dhcp_state' = "DISCOVER"
  /\ UNCHANGED <<timer, declining, local_ip>>

(* The timer and the retry count go on from the DISCOVER.                  *)
Request(message) ==
  /\ Begin("DISCOVER", message) /\ message.type = "OFFER"
  /\ allocated' = message.yiaddr /\ dhcp_state' = "REQUEST"
  /\ UNCHANGED <<timer, declining, local_ip>>

Assign_NoCallback(message) ==
  /\ Begin("REQUEST", message) /\ message.type = "ACK"
  /\ dhcp_state' = "LEASED" /\ reset_DHCP_timeout
  /\ UNCHANGED <<allocated, declining, local_ip>>

(* Nobody answers for the address: dhcp_ip_assign puts it to use.          *)
Assign(message) ==
  /\ Begin("REQUEST", message) /\ message.type = "ACK"
  /\ local_ip' = allocated
  /\ dhcp_state' = "LEASED" /\ reset_DHCP_timeout
  /\ UNCHANGED <<allocated, declining>>

(* Somebody does: DECLINE, and two seconds of waiting.                     *)
Decline(message) ==
  /\ Begin("REQUEST", message) /\ message.type = "ACK"
  /\ declining' = 0
  /\ UNCHANGED <<dhcp_state, allocated, timer, local_ip>>
Declined ==
  /\ declining = 2
  /\ declining' = -1 /\ dhcp_state' = "INIT" /\ reset_DHCP_timeout
  /\ UNCHANGED <<allocated, dhcp_lease_time, local_ip>>

(* The DISCOVER that should follow a NAK is left to its repetition.        *)
Refused(message, ret) ==
  /\ Begin(dhcp_state, message) /\ dhcp_state \in {"REQUEST", "REREQUEST"} /\ message.type = "NAK"
  /\ ret = IF dhcp_state = "REQUEST" THEN "RUNNING" ELSE "LEASED"
  /\ dhcp_state' = "DISCOVER" /\ reset_DHCP_timeout
  /\ UNCHANGED <<allocated, declining, local_ip>>

Leased(message) ==
  /\ Begin("LEASED", message)
  /\ \/ dhcp_lease_time' = INFINITE_LEASETIME
     \/ dhcp_lease_time' # INFINITE_LEASETIME /\ dhcp_tick_1s <= dhcp_lease_time' \div 2
  /\ UNCHANGED <<dhcp_state, allocated, timer, declining, local_ip>>

Renew_AtHalf(message) ==
  /\ Begin("LEASED", message)
  /\ dhcp_lease_time' # INFINITE_LEASETIME /\ dhcp_tick_1s = dhcp_lease_time' \div 2 + 1
  /\ dhcp_state' = "REREQUEST" /\ reset_DHCP_timeout
  /\ UNCHANGED <<allocated, declining, local_ip>>

Renew(message) ==
  /\ Begin("LEASED", message)
  /\ dhcp_lease_time' # INFINITE_LEASETIME /\ dhcp_tick_1s > dhcp_lease_time' \div 2
  /\ dhcp_state' = "REREQUEST" /\ reset_DHCP_timeout
  /\ UNCHANGED <<allocated, declining, local_ip>>

(* The address of the ACK is not read, and the one it is compared with was *)
(* saved from it: dhcp_ip_update is never called.                          *)
Renewed(message) ==
  /\ Begin("REREQUEST", message) /\ message.type = "ACK"
  /\ dhcp_state' = "LEASED" /\ reset_DHCP_timeout
  /\ UNCHANGED <<allocated, declining, local_ip>>

(* check_DHCP_timeout, for a message that is not the one waited for.       *)
Unanswered(message) ==
  \/ Begin("DISCOVER", message) /\ message.type # "OFFER"
  \/ Begin("REQUEST", message) /\ message.type # "ACK" /\ message.type # "NAK"
  \/ Begin("REREQUEST", message) /\ message.type # "ACK" /\ message.type # "NAK"

Wait(message) ==
  /\ Unanswered(message)
  /\ dhcp_retry_count < MAX_DHCP_RETRY /\ dhcp_tick_1s <= DHCP_WAIT_TIME
  /\ UNCHANGED <<dhcp_state, allocated, timer, declining, local_ip>>

Repeat_NoLimit(message) ==
  /\ Unanswered(message)
  /\ dhcp_tick_1s > DHCP_WAIT_TIME
  /\ dhcp_tick_1s' = 0 /\ dhcp_retry_count' = dhcp_retry_count + 1
  /\ UNCHANGED <<dhcp_state, allocated, declining, local_ip>>

Repeat(message) ==
  /\ Unanswered(message)
  /\ dhcp_retry_count < MAX_DHCP_RETRY /\ dhcp_tick_1s > DHCP_WAIT_TIME
  /\ dhcp_tick_1s' = 0 /\ dhcp_retry_count' = dhcp_retry_count + 1
  /\ UNCHANGED <<dhcp_state, allocated, declining, local_ip>>

GiveUp_Quietly(message, ret) ==
  /\ Unanswered(message) /\ dhcp_retry_count >= MAX_DHCP_RETRY
  /\ \/ dhcp_state = "DISCOVER" /\ dhcp_state' = "INIT" /\ ret = "RUNNING"
     \/ dhcp_state # "DISCOVER" /\ dhcp_state' = "DISCOVER" /\ ret = "RUNNING"
  /\ reset_DHCP_timeout
  /\ UNCHANGED <<allocated, declining, local_ip>>

GiveUp(message, ret) ==
  /\ Unanswered(message) /\ dhcp_retry_count >= MAX_DHCP_RETRY
  /\ \/ dhcp_state = "DISCOVER" /\ dhcp_state' = "INIT" /\ ret = "FAILED"
     \/ dhcp_state # "DISCOVER" /\ dhcp_state' = "DISCOVER" /\ ret = "RUNNING"
  /\ reset_DHCP_timeout
  /\ UNCHANGED <<allocated, declining, local_ip>>

DHCP_run(inbox, ret) ==
  \/ ret = "RUNNING" /\ Declined
  \/ declining = -1 /\ \E message \in inbox :
       \/ ret = "RUNNING" /\ (\/ Discover(message) \/ Request(message) \/ Assign(message)
                             \/ Wait(message) \/ Repeat(message))
       \/ ret = "none" /\ Decline(message)
       \/ ret = "LEASED" /\ (Leased(message) \/ Renew(message) \/ Renewed(message))
       \/ Refused(message, ret) \/ GiveUp(message, ret)

Results == {"RUNNING", "FAILED", "LEASED", "none"}

(* The part of the client of TypeOK.                                       *)
DhcpTypeOK ==
  /\ dhcp_state \in {"INIT", "DISCOVER", "REQUEST", "LEASED", "REREQUEST"}
  /\ allocated \in Addresses \cup {Unset} /\ local_ip \in Addresses \cup {Unset, Static}
  /\ dhcp_lease_time \in Leases \cup {INFINITE_LEASETIME}
  /\ dhcp_tick_1s \in 0..MaxTick /\ dhcp_retry_count \in 0..MAX_DHCP_RETRY
  /\ declining \in -1..2
=============================================================================
