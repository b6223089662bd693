------------------------------ MODULE NetStart ------------------------------
(***************************************************************************)
(* How the module gets on the network: the start phase of main (main.c),   *)
(* which runs the DHCP client until it has a lease or has failed too often *)
(* and then looks up the name of its peer, and the main loop, which keeps  *)
(* the client running and repeats the lookup, in its first pass and every  *)
(* minute from then on, under the watchdog that is enabled between the     *)
(* two.  A second of the timer interrupt drives both clients; AT commands  *)
(* change the settings (NSET) and look up names (FDNS).                    *)
(***************************************************************************)
EXTENDS Dhcp, Dns

CONSTANT MaxFailed  \* failures of DHCP, and of lookups, before the start goes on (3)

ASSUME NetStartAssumption == MaxFailed \in Nat

VARIABLES
  dhcp_use, dns_use,  \* settings
  dhcp_retry, dns_retry,
  run_dns,            \* a lookup of the main loop is due
  starved,            \* ticks of the second since the watchdog was reloaded
  silent,             \* no server answers for the rest of the start phase
  pc                  \* where main is

settings == <<dhcp_use, dns_use>>
failures == <<dhcp_retry, dns_retry>>
vars == <<dhcp, dns, settings, failures, run_dns, starved, silent, pc>>

Starting == pc \in {"dhcp", "netconf", "dns", "dnsDhcp"}

Init ==
  /\ DhcpInit /\ DnsInit
  /\ dhcp_use \in BOOLEAN /\ dns_use \in BOOLEAN
  /\ dhcp_retry = 0 /\ dns_retry = 0 /\ run_dns = TRUE
  /\ starved = 0 /\ silent = FALSE /\ pc = "dhcp"

-----------------------------------------------------------------------------
(* A call of the DHCP client, and a lookup.                                *)

Inbox == {NoMessage} \cup IF silent THEN {} ELSE Messages
Run(ret) == DHCP_run(Inbox, ret)
Lookup(ret) == IF silent THEN TimedOut(ret) ELSE Looked(ret)

Net_Conf(address) ==
  /\ local_ip' = address
  /\ UNCHANGED <<dhcp_state, allocated, dhcp_lease_time, timer, declining>>

-----------------------------------------------------------------------------
(* The start phase *)

StartStatic ==
  /\ pc = "dhcp" /\ ~dhcp_use /\ pc' = "netconf"
  /\ UNCHANGED <<dhcp, dns, settings, failures, run_dns, starved, silent>>

StartDhcp ==
  /\ pc = "dhcp" /\ dhcp_use
  /\ UNCHANGED <<dns, settings, dns_retry, run_dns, starved, silent>>
  /\ \/ (Run("RUNNING") \/ Run("none")) /\ UNCHANGED <<dhcp_retry, pc>>
     \/ Run("LEASED") /\ dhcp_retry' = 0 /\ pc' = "dns"
     \/ /\ Run("FAILED")
        /\ IF dhcp_retry < MaxFailed
             THEN dhcp_retry' = dhcp_retry + 1 /\ UNCHANGED pc
             ELSE dhcp_retry' = 0 /\ pc' = "netconf"

(* The stored address is put to use; the client goes on all the same.      *)
StartAddress ==
  /\ pc = "netconf" /\ pc' = "dns" /\ Net_Conf(Static)
  /\ UNCHANGED <<dns, settings, failures, run_dns, starved, silent>>

StartNoDns ==
  /\ pc = "dns" /\ ~dns_use /\ pc' = "main" /\ silent' = FALSE
  /\ UNCHANGED <<dhcp, dns, settings, failures, run_dns, starved>>

StartDns ==
  /\ pc = "dns" /\ dns_use
  /\ \/ (Query \/ Again) /\ UNCHANGED <<dns_retry, pc>>
     \/ Lookup(1) /\ dns_retry' = 0 /\ pc' = "main"
     \/ /\ Lookup(0) \/ Lookup(-1)
        /\ IF dns_retry < MaxFailed
             THEN dns_retry' = dns_retry + 1 /\ pc' = "dnsDhcp"
             ELSE dns_retry' = 0 /\ pc' = "main"
  /\ silent' = (silent /\ pc' # "main")
  /\ UNCHANGED <<dhcp, settings, dhcp_retry, run_dns, starved>>

StartDnsDhcp ==
  /\ pc = "dnsDhcp"
  /\ UNCHANGED <<dns, settings, failures, run_dns, starved, silent>>
  /\ \/ ~dhcp_use /\ UNCHANGED dhcp /\ pc' = "dns"
     \/ dhcp_use /\ Run("none") /\ UNCHANGED pc
     \/ dhcp_use /\ (\E ret \in Results \ {"none"} : Run(ret)) /\ pc' = "dns"

-----------------------------------------------------------------------------
(* The main loop *)

(* The watchdog is reloaded; the mode's own work is that of S2eConn,       *)
(* Trigger and AtSock, except for two commands.                            *)
LoopTop ==
  /\ pc = "main" /\ starved' = 0 /\ pc' \in {"mainDhcp", "nset", "fdns"}
  /\ UNCHANGED <<dhcp, dns, settings, failures, run_dns, silent>>

(* act_nset_a, with a mode or without, with an address or without.         *)
Nset ==
  /\ pc = "nset" /\ pc' = "mainDhcp"
  /\ dhcp_use' \in BOOLEAN
  /\ \E address \in {local_ip, Static} : Net_Conf(address)
  /\ UNCHANGED <<dns, dns_use, failures, run_dns, starved, silent>>

(* act_fdns looks up until it has an answer, or the name is too long.      *)
Fdns ==
  /\ pc = "fdns"
  /\ \/ (Query \/ Again \/ Lookup(0)) /\ UNCHANGED pc
     \/ (Lookup(1) \/ Lookup(-1)) /\ pc' = "mainDhcp"
  /\ UNCHANGED <<dhcp, settings, failures, run_dns, starved, silent>>

LoopDhcp ==
  /\ pc = "mainDhcp"
  /\ UNCHANGED <<dns, settings, failures, run_dns, starved, silent>>
  /\ \/ ~dhcp_use /\ UNCHANGED dhcp /\ pc' = "mainDns"
     \/ dhcp_use /\ Run("none") /\ UNCHANGED pc
     \/ dhcp_use /\ (\E ret \in Results \ {"none"} : Run(ret)) /\ pc' = "mainDns"

LoopDns ==
  /\ pc = "mainDns"
  /\ \/ ~(dns_use /\ run_dns) /\ UNCHANGED <<dns, run_dns>> /\ pc' = "main"
     \/ dns_use /\ run_dns /\ (Query \/ Again) /\ UNCHANGED <<run_dns, pc>>
     \/ Lookup(1) /\ run_dns' = FALSE /\ pc' = "main"
     \/ (Lookup(0) \/ Lookup(-1)) /\ UNCHANGED run_dns /\ pc' = "main"
  /\ UNCHANGED <<dhcp, settings, failures, starved, silent>>

-----------------------------------------------------------------------------
(* The timer interrupt, the watchdog and the servers *)

(* The watchdog's second is that of a clock of its own: it has passed      *)
(* before the third tick.                                                  *)
Starved == 2
NamesWanted == dns_use \/ pc = "fdns"

SecondProcess ==
  /\ ~Starting => starved < Starved
  /\ starved' = IF Starting THEN starved ELSE starved + 1
  /\ IF dhcp_use THEN DHCP_time_handler ELSE UNCHANGED dhcp
  /\ IF NamesWanted THEN DNS_time_handler ELSE UNCHANGED dns
  /\ run_dns' \in {run_dns, run_dns \/ NamesWanted}  \* once a minute
  /\ UNCHANGED <<settings, failures, silent, pc>>

(* Back to the start, with the stored settings.                            *)
Watchdog ==
  /\ ~Starting /\ starved > 0
  /\ DhcpReset /\ DnsReset /\ dhcp_use' \in BOOLEAN /\ dns_use' \in BOOLEAN
  /\ dhcp_retry' = 0 /\ dns_retry' = 0 /\ run_dns' = TRUE
  /\ starved' = 0 /\ silent' = FALSE /\ pc' = "dhcp"

FallSilent ==
  /\ Starting /\ ~silent /\ silent' = TRUE
  /\ UNCHANGED <<dhcp, dns, settings, failures, run_dns, starved, pc>>

-----------------------------------------------------------------------------
MainStep ==
  \/ StartStatic \/ StartDhcp \/ StartAddress \/ StartNoDns \/ StartDns \/ StartDnsDhcp
  \/ LoopTop \/ Nset \/ Fdns \/ LoopDhcp \/ LoopDns

Next == MainStep \/ SecondProcess \/ Watchdog \/ FallSilent

Spec == Init /\ [][Next]_vars

(* The processor runs, seconds pass, and a starved watchdog bites.         *)
FairSpec ==
  Spec /\ WF_vars(MainStep) /\ WF_vars(SecondProcess) /\ WF_vars(Watchdog /\ starved = Starved)

-----------------------------------------------------------------------------
(* Properties *)

(* Every variable keeps its type; the two retry counts stay within their   *)
(* limits.                                                                 *)
TypeOK ==
  /\ DhcpTypeOK /\ DnsTypeOK
  /\ dhcp_use \in BOOLEAN /\ dns_use \in BOOLEAN /\ run_dns \in BOOLEAN /\ silent \in BOOLEAN
  /\ dhcp_retry \in 0..MaxFailed /\ dns_retry \in 0..MaxFailed /\ starved \in 0..Starved
  /\ pc \in {"dhcp", "netconf", "dns", "dnsDhcp", "main", "nset", "fdns", "mainDhcp", "mainDns"}

(* Whatever the servers said, the main loop never runs without an address, *)
(* and a client that believes in a lease uses the address that lease began *)
(* with, unless the stored one or a command has replaced it.  It is not    *)
(* always the one the server granted last: see NetRenewal.                 *)
AddressInUse ==
  /\ pc \notin {"dhcp", "netconf"} => local_ip # Unset
  /\ dhcp_state \in {"LEASED", "REREQUEST"} =>
       local_ip = allocated \/ local_ip = Static

(* Without any server the start phase ends: DHCP fails often enough, and   *)
(* so do the lookups.                                                      *)
StartEnds == silent ~> ~Starting

(* Unless DHCP is switched off, a lease that does not last forever is not  *)
(* kept for ever: the client comes to ask for its renewal, or the watchdog *)
(* starts the module anew, whatever becomes of the lookups and commands    *)
(* and however many seconds pass between two calls of the client.  When it *)
(* asks, and whether it is answered, is not said.                          *)
Expiring == dhcp_use /\ dhcp_state = "LEASED" /\ dhcp_lease_time # INFINITE_LEASETIME
Renews == []<>~Expiring
=============================================================================
