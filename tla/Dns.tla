-------------------------------- MODULE Dns --------------------------------
(***************************************************************************)
(* The name lookup: DNS_run of ioLibrary/Internet/DNS/dns.c, which sends   *)
(* one query and then waits, without returning, for an answer or for its   *)
(* time-outs.  What it sends again has no length (len is that of the       *)
(* answer that is not there), so that only the first query goes out.       *)
(* retry_count and dns_1s_tick are neither set at the start of a lookup    *)
(* nor, when an answer comes, at its end.                                  *)
(***************************************************************************)
EXTENDS Integers

CONSTANTS
  DNS_WAIT_TIME,  \* seconds between time-outs (3)
  MAX_DNS_RETRY   \* time-outs that do not end the lookup (2)

ASSUME DnsAssumption == DNS_WAIT_TIME \in Nat \ {0} /\ MAX_DNS_RETRY \in Nat

VARIABLES
  looking,      \* DNS_run waits
  dns_1s_tick,
  retry_count

dns == <<looking, dns_1s_tick, retry_count>>

DnsInit == looking = FALSE /\ dns_1s_tick = 0 /\ retry_count = 0
DnsReset == looking' = FALSE /\ dns_1s_tick' = 0 /\ retry_count' = 0

DNS_time_handler ==
  /\ dns_1s_tick' = IF dns_1s_tick < DNS_WAIT_TIME THEN dns_1s_tick + 1 ELSE dns_1s_tick
  /\ UNCHANGED <<looking, retry_count>>

-----------------------------------------------------------------------------
Query == ~looking /\ looking' = TRUE /\ UNCHANGED <<dns_1s_tick, retry_count>>

(* The message received: an address, an error, a name that is too long     *)
(* (parseDNSMSG).                                                          *)
Codes == {-1, 0, 1}
Answered(ret) ==
  /\ looking /\ ret \in Codes
  /\ looking' = FALSE /\ UNCHANGED <<dns_1s_tick, retry_count>>

Over == looking /\ dns_1s_tick >= DNS_WAIT_TIME

Again_KeepCount ==
  /\ Over /\ retry_count < MAX_DNS_RETRY
  /\ dns_1s_tick' = 0 /\ UNCHANGED <<looking, retry_count>>

Again ==
  /\ Over /\ retry_count < MAX_DNS_RETRY
  /\ dns_1s_tick' = 0 /\ retry_count' = retry_count + 1 /\ UNCHANGED looking

(* The socket stays open; the next lookup opens it anew.                   *)
TimedOut(ret) ==
  /\ Over /\ retry_count >= MAX_DNS_RETRY /\ ret = 0
  /\ dns_1s_tick' = 0 /\ retry_count' = 0 /\ looking' = FALSE

(* DNS_run returns ret.                                                    *)
Looked(ret) == Answered(ret) \/ TimedOut(ret)

(* The part of the lookup of TypeOK.                                       *)
DnsTypeOK ==
  /\ looking \in BOOLEAN
  /\ dns_1s_tick \in 0..DNS_WAIT_TIME /\ retry_count \in 0..MAX_DNS_RETRY
=============================================================================
