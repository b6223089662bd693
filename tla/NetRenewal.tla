----------------------------- MODULE NetRenewal -----------------------------
(***************************************************************************)
(* The start and the main loop of NetStart with a memory of what the       *)
(* server said last: the address in the acknowledgement of a renewal, for  *)
(* what the header of the DHCP client promises of it.                      *)
(***************************************************************************)
EXTENDS NetStart

VARIABLE granted  \* the address in the acknowledgement of the last renewal, or Unset

HistInit == Init /\ granted = Unset

(* The acknowledgement of a renewal may grant any address; Renewed does    *)
(* not read it.                                                            *)
Acknowledged == dhcp_state = "REREQUEST" /\ dhcp_state' = "LEASED"

HistNext ==
  /\ Next
  /\ \/ Acknowledged /\ granted' \in Addresses
     \/ ~Acknowledged /\ dhcp_state' \in {"LEASED", "REREQUEST"} /\ UNCHANGED granted
     \/ dhcp_state' \notin {"LEASED", "REREQUEST"} /\ granted' = Unset

HistSpec == HistInit /\ [][HistNext]_<<vars, granted>>

-----------------------------------------------------------------------------
(* "DHCP_IP_CHANGED, ///< Change IP address by new ip from DHCP" (dhcp.h): *)
(* once the server has renewed the lease, the address it granted then is   *)
(* the one in use, unless the stored one or a command has replaced it.     *)
GrantedInUse ==
  dhcp_state = "LEASED" /\ granted # Unset => local_ip \in {granted, Static}
=============================================================================
