SPECIFICATION FairSpec
CONSTANTS
  Addresses = {"a", "b"}
  Leases <- MCLeases
  DHCP_WAIT_TIME = 2
  MAX_DHCP_RETRY = 1
  MaxTick = 3
  DNS_WAIT_TIME = 3
  MAX_DNS_RETRY = 1
  MaxFailed = 1
INVARIANTS
  TypeOK
  AddressInUse
PROPERTIES
  StartEnds
  Renews
