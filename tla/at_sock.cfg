SPECIFICATION FairSpec
CONSTANTS
  Protocols = {"SRV", "CLT", "UDP"}
INVARIANTS
  TypeOK
  ReleasedIsClosed
  TriesAreBusy
  NothingMissed
PROPERTIES
  BusyEnds
  EndNoticed
  PeerServed
