SPECIFICATION FairSpec
CONSTANTS
  Ports = {p1, p2, p3}
  NoPort = NoPort
  Last = 4
  Timeout = 2
  Retries = 3
  Lingering = FALSE
INVARIANTS
  TypeOK
  OnlyWholeRuns
  WritesErased
  BlocksInPlace
PROPERTIES
  KeepsSlot
  QuietWithoutInput
  DownloadEnds
