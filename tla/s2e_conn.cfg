SPECIFICATION Spec
CONSTANTS
  Modes = {"client", "server", "mixed", "udp"}
  Protected = {TRUE, FALSE}
  Bytes = {"key", "junk"}
  PwLen = 2
  Reconnection = 2
  Inactivities = {0, 1}
  AuthSeconds = 2
  KeepSeconds = 1
  RecvCap = 2
  SerialCap = 1
INVARIANTS
  TypeOK
  AuthBeforeData
  MixedRole
PROPERTIES
  PacedConnects
