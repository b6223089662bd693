SPECIFICATION FairSpec
CONSTANTS
  Modes = {"client", "mixed"}
  Protected = {TRUE}
  Bytes = {"junk"}
  PwLen = 2
  Reconnection = 1
  Inactivities = {0, 1}
  AuthSeconds = 1
  KeepSeconds = 1
  RecvCap = 2
  SerialCap = 1
PROPERTIES
  AuthDeadline
  IdleCloses
  ClientRetries
  SerialConnects
  LinkLossNoticed
