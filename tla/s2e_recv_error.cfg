SPECIFICATION Spec
CONSTANTS
  Modes = {"server"}
  Protected = {FALSE}
  Bytes = {"junk"}
  PwLen = 1
  Reconnection = 2
  Inactivities = {0}
  AuthSeconds = 2
  KeepSeconds = 2
  RecvCap = 1
  SerialCap = 1
INVARIANTS
  ErrorForwardsNothing
