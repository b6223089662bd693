SPECIFICATION Spec
CONSTANTS
  Ports = {p1, p2}
  NoPort = NoPort
  Last = 3
  Timeout = 1
  Retries = 2
  Lingering = TRUE
INVARIANTS
  SuccessIsWhole
