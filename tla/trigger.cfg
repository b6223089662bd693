SPECIFICATION FairSpec
CONSTANTS
  Size = 4
  Chars = {"+", "x"}
  Code <- Plus
  Guard = 2
  Configs <- MCConfigs
INVARIANTS
  TypeOK
  OffsetInData
  CodeSeen
PROPERTIES
  PacketsAsConfigured
  DataGoes
