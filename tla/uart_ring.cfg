SPECIFICATION Spec
CONSTANTS
  Byte <- MCByte
  Zero = 0
  Size = 2
  Half = 4
  None = none
  MaxChunk = 2
  FlushRings = {"rx", "tx"}
  FlushOrders = {"head", "tail"}
VIEW MCView
INVARIANTS
  TypeOK
  MaskedAccess
  InterruptArmed
  CountInRange
PROPERTIES
  TxCarriesInOrder
  RxCarriesInOrder
