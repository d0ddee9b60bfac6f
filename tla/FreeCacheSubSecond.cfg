SPECIFICATION Spec
CONSTANTS
  Keys = {k1, k2}
  Ids = {1}
  PayloadTypes = {"string", "chan"}
  TTLs = {1, 2}
  TicksPerSecond = 2
  Capacity = 1
  DefaultSeconds = 10
  MaxTime = 6
  NoEntry = NoEntry
  Miss = Miss
PROPERTY ContractSpec
