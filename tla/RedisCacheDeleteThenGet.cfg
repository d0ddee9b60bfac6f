SPECIFICATION Spec
CONSTANTS
  Callers = {c1}
  Keys = {k1}
  Wire = {w1}
  TTLs = {1}
  MaxAttempts = 2
  MaxCalls = 3
  MaxTime = 0
  NoEntry = NoEntry
  Miss = Miss
  NoCall = NoCall
  NoReply = NoReply
  Nobody = Nobody
PROPERTY DeleteThenGetMisses
