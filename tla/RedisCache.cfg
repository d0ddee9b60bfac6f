SPECIFICATION Spec
CONSTANTS
  Callers = {c1, c2}
  Keys = {k1}
  Wire = {w1, w2}
  TTLs = {1}
  MaxAttempts = 2
  MaxCalls = 3
  MaxTime = 2
  NoEntry = NoEntry
  Miss = Miss
  NoCall = NoCall
  NoReply = NoReply
  Nobody = Nobody
INVARIANT TypeOK

