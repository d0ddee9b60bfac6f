\* One caller whose context has no deadline: two Writes of one key, then a Read.
CONSTANTS
  Callers = {c1}
  KeyVals = {k1}
  Payloads = {v1, v2}
  MaxCalls = 3
  BatchSize = 1
  Offsets = {0}
  Limits = {0}
  CallerOps = {"Write", "Read"}
  CallerDeadline = {FALSE}
  NoDoc = NoDoc
SPECIFICATION Spec
INVARIANT ReadReturnsLatest
