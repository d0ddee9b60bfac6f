\* Two concurrent callers, one key, three calls; deadlines on and off,
\* session and server failures, orphaned requests.  Payload and
\* pagination values do not bear on the properties checked here.
CONSTANTS
  Callers = {c1, c2}
  KeyVals = {k1}
  Payloads = {v1}
  MaxCalls = 3
  BatchSize = 1
  Offsets = {0}
  Limits = {0}
  CallerOps = {"Write", "Update", "Delete", "Read", "List"}
  CallerDeadline = {TRUE, FALSE}
  NoDoc = NoDoc
SPECIFICATION Spec
INVARIANT TypeOK
INVARIANT OkMeansApplied
