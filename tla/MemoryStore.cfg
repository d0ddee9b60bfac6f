\* Two keys, so that a write, read or delete of one leaves the other; a
\* WriteExpiry instant that is in the future at tick 0 and past from
\* tick 2 on; a record Expiry of 2 ticks, and none.
SPECIFICATION Spec
CONSTANTS
  Keys = {k1, k2}
  Vals = {v1, v2}
  TTLs = {0, 2}
  Expiries = {1}
  RecExpiries = {0, 2}
  NoTime = NoTime
  MaxTime = 3
  NoRecord = NoRecord
INVARIANT TypeOK
