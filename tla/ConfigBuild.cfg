CONSTANTS
  Builders <- MCBuilders
  Varied <- MCVaried
  IntInputs = {0, 1}
  Absent = Absent
  Null = Null
  Unset = Unset
  Malformed = Malformed
SPECIFICATION Spec
INVARIANTS
  TypeOK
