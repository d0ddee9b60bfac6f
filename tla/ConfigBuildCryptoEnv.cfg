CONSTANTS
  Builders <- MCCryptoBuilders
  Varied <- MCCryptoVaried
  IntInputs = {0, 1}
  Absent = Absent
  Null = Null
  Unset = Unset
  Malformed = Malformed
SPECIFICATION Spec
INVARIANTS
  EnvOverridesYaml
