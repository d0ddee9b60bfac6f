CONSTANTS
  Keys <- MCKeys
  KeyLen = 2
  Plains = {"", "p"}
  MaxNonces = 2
  Junk = Junk
  Short = Short
SPECIFICATION Spec
INVARIANTS
  DecryptAuthenticates
