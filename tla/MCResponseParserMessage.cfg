CONSTANTS
  Words <- MCWords
  Octets = {"8bit"}
  Upper <- MCUpper
  Value <- MCValue
  MaxInt = 1000
  Grammar <- MCGrammar
  Inputs <- MCMessageBodies
  MCLength = 5
SPECIFICATION Spec
INVARIANT WholeGrammar
