CONSTANTS
  Words <- MCWords
  Octets = {"8bit"}
  Upper <- MCUpper
  Value <- MCValue
  MaxInt = 1000
  Grammar <- MCGrammar
  Inputs <- MCInputs
  MCLength = 5
SPECIFICATION FairSpec
INVARIANTS
  TypeOK
  OnlyGrammar
  WholeGrammar
  MeaningKept
  OnlyOverflows
PROPERTY Terminates
