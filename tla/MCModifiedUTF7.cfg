CONSTANTS
  MCNameLength = 4
  MCForeignLength = 4
  Names <- MCNames
  Foreign <- MCForeign
  AccValues = 16384
SPECIFICATION FairSpec
INVARIANTS
  TypeOK
  RoundTrip
  WellFormed
PROPERTY Terminates
