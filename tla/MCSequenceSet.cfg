CONSTANTS
  MaxNum = 4
  MCMaxItems = 3
  ItemLists <- MCItemLists
SPECIFICATION Spec
INVARIANTS
  TypeOK
  MeaningPreserved
  Canonical
