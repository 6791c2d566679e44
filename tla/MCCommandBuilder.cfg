CONSTANTS
  Calls <- MCCalls
  MaxNum = 3
  TagBase = 2
  TagWidth = 2
  MaxTag = 9
SPECIFICATION Spec
INVARIANTS
  TypeOK
  FramedByLiterals
  ArgumentsInOrder
  WellSeparated
  StringsProtected
  TagsDistinct
CHECK_DEADLOCK FALSE
