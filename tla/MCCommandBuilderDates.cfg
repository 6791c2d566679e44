CONSTANTS
  Calls <- MCCalls
  MaxNum = 3
  TagBase = 2
  TagWidth = 2
  MaxTag = 1
SPECIFICATION Spec
INVARIANT DatesQuoted
CHECK_DEADLOCK FALSE
