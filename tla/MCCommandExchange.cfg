CONSTANTS
  Calls <- MCCalls
  MaxNum = 3
  TagBase = 2
  TagWidth = 1
  MaxTag = 3
  MaxChallenges = 2
  MaxUntagged = 1
SPECIFICATION FairSpec
INVARIANTS
  TypeOK
  NothingUnasked
PROPERTY ImplementsService
CHECK_DEADLOCK FALSE
