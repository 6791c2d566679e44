CONSTANTS
  Replies <- ClearReplies
  MaxInt = 98
  MaxSent = 2
SPECIFICATION Spec
INVARIANTS
  TypeOK
  NothingLost
PROPERTY ImplementsChannel
