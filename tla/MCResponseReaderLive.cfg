CONSTANTS
  Replies <- FewReplies
  MaxInt = 98
  MaxSent = 2
SPECIFICATION FairSpec
PROPERTY ImplementsFairChannel
