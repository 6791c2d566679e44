CONSTANTS
  Replies <- MarkedReplies
  MaxInt = 98
  MaxSent = 2
SPECIFICATION Spec
PROPERTY LineDecides
