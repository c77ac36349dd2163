SPECIFICATION Spec
CONSTANTS
  MaxRequests = 3
  Together = 2
  MaxCrashes = 1
  Drivers = {"user", "runner"}
  Messages = {"m", "blank"}
  Blank = {"blank"}
  Orders = {"o1", "o2"}
  TooBig = "huge"
  Customers = {"c1", "c2"}
  None = "none"
  OwnerOf <- MCOwnerOf
  Actions = {"refund", "handover", "close"}
  Money = {"refund"}
  HandOver = "handover"
  CloseAct = "close"
  Replies <- MCReplies
  Taps <- MCTaps
INVARIANTS Inv AnsweredIsStored RefundTwiceOnlyTogether DeletedIsGone
PROPERTY AllEnds
CHECK_DEADLOCK FALSE
