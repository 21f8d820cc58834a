SPECIFICATION ButtonSpec
CONSTANTS
  r1 = r1
  r2 = r2
  Requests = {r1, r2}
  Ids = {r1, r2}
  IdOf <- OwnIds
  Pressers = {p1}
  ChannelCap = 2
  MaxSessions = 3
  MaxAsks = 2
  MaxCrashes = 1
  MaxSendFails = 1
  Scenes <- MCScenes
  PageSize = 1  Kept = 2  KeptItems = 2  MaxLog = 2  Limit = 3
  MaxPresses = 1  MaxOpen = 1
INVARIANTS  PendingIsOpen NothingLost
PROPERTIES WholeAnswerStays
SYMMETRY MCSymmetry
CHECK_DEADLOCK FALSE
