SPECIFICATION FairSpec
CONSTANTS
  Modes = {"followed", "watched", "polled"}
  Bare = TRUE
  MaxTurns = 2  MaxItems = 2
 
PROPERTIES  EndReachesPanel
CHECK_DEADLOCK FALSE
