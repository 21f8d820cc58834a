SPECIFICATION FairSpec
CONSTANTS
  l1 = l1  l2 = l2  c1 = c1  b1 = b1  Nobody = Nobody
  Loops = {l1}
  Chats = {c1}
  Buttons = {}
  MaxTurns = 2  MaxFaults = 0  MaxCrashes = 1  MaxPresses = 0
INVARIANTS SoleReaderDraws
PROPERTIES SupersededShown LastAnswerShown
CHECK_DEADLOCK FALSE
