SPECIFICATION Spec
CONSTANTS
  l1 = l1  l2 = l2  c1 = c1  b1 = b1  Nobody = Nobody
  Loops = {l1, l2}
  Chats = {}
  Buttons = {b1}
  MaxTurns = 1  MaxFaults = 1  MaxCrashes = 0  MaxPresses = 1
INVARIANTS SentOnce
PROPERTIES SyncShowsAnswer
CHECK_DEADLOCK FALSE
