SPECIFICATION FairSpec
CONSTANTS
  a = a  b = b  t1 = t1  v1 = v1  v2 = v2
  x1 = x1  x2 = x2  here = here  there = there  proj = proj  temp = temp
  Chats = {a, b}
  Threads = {t1}
  Visitors = {v1, v2}
  MaxRoots = 3  MaxEvents = 3  MaxFaults = 1
  Texts = {x1, x2}
  Scopes = {here, there}
  Projects = {proj, temp}
  Temporary = temp
  Includes <- MCIncludes
  MaxPresses = 1  MaxMishaps = 1
INVARIANTS  PromptKept
PROPERTIES PressServes
CHECK_DEADLOCK FALSE
