SPECIFICATION InputSpec
CONSTANTS
  ta = ta  tb = tb  rootA = rootA  rootB = rootB  c1 = c1
  m1 = m1  m2 = m2  d1 = d1  d2 = d2  d3 = d3
  Owners = {ta, tb}
  Root <- MCRoot
  Posts = {c1}
  Subject <- MCSubject
  Mails = {m1}
  Hash <- MCHash
  Deliverers = {d1, d2}
  MaxDeliveries = 2  MaxMishaps = 1  MaxFaults = 2
  Messages = {m1}
  Handlers = {d1}
  MsgOf <- MCMsgOfOne
  Desktop = {TRUE}
  MaxTurns = 2  MaxUserTurns = 1  MaxLost = 0  MaxFails = 0  MaxCrashes = 0
INVARIANTS NoParallelTurn
CHECK_DEADLOCK FALSE
