SPECIFICATION MsgSpec
CONSTANTS
  ta = ta  tb = tb  rootA = rootA  rootB = rootB  c1 = c1
  m1 = m1  m2 = m2  d1 = d1  d2 = d2  d3 = d3
  Owners = {ta, tb}
  Root <- MCRoot
  Posts = {c1}
  Subject <- MCSubject
  Mails = {m1}
  Hash <- MCHash
  Deliverers = {d1, d2}
  MaxDeliveries = 2  MaxMishaps = 1  MaxFaults = 2
  Messages = {m1, m2}
  Handlers = {d1, d2, d3}
  MsgOf <- MCMsgOf
  Desktop = {TRUE, FALSE}
  MaxTurns = 2  MaxUserTurns = 1  MaxLost = 1  MaxFails = 1  MaxCrashes = 1
INVARIANTS CopiesAccounted CascadeNeverParallel NumberIsOne HandledOnce 
SYMMETRY MCSymmetry
CHECK_DEADLOCK FALSE
