SPECIFICATION Spec
CONSTANTS
  q1 = q1
  q2 = q2
  q3 = q3
  u1 = u1
  u2 = u2
  Requests = {q1, q2, q3}
  Starter = q1
  Transports = {"stdio", "proxy"}
  Slots = 1
  Users = {u1, u2}
  Following = {u1}
  MaxConns = 2
  MaxDrops = 1
INVARIANTS TableSettled NobodyForgotten
PROPERTIES CallsEnd RequestKeepsPromise IpcKeepsPromise
CHECK_DEADLOCK FALSE
