SPECIFICATION LoopSpec
CONSTANTS
  r1 = r1  loop = loop   cli = cli  i1 = i1  i2 = i2
  Readers = {r1}
  Kinds = {"empty", "partial"}
  Grace = 2
  MaxCrashes = 1
  Connected = {TRUE, FALSE}
  MaxTime = 2
  Inside = {loop}
  Outside = {cli}
  Releases <- MCReleases
  MaxUpdCrashes = 1
  MaxFailures = 1
  MaxErrors = 1
  Items = {i1, i2}
  MaxAttempts = 2
  MaxOutboxCrashes = 1
INVARIANTS  InstallsWhole NoMoreThanPromised
PROPERTIES  EndShown  UpdateArrives
CHECK_DEADLOCK FALSE
