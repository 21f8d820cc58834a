SPECIFICATION MCSpec
CONSTANTS
  MaxClients = 8
  MaxGen = 9
  MaxAsks = 1
  MaxDeaths = 1
  MaxFails = 1
  MaxFaults = 1
INVARIANT RequestedRepairIsKept
