SPECIFICATION CatSpec
CONSTANTS
  t1 = t1
  t2 = t2
  ix = ix
  Threads = {t1, t2}
  Pollers = {"poll"}
  Passes = {ix}
  Flagged = FALSE
  Shared = FALSE
  MaxChanges = 2
  MaxFaults = 1
 
PROPERTIES OpenStaysListed CatalogConverges
CHECK_DEADLOCK FALSE
