SPECIFICATION FairSpec
CONSTANTS
  i1 = i1
  i2 = i2
  i3 = i3
  t1 = t1
  t2 = t2
  r1 = r1
  r2 = r2
  None = None
  Docs = {1, 2}
  Invoices = {i1, i2}
  Tasks = {t1, t2}
  Requests = {r1}
  Kinds = {"bulk", "drop_project"}
  Mishaps = {"crash", "cancel", "db"}
  Concurrency = 1
  Retries = 2
  MaxAttempts = 2
  MaxFaults = 1
  MaxCrashes = 1
PROPERTIES EveryAttemptEnds
CHECK_DEADLOCK FALSE
