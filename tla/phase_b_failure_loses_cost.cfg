SPECIFICATION Spec
CONSTANTS
  i1 = i1
  i2 = i2
  i3 = i3
  t1 = t1
  t2 = t2
  r1 = r1
  r2 = r2
  None = None
  Docs = {1}
  Invoices = {i1, i2, i3}
  Tasks = {t1, t2}
  Requests = {r1}
  Kinds = {"verify"}
  Mishaps = {"db"}
  Concurrency = 1
  Retries = 2
  MaxAttempts = 2
  MaxFaults = 1
  MaxCrashes = 0
SYMMETRY Symmetry
INVARIANTS ErrorCarriesCost
CHECK_DEADLOCK FALSE
