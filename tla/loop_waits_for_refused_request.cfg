SPECIFICATION Spec
CONSTANTS
  i1 = i1
  i2 = i2
  i3 = i3
  t1 = t1
  t2 = t2
  r1 = r1
  r2 = r2
  None = None
  Docs = {1}
  Invoices = {i1, i2, i3}
  Tasks = {t1, t2}
  Requests = {r1}
  Kinds = {"verify"}
  Mishaps = {}
  Concurrency = 1
  Retries = 2
  MaxAttempts = 2
  MaxFaults = 0
  MaxCrashes = 0
SYMMETRY Symmetry
INVARIANTS NoWedge
CHECK_DEADLOCK FALSE
