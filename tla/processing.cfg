SPECIFICATION Spec
CONSTANTS
  i1 = i1
  i2 = i2
  i3 = i3
  t1 = t1
  t2 = t2
  r1 = r1
  r2 = r2
  None = None
  Docs = {1}
  Invoices = {i1, i2, i3}
  Tasks = {t1, t2}
  Requests = {r1, r2}
  Kinds = {"edit", "verify", "unverify", "delete", "delete_doc", "drop_project"}
  Mishaps = {"db", "crash", "cancel", "cancel_raster", "odd_usage"}
  Concurrency = 1
  Retries = 2
  MaxAttempts = 2
  MaxFaults = 2
  MaxCrashes = 1
SYMMETRY Symmetry
INVARIANTS TypeOK OneAttempt NoZombie NeverOvercharged
PROPERTIES ImplementsLifecycle
CHECK_DEADLOCK FALSE
