SPECIFICATION Spec
CONSTANTS
  c1 = c1
  c2 = c2
  s1 = s1
  s2 = s2
  s3 = s3
  i1 = i1
  i2 = i2
  n1 = n1
  n2 = n2
  x = x
  y = y
  None = None
  Gone = Gone
  Same = Same
  Clients = {c1, c2}
  Suppliers = {s1, s2, s3}
  Invoices = {i1, i2}
  Names = {n1, n2}
  Inns = {x, y}
  Bounds <- MCBounds
SYMMETRY Symmetry
INVARIANTS Coherent RaceSafe
PROPERTIES KeepsSupplier
