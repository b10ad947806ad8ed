SPECIFICATION Spec
CONSTANTS
  k1 = k1
  k2 = k2
  k3 = k3
  tab1 = tab1
  tab2 = tab2
  None = None
  Clear = Clear
  Calls = {k1, k2, k3}
  Tabs = {tab1, tab2}
SYMMETRY Symmetry
INVARIANTS RotatedOnce JarHoldsLiveToken NobodyWaitsForever
PROPERTIES LoginOnlyWhenOver
