SPECIFICATION Spec
CONSTANTS
  k1 = k1
  k2 = k2
  k3 = k3
  v1 = v1
  v2 = v2
  f = f
  Files = {f}
  Keys = {k1, k2, k3}
  Turned = {v1, v2}
  Original = Original
  Nothing = Nothing
  None = None
  MaxFaults = 2
  MaxReparses = 3
  MaxCrashes = 1
SYMMETRY Symmetry
INVARIANTS OriginalKept RowHasObject ParsedIsStored NoOrphan
CHECK_DEADLOCK FALSE
