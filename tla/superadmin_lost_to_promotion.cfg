SPECIFICATION Spec
CONSTANTS
  c1 = c1
  c2 = c2
  None = None
  Absent = Absent
  Unset = Unset
  Users = {1, 2}
  Clients = {c1, c2}
SYMMETRY Symmetry
PROPERTIES SelfServiceKeepsSuperadmin
