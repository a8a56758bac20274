SPECIFICATION Spec
CONSTANTS
  Request = {p1, p2}
  u1 = u1
  User = {u1}
  LdapUser = {}

  Device = {d1, d2}
  OwnerOf <- MCOwnerOf
  Session = {s1, s2}
  Token = {k1, k2}
  Challenge = {c1}
  None = None
SYMMETRY Symmetry
INVARIANTS TypeOK OneActivePerDevice
PROPERTIES NoLoginOnCompromised ImplementsDeviceSlots
