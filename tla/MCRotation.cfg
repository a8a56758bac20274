SPECIFICATION Spec
CONSTANTS
  Request = {p1, p2}
  u1 = u1
  User = {u1}
  LdapUser = {}

  Device = {d1}
  OwnerOf <- MCOwnerOf
  Session = {s1, s2}
  Token = {k1, k2, k3, k4}
  Challenge = {c1}
  None = None
SYMMETRY Symmetry
INVARIANT ActiveSessionRefreshable
PROPERTY RevocationIsFinal
