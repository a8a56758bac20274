SPECIFICATION FairSpec
CONSTANTS
  Request = {p1, p2}
  u1 = u1
  User = {u1}
  LdapUser = {u1}
  Device = {d1}
  OwnerOf <- MCOwnerOf
  Session = {s1}
  Token = {k1, k2}
  Challenge = {c1}
  None = None
PROPERTIES  OldSessionsAreReaped
