SPECIFICATION Spec
CONSTANTS
  Request = {p1, p2}
  u1 = u1
  u2 = u2
  u3 = u3
  User = {u1, u2, u3}
  Owner = {u1}
  Admin = {u2}
  Writer = {u1, u2}
  Message = {m1, m2}
  ClientId = {c1}
  None = None
SYMMETRY Symmetry
INVARIANT TypeOK
 
