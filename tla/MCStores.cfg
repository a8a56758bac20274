SPECIFICATION MCSpec
CONSTANTS
  Request = {p1, p2}
  User = {u1}
  None = None
  CustomRole = {}
  SystemPermission = {c1}
  SelfPermission = {c1}
  CustomPermission = {k1}
  LockAfter = 2
  MaxHistory = 3
  Link = {l1, l2, l3}
  MaxConns = 3
  Phone = {d1, d2}
  Otpk = {k1}
  File = {f1, f2}
  MaxBytes = 1
  Quota = 1
  Source = {f1, f2, f3, f4}
  MaxVersion = 3
  Wire = {w1}
  Msg = {m1, m2}
  Field = {"language", "sound"}
  Setting = {None, "en"}
  Qr = {q1}
  Grant = {g1, g2, g3}
INVARIANTS PrekeyOnce UsedIsSum RowsHaveObjects NextIsFree ConnectedIsOnline NothingMissed  HandedSessionStands
PROPERTIES WithdrawalSettles LockEnds GoneIsOffline
CHECK_DEADLOCK FALSE
