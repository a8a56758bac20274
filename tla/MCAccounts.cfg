SPECIFICATION MCSpec
CONSTANTS
  Request = {p1, p2}
  User = {u1, u2}
  None = None
  LoginLimit = 3
  MfaLimit = 3
  DeviceLinkLimit = 3
  ForgotLimit = 3
  EmailResendLimit = 3
  LockAfter = 2
  MaxHistory = 5
  Challenge = {t1, t2}
  Ticket = {t1, t2, t3}
  Password = {"a", "b", "c"}
  HistoryLength = 1
  MaxChanges = 3
  Code = {k1, k2, k3, k4}
  BackupCount = 2
  Email = {e1, e2}
  Name = {e1, e2}
  Token = {t1, t2}
SYMMETRY MCSymmetry
INVARIANTS  GuessesBeforeLock  PendingIsInactive FewLeftovers
PROPERTIES ChallengesAreOneTime TicketsAreOneTime EmailTokensAreOneTime
