SPECIFICATION MCSpec
CONSTANTS
  Request = {p1, p2}
  User = {u1, u2, u3}
  None = None
  MaxMembers = {0, 1}
  Thread = {p1, p2}
  Option = {p1, p2}
  Post = {u1, u2, u3}
  PageLimit = 1
  MaxClock = 2
  MaxTexts = 4
  Assignment = {p1, p2}
  Unit = {p1, p2}
  Date = {1, 2}
SYMMETRY MCSymmetry
INVARIANTS OneOwner  OneOpenThread PollAddsUp NothingSkipped EveryTextKept CopyIsCurrent
CHECK_DEADLOCK FALSE
