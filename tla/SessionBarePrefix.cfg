\* One terminal; branch_prefix is "" and the user has a branch named like a session.
SPECIFICATION Spec
CONSTANTS
  c1 = c1
  c2 = c2
  c3 = c3
  Procs = {p1}
  Names = {c1, c2, c3}
  BranchArgs = {main2}
  UserBranches = {main2, c2}
  Uids = {u1, u2}
  LegacyChat = c1
  LegacyUid = u1
  AutoNames <- NoAutoNames
  NoName = NoName
  NoBranch = NoBranch
  NoMeta = NoMeta
  User = User
  Polling = FALSE
  FreshNames = TRUE
  MaxOps = 2
  MaxKills = 0
INVARIANTS
  UserBranchKept
