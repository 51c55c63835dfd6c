\* Two terminals issue any three commands, new names are never reused; the
\* backend knows its session id from the start, and the user has a branch c3 beside
\* main2, which a session of that name takes under an empty branch_prefix.
SPECIFICATION Spec
CONSTANTS
  c1 = c1
  c2 = c2
  c3 = c3
  Procs = {p1, p2}
  Names = {c1, c2, c3}
  BranchArgs = {main2}
  UserBranches = {main2, c3}
  Uids = {u1, u2, u3}
  LegacyChat = c1
  LegacyUid = u1
  AutoNames <- NoAutoNames
  NoName = NoName
  NoBranch = NoBranch
  NoMeta = NoMeta
  User = User
  Polling = FALSE
  FreshNames = TRUE
  MaxOps = 3
  MaxKills = 0
INVARIANTS
  UserBranchSafe
  RetainedWork
  ConversationKept
SYMMETRY SymmetryUids
