\* One terminal, three commands, no kills; names may be used again.
SPECIFICATION FairSpec
CONSTANTS
  c1 = c1
  c2 = c2
  c3 = c3
  Procs = {p1}
  Names = {c1, c2}
  BranchArgs = {main2}
  UserBranches = {main2}
  Uids = {u1, u2, u3}
  LegacyChat = c1
  LegacyUid = u1
  AutoNames <- TwoAutoNames
  NoName = NoName
  NoBranch = NoBranch
  NoMeta = NoMeta
  User = User
  Polling = FALSE
  FreshNames = FALSE
  MaxOps = 3
  MaxKills = 0
INVARIANTS
  ParkedHasNoWorktree
  RunningIsHosted
  OneSessionPerConversation
PROPERTIES
  ImplementsContract
  DeleteReclaims
