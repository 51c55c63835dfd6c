\* One terminal; unnamed chats get chat-1 (c1), chat-2 (c2), ...
SPECIFICATION Spec
CONSTANTS
  c1 = c1
  c2 = c2
  c3 = c3
  Procs = {p1}
  Names = {c1, c2, c3}
  BranchArgs = {main2}
  UserBranches = {main2}
  Uids = {u1, u2}
  LegacyChat = NoName
  LegacyUid = u1
  AutoNames <- TwoAutoNames
  NoName = NoName
  NoBranch = NoBranch
  NoMeta = NoMeta
  User = User
  Polling = FALSE
  FreshNames = TRUE
  MaxOps = 3
  MaxKills = 0
INVARIANTS
  ResourceUnshared
