\* Two launches of a session, one after the other, without kills.
SPECIFICATION Spec
CONSTANTS
  p1 = p1
  p2 = p2
  Procs = {p1, p2}
  Volumes = 1
  Seeded = {1}
  Servers = 1
  FileServers = {}
  Contexts = 0
  None = None
  Blank = Blank
  Empty = Empty
  MayOverlap = FALSE
  MayKill = FALSE
INVARIANT NoEmptyState
SYMMETRY Symmetry
