\* Two launches, of a session or of a shell; one seeded volume and one without seed;
\* a proxy with client files and two kubectl contexts.
SPECIFICATION Spec
CONSTANTS
  p1 = p1
  p2 = p2
  Procs = {p1, p2}
  Volumes = 2
  Seeded = {1}
  Servers = 1
  FileServers = {1}
  Contexts = 2
  None = None
  Blank = Blank
  Empty = Empty
  MayOverlap = TRUE
  MayKill = TRUE
INVARIANTS
  TypeOK
  Released
  Proxied
  AgentServed
PROPERTY WritesKept
SYMMETRY Symmetry
