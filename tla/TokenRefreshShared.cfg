\* Two proxies, the first with two threads; two CLIs at a time; a kill or
\* a second token.
SPECIFICATION Spec
CONSTANTS
  p1 = p1
  p2 = p2
  h1 = h1
  h2 = h2
  h3 = h3
  c1 = c1
  c2 = c2
  Procs = {p1, p2}
  Handlers = {h1, h2, h3}
  ProxyOf <- TwoProxies
  Clis = {c1, c2}
  None = None
  Budgets <- TokensOrKills
INVARIANTS
  TypeOK
  MutualExclusion
PROPERTIES
  ImplementsSharedToken
  RefusedOnlyIfExcused
SYMMETRY Symmetry
