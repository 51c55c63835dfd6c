\* A terminal with up to two bytes each way, or one connection to each sidecar (two to
\* one of them), or one API proxy whose two threads refresh its token.
SPECIFICATION TrafficFairSpec
CONSTANTS
    Plain = {}
    CtrlV = CtrlV
    Esc = Esc
    CsiV = CsiV
    Images = {i1, i2}
    NoImage = NoImage
    Formats = {png}
    Format <- OneFormat
    Tools <- BothTools
    Chunk = 2
    Limits <- PtyLimits
    n1 = n1
    n2 = n2
    Conns = {n1, n2}
    Services <- MCServices
    MaxParts = 1
    p1 = p1
    h1 = h1
    h2 = h2
    c1 = c1
    None = None
INVARIANTS
    TypeOK
    KeysArrive
    PastesKept
    OutputArrives
    TerminalRestored
    SizeInSync
    ForwardedIsCovered
    ClientServed
PROPERTIES
    EndsWithChild
    SilentAfterClose
    RequestEnds
    TunnelCloses
    Answered
CHECK_DEADLOCK FALSE
