CONSTANTS
    c1 = c1
    c2 = c2
    c3 = c3
    i1 = i1
    Idents = {i1}
    CapKinds = {"tool"}
    MaxConn = 2
    NoConn = NoConn
    NoIdent = NoIdent
    Conns = {c1, c2}
    MaxFrames = 4
    InvalidManifests = {}
SPECIFICATION Spec
INVARIANT DebugMapTracksLive
CHECK_DEADLOCK FALSE
