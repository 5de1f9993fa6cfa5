SPECIFICATION MCSpec
CONSTANTS
    Pod = {p1, p2, mgr}
    Manager = mgr
    Mesh = {p1}
    Addr = {a1, a2}
    Router = Router
    Broken = Broken
    None = None
    Client = {c1, c2, c3}
    LocalAddr = {1}
    Max4 = 3
    Net4 = 2
    Max6 = 3
    Net6 = 2
    r1 = r1
    r2 = r2
    r3 = r3
    Ip = {v4, v6}
    Conn = {r1, r2, r3}
    MaxStream = 1
    Peers = 1
    MaxSize = 1
    Packet = {}
    Transports = {}
    MaxInbound = 1
    Uid = {"u", "v"}
    Contents <- MCContents
    Headers <- MCHeaders
    StartVersion = {0, 1}
    Capacity = 1
    MaxWrite = 2
    MaxExpire = 1
    MaxRestart = 1
    NoEntry = NoEntry
SYMMETRY ClientSymmetry
INVARIANTS
    UniqueLease HoldersDistinct NoOtherLeak RequestsReachOwner NoDeadRoute
PROPERTIES OnlyOwnMarksRemoved Abstract EnvoyFollows RouteRecovers
