SPECIFICATION MCSpec
CONSTANTS
    t1 = t1
    t2 = t2
    t3 = t3
    m1 = m1
    Ip = {}
    Conn = {}
    MaxStream = 1
    Peers = 2
    MaxSize = 1
    Packet = {"udp", "broken"}
    Transports = {t1, t2, t3}
    MaxInbound = 2
CHECK_DEADLOCK FALSE
INVARIANTS PeerWatched TransportWatched
PROPERTIES ChannelsDrain LeftGoroutinesEnd DisconnectStops
