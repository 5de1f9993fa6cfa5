SPECIFICATION MCSpec
CONSTANTS
    ipApi = ipApi
    ipTun = ipTun
    ipPod = ipPod
    ipExtra = ipExtra
    ipNode = ipNode
    domA = domA
    domB = domB
    podA = podA
    podHost = podHost
    mach1 = mach1
    mach2 = mach2
    blk1 = blk1
    blk2 = blk2
    blk3 = blk3
    addrX = addrX
    conn1 = conn1
    conn2 = conn2
    nameShort = nameShort
    nameLong = nameLong
    Command = {cmd1, cmd2}
    Daemon = {dmn1, dmn2}
    NoDaemon = NoDaemon
    IP = {ipApi, ipTun, ipPod, ipExtra, ipNode}
    Api = {ipApi}
    Node = {ipNode}
    ApiServerIPs = {ipApi}
    Cidrs = {{ipTun}}
    Pod = {podA, podHost}
    Service = {svcA}
    HostNetwork = {podHost}
    AddressOf <- MCAddressOf
    MayFail = {ipPod}
    DnsIPs = {ipExtra}
    ExtraDomain <- MCExtraDomain
    DomainIP <- MCDomainIP
    MaxEvent = 1
    Id <- FlowId
    Bytes = 2
    Window = 1
    Size = {0, 2}
    MaxDatagrams = 2
    UdpWindow = 4
CHECK_DEADLOCK FALSE
INVARIANTS
    OneDaemon    HostsCleared
    StreamIntact DatagramsIntact
PROPERTIES SetUpEnds RoutesFollow  FlowsEnd
