\* PLUGIN build with old-API pppd, not persistent, req_peer set to a1, no
\* AC-Name filter; a sender may use the zero MAC as its source.
CONSTANTS
    MyMac = MyMac
    Broadcast = Broadcast
    ZeroMac = ZeroMac
    NoTag = NoTag
    EmptyServiceName = EmptyServiceName
    NoServiceNameSentinel = NoServiceNameSentinel
    a1 = a1
    a2 = a2
    otherHost = otherHost
    h1 = h1
    n1 = n1
    n2 = n2
    s1 = s1
    c1 = c1
    r1 = r1
    FrameSrcs <- MCZeroFrameSrcs
    FrameDsts <- MCFrameDsts
    HostUniqValues <- MCHostUniqValues
    ACNameValues <- MCACNameValues
    ServiceNameValues <- MCServiceNameValues
    CookieValues <- MCCookieValues
    RelayIdValues <- MCRelayIdValues
    SessionIds <- MCSessionIds
    HostUniq = h1
    ACName = NoTag
    ServiceName = NoTag
    Persist = FALSE
    PrintACNames = FALSE
    MAX_PADI_ATTEMPTS = 3
    DiscoveryTimeout = 1
    MaxPADOs = 2
    MaxPayloadValues <- MCMaxPayloadValues
    InitAllowMru = 1500
    InitWantMru = 1500
    ReqPeer = a1
SPECIFICATION PSpec
INVARIANT
    MruWithinAdvertised
CHECK_DEADLOCK FALSE
