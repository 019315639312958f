\* One-shot mode (standalone default): PADR only after an accepted PADO.
CONSTANTS
    MyMac = MyMac
    Broadcast = Broadcast
    ZeroMac = ZeroMac
    NoTag = NoTag
    EmptyServiceName = EmptyServiceName
    NoServiceNameSentinel = NoServiceNameSentinel
    a1 = a1
    a2 = a2
    otherHost = otherHost
    h1 = h1
    n1 = n1
    n2 = n2
    s1 = s1
    c1 = c1
    r1 = r1
    FrameSrcs <- MCFrameSrcs
    FrameDsts <- MCFrameDsts
    HostUniqValues <- MCHostUniqValues
    ACNameValues <- MCACNameValues
    ServiceNameValues <- MCServiceNameValues
    CookieValues <- MCCookieValues
    RelayIdValues <- MCRelayIdValues
    SessionIds <- MCSessionIds
    HostUniq = h1
    ACName = n1
    ServiceName = NoTag
    Persist = FALSE
    PrintACNames = FALSE
    MAX_PADI_ATTEMPTS = 3
    DiscoveryTimeout = 1
    MaxPADOs = 2
SPECIFICATION Spec
INVARIANT NoPADRWithoutOffer
CHECK_DEADLOCK FALSE
