CONSTANTS
    e1 = e1
    e2 = e2
    Senders <- TwoSenders
    MaxDatagrams = 2
    MaxUdpStarts = 2
    k1 = k1
    k2 = k2
    public = public
    private = private
    host = host
    Keys <- TwoKeys
    Authorities <- TwoAuthorities
    SystemRoots <- PublicAuthority
    HostNames <- OneHost
    IpAddresses = {}
    Protocols <- OneProtocol
    MaxCalls = 3
    n1 = n1
    n2 = n2
    CertNames <- TwoNames
    NoFile = NoFile
    Torn = Torn
    MaxPairs = 3
    o1 = o1
    o2 = o2
    Null = Null
    Objects <- TwoObjects
    Message = o1
    Converting <- DerivedConverts
    MaxExact = 4

SPECIFICATION MCSpec
INVARIANT UdpReceiverIsSound
INVARIANT AdmittedAsAsked
INVARIANT CertificatesAreSound
INVARIANT ObjectsArrive
CHECK_DEADLOCK FALSE
