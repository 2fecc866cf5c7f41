\* Rosters: three clients, two servers one of which is not on the whitelist,
\* one outgoing socket, no chats.
SPECIFICATION Spec
CONSTANTS
    c1 = c1
    c2 = c2
    c3 = c3
    p1 = p1
    p2 = p2
    s1 = s1
    Near = Near
    Far = Far
    Clients = {c1, c2, c3}
    Peers = {p1, p2}
    Sockets = {s1}
    Whitelisted = {p1}
    WhitelistFile = TRUE
    MaxChats = 0
    MyAddress = Near
    KeyOf <- MCKeyOf
    AddrOf <- MCAddrOf
    DstOf <- MCDstOf
    DestLists <- MCNearOnly
    RemoteLists <- MCRemoteLists
SYMMETRY HostSymmetry
INVARIANTS
    TypeOK
    RosterAligned
    ExternalAligned
    RosterPushed
    OwnKeyShown
    ToldIsCurrent
    OnlyWhitelistedContribute
\* Connections are not reused: the run ends when all have closed.
CHECK_DEADLOCK FALSE
