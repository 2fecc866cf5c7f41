\* A chat that reaches some of the local clients: three clients, no servers.
SPECIFICATION Spec
CONSTANTS
    c1 = c1
    c2 = c2
    c3 = c3
    Near = Near
    Far = Far
    Clients = {c1, c2, c3}
    Peers = {}
    Sockets = {}
    Whitelisted = {}
    WhitelistFile = TRUE
    MaxChats = 1
    MyAddress = Near
    KeyOf <- MCKeyOf
    AddrOf <- MCAddrOf
    DstOf <- MCDstOf
    DestLists <- MCNearOnly
    RemoteLists <- MCNoLists
INVARIANTS
    SameTranscript
\* Connections are not reused: the run ends when all have closed.
CHECK_DEADLOCK FALSE
