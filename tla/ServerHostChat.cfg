\* Chats: two clients, one server that dials in, one socket, a chat each.
SPECIFICATION Spec
CONSTANTS
    c1 = c1
    c2 = c2
    p1 = p1
    s1 = s1
    Near = Near
    Far = Far
    Clients = {c1, c2}
    Peers = {p1}
    Sockets = {s1}
    Whitelisted = {p1}
    WhitelistFile = TRUE
    MaxChats = 1
    MyAddress = Near
    KeyOf <- MCKeyOf
    AddrOf <- MCAddrOf
    DstOf <- MCDstOf
    DestLists <- MCDestLists
    RemoteLists <- MCNoLists
SYMMETRY HostSymmetry
INVARIANTS
    TranscriptsAgree
    EachTargetOnce
    CountsCurrent
\* Connections are not reused: the run ends when all have closed.
CHECK_DEADLOCK FALSE
PROPERTIES
    IsRoom
