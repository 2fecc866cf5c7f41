\* One link, from the thread that dials to the gate of the other server, and
\* a host thread that sends up to three frames on it.
SPECIFICATION FairSpec
CONSTANTS
    s1 = s1
    Far = Far
    Sockets = {s1}
    DstOf <- MCDstOf
    MaxFrames = 3
INVARIANTS
    TypeOK
    OneHello
    RefusedOnlyIfOvertaken
    DownOnlyIfLost
PROPERTIES
    ImplementsLink
    EventuallyOpens
    JudgedEventually
