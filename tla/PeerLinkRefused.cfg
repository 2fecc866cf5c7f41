\* A whitelisted server refused by the server it dials.
SPECIFICATION Spec
CONSTANTS
    s1 = s1
    Far = Far
    Sockets = {s1}
    DstOf <- MCDstOf
    MaxFrames = 1
INVARIANTS
    WhitelistedNotRefused
