\* The selection after a list that lost an earlier user.
SPECIFICATION Spec
CONSTANTS
    Own = Own
    PublicChat = PublicChat
    NewChat = NewChat
    NoServer = NoServer
    Nobody = Nobody
    PseudoName <- MCPseudoName
    Readable <- MCReadable
    Alice = Alice
    Carol = Carol
    Eve = Eve
    Near = Near
    Far = Far
    Lists <- MCLists
    MaxDate = 1
    MaxUsers = 5
    MaxRecipients = 0
INVARIANT SelectionKept
\* The window stops at an index past the end, where the code's behaviour is
\* undefined, and the socket thread where the list would outgrow MaxUsers.
CHECK_DEADLOCK FALSE
