\* Lists that grow and shrink while the window clicks, sends, sorts and starts
\* a new chat with two users, one of whom has the pseudonym of this client.
SPECIFICATION Spec
CONSTANTS
    Own = Own
    PublicChat = PublicChat
    NewChat = NewChat
    NoServer = NoServer
    Nobody = Nobody
    PseudoName <- MCPseudoName
    Readable <- MCReadable
    Alice = Alice
    Carol = Carol
    Eve = Eve
    Near = Near
    Far = Far
    Lists <- MCLists
    MaxDate = 1
    MaxUsers = 5
    MaxRecipients = 2
VIEW MCView
INVARIANTS
    TypeOK
    RosterApplied
    RecipientServed
PROPERTY RoundReachesPicked
\* The window stops at an index past the end, where the code's behaviour is
\* undefined, and the socket thread where the list would outgrow MaxUsers.
CHECK_DEADLOCK FALSE
