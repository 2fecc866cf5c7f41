\* One client, up to four messages.
SPECIFICATION FairSpec
CONSTANTS
    MaxChats = 4
INVARIANTS
    TypeOK
    WireValid
PROPERTIES
    AttemptSettles
    QuitFinishes
\* The process may have ended.
CHECK_DEADLOCK FALSE
