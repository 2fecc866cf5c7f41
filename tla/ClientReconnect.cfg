\* A second connection.
SPECIFICATION Spec
CONSTANTS
    MaxChats = 1
PROPERTIES
    CanBeginAgain
\* The process may have ended.
CHECK_DEADLOCK FALSE
