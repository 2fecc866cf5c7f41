\* A server over three lives, its key files, and the whitelist of another.
SPECIFICATION Spec
CONSTANTS
    ip1 = ip1
    port1 = port1
    port2 = port2
    k1 = k1
    k2 = k2
    Ips = {ip1}
    Ports = {port1, port2}
    Keys = {k1, k2}
    note = note
    Remarks = {note}
    Absent = Absent
    Blank = Blank
    PropertyFiles <- MCPropertyFiles
    ListFiles <- MCListFiles
    Commands <- MCCommands
    MaxStarts = 3
    MaxSockets = 3
    MaxLines = 5
    MaxBeside = 2
INVARIANTS
    TypeOK
    WhitelistExact
    RecognisedForEver
    UnkeyedOnlyIfTorn
\* The last life ends and nobody starts another.
CHECK_DEADLOCK FALSE
