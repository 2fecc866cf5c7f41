\* Two servers with links to each other, or two links one way.
SPECIFICATION FairSpec
CONSTANTS
    A = A
    B = B
    a = a
    b = b
    ab = ab
    ab2 = ab2
    ba = ba
    Local = Local
    Servers = {A, B}
    Clients = {a, b}
    Links = {ab, ab2, ba}
    Active = {a}
    Home <- MCHome
    Dials <- MCDials
    To <- MCTo
    MaxChats = 1
    Scenarios <- MCScenarios
INVARIANTS
    TypeOK
    ListsAgree
    OncePerLink
PROPERTIES
    IntroducedFirst
    VanishesEverywhere
\* Connections are not reused: the run ends when nobody is left to act.
CHECK_DEADLOCK FALSE
