----------------------------- MODULE Federation -----------------------------
(***************************************************************************)
(* Several servers and the links between them.                             *)
(*                                                                         *)
(* ServerHost.tla is one server whose neighbours may send anything; here   *)
(* every frame a server handles was written by the other end of the link.  *)
(* What one server alone decides is kept short: a roster is a sequence of  *)
(* clients, a client_list the set of the users it shows, every server is   *)
(* on every whitelist and every message is a public_chat.                  *)
(*                                                                         *)
(* A link is a ServerSocket of one server and the connection it opened at  *)
(* the other: link[l] is the socket's end, as in Link.tla and with the two *)
(* steps of OnOpen, gate[l] the accepted connection, wire[l] the frames    *)
(* between them.  A client and its server are one step apart: frames to a  *)
(* client arrive in the order they are written, so what it makes of them   *)
(* is settled when they are written.                                       *)
(***************************************************************************)
EXTENDS Integers, Sequences, SequencesExt

CONSTANTS
    Servers,
    Clients,
    Links,          \* the ServerSockets of all servers
    Home,           \* [Clients -> Servers]: where a client connects
    Dials,          \* [Servers -> Seq(Links)]: serverSockets, in list order
    To,             \* [Links -> Servers]: the server a socket dials
    Local,          \* stands for a link in "heard": no link was involved
    Active,         \* bound: the clients that post and leave
    MaxChats,       \* bound on the chats of all clients together
    Scenarios       \* what may happen in one behaviour, see "scenario"

From(l) == CHOOSE h \in Servers : l \in ToSet(Dials[h])

ASSUME FederationAssumption ==
    /\ Links \cap Clients = {}
    /\ Local \notin Links
    /\ To \in [Links -> Servers]
    /\ Dials \in [Servers -> Seq(Links)]
    /\ \A c \in Clients : Home[c] \in Servers
    /\ \A h \in Servers : IsInjective(Dials[h])
    /\ \A l \in Links : \E h \in Servers : l \in ToSet(Dials[h]) /\ To[l] # h
    /\ \A g, h \in Servers : g # h => ToSet(Dials[g]) \cap ToSet(Dials[h]) = {}
    /\ Active \subseteq Clients
    /\ MaxChats \in Nat
    /\ Scenarios \subseteq
        [dialled : SUBSET Links, fragile : SUBSET Links, chats : 0 .. MaxChats]

VARIABLES
    scenario,       \* the links somebody dials, those whose transport may
                    \* fail, and the number of chats
    up,             \* [Servers -> BOOLEAN]: server.run() has not been left
    conn,           \* [Clients -> ConnStates]
    roster,         \* [Servers -> Seq(Clients)]: clientConnections
    link,           \* [Links -> LinkStates]: the socket's end
    gate,           \* [Links -> GateStates]: the accepting end
    wire,           \* [Links -> Seq(Frames)]: frames on their way
    known,          \* [Servers -> Seq of [link, clients]]: externalClientLists
    view,           \* [Clients -> SUBSET Clients]: users of the last client_list
    heard,          \* [Clients -> Seq of [from, n, via]]: chats it accepted
    posted,         \* number of chats posted so far
    told            \* history: links that delivered a client_update since hello

peerVars == <<link, gate, wire, known, told>>
clientVars == <<conn, roster, view, heard, posted>>
vars == <<scenario, up, peerVars, clientVars>>

ConnStates == {"none", "in", "closing", "out"}
LinkStates == {"idle", "hello", "request", "open", "broken", "closed"}
GateStates == {"none", "open", "closing", "closed"}

Hello == [type |-> "server_hello"]
Request == [type |-> "client_update_request"]
Update(clients) == [type |-> "client_update", clients |-> clients]
Chat(c, n) == [type |-> "public_chat", from |-> c, n |-> n]

Init ==
    /\ scenario \in Scenarios
    /\ up = [h \in Servers |-> TRUE]
    /\ conn = [c \in Clients |-> "none"]
    /\ roster = [h \in Servers |-> <<>>]
    /\ link = [l \in Links |-> "idle"]
    /\ gate = [l \in Links |-> "none"]
    /\ wire = [l \in Links |-> <<>>]
    /\ known = [h \in Servers |-> <<>>]
    /\ view = [c \in Clients |-> {}]
    /\ heard = [c \in Clients |-> <<>>]
    /\ posted = 0
    /\ told = {}

-----------------------------------------------------------------------------
(* Sending, as in ServerHost.tla: a plan of targets, cut short by the      *)
(* first one whose connection is not open.                                 *)

Throws(t) ==
    IF t \in Links THEN link[t] = "broken" ELSE conn[t] \in {"closing", "out"}

Completes(plan) == \A i \in DOMAIN plan : ~Throws(plan[i])

Reached(plan) ==
    {plan[i] : i \in {i \in DOMAIN plan : \A j \in 1 .. i : ~Throws(plan[j])}}

Run(h, plan) == up' = [up EXCEPT ![h] = Completes(plan)]

IsConnected(l) == link[l] \notin {"idle", "closed"}

(* A frame written while the other end is closing is lost.                 *)
Written(w, plan, frame) ==
    [l \in Links |->
        IF l \in Reached(plan) /\ IsConnected(l) /\ gate[l] = "open"
        THEN Append(w[l], frame) ELSE w[l]]

(* The users a client_list of h shows.                                     *)
Shown(h) ==
    ToSet(roster[h]) \cup UNION {ToSet(known[h][i].clients) : i \in DOMAIN known[h]}

SendAllClientLists(h, plan) ==
    view' = [c \in Clients |-> IF c \in Reached(plan) THEN Shown(h)' ELSE view[c]]

(* A client accepts a chat of a user it was shown, and ignores its own.    *)
Hears(chat, via, plan) ==
    heard' = [c \in Clients |->
        IF c \in Reached(plan) /\ c # chat.from /\ chat.from \in view[c]
        THEN Append(heard[c], [from |-> chat.from, n |-> chat.n, via |-> via])
        ELSE heard[c]]

Place(l) == {i \in DOMAIN known[To[l]] : known[To[l]][i].link = l}

(* The connection is in serverConnections and in externalClientLists.      *)
Registered(l) == Place(l) # {}

(* The lists are searched from the front.                                  *)
First(places) == {i \in places : \A j \in places : i <= j}

-----------------------------------------------------------------------------
(* Clients, at their server.                                               *)

(* Faulty: a change of the roster is shown to the local clients only.      *)
EveryoneLocal(h) == roster'[h]

(* SendClientUpdate, then SendAllClientListsToAllClients.                  *)
Everyone(h) == Dials[h] \o roster'[h]

(* hello.  The counter is left to ServerHost.tla, and so is the            *)
(* client_list_request that follows: it shows the client nothing new.      *)
Join(c) ==
    LET h == Home[c]
    IN  /\ up[h]
        /\ conn[c] = "none"
        /\ conn' = [conn EXCEPT ![c] = "in"]
        /\ roster' = [roster EXCEPT ![h] = Append(@, c)]
        /\ UNCHANGED <<scenario, link, gate, known, told, heard, posted>>
        /\ Run(h, Everyone(h))
        /\ wire' = Written(wire, Everyone(h), Update(roster'[h]))
        /\ SendAllClientLists(h, Everyone(h))

(* The client closes, or its transport fails.                              *)
Depart(c) ==
    /\ c \in Active
    /\ conn[c] = "in"
    /\ conn' = [conn EXCEPT ![c] = "closing"]
    /\ UNCHANGED <<scenario, up, peerVars, roster, view, heard, posted>>

(* OnClose for a client.                                                   *)
Leave(c) ==
    LET h == Home[c]
    IN  /\ up[h]
        /\ conn[c] = "closing"
        /\ conn' = [conn EXCEPT ![c] = "out"]
        /\ \E i \in First({i \in DOMAIN roster[h] : roster[h][i] = c}) :
               roster' = [roster EXCEPT ![h] = RemoveAt(@, i)]
        /\ UNCHANGED <<scenario, link, gate, known, told, heard, posted>>
        /\ Run(h, Everyone(h))
        /\ wire' = Written(wire, Everyone(h), Update(roster'[h]))
        /\ SendAllClientLists(h, Everyone(h))

(* public_chat of a client: the local clients, then every socket.          *)
Post(c) ==
    LET h == Home[c]
        plan == roster[h] \o Dials[h]
        chat == Chat(c, posted + 1)
    IN  /\ up[h]
        /\ c \in Active
        /\ conn[c] = "in"
        /\ posted < scenario.chats
        /\ posted' = posted + 1
        /\ Run(h, plan)
        /\ wire' = Written(wire, plan, chat)
        /\ Hears(chat, Local, plan)
        /\ UNCHANGED <<scenario, link, gate, known, told, conn, roster, view>>

-----------------------------------------------------------------------------
(* The socket's end of a link.                                             *)

(* The attempt that succeeds: the other server accepts.                    *)
Open(l) ==
    /\ l \in scenario.dialled
    /\ link[l] = "idle"
    /\ up[To[l]]
    /\ link' = [link EXCEPT ![l] = "hello"]
    /\ gate' = [gate EXCEPT ![l] = "open"]
    /\ UNCHANGED <<scenario, up, wire, known, told, clientVars>>

Writes(l, frame) ==
    wire' = IF gate[l] = "open" THEN [wire EXCEPT ![l] = Append(@, frame)] ELSE wire

(* OnOpen, after "connected = true": the hello, then the request.          *)
SayHello(l) ==
    /\ link[l] = "hello"
    /\ link' = [link EXCEPT ![l] = "request"]
    /\ Writes(l, Hello)
    /\ UNCHANGED <<scenario, up, gate, known, told, clientVars>>

RequestUpdate(l) ==
    /\ link[l] = "request"
    /\ link' = [link EXCEPT ![l] = "open"]
    /\ Writes(l, Request)
    /\ UNCHANGED <<scenario, up, gate, known, told, clientVars>>

(* The connection has left the open state, for the socket: the transport   *)
(* failed, or the other server closed it.                                  *)
Lose(l) ==
    /\ link[l] = "open"
    /\ l \in scenario.fragile \/ gate[l] \in {"closing", "closed"}
    /\ link' = [link EXCEPT ![l] = "broken"]
    /\ UNCHANGED <<scenario, up, gate, wire, known, told, clientVars>>

(* ServerSocket::OnClose.                                                  *)
OnCloseSocket(l) ==
    /\ link[l] = "broken"
    /\ link' = [link EXCEPT ![l] = "closed"]
    /\ UNCHANGED <<scenario, up, gate, wire, known, told, clientVars>>

-----------------------------------------------------------------------------
(* The accepting end: OnMessage and OnClose of the server the link leads   *)
(* to, on the thread that also serves its clients.                         *)

Takes(l, frame) ==
    /\ up[To[l]]
    /\ gate[l] = "open"
    /\ wire[l] # <<>>
    /\ frame = Head(wire[l])

Rest(l) == [wire EXCEPT ![l] = Tail(@)]

(* The gate leaves the open state; what is on its way is lost.             *)
Shut(l) ==
    /\ gate' = [gate EXCEPT ![l] = "closing"]
    /\ wire' = [wire EXCEPT ![l] = <<>>]

(* Faulty: the new peer is not followed by a request.                      *)
RequestPlanNone(h) == <<>>

(* AddNewExternalClientList asks every connected server for its clients,   *)
(* for want of a way to ask the one that said hello.                       *)
RequestPlan(h) == Dials[h]

(* server_hello.                                                           *)
TakeHello(l) ==
    LET h == To[l]
    IN  /\ Takes(l, Hello)
        /\ known' = [known EXCEPT ![h] = Append(@, [link |-> l, clients |-> <<>>])]
        /\ Run(h, RequestPlan(h))
        /\ wire' = Written(Rest(l), RequestPlan(h), Request)
        /\ UNCHANGED <<scenario, link, gate, told, clientVars>>

(* client_update_request: the answer goes to every server this one dials,  *)
(* whoever asked; before the hello it is refused.                          *)
TakeRequest(l) ==
    LET h == To[l]
    IN  /\ Takes(l, Request)
        /\ IF Registered(l)
           THEN /\ Run(h, Dials[h])
                /\ wire' = Written(Rest(l), Dials[h], Update(roster[h]))
                /\ UNCHANGED gate
           ELSE Shut(l) /\ UNCHANGED up
        /\ UNCHANGED <<scenario, link, known, told, clientVars>>

(* Faulty: the array becomes one element of the list.                      *)
ReplacedNested(h, l, clients) ==
    [i \in DOMAIN known[h] |->
        IF known[h][i].link = l THEN [known[h][i] EXCEPT !.clients = <<clients>>]
        ELSE known[h][i]]

(* UpdateExternalClientList.                                               *)
Replaced(h, l, clients) ==
    [i \in DOMAIN known[h] |->
        IF known[h][i].link = l THEN [known[h][i] EXCEPT !.clients = clients]
        ELSE known[h][i]]

(* client_update.  Before the hello there is no entry to replace.          *)
TakeUpdate(l) ==
    LET h == To[l]
    IN  \E frame \in {wire[l][i] : i \in DOMAIN wire[l]} :
            /\ Takes(l, frame)
            /\ frame.type = "client_update"
            /\ known' = [known EXCEPT ![h] = Replaced(h, l, frame.clients)]
            /\ told' = IF Registered(l) THEN told \cup {l} ELSE told
            /\ UNCHANGED <<scenario, link, gate, conn, roster, heard, posted>>
            /\ Run(h, roster[h])
            /\ wire' = Rest(l)
            /\ SendAllClientLists(h, roster[h])

(* Faulty: a chat that came by a link is relayed too.                      *)
RelayPlanOn(h) == roster[h] \o Dials[h]

(* A chat that came by a link goes to the local clients.                   *)
RelayPlan(h) == roster[h]

(* public_chat of another server's client; before the hello ValidCount     *)
(* fails.                                                                  *)
TakeChat(l) ==
    LET h == To[l]
    IN  \E frame \in {wire[l][i] : i \in DOMAIN wire[l]} :
            /\ Takes(l, frame)
            /\ frame.type = "public_chat"
            /\ IF Registered(l)
               THEN /\ Run(h, RelayPlan(h))
                    /\ wire' = Written(Rest(l), RelayPlan(h), frame)
                    /\ Hears(frame, l, RelayPlan(h))
                    /\ UNCHANGED gate
               ELSE Shut(l) /\ UNCHANGED <<up, heard>>
            /\ UNCHANGED <<scenario, link, known, told, conn, roster, view, posted>>

(* A close frame arrives, or the transport fails.                          *)
GateLost(l) ==
    /\ gate[l] = "open"
    /\ l \in scenario.fragile
    /\ Shut(l)
    /\ UNCHANGED <<scenario, up, link, known, told, clientVars>>

(* Faulty: the clients keep what they were shown.                          *)
GatePlanNone(h) == <<>>

GatePlan(h) == roster[h]

(* OnClose for a server.  Without an entry nothing is removed and nobody   *)
(* is told.                                                                *)
OnCloseGate(l) ==
    LET h == To[l]
        plan == IF Registered(l) THEN GatePlan(h) ELSE <<>>
    IN  /\ up[h]
        /\ gate[l] = "closing"
        /\ gate' = [gate EXCEPT ![l] = "closed"]
        /\ IF Registered(l)
           THEN \E i \in First(Place(l)) : known' = [known EXCEPT ![h] = RemoveAt(@, i)]
           ELSE UNCHANGED known
        /\ told' = told \ {l}
        /\ UNCHANGED <<scenario, link, wire, conn, roster, heard, posted>>
        /\ Run(h, plan)
        /\ SendAllClientLists(h, plan)

-----------------------------------------------------------------------------
ClientStep(c) == Join(c) \/ Depart(c) \/ Leave(c) \/ Post(c)

SocketStep(l) ==
    Open(l) \/ SayHello(l) \/ RequestUpdate(l) \/ Lose(l) \/ OnCloseSocket(l)

Take(l) == TakeHello(l) \/ TakeRequest(l) \/ TakeUpdate(l) \/ TakeChat(l)

GateStep(l) == Take(l) \/ GateLost(l) \/ OnCloseGate(l)

Next ==
    \/ \E c \in Clients : ClientStep(c)
    \/ \E l \in Links : SocketStep(l) \/ GateStep(l)

Spec == Init /\ [][Next]_vars

(* A running server serves every event that is ready, an OnOpen goes on    *)
(* once it has begun, and an end of a link learns that the other one has   *)
(* closed.  Nothing obliges a client, or a link to open.                   *)
FairSpec ==
    /\ Spec
    /\ \A c \in Clients : WF_vars(Leave(c))
    /\ \A l \in Links :
        /\ WF_vars(SayHello(l) \/ RequestUpdate(l))
        /\ WF_vars(Take(l) \/ OnCloseGate(l)
                       \/ (link[l] \in {"broken", "closed"} /\ GateLost(l)))

-----------------------------------------------------------------------------
Frames ==
    {Hello, Request} \cup {Chat(c, n) : c \in Clients, n \in 1 .. MaxChats}

TypeOK ==
    /\ scenario \in Scenarios
    /\ up \in [Servers -> BOOLEAN]
    /\ conn \in [Clients -> ConnStates]
    /\ roster \in [Servers -> Seq(Clients)]
    /\ link \in [Links -> LinkStates]
    /\ gate \in [Links -> GateStates]
    /\ \A l \in Links : \A f \in ToSet(wire[l]) :
        f \in Frames \/ f \in [type : {"client_update"}, clients : Seq(Clients)]
    /\ known \in [Servers -> Seq([link : Links, clients : Seq(Clients)])]
    /\ view \in [Clients -> SUBSET Clients]
    /\ heard \in [Clients -> Seq([from : Clients, n : 1 .. MaxChats,
                                   via : Links \cup {Local}])]
    /\ posted \in 0 .. MaxChats
    /\ told \subseteq Links

(* Nothing on its way, no handshake under way.                             *)
Quiet == \A l \in Links : wire[l] = <<>> /\ link[l] \notin {"hello", "request"}

Working(l) ==
    link[l] = "open" /\ gate[l] = "open" /\ up[From(l)] /\ up[To[l]]

Opposite(l, r) == From(r) = To[l] /\ To[r] = From(l)

(* Two servers that have links to each other agree on who is there, in     *)
(* whatever order the links opened and the frames crossed: once nothing is *)
(* on its way, the list the one keeps for a working link is the roster of  *)
(* the other.  A link without a working reverse is promised that only if a *)
(* client_update has come through it: nobody asks it for the first one.    *)
ListsAgree ==
    Quiet => \A l \in Links :
        Working(l) /\ (l \in told \/ \E r \in Links : Opposite(l, r) /\ Working(r))
            => \E i \in Place(l) : known[To[l]][i].clients = roster[From(l)]

(* However many links two servers have, and in both directions, a client   *)
(* accepts a chat once per link at most, only by links of the sender's     *)
(* server, and by no link at all when that is its own server.              *)
OncePerLink ==
    \A c \in Clients :
        /\ IsInjective(heard[c])
        /\ \A e \in ToSet(heard[c]) :
            IF Home[e.from] = Home[c] THEN e.via = Local
            ELSE e.via \in Links /\ From(e.via) = Home[e.from]

(* A chat never overtakes the client_update that introduces its sender:    *)
(* once a link has delivered one, every chat that comes by it is accepted  *)
(* by every client it is written to.  Before that, on a link over which    *)
(* nobody asks for an update, chats of clients that joined earlier may be  *)
(* dropped.                                                                *)
IntroducedFirst ==
    [][\A l \in Links :
        TakeChat(l) /\ l \in told
            => \A c \in Reached(roster[To[l]]) :
                Len(heard'[c]) = Len(heard[c]) + 1]_vars

(* A client that left disappears, in the end, from what every client of    *)
(* every server is shown, whatever becomes of the links in between, unless *)
(* one of the two servers stops.                                           *)
VanishesEverywhere ==
    \A c \in Active : \A d \in Clients \ {c} :
        conn[c] = "closing"
            ~> \/ ~up[Home[c]] \/ ~up[Home[d]]
               \/ conn[d] # "in" \/ c \notin view[d]
=============================================================================
