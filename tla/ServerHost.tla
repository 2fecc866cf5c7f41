----------------------------- MODULE ServerHost -----------------------------
(***************************************************************************)
(* ServerHost: the websocket endpoint of one server.                       *)
(*                                                                         *)
(* All its handlers run on one thread, the one in server.run(), so each    *)
(* handler is one action.  The links change on threads of their own (see   *)
(* Link.tla): a handler asks for and sends on each socket at most once, so *)
(* a change of a link in the middle of a handler has the effect of the     *)
(* same change before or after it.                                         *)
(*                                                                         *)
(* A send on a connection that has left the open state throws.  Nothing    *)
(* between the handler and StartServer catches: the rest of the handler is *)
(* not executed and server.run() is left for good.  "running" is FALSE     *)
(* from then on, and for every connection the frames already sent stay     *)
(* sent.                                                                   *)
(***************************************************************************)
EXTENDS Link, Integers

CONSTANTS
    Clients,        \* connections accepted from chat clients
    Peers,          \* connections accepted from other servers' ServerSockets
    KeyOf,          \* [Clients -> keys]: a client makes a key pair per connection
    AddrOf,         \* [Peers -> addresses]: the "sender" of a peer's server_hello
    MyAddress,      \* myAddress
    Whitelisted,    \* the peers whose fingerprint the read of the whitelist finds
    WhitelistFile,  \* whether Server Whitelist.txt can be opened
    DestLists,      \* the destination_servers a chat may carry
    RemoteLists,    \* the client lists a peer may send in a client_update
    MaxChats        \* bound on the chats of each connection

Conns == Clients \cup Peers

Keys == {KeyOf[c] : c \in Clients} \cup UNION {ToSet(l) : l \in RemoteLists}

ASSUME HostAssumption ==
    /\ Sockets \cap Conns = {}
    /\ Clients \cap Peers = {}
    /\ DOMAIN KeyOf = Clients
    /\ \A c, d \in Clients : KeyOf[c] = KeyOf[d] => c = d
    /\ DOMAIN AddrOf = Peers
    /\ Whitelisted \subseteq Peers
    /\ WhitelistFile \in BOOLEAN
    /\ MaxChats \in Nat
    /\ \A dests \in DestLists : dests \in Seq(ToSet(dests)) /\ IsInjective(dests)
    /\ \A l \in RemoteLists : l \in Seq(ToSet(l))

VARIABLES
    running,             \* server.run() has not been left
    conn,                \* [Conns -> ConnStates]
    helloed,             \* [Conns -> BOOLEAN]: its hello or server_hello was handled
    sent,                \* [Conns -> 0 .. MaxChats]: chats received from it
    clientList,          \* public keys of the clients
    clientConnections,   \* their connections, in the same order
    clientCounts,        \* the last counter of each, in the same order
    serverConnections,   \* every connection that ever sent a server_hello
    externalClientLists, \* [address, connection, clientList] of each peer
    serverCounts,        \* parallel to externalClientLists
    foo,                 \* parallel to externalClientLists: order of arrival
    count,               \* server_hellos handled
    view,                \* [Clients -> the last client_list frame, <<>> for none]
    heard,               \* [Clients -> the chats received, in order]
    told,                \* [Sockets -> <<the last client_update frame>>, <<>> for none]
    relayed              \* [Sockets -> the chats relayed, in order]

rosterVars == <<clientList, clientConnections, clientCounts>>
externalVars == <<serverConnections, externalClientLists, serverCounts, foo, count>>
hostVars == <<running, conn, helloed, sent, rosterVars, externalVars,
              view, heard, told, relayed>>
vars == <<linkVars, hostVars>>

ConnStates == {"none", "open", "closing", "closed"}
Chats == [from : Conns, n : 1 .. MaxChats]
External == [address : {AddrOf[p] : p \in Peers},
             connection : Peers,
             clientList : RemoteLists \cup {<<>>}]

Init ==
    /\ LinkInit
    /\ running = TRUE
    /\ conn = [x \in Conns |-> "none"]
    /\ helloed = [x \in Conns |-> FALSE]
    /\ sent = [x \in Conns |-> 0]
    /\ clientList = <<>>
    /\ clientConnections = <<>>
    /\ clientCounts = <<>>
    /\ serverConnections = <<>>
    /\ externalClientLists = <<>>
    /\ serverCounts = <<>>
    /\ foo = <<>>
    /\ count = 0
    /\ view = [c \in Clients |-> <<>>]
    /\ heard = [c \in Clients |-> <<>>]
    /\ told = [s \in Sockets |-> <<>>]
    /\ relayed = [s \in Sockets |-> <<>>]

-----------------------------------------------------------------------------
(* Sending.  A handler sends to a sequence of targets, its plan: sockets,  *)
(* which are skipped while not connected, and client connections.  No plan *)
(* names a target twice (EachTargetOnce), so the set of the targets it     *)
(* reaches says who is sent what.                                          *)

Throws(t) == IF t \in Sockets THEN SendThrows(t) ELSE conn[t] # "open"

Completes(plan) == \A i \in DOMAIN plan : ~Throws(plan[i])

(* The targets that come before the first one that throws.                 *)
Reached(plan) ==
    {plan[i] : i \in {i \in DOMAIN plan : \A j \in 1 .. i : ~Throws(plan[j])}}

ReachedSockets(plan) == {s \in Reached(plan) \cap Sockets : IsConnected(s)}

Run(plan) == running' = Completes(plan)

(* Faulty: sends the handles of the local clients instead of their keys.   *)
ClientListsOfHandles(local, external) ==
    <<[address |-> MyAddress, clients |-> clientConnections]>>
    \o [i \in DOMAIN external |->
            [address |-> external[i].address, clients |-> external[i].clientList]]

(* Faulty: lists the other servers only.                                   *)
ClientListsOfOthers(local, external) ==
    [i \in DOMAIN external |->
        [address |-> external[i].address, clients |-> external[i].clientList]]

(* The client_list message.                                                *)
ClientListsOf(local, external) ==
    <<[address |-> MyAddress, clients |-> local]>>
    \o [i \in DOMAIN external |->
            [address |-> external[i].address, clients |-> external[i].clientList]]

ClientLists == ClientListsOf(clientList, externalClientLists)

(* Faulty: serialises the roster before changing it.                       *)
SendOldClientUpdate(plan) ==
    told' = [s \in Sockets |->
                IF s \in ReachedSockets(plan) THEN <<clientList>> ELSE told[s]]

(* SendClientUpdate: the local roster to every connected socket.           *)
SendClientUpdate(plan) ==
    told' = [s \in Sockets |->
                IF s \in ReachedSockets(plan) THEN <<clientList'>> ELSE told[s]]

(* Faulty: only writes to clients that have no list yet.                   *)
SendFirstClientLists(plan) ==
    view' = [c \in Clients |->
                IF c \in Reached(plan) /\ view[c] = <<>> THEN ClientLists' ELSE view[c]]

(* SendAllClientLists and SendAllClientListsToAllClients.                  *)
SendAllClientLists(plan) ==
    view' = [c \in Clients |->
                IF c \in Reached(plan) THEN ClientLists' ELSE view[c]]

(* SendPublicChatMessage and SendChatMessage.                              *)
SendChat(plan, chat) ==
    /\ heard' = [c \in Clients |->
                    IF c \in Reached(plan) THEN Append(heard[c], chat) ELSE heard[c]]
    /\ relayed' = [s \in Sockets |->
                    IF s \in ReachedSockets(plan) THEN Append(relayed[s], chat)
                    ELSE relayed[s]]

-----------------------------------------------------------------------------
Places(x) == {i \in DOMAIN clientConnections : clientConnections[i] = x}
ExternalPlaces(x) ==
    {i \in DOMAIN externalClientLists : externalClientLists[i].connection = x}

(* CheckIfHdlMatches(clientConnections, x) and (serverConnections, x).     *)
IsClient(x) == Places(x) # {}
IsServer(x) == x \in ToSet(serverConnections)

(* A file that cannot be opened makes it "return -1", which is true.       *)
CheckServerSignature(p) == ~WhitelistFile \/ p \in Whitelisted

ValidCount(x, n) ==
    IF IsClient(x)
    THEN \E i \in Places(x) : n > clientCounts[i]
    ELSE ExternalPlaces(x) # {}

(* Faulty: checks the counter and does not store it.                       *)
CountsKept(x, n) == clientCounts

CountsAfter(x, n) ==
    [i \in DOMAIN clientCounts |-> IF i \in Places(x) THEN n ELSE clientCounts[i]]

(* Faulty: the close is left out.                                          *)
CloseForgotten(x) == UNCHANGED conn

Close(x) == conn' = [conn EXCEPT ![x] = "closing"]

(* A frame of x reaches the handler: the endpoint is running and x open.   *)
Receives(x) == running /\ conn[x] = "open"

-----------------------------------------------------------------------------
(* Connections.                                                            *)

Accept(x) ==
    /\ running
    /\ conn[x] = "none"
    /\ conn' = [conn EXCEPT ![x] = "open"]
    /\ UNCHANGED <<linkVars, running, helloed, sent, rosterVars, externalVars,
                   view, heard, told, relayed>>

(* A close frame arrives or the transport fails.  The connection leaves    *)
(* the open state at once; its close handler is a later event of the loop. *)
RemoteClose(x) ==
    /\ Receives(x)
    /\ Close(x)
    /\ UNCHANGED <<linkVars, running, helloed, sent, rosterVars, externalVars,
                   view, heard, told, relayed>>

(* Faulty: leaves the counter of the client in place.                      *)
EraseClientKeepingCount(i) ==
    /\ clientList' = RemoveAt(clientList, i)
    /\ clientConnections' = RemoveAt(clientConnections, i)
    /\ UNCHANGED clientCounts

EraseClient(i) ==
    /\ clientList' = RemoveAt(clientList, i)
    /\ clientConnections' = RemoveAt(clientConnections, i)
    /\ clientCounts' = RemoveAt(clientCounts, i)

(* Faulty: leaves the arrival number of the peer in place.                 *)
EraseExternalKeepingFoo(i) ==
    /\ externalClientLists' = RemoveAt(externalClientLists, i)
    /\ serverCounts' = RemoveAt(serverCounts, i)
    /\ UNCHANGED foo

EraseExternal(i) ==
    /\ externalClientLists' = RemoveAt(externalClientLists, i)
    /\ serverCounts' = RemoveAt(serverCounts, i)
    /\ foo' = RemoveAt(foo, i)

(* OnClose for a client: off the three lists, then everybody is told.      *)
OnCloseClient(x) ==
    /\ running
    /\ conn[x] = "closing"
    /\ IsClient(x)
    /\ conn' = [conn EXCEPT ![x] = "closed"]
    /\ \E i \in Places(x) :
        /\ \A j \in Places(x) : i <= j
        /\ EraseClient(i)
    /\ UNCHANGED <<linkVars, helloed, sent, externalVars, heard, relayed>>
    /\ LET plan == socketList \o clientConnections'
       IN  /\ Run(plan)
           /\ SendClientUpdate(plan)
           /\ SendAllClientLists(plan)

(* OnClose for a server that has sent a hello.  serverConnections keeps    *)
(* its connection.                                                         *)
OnCloseServer(x) ==
    /\ running
    /\ conn[x] = "closing"
    /\ ~IsClient(x)
    /\ ExternalPlaces(x) # {}
    /\ conn' = [conn EXCEPT ![x] = "closed"]
    /\ \E i \in ExternalPlaces(x) :
        /\ \A j \in ExternalPlaces(x) : i <= j
        /\ EraseExternal(i)
    /\ UNCHANGED <<linkVars, helloed, sent, rosterVars, serverConnections, count,
                   heard, told, relayed>>
    /\ Run(clientConnections)
    /\ SendAllClientLists(clientConnections)

(* OnClose for a connection that is on no list.                            *)
OnCloseOther(x) ==
    /\ running
    /\ conn[x] = "closing"
    /\ ~IsClient(x)
    /\ ExternalPlaces(x) = {}
    /\ conn' = [conn EXCEPT ![x] = "closed"]
    /\ UNCHANGED <<linkVars, running, helloed, sent, rosterVars, externalVars,
                   view, heard, told, relayed>>

OnClose(x) == OnCloseClient(x) \/ OnCloseServer(x) \/ OnCloseOther(x)

-----------------------------------------------------------------------------
(* OnMessage, one action per type of message.                              *)

(* hello: AddClient, then ValidCount with the hello's counter, 0.          *)
Hello(c) ==
    /\ Receives(c)
    /\ ~helloed[c]
    /\ helloed' = [helloed EXCEPT ![c] = TRUE]
    /\ clientList' = Append(clientList, KeyOf[c])
    /\ clientConnections' = Append(clientConnections, c)
    /\ UNCHANGED <<linkVars, conn, sent, externalVars, heard, relayed>>
    /\ LET plan == socketList \o clientConnections'
       IN  /\ Run(plan)
           /\ SendClientUpdate(plan)
           /\ SendAllClientLists(plan)
           /\ clientCounts' = Append(clientCounts, IF Completes(plan) THEN 0 ELSE -1)

(* client_list_request, which a client sends after its hello.              *)
ClientListRequest(c) ==
    /\ Receives(c)
    /\ helloed[c]
    /\ UNCHANGED <<linkVars, running, conn, helloed, sent, rosterVars, externalVars,
                   heard, told, relayed>>
    /\ SendAllClientLists(<<c>>)

(* client_update_request.                                                  *)
ClientUpdateRequest(p) ==
    /\ Receives(p)
    /\ IsServer(p)
    /\ UNCHANGED <<linkVars, conn, helloed, sent, rosterVars, externalVars,
                   view, heard, relayed>>
    /\ Run(socketList)
    /\ SendClientUpdate(socketList)

(* client_update_request from a connection that has sent no server_hello.  *)
RefuseUpdateRequest(p) ==
    /\ Receives(p)
    /\ ~IsServer(p)
    /\ Close(p)
    /\ UNCHANGED <<linkVars, running, helloed, sent, rosterVars, externalVars,
                   view, heard, told, relayed>>

(* client_update: UpdateExternalClientList.                                *)
ClientUpdate(p, list) ==
    /\ Receives(p)
    /\ externalClientLists' =
        [i \in DOMAIN externalClientLists |->
            IF i \in ExternalPlaces(p)
            THEN [externalClientLists[i] EXCEPT !.clientList = list]
            ELSE externalClientLists[i]]
    /\ UNCHANGED <<linkVars, conn, helloed, sent, rosterVars, serverConnections,
                   serverCounts, foo, count, heard, told, relayed>>
    /\ Run(clientConnections)
    /\ SendAllClientLists(clientConnections)

(* server_hello.  A server that is not on the whitelist is closed, and     *)
(* registered all the same: there is no return after the close.  The       *)
(* client_update_request that AddNewExternalClientList sends carries       *)
(* nothing, only whether the handler survives it matters.                  *)
ServerHello(p) ==
    /\ Receives(p)
    /\ ~helloed[p]
    /\ helloed' = [helloed EXCEPT ![p] = TRUE]
    /\ IF CheckServerSignature(p) THEN UNCHANGED conn ELSE Close(p)
    /\ serverConnections' = Append(serverConnections, p)
    /\ externalClientLists' =
        Append(externalClientLists,
               [address |-> AddrOf[p], connection |-> p, clientList |-> <<>>])
    /\ serverCounts' = Append(serverCounts, -1)
    /\ foo' = Append(foo, count)
    /\ count' = count + 1
    /\ Run(socketList)
    /\ UNCHANGED <<linkVars, sent, rosterVars, view, heard, told, relayed>>

(* A chat of x gets to the handler.  A client counts its messages from     *)
(* its hello on, and says hello before anything else; a peer relays.       *)
TakesChat(x) ==
    /\ Receives(x)
    /\ x \in Clients => helloed[x]
    /\ sent[x] < MaxChats
    /\ sent' = [sent EXCEPT ![x] = @ + 1]

NextChat(x) == [from |-> x, n |-> sent[x] + 1]

Deliver(x, plan) ==
    /\ TakesChat(x)
    /\ ValidCount(x, NextChat(x).n)
    /\ clientCounts' = CountsAfter(x, NextChat(x).n)
    /\ Run(plan)
    /\ SendChat(plan, NextChat(x))
    /\ UNCHANGED <<linkVars, conn, helloed, clientList, clientConnections,
                   externalVars, view, told>>

(* Faulty: delivers to the local clients for every destination.            *)
ChatPlanEverywhere(x, dests) ==
    FlattenSeq([k \in DOMAIN dests |-> clientConnections])

(* The sockets dialled to an address.                                      *)
SocketsTo(address) ==
    FlattenSeq([i \in DOMAIN socketList |->
        IF GetConnectionAddress(socketList[i]) = address THEN <<socketList[i]>> ELSE <<>>])

(* SendChatMessage: for each destination the local clients, or the         *)
(* sockets dialled to it when the chat comes from a client.                *)
ChatPlan(x, dests) ==
    FlattenSeq([k \in DOMAIN dests |->
        IF dests[k] = MyAddress THEN clientConnections
        ELSE IF IsClient(x) THEN SocketsTo(dests[k])
        ELSE <<>>])

Chat(x, dests) == Deliver(x, ChatPlan(x, dests))

(* Faulty: skips the sender.                                               *)
PublicChatPlanToOthers(x) ==
    SelectSeq(clientConnections, LAMBDA c : c # x)
    \o (IF IsClient(x) THEN socketList ELSE <<>>)

(* public_chat: the local clients, then every socket once per entry of     *)
(* clientConnections that is the sender.                                   *)
PublicChatPlan(x) ==
    clientConnections \o (IF IsClient(x) THEN socketList ELSE <<>>)

PublicChat(x) == Deliver(x, PublicChatPlan(x))

(* ValidCount fails.                                                       *)
RefuseChat(x) ==
    /\ TakesChat(x)
    /\ ~ValidCount(x, NextChat(x).n)
    /\ Close(x)
    /\ UNCHANGED <<linkVars, running, helloed, rosterVars, externalVars,
                   view, heard, told, relayed>>

-----------------------------------------------------------------------------
ConnStep(x) == Accept(x) \/ RemoteClose(x) \/ OnClose(x)

ChatStep(x) ==
    \/ \E dests \in DestLists : Chat(x, dests)
    \/ PublicChat(x)
    \/ RefuseChat(x)

ClientStep(c) == Hello(c) \/ ClientListRequest(c)

PeerStep(p) ==
    \/ ServerHello(p)
    \/ ClientUpdateRequest(p)
    \/ RefuseUpdateRequest(p)
    \/ \E list \in RemoteLists : ClientUpdate(p, list)

Next ==
    \/ \E x \in Conns : ConnStep(x) \/ ChatStep(x)
    \/ \E c \in Clients : ClientStep(c)
    \/ \E p \in Peers : PeerStep(p)
    \/ LinkNext /\ UNCHANGED hostVars

Spec == Init /\ [][Next]_vars

-----------------------------------------------------------------------------
(* Properties.                                                             *)

(* Every variable has its type.  A client_list frame is a non-empty        *)
(* sequence of records, <<>> stands for "none yet".                        *)
Frame == [address : {MyAddress} \cup {AddrOf[p] : p \in Peers}, clients : Seq(Keys)]

TypeOK ==
    /\ LinkTypeOK
    /\ running \in BOOLEAN
    /\ conn \in [Conns -> ConnStates]
    /\ helloed \in [Conns -> BOOLEAN]
    /\ sent \in [Conns -> 0 .. MaxChats]
    /\ clientList \in Seq(Keys)
    /\ clientConnections \in Seq(Clients)
    /\ clientCounts \in Seq(-1 .. MaxChats)
    /\ serverConnections \in Seq(Peers)
    /\ externalClientLists \in Seq(External)
    /\ serverCounts \in Seq({-1})
    /\ foo \in Seq(Nat)
    /\ count \in Nat
    /\ view \in [Clients -> Seq(Frame)]
    /\ heard \in [Clients -> Seq(Chats)]
    /\ told \in [Sockets -> Seq(Seq(Keys))]
    /\ relayed \in [Sockets -> Seq(Chats)]

(* A client whose hello was handled and whose close handler has not run.   *)
Present(x) == helloed[x] /\ conn[x] # "closed"

(* The clients the server still has and can write to.                      *)
Members == {c \in Clients : Present(c) /\ conn[c] = "open"}

(* The three parallel lists of clients, kept by AddClient, ValidCount and  *)
(* OnClose with list positions, never come apart: the same length, at each *)
(* position one client's key, connection and last counter, a client at one *)
(* position only, and exactly the clients that said hello and whose close  *)
(* handler has not run.                                                    *)
RosterAligned ==
    /\ Len(clientList) = Len(clientConnections)
    /\ Len(clientCounts) = Len(clientConnections)
    /\ \A i \in DOMAIN clientConnections : clientList[i] = KeyOf[clientConnections[i]]
    /\ IsInjective(clientConnections)
    /\ \A c \in Clients : IsClient(c) <=> Present(c)

(* While the endpoint runs the recorded counter of a client is the number  *)
(* of its last message, so a message is never taken twice and the next one *)
(* is always taken: no handler leaves the -1 of AddClient behind.          *)
CountsCurrent ==
    running => \A i \in DOMAIN clientConnections :
                   clientCounts[i] = sent[clientConnections[i]]

(* The three parallel lists of peers (externalClientLists, serverCounts,   *)
(* foo) keep the same length and the order of arrival, and list each peer  *)
(* that said hello and has not closed exactly once.                        *)
ExternalAligned ==
    /\ Len(serverCounts) = Len(externalClientLists)
    /\ Len(foo) = Len(externalClientLists)
    /\ \A i \in DOMAIN foo : foo[i] < count
    /\ \A i, j \in DOMAIN foo : i < j => foo[i] < foo[j]
    /\ \A i, j \in DOMAIN externalClientLists :
        externalClientLists[i].connection = externalClientLists[j].connection => i = j
    /\ \A p \in Peers : ExternalPlaces(p) # {} <=> Present(p)

(* The (server, client) pairs a client_list shows.                         *)
Shown(frames) ==
    UNION {{<<frames[i].address, k>> : k \in ToSet(frames[i].clients)} :
               i \in DOMAIN frames}

(* Whatever the interleaving of hellos, closes, requests and updates of    *)
(* other servers, every client the server can write to has been sent the   *)
(* roster as it is: AddNewExternalClientList does not push the new, empty  *)
(* list, every other change of a list is followed by a push.               *)
RosterPushed ==
    running => \A c \in Members : Shown(view[c]) = Shown(ClientLists)

(* A client_list sent to a client holds the client's own key, which        *)
(* ClientSocket::ParseMessage looks up without a check                     *)
(* (MarkClient(GetClientIndex(publicKey), true)).                          *)
OwnKeyShown ==
    \A c \in Clients : view[c] # <<>> => <<MyAddress, KeyOf[c]>> \in Shown(view[c])

(* A peer this server's socket still reaches, and that was ever sent a     *)
(* client_update, was sent the roster as it is.                            *)
ToldIsCurrent ==
    running => \A s \in Sockets :
                   link[s] = "open" /\ told[s] # <<>> => told[s] = <<clientList>>

(* A server that failed the whitelist is registered (no return after       *)
(* close) but contributes no client: what it sends afterwards is dropped,  *)
(* and what it sent before its hello found no entry to update.             *)
OnlyWhitelistedContribute ==
    \A i \in DOMAIN externalClientLists :
        ~CheckServerSignature(externalClientLists[i].connection)
            => externalClientLists[i].clientList = <<>>

(* The transcripts of two clients agree: the chats of the one that joined  *)
(* later are the last chats of the other, whoever sent them and whatever   *)
(* link they came by.                                                      *)
SameTranscript == \A c, d \in Members :
    IsSuffix(heard[c], heard[d]) \/ IsSuffix(heard[d], heard[c])

TranscriptsAgree == running => SameTranscript

(* A chat is relayed to other servers by the server of its sender only:    *)
(* relaying cannot loop between servers.                                   *)
RelayedByOrigin ==
    \A s \in Sockets : \A i \in DOMAIN relayed[s] : relayed[s][i].from \in Clients

(* Whatever state the lists are in, a chat that arrives now is written to  *)
(* each client and each socket once at most.                               *)
EachTargetOnce ==
    \A x \in Conns :
        /\ IsInjective(PublicChatPlan(x))
        /\ \A dests \in DestLists : IsInjective(ChatPlan(x, dests))

(* The host implements a room: the clients it can write to are inside, and *)
(* a message is heard by all of them or the endpoint stops.                *)
Room == INSTANCE Room WITH
    Guests <- Clients, Messages <- Chats,
    open <- running, inside <- Members, heard <- heard

IsRoom == Room!Spec
=============================================================================
