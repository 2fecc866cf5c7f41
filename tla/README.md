# A model of the chat servers and clients

TLA+ modules, TLC runs and TLAPS proofs about the chat application of this
repository: a federation of servers (`Server/src`), each with websocket links
to the others, and desktop clients (`Client/src`). Paths below are relative to
the repository; `PROJECT.json` maps every definition to the lines it models.

## The system

| Component | State it keeps | Operations |
| --- | --- | --- |
| `ServerHost` (`Server/src/ServerHost.cpp`) | clients in three parallel lists (`clientList`, `clientConnections`, `clientCounts`), peers in three more (`externalClientLists`, `serverCounts`, `foo`), `serverConnections` | one handler per message type, the close handler, `StartServer` |
| `ServerSocket` (`Server/src/ServerSocket.cpp`) | `connected`, `counter`, the current connection | dial, open, fail and retry, close, `SendJson` |
| `Server` (`Server/src/Server.cpp`) | the list of sockets, shared with `ServerHost`; keys; addresses | start-up from three text files, the `connect` command |
| `Https` (`Server/src/Https.h`) | one session per TCP connection: mode, boundary, file name | chunked upload, download |
| `Client` (`Client/src/Client.cpp`) | `activeUsers`, `allMessages` | mark, add, remove, sort users; append messages |
| `ClientSocket` (`Client/src/ClientSocket.cpp`) | key pair, `counter`, `uniqueServerList` | connect, hello, send, parse incoming frames |
| `ChatApplication` (`Client/src/ChatApplication.cpp`) | `selectedUser`, `connectedState`, recipients of a new chat | draw, select, send, connect dialog |
| `Encryption`, `Program`, fonts | none that matters to the protocol | wrappers of OpenSSL, GLFW and OpenGL |

How they interact. A server runs a main thread (console), a host thread
(`ServerHost`, all handlers on one event loop), an upload thread and one thread
per outgoing link. The main thread appends to the list of sockets while the
host thread walks it; the host thread asks `IsConnected()` and calls
`SendJson()` on sockets whose state their own threads change. Between servers,
a link is one-way: the dialling side sends `server_hello`,
`client_update_request`, `client_update` and chats, the accepting side only
reads. A client opens one connection, says `hello`, asks for the list of
clients and then sends chats, and is pushed a `client_list` at every change.
Inside the client the socket thread and the window thread share `activeUsers`
without a lock.

What is hard here: a send on a connection that has left the open state throws,
in the middle of a broadcast, out of the handler and out of `server.run()`;
lists that belong together are addressed by position; a link is announced as
connected before it has introduced itself; a server that fails the whitelist is
closed *and* registered; the window keeps an index into a vector another thread
edits; the key file is created before the keys are in it, and the process may
end in between. `PROJECT.json` lists every such hazard at its line with the properties
aimed at it, and why no property covers the others.

## The modules

| Module | Models | Role |
| --- | --- | --- |
| `Link` | the outgoing links as the host thread sees them | abstract: idle, open, broken, closed |
| `ServerSocket` | the thread of a link, step by step | implements `Link` |
| `PeerLink` | `ServerSocket` + the host thread's check-then-send + the gate of the other server | composition |
| `ServerHost` | the endpoint, every handler; extends `Link` | core |
| `Room` | what an endpoint promises its clients | abstract: a room whose guests hear the same |
| `Federation` | several servers, their clients, the links and the frames on them | composition |
| `Server` | the main thread over several lives of the process, key files, the whitelist of another server | component |
| `ClientRoster` | the client's list of users between its two threads | component |
| `ClientSession` | a client's connection: dialog, socket thread, sends, end | component |
| `Upload` | the file server: sessions that read in pieces and share a directory | component |
| `Loops` | lemmas about sequences and the loops over them, for any elements | proofs |
| `ServerHostProofs` | `ServerHost`, and the refinement of `Room` | proofs |
| `PeerLinkProofs` | `PeerLink`, and the refinement of `Link` | proofs |
| `FederationProofs`, `ServerProofs`, `ClientRosterProofs`, `ClientSessionProofs`, `UploadProofs` | the module of that name | proofs |
| `MC...` | instances for TLC: addresses, keys, lists, symmetry | model checking |

Definitions whose comment begins with *Faulty* are plausible mistakes in the
definition that follows them; no specification uses them. Each property of a
passing run has one that breaks it.

### ServerHost

A handler is one action, because all handlers run on one thread. What it sends
is a *plan*, the sequence of its targets in the order of the code's loops.
`Reached(plan)` are those before the first whose send throws, `Completes(plan)`
says that none throws. A handler whose plan does not complete sets `running` to
FALSE: the exception leaves `server.run()`, `StartServer` reports it and
returns, and every handler is guarded by `running`. What was changed and sent
before the exception stays. Since `AddClient` throws before `ValidCount` sets
the counter, `Hello` leaves -1 in that case. The plan of a chat is two nested
loops, of which `SocketsTo` is the inner one (the sockets of one destination).

An accepted connection is `none`, `open`, `closing` (it left the open state,
its close handler has not run) or `closed`. `RemoteClose` and the handlers that
call `server.close` make it `closing`; `OnClose` is a later event. A closed
connection is not reused: a client that returns is another element of
`Clients`. A client makes a key pair per connection, hence `KeyOf` is injective.

Changes of a link between two steps of one handler are not separate actions. A
handler asks for and sends on each socket at most once (`EachTargetOnce`), so
such a change has the effect of one before or after the handler, except that
`IsConnected` may be answered just before the flag changes and the send happen
just after. A send after the flag was cleared throws, like one on a `broken`
link, which is where the link comes from.

Data: a public key, an address and a chat are values; a chat is its sender and
its number. JSON, TLS and signatures are left out (the server never verifies
one). The whitelist file is the set of peers it lets pass and whether it can be
opened: `CheckServerSignature` returns -1, which is true, when it cannot.

The state `view`, `heard`, `told` and `relayed` is what others have been sent:
the last client_list per client, all chats per client, the last client_update
per socket, all chats per socket.

### Link, ServerSocket, PeerLink

`ServerSocket` follows the thread: `Dial`, then `Fail`, a sleep and `Retry`, or
`OnOpen` in its three steps, later `Lose` and `OnClose`. `LinkOf` maps it to the
four states of `Link`, and `ImplementsLink` checks the refinement, so what is
checked of `ServerHost` over `Link` holds over the thread.

`PeerLink` splits the host's `IsConnected` from its `SendJson` and adds the
other server's `OnMessage` as a gate on the frames in the order of the wire: it
registers the link on `server_hello`, and refuses it on a chat or a
`client_update_request` that comes first. Both threads write to one connection,
so the wire is the order in which the sends happened. A send that throws ends
the loop it throws in and leaves that server's connections open
(`ServerHost.cpp:429-433`): on this side `hostDown`, on the other side the gate is
`unserved`, as it is when frames no longer get through, and it is `gone` when the
connection is lost. `Take` handles a frame only while the gate is `Served`.

### Room

`IsRoom` substitutes `running`, the clients that can be written to and what they
heard into `Room`: clients enter and leave, a post is heard by all inside, and
the one way to be heard by some only is that the room shuts for good.

### Federation

`ServerHost` is one server whose neighbours may send anything. `Federation` has
whole servers, so that every frame a server handles was written by another one:
`link[l]` is the state of the dialling end (as in `Link`, with the two steps of
`OnOpen` from `PeerLink`), `gate[l]` that of the accepted connection, `wire[l]`
the frames on their way. The handlers are those of `ServerHost` with less data: a
roster is a sequence of clients, a `client_list` the set of users it shows, every
server is on every whitelist, and every message is a `public_chat`. A client is
one step away from its server: frames reach it in order, so what it does with one
(`Hears`: ignore its own chat, drop that of a user it was not shown, accept the
rest) is decided when the frame is written. `told` is history, and only
`ListsAgree` and `IntroducedFirst` look at it. `First` is the position `OnClose`
finds a client or a connection at, and erases.

What the two directions do to each other is the point: a server asks for the
clients of a new peer not by the connection the peer opened, which only the peer
writes to, but by all its own links (`RequestPlan`), and answers a request on all
its own links (`TakeRequest`). `ListsAgree` says when that is enough.

### Server

One action per step of `StartServer` up to the console, `GetRSAKeys` in the steps
between which the process may end (`CreateKeys` opens the file, `SaveKeys` is
its `close`), and `Command` for a line typed. `Kill` ends a life anywhere,
`ThreadFaults` when a socket's thread meets an address no connection can be made
of; the members are lost and the files stay. `returned` is what follows when the
list of servers is missing: `StartServer` returns, and `~Server` waits for the
host thread, so the server serves without a console until it ends. A file is the
sequence of its lines, of a PEM block only the markers and one line for the key.
A loop over lines is a recursive function of the number of lines read:
`PublicLine` is its body over the key file, `WhitelistLine` over the whitelist of
another server, `Dialled` the one over the list of servers. The operator of that
other server writes that file before the first start (`EditWhitelist`: markers,
keys, and `Remarks` that are neither), and copies the public key of a key file
into it at any time (`Enroll`).

That no pair could be generated and that the key file cannot be created are
independent (`Server.cpp:64-80`). So `FailToGenerate` leaves an empty file, which
later lives read (`torn`), or no file at all, and then this life alone is without
a key (`failed`).

### ClientRoster

`ParseMessage` holds no lock while it applies a `client_list`, and goes over
`activeUsers` by index while the window thread may sort it. So each of its
accesses to an entry is an action: `Receive` begins, `MarkNext` marks an entry,
`Look` compares one with the key `GetClientIndex` seeks, `Unmark` and `Push` deal
with a user that was found or not, `MarkOwn` marks the own entry and unmarks the
fixed ones, `Erase` and `Keep` are the rounds of `RemoveMarkedClients`, and `Collect`
those of the loop that rebuilds `uniqueServerList`. `at` is the index of the loop
and `entry` the user of the frame. `Push` adds nobody whose key gives no fingerprint
(`Client.cpp:68-71`); a server takes any text for a key in a hello, so a frame may
hold such a key, one that is not `Readable`. If the own key is not found
`activeUsers[-1]` is written, which is undefined; in the model no entry is marked.

The three reads of `activeUsers[selectedUser]` in a send are `Send`, `PushMessage`
and `UpdateDate`. On the New Chat page (`selectedUser` 1) the recipients are kept by
pseudonym: `Pick` and `Unpick` change them, any other page forgets them, and
`BeginRound`, `SendEach`, `PushEach` and `DateEach` are the loop over them.
`Pick` may add any entry, since Enter uses an index an earlier frame found. Two
keys may have one pseudonym, which is drawn from ten characters of the key; then
the first entry with it is taken at each step.

`UpdateDate` and `DateEach` sort. `std::sort` leaves entries of equal date in any
order, so they choose among all sorted orders; a date is any value up to `MaxDate`,
since the strings do not order by time across months. `crossed` records into which
loops of the current frame a sort fell (`users`, the loops over the users, or
`servers`), and `calm` whether a new chat was undisturbed by frames. What `sort`,
`erase` and `push_back` make of a vector while the other thread is in the middle of
one is undefined and not modelled, nor is an index past the end: the window's
action is then disabled.

`ListAssumption` says which frames a server sends: the receiver's own key is in
them (`OwnKeyShown` of `ServerHost`), a key is of one server in all of them, and no
key is that of a fixed entry.

### ClientSession

The window thread and the socket thread share `connectedState` without a lock.
The window's actions come in two steps, what a frame shows and what is done with
it (`ShowForm` then `Connect`; `Type` then `SendChatMessage`; `Quit` then
`End`), and the steps of `Start` and of the handlers fall between them. `OnOpen`
is four steps, since the window may act on `CS_CONNECTED` the moment it is set.
`fate` becomes `terminated` where the program calls `std::terminate`: assigning
to or destroying a joinable `socketThread`, and a send or a close that throws
out of the window's loop. `HideForm` is a frame in which nothing is pressed,
`DropMessage` a message that cannot be encrypted. `HandlerFails` is an exception out
of a handler, which `Connect` catches: the thread is over and `connectedState` stays
as it was (`ClientSocket.cpp:278-282`).

### Upload

Lengths only: a body is the head of the part, the content, four bytes, the
boundary, and four more; a piece is the range of the body that was written. Each
read is a step, and `Header`, `First` and `Rest` are the three branches of
`do_read`. `Found` is `find(boundary)` in a range, `prev` is where
`previousRead` begins, `ContentEnd` the end the code computes. A TLS record is a
multiple of the buffer and is read to its end first, so only the last read is
short; httplib sends the header as a record of its own. `Boundary + 4 <= Buf`
(the code has 45 + 4 and 1024) is what makes a read that ends inside the last
bytes the last one. An exception ends the
process, as `Https::StartServer` is the function of a thread and catches
nothing. `Download` changes something only when nothing was uploaded yet: the
missing directory throws and ends the process. Otherwise its reply is the file as
it stands, which is what `PiecesInOrder` and `AnsweredWhole` are about.

## The runs

| Run | Instance | Shows |
| --- | --- | --- |
| `host_roster` | 3 clients, 2 peers (one not on the whitelist), 1 socket, no chats | `TypeOK`, `RosterAligned`, `ExternalAligned`; `RosterPushed`: everyone who can be written to has the current roster; `OwnKeyShown`, which `ClientRoster` assumes; `ToldIsCurrent`; `OnlyWhitelistedContribute` |
| `host_chat` | 2 clients, 1 peer, 1 socket, 1 chat each | `TranscriptsAgree`, `EachTargetOnce`, `CountsCurrent`: the counter a message is judged by is the last one; and `IsRoom` |
| `host_partial` | 3 clients | **violated** `SameTranscript`, see below |
| `peer_link` | 1 socket, 3 frames of the host, fairness | `OneHello`, `RefusedOnlyIfOvertaken`, `ImplementsLink`; `DownOnlyIfLost`: a send ends the host's loop only on a link found up and lost since; `EventuallyOpens`, `JudgedEventually` |
| `peer_link_refused` | 1 socket, 1 frame | **violated** `WhitelistedNotRefused`, see below |
| `client_roster` | 3 other users, one without a readable key and one with the pseudonym of this client, on 2 servers; 2 lists, 2 recipients | `RosterApplied`: a list into whose loops no sort fell is what the client shows; `RecipientServed`: so its messages name the recipient's server; `RoundReachesPicked`: a new chat goes once to somebody of each pseudonym picked, and into that conversation |
| `client_selection` | the same, no new chat | **violated** `SelectionKept`, see below |
| `client_session` | 4 messages, fairness | `WireValid`: hello, request, then chats numbered from 1; `AttemptSettles`, `QuitFinishes` |
| `client_reconnect` | 1 message | **violated** `CanBeginAgain`, see below |
| `upload` | 2 uploads, 2 names, 24 sizes, fairness | `PiecesInOrder`, `AnsweredWhole`, `DiesOnlyIfSplit`, `UploadEnds` |
| `federation` | 2 servers, a client each, 3 links, 3 scenarios, fairness | `ListsAgree`: linked servers agree on who is there; `OncePerLink`; `IntroducedFirst`: a chat does not overtake the update that introduces its sender; `VanishesEverywhere` |
| `server_start` | 3 lives, 2 ports, 2 key pairs, whitelists of up to 5 lines | `WhitelistExact`: a whitelist that can be opened lets in the keys written in it, and a server without a key only if a block of it has none; `RecognisedForEver`, `UnkeyedOnlyIfTorn` |

Bounds. Three clients make a middle position in the parallel lists, so that an
erase shifts one neighbour and not the other; two peers do the same for theirs
and let one be refused. One socket is enough for the host, whose loop treats
sockets independently until one throws. A chat after the hello lets a counter
advance. `MaxFrames` 3 lets the host write before, between and after the two
frames of `OnOpen`; one socket is enough for `peer_link`, because the threads of
two share only the list they are in. A client session makes one connection at
most, since a second ends it, so `MaxChats` is its only bound. Uploads use the
numbers of the code: a buffer of 1024, a boundary of 45 and a tail of 24 bytes
kept. The sizes move the boundary over the end of the first and of the second
read: whole before it, split within and beyond the bytes kept, at the start of the
next read and just after.

`MaxDate` 1 tells a user written to from one who was not, and the users written to
are in any order. `MaxUsers` 5 is the two fixed entries and three more: two readable
users and the own key, which every list adds until it is erased, or what a sort
makes of them (an entry twice, one that left, the own one kept). Where it would be
outgrown the socket thread stops. `MaxRecipients` 2 lets a sort fall between the
two. `client_roster` tells states apart by `MCView`, which leaves out what no later
step and no property reads; its comment says why for each part.

`federation` has three scenarios, one chosen in the initial state: links both ways
that may fail and no chat; links both ways that do not, and a chat; two links one
way, one of which may fail, and a chat. Together in one behaviour they have too
many states, and no property needs more than one: a chat changes no roster.
`Active` is the one client that posts and leaves; the other one, on the other
server, joins and watches.

`server_start` has `MaxStarts` 3: a life that tears the file, one that reads it,
and one of another port. `MaxLines` 5 makes a whitelist with text before, inside,
between or after a key; two whole keys come from `Enroll`. A server is started
beside at most `MaxBeside` lines of it, since it reads that file in the host
thread of the *other* server only. `MaxSockets` 3 is a list and a command.

Clients are interchangeable, and so are sockets, so `host_roster` and `host_chat`
use them as symmetry sets; the runs with liveness use none. Deadlock is not
checked for the host and the federation: when all connections have closed, or the
endpoint has stopped, the system ends; nor for a client, an upload, or the last
life of a server, which end as well; nor for the client's list of users, whose
window stops at an index past the end and whose socket thread at `MaxUsers`.

Fairness. The `FairSpec` of `PeerLink` asks that a socket's thread takes its next
step (attempts end, a sleep of ten seconds ends, a handler goes on) and that the
other server handles a frame *while the link is served*: its loop has not ended and
frames arrive. At any time the link may become unserved and stay so, connection
open, and then nobody judges it; `JudgedEventually` has that as its alternative.
`Federation` asks that a running server
serves every event that is ready, a close included, that an `OnOpen` goes on once
it has begun, and that the accepting end learns, in the end, that the dialling
end is gone; `server.run()` is one loop that serves what is ready, and a TCP
connection whose peer is gone fails. `ClientSession` asks that the socket thread
goes on, that an attempt to connect ends, and that the window completes the end
it began; `Upload` that a read that can be completed is. Nothing is assumed of the
people at the clients or of the console, and no link is obliged to open:
`EventuallyOpens` has the condition that the other server stays reachable, and
`VanishesEverywhere` does not ask that a link stays, but that both ends learn of one
that is lost.

### Where the code and its text disagree

* `host_partial`: "Send message to all clients" (`ServerHost.cpp:247`). With a
  client in `closing` the loop throws at it; clients before it have the
  message, those after it do not, and the endpoint is down. `TranscriptsAgree`
  and `IsRoom` say what is left: while the endpoint runs all agree.
* `peer_link_refused`: the servers on the whitelist are those "allowed to
  connect" (`README.md:69`). `connected` is set before the hello is sent
  (`ServerSocket.cpp:14`), a chat or request of the host thread may get ahead of
  it, and the other server closes the link, which is not dialled again.
  `RefusedOnlyIfOvertaken` shows it is the only way.
* `client_selection`: "Add the new message to the selected user's message list"
  (`ChatApplication.cpp:618`). The selection is an index, and a `client_list`
  that removes an earlier entry moves it to another user or past the end. In the
  shortest run the click falls between the marking of the own key, which the frame
  has added, and its erasure; an earlier user who leaves does it without a race.
* `client_reconnect`: the counter is "reset everytime we begin a new connection"
  (`ClientSocket.h:56`) and the dialog offers a second attempt, but nothing
  joins the thread of the first, so `socketThread = std::thread(...)`
  (`ChatApplication.cpp:365`, `385`) terminates the client. In the run the address
  was rejected, that attempt is over, and Connect is pressed again. In the first
  frames after Connect the dialog still has its fields, and a second press does the
  same while the attempt is running.

Four more were met while modelling and have no run of their own:

* The whitelist has "the only servers that are allowed to connect" (`README.md:69`).
  Where the file cannot be opened `CheckServerSignature` returns -1, which is true
  (`ServerHost.cpp:139`), and every server is accepted. `WhitelistExact` and
  `OnlyWhitelistedContribute` are about a file that can be opened.
* The same line. The fingerprint of a block that holds no key is empty and is
  compared nevertheless (`ServerHost.cpp:156-165`); the signature of a server without
  a key is empty too, so it is accepted by such a whitelist, and by no other
  (the second half of `WhitelistExact`).
* The keys are separated by `-----START PUBLIC KEY-----` (`README.md:70`). The code
  looks for `-----BEGIN PUBLIC KEY-----` (`ServerHost.cpp:146`), as PEM has it. A
  whitelist as documented lets nobody in: its marker is one of the `Remarks`.
* "remove self from active users" (`ClientSocket.cpp:595`), and `uniqueServerList` is
  "where all the clients are from" (`ClientSocket.h:50`). A sort between
  `GetClientIndex(publicKey)` and `MarkClient` has another entry removed, and the
  client stays in its own list; one inside the loop over the servers moves an entry
  behind the index, and its server is left out. `RosterApplied` and `RecipientServed`
  have the condition that no sort fell into those loops, and say that the next
  list into which none falls puts everything right.

Three faults contradict no text, and have no violation run. A download before
anything was uploaded stops the server process: the missing directory throws
outside the `try` (`Https.h:155`). An upload whose boundary begins more than 24 bytes before the end of a read stops
the server process (`Https.h:126`); `DiesOnlyIfSplit` bounds it to those two.
And what is saved has at least one byte more than what was sent: the content
ends four bytes before the boundary, and three are taken off (`Https.h:88`);
`AnsweredWhole` says that nothing is missing.

What holds only in part is said by the condition of a property. `ListsAgree`: of
a server that has no link back, a link's list is empty until a client joins or
leaves there. `IntroducedFirst`: for a link that has delivered an update; of one
that has not, as one that nobody asked back over, it says nothing, and chats of
clients that were there before it opened may be dropped. `RosterApplied` and
`RecipientServed`: unless a sort fell into the loops that applied the list.
`RoundReachesPicked`: while no `client_list` is being applied, and for a pseudonym
that two users share it says that one of them gets the message, not which.
`RecognisedForEver`: for as long as the key file is there, while a server whose
address is typed keeps its keys under an empty ip, whatever the address
(`Server.cpp:20`).

## What is proved

Every invariant and action property that a passing run checks is a theorem of its
specification for all values of the constants, and so are both refinements. Each
module's theorems rest on the assumption its model declares and on nothing else;
those assumptions say that sets of names are disjoint, that
parameters have their types, and what the code fixes (the sizes of `Upload`, the
socket a link belongs to, the frames of `ClientRoster`). Each proof has an
inductive invariant (`Inductive`, `RosterInductive`, `ChatInductive`), with one
lemma per action or kind of effect.

`ServerHostProofs`: `TypeOK`, `RosterAligned`, `ExternalAligned`. The invariant
is their conjunction. Neither alignment is inductive without the types, since
the erase of a position only makes sense inside the sequences; `RosterAligned`
includes that the clients in the lists are exactly those that said hello and
whose close handler has not run, which gives `Hello` that it adds a client that
is not there yet, and `OnCloseClient` that the position it erases is the only
one; likewise for peers, where `foo` is increasing because each new number is
`count`, above all of them.

Its second part: `OwnKeyShown`, `RosterPushed`, `ToldIsCurrent`,
`OnlyWhitelistedContribute`. Added to the invariant are `ConnInv` (nothing is
handled of a connection before it was accepted), `Judged` (a peer that said
hello and is off the whitelist is being closed) and `Dialled` (a link is told
nothing before it opens). A step is seen by its effect: it pushes the roster to
all clients or leaves the roster alone, and the same for the sockets. That the
whole plan of a push was reached follows from `running`, the condition of both
properties.

Its third part: `CountsCurrent`, `EachTargetOnce`, `TranscriptsAgree` and `IsRoom`,
and `RelayedByOrigin`, which no run checks: a server relays the chats of its own
clients only (`OncePerLink` of `Federation` is what follows for the clients). First, flattening a sequence of sequences
without common elements gives a sequence without repetitions, by induction over
its length. Hence every plan is `Fair`: all local clients or none, sockets only
for a local sender, none twice. `SocketsOnce`, `Late` and `Counted` tie the
chats a host delivered to what their senders sent, and let each socket be
listed once. For `IsRoom`, `Hello` is an entrance, a client's connection that
leaves the open state a leave, a chat whose plan completes is a post, and one
that throws shuts the room.

`PeerLinkProofs`: `TypeOK`, `OneHello`, `RefusedOnlyIfOvertaken`, `DownOnlyIfLost`
and `ImplementsLink`, for any number of sockets. `Phase` ties a socket's flag,
connection, counter and wire to the place of its thread; `GateBehind` says that
a gate that waits has handled no hello. The refinement maps each step of the
thread to a step of `Link` or a stutter.

`FederationProofs`: `TypeOK`, `ListsAgree`, `OncePerLink`, `IntroducedFirst`,
for any topology the assumption allows. The argument follows a link from the
roster of the server that dials, over the frames on the wire, to the list the
other one keeps. At each place of the wire one list is in force: that of the last
`client_update` before it or else the list kept. At the end of the wire this is
the roster (`Forced`), and each chat is of a client on the list in force where it
stands (`Introduced`); taking a frame moves the front of the wire into what is
kept and changes no list in force. `Asked` is why an empty list does not stay
so where two links face each other: a hello, or the request it causes, is still
on its way. `Numbered` and `Heard` say that a chat is on a wire once, and not
again after it was heard by it.

`ServerProofs`: `TypeOK`, `WhitelistExact`, `RecognisedForEver`,
`UnkeyedOnlyIfTorn`. Loops over lines are recursive functions, and what they
compute is proved by induction over the lines (`RoundInduction`): of *every* text
of a whitelist the fingerprints read are those of the keys written in it, the empty
one among them exactly if some block holds no key; reading back a saved key file
gives its keys, and of an empty one none. Then a key file is whole or empty, and
empty only while it is saved or if a life left it so (`FilesWhole`); a life whose
keys are settled has those of its file, or none that a file has, or none at all
after it failed to generate a pair, with or without a file (`KeysOfFile`); and a key
once copied to a whitelist stays written there (`EnrolledWritten`).

`ClientRosterProofs`: `TypeOK`, `RosterApplied`, `RecipientServed`,
`RoundReachesPicked`, for any lists that satisfy the assumption and pseudonyms that
may be shared. `Roster` says for each loop of `ParseMessage` what it has done up to
the entry it is at: the entries before it are marked; of the users of the frame so
far each is there once with its server, and they alone are unmarked; after
`MarkOwn` exactly the own entry and those not in the frame are marked, and none
before `at`; `servers` has the servers of the entries before `at`, each once.
These hold unless a sort fell into the loop (`crossed`), and a new frame begins
with none. What survives even a sort is needed beside them: the two fixed
entries stay in front, an entry is of some frame and hence, since a key is of one
server, has the server the frame says, and `at` stays inside the list. That the own
key is in the frame and readable is why it is found when it is to be marked. Click,
pick and send leave the list alone, and a sort while none is applied is a
permutation behind the fixed entries, which keeps what an applied list says. `Round`
follows a new chat: at each recipient whoever was written to so far has the
pseudonym picked, sorted or not.

`Loops`: a recursive function exists and keeps the type of its body (`LoopExists`,
`LoopStays`), what it computes is shown by induction over the rounds
(`RoundInduction`), and what appending, removing and flattening do to the elements
of a sequence. The proofs of `ServerHost`, `Server` and `ClientRoster` rest on it.

`ClientSessionProofs`: `TypeOK`, `WireValid`. Two threads write to one
connection: `Greeting` says how many frames of the greeting are out at each
place of the socket thread, and that a window about to send is past both;
`Numbering` gives the counter of the next frame.

`UploadProofs`: `TypeOK`, `PiecesInOrder`, `AnsweredWhole`, `DiesOnlyIfSplit`,
for any lengths. `Reading` ties a session's position in its own body to the end of its
last piece in a file that others write to and empty, `Begins` says that only the
first piece of a file is the beginning of an upload, and `Ordered` that a piece
begins where the one before it of the same upload ends.

Model-checked only:

* Liveness: `VanishesEverywhere`, `EventuallyOpens`, `JudgedEventually`,
  `AttemptSettles`, `QuitFinishes`, `UploadEnds`. The prover has no
  reasoning about fairness and `ENABLED`.
* The violation runs, which are examples and not facts about all instances.

The library's induction theorems take an operator and cannot be instantiated
here. The proofs get induction over the natural numbers from the well-foundedness of
their order (`SetInduction`, `RoundInduction`), where the property is membership
in a set.

## Not modelled

* A key file that exists and cannot be opened for reading; one that cannot be
  created is (`KeepKeysInMemory`, `FailToGenerate`).
* An upload file that cannot be opened, and the handshake (`Https.h`).
* A typed port that is no number (`Server.cpp:25`): the console is then read in
  a loop that never waits.
* Received private chats, their decryption, `SelectFile` and the client's side
  of an upload: they touch no state the other thread or the server decides by.
* Private chats between two whole servers: `ServerHost` has what one server does
  with them, `ClientRoster` where they are addressed.
* The data race inside a `std::list` or `std::vector` that two threads use, and
  the depth of the nested `client.run()` of a link that keeps failing.
* `RemoveSocketAt`, `Stop`, `parse_file_upload`, `do_write`: nothing calls them.
* Encryption other than fingerprints, drawing, vendored libraries. The vendored
  code is by far the larger part of the repository's lines.

## Plan

Modelled: `ServerHost` over `Link`, `Room`; `PeerLink`; `ClientRoster` with the
New Chat page; `ClientSession`; `Upload` with the download; `Federation`;
`Server`. Proved: all of their safety, and both refinements. What could follow:

1. `ServerHost` as one server of `Federation`: a refinement that gives each
   server's handlers the roles of the larger model, with whitelists and private
   chats between whole servers.
2. Liveness stays with TLC until the prover reasons about fairness.
