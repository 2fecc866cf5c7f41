---------------------------- MODULE ServerSocket ----------------------------
(***************************************************************************)
(* ServerSocket: the outgoing side of a link between two servers.          *)
(*                                                                         *)
(* Server::ConnectToServer starts one thread per socket.  It dials; a      *)
(* failed attempt sleeps ten seconds and dials again from within the       *)
(* handler; an attempt that opens says hello and asks for the other        *)
(* server's clients; a link that closes is never dialled again.  The       *)
(* state of a connection changes on its own thread only, so it cannot      *)
(* leave the open state while OnOpen is executing.                         *)
(***************************************************************************)
EXTENDS Sequences, SequencesExt, Naturals

CONSTANTS Sockets, DstOf

VARIABLES
    socketList,     \* the list shared with the host, in order
    pc,             \* [Sockets -> where the thread is]
    connected,      \* [Sockets -> BOOLEAN]: the flag IsConnected returns
    session,        \* [Sockets -> state of the websocket connection]
    counter,        \* [Sockets -> the counter of the next hello]
    wire,           \* [Sockets -> every frame sent on the open connection]
    reachable       \* [Sockets -> BOOLEAN]: the other server is listening

threadVars == <<pc, connected, session, counter>>
socketVars == <<socketList, threadVars, wire, reachable>>

PCs == {"none", "dial", "run", "sleep", "hello", "request", "over"}
Sessions == {"none", "connecting", "open", "closing", "closed"}
HostFrames == {"client_update_request", "client_update", "chat"}
Frames == HostFrames \cup {"server_hello"}

SocketInit ==
    /\ socketList = <<>>
    /\ pc = [s \in Sockets |-> "none"]
    /\ connected = [s \in Sockets |-> FALSE]
    /\ session = [s \in Sockets |-> "none"]
    /\ counter = [s \in Sockets |-> 0]
    /\ wire = [s \in Sockets |-> <<>>]
    /\ reachable \in [Sockets -> BOOLEAN]

-----------------------------------------------------------------------------
At(s, from, to) ==
    /\ pc[s] = from
    /\ pc' = [pc EXCEPT ![s] = to]

IsNow(s, state) == session' = [session EXCEPT ![s] = state]

SendJson(s, frame) == wire' = [wire EXCEPT ![s] = Append(@, frame)]

(* Server::ConnectToServer, on the main thread.                            *)
Add(s) ==
    /\ At(s, "none", "dial")
    /\ socketList' = Append(socketList, s)
    /\ UNCHANGED <<connected, session, counter, wire, reachable>>

(* ServerSocket::ConnectToServer up to run(): a fresh connection.          *)
Dial(s) ==
    /\ At(s, "dial", "run")
    /\ IsNow(s, "connecting")
    /\ UNCHANGED <<socketList, connected, counter, wire, reachable>>

(* Faulty: a failed attempt uses up a counter.                             *)
FailCounting(s) ==
    /\ session[s] = "connecting"
    /\ ~reachable[s]
    /\ At(s, "run", "sleep")
    /\ IsNow(s, "closed")
    /\ counter' = [counter EXCEPT ![s] = @ + 1]
    /\ UNCHANGED <<socketList, connected, wire, reachable>>

(* OnFail is called, and sleeps.                                           *)
Fail(s) ==
    /\ session[s] = "connecting"
    /\ ~reachable[s]
    /\ At(s, "run", "sleep")
    /\ IsNow(s, "closed")
    /\ UNCHANGED <<socketList, connected, counter, wire, reachable>>

(* Faulty: sleeps on.                                                      *)
RetryNever(s) ==
    /\ At(s, "sleep", "sleep")
    /\ UNCHANGED <<socketList, connected, session, counter, wire, reachable>>

(* The sleep is over: OnFail calls ConnectToServer.                        *)
Retry(s) ==
    /\ At(s, "sleep", "dial")
    /\ UNCHANGED <<socketList, connected, session, counter, wire, reachable>>

(* OnOpen, in three steps: connected is set before anything is sent.       *)
OnOpen(s) ==
    /\ session[s] = "connecting"
    /\ reachable[s]
    /\ At(s, "run", "hello")
    /\ IsNow(s, "open")
    /\ connected' = [connected EXCEPT ![s] = TRUE]
    /\ UNCHANGED <<socketList, counter, wire, reachable>>

SayHello(s) ==
    /\ At(s, "hello", "request")
    /\ counter' = [counter EXCEPT ![s] = @ + 1]
    /\ SendJson(s, "server_hello")
    /\ UNCHANGED <<socketList, connected, session, reachable>>

RequestUpdate(s) ==
    /\ At(s, "request", "run")
    /\ SendJson(s, "client_update_request")
    /\ UNCHANGED <<socketList, connected, session, counter, reachable>>

(* The other end closes, or the transport fails.                           *)
Lose(s) ==
    /\ pc[s] = "run"
    /\ session[s] = "open"
    /\ IsNow(s, "closing")
    /\ UNCHANGED <<socketList, pc, connected, counter, wire, reachable>>

(* Faulty: dials again, saying hello on one more connection.               *)
OnCloseRedial(s) ==
    /\ session[s] = "closing"
    /\ At(s, "run", "dial")
    /\ IsNow(s, "closed")
    /\ connected' = [connected EXCEPT ![s] = FALSE]
    /\ UNCHANGED <<socketList, counter, wire, reachable>>

(* OnClose clears the flag; the thread dials no more.                      *)
OnClose(s) ==
    /\ session[s] = "closing"
    /\ At(s, "run", "over")
    /\ IsNow(s, "closed")
    /\ connected' = [connected EXCEPT ![s] = FALSE]
    /\ UNCHANGED <<socketList, counter, wire, reachable>>

(* The other server starts or stops listening.                             *)
Reachability(s) ==
    /\ reachable' = [reachable EXCEPT ![s] = ~@]
    /\ UNCHANGED <<socketList, threadVars, wire>>

Thread(s) ==
    \/ Dial(s) \/ Fail(s) \/ Retry(s)
    \/ OnOpen(s) \/ SayHello(s) \/ RequestUpdate(s)
    \/ OnClose(s)

SocketStep(s) == Add(s) \/ Thread(s) \/ Lose(s) \/ Reachability(s)

SocketNext == \E s \in Sockets : SocketStep(s)

SocketSpec == SocketInit /\ [][SocketNext]_socketVars

-----------------------------------------------------------------------------
SocketTypeOK ==
    /\ socketList \in Seq(Sockets)
    /\ pc \in [Sockets -> PCs]
    /\ connected \in [Sockets -> BOOLEAN]
    /\ session \in [Sockets -> Sessions]
    /\ counter \in [Sockets -> Nat]
    /\ wire \in [Sockets -> Seq(Frames)]
    /\ reachable \in [Sockets -> BOOLEAN]

(* The thread implements the link the host sees (Link.tla).                *)
LinkOf(s) ==
    IF pc[s] = "over" THEN "closed"
    ELSE IF ~connected[s] THEN "idle"
    ELSE IF session[s] = "open" THEN "open" ELSE "broken"

Link == INSTANCE Link WITH link <- [s \in Sockets |-> LinkOf(s)]

(* Dialling, failing and sleeping are invisible to the host, the flag goes *)
(* up once and down once, and a send fails only in between.                *)
ImplementsLink == Link!LinkSpec

(* README.md:65, "The server will attempt to connect every 10 seconds if a *)
(* connection is not established immediately": once the other server stays *)
(* reachable, a hello goes out, however many attempts failed before.       *)
EventuallyOpens ==
    \A s \in Sockets :
        <>[](reachable[s])
            => (s \in ToSet(socketList) ~> counter[s] > 0)

(* Over all attempts of a socket there is one hello, numbered 0, and the   *)
(* thread's request comes after it: failed attempts use up no counter and  *)
(* leave no frame behind.                                                  *)
OneHello ==
    \A s \in Sockets :
        LET hellos == {i \in DOMAIN wire[s] : wire[s][i] = "server_hello"}
        IN  /\ hellos = {} <=> counter[s] = 0
            /\ \A i, j \in hellos : i = j
            /\ hellos = {} => pc[s] \notin {"request", "over"}
            /\ ~connected[s] /\ pc[s] # "over" => wire[s] = <<>>
=============================================================================
