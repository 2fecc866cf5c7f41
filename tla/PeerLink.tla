------------------------------ MODULE PeerLink ------------------------------
(***************************************************************************)
(* A link in full: the socket's thread, the host thread that writes to the *)
(* same socket, and the gate the other server puts before it.              *)
(*                                                                         *)
(* The host asks IsConnected() and then calls SendJson(), two steps.  The  *)
(* gate is ServerHost::OnMessage of the other server, on the connection    *)
(* this socket opened there: until the server_hello is handled a           *)
(* client_update_request and a chat close the connection (CheckIfHdlMatches*)
(* and ValidCount fail), and a client_update has no entry to change.  The  *)
(* key of this server is on the other one's whitelist.                     *)
(*                                                                         *)
(* A send that throws ends the loop of the server it throws in, and leaves *)
(* its connections open: hostDown for this server, a link that is unserved *)
(* for the other one.                                                      *)
(***************************************************************************)
EXTENDS ServerSocket

CONSTANT MaxFrames  \* bound on the frames the host sends on each socket

ASSUME PeerLinkAssumption == MaxFrames \in Nat

VARIABLES
    writing,        \* <<s, frame>> between IsConnected and SendJson, else <<>>
    hostDown,       \* a send threw: the host thread has left its loop
    frames,         \* [Sockets -> 0 .. MaxFrames]: frames of the host
    taken,          \* [Sockets -> Nat]: frames of the wire handled by the gate
    gate            \* [Sockets -> Gates]

hostVars == <<writing, hostDown, frames>>
gateVars == <<taken, gate>>
vars == <<socketVars, hostVars, gateVars>>

Gates == {"waiting", "registered", "refused", "unserved", "gone"}

Init ==
    /\ SocketInit
    /\ writing = <<>>
    /\ hostDown = FALSE
    /\ frames = [s \in Sockets |-> 0]
    /\ taken = [s \in Sockets |-> 0]
    /\ gate = [s \in Sockets |-> "waiting"]

Served(s) == gate[s] \in {"waiting", "registered"}

-----------------------------------------------------------------------------
(* Faulty: the host does not ask whether the socket is connected.          *)
CheckUnasked(s, frame) ==
    /\ ~hostDown
    /\ writing = <<>>
    /\ s \in ToSet(socketList)
    /\ frames[s] < MaxFrames
    /\ writing' = <<s, frame>>
    /\ frames' = [frames EXCEPT ![s] = @ + 1]
    /\ UNCHANGED <<socketVars, hostDown, gateVars>>

(* A handler of the host has something for every connected socket.         *)
Check(s, frame) ==
    /\ ~hostDown
    /\ writing = <<>>
    /\ s \in ToSet(socketList)
    /\ connected[s]
    /\ frames[s] < MaxFrames
    /\ writing' = <<s, frame>>
    /\ frames' = [frames EXCEPT ![s] = @ + 1]
    /\ UNCHANGED <<socketVars, hostDown, gateVars>>

Write(s, frame) ==
    /\ writing = <<s, frame>>
    /\ writing' = <<>>
    /\ IF session[s] = "open"
       THEN SendJson(s, frame) /\ UNCHANGED hostDown
       ELSE hostDown' = TRUE /\ UNCHANGED wire
    /\ UNCHANGED <<socketList, threadVars, reachable, frames, gateVars>>

(* Faulty: a client_update takes the connection out of the gate's states.  *)
VerdictUpdated(s, frame) ==
    IF frame = "server_hello" THEN "registered"
    ELSE IF frame = "client_update" THEN "updated"
    ELSE IF gate[s] = "waiting" THEN "refused"
    ELSE gate[s]

(* Faulty: a client_update before the hello is refused too.                *)
VerdictStrict(s, frame) ==
    IF frame = "server_hello" THEN "registered"
    ELSE IF gate[s] = "waiting" THEN "refused"
    ELSE gate[s]

(* Faulty: the hello is not handled.                                       *)
VerdictSilent(s, frame) == gate[s]

(* The other server's handler, for the next frame of the connection.       *)
Verdict(s, frame) ==
    IF frame = "server_hello" THEN "registered"
    ELSE IF gate[s] = "waiting" /\ frame # "client_update" THEN "refused"
    ELSE gate[s]

Take(s) ==
    /\ Served(s)
    /\ taken[s] < Len(wire[s])
    /\ taken' = [taken EXCEPT ![s] = @ + 1]
    /\ gate' = [gate EXCEPT ![s] = Verdict(s, wire[s][taken[s] + 1])]
    /\ UNCHANGED <<socketVars, hostVars>>

(* An exception takes the other server out of run(), with its connections  *)
(* still open, or frames stop getting through: none is handled any more.   *)
Unserved(s) ==
    /\ session[s] \notin {"none", "connecting"}
    /\ Served(s)
    /\ gate' = [gate EXCEPT ![s] = "unserved"]
    /\ UNCHANGED <<socketVars, hostVars, taken>>

(* The other end loses the connection with frames still on their way.      *)
Gone(s) ==
    /\ session[s] \notin {"none", "connecting"}
    /\ Served(s) \/ gate[s] = "unserved"
    /\ gate' = [gate EXCEPT ![s] = "gone"]
    /\ UNCHANGED <<socketVars, hostVars, taken>>

Next ==
    \E s \in Sockets :
        \/ SocketStep(s) /\ UNCHANGED <<hostVars, gateVars>>
        \/ \E frame \in HostFrames : Check(s, frame) \/ Write(s, frame)
        \/ Take(s)
        \/ Unserved(s)
        \/ Gone(s)

Spec == Init /\ [][Next]_vars

(* Each thread of this server is scheduled: an attempt ends, a sleep ends, *)
(* a handler goes on.  The other server handles what was sent as long as   *)
(* the link is served; nothing says that it stays so, or that it is lost.  *)
FairSpec ==
    /\ Spec
    /\ \A s \in Sockets :
        /\ WF_vars(Thread(s) /\ UNCHANGED <<hostVars, gateVars>>)
        /\ WF_vars(Take(s))

-----------------------------------------------------------------------------
TypeOK ==
    /\ SocketTypeOK
    /\ writing \in {<<>>} \cup (Sockets \X HostFrames)
    /\ hostDown \in BOOLEAN
    /\ frames \in [Sockets -> 0 .. MaxFrames]
    /\ taken \in [Sockets -> Nat]
    /\ gate \in [Sockets -> Gates]

Overtaken(s) ==
    \E i \in DOMAIN wire[s] :
        /\ wire[s][i] \in HostFrames \ {"client_update"}
        /\ \A j \in 1 .. i : wire[s][j] # "server_hello"

(* The gate refuses a whitelisted server for one reason only: a request or *)
(* a chat of the host thread got onto the wire between "connected = true"  *)
(* and the hello of OnOpen.                                                *)
RefusedOnlyIfOvertaken == \A s \in Sockets : gate[s] = "refused" => Overtaken(s)

(* README.md:69: a server whose key is on the whitelist is allowed to      *)
(* connect, so the other server does not close its link.                   *)
WhitelistedNotRefused == \A s \in Sockets : gate[s] # "refused"

CutOff(s) == gate[s] \in {"unserved", "gone"}

(* A link that opens is registered or refused unless it is cut off, by a   *)
(* connection that is lost or by a loop that ended on the other side.      *)
JudgedEventually ==
    \A s \in Sockets :
        connected[s] ~> gate[s] \in {"registered", "refused"} \/ CutOff(s)

(* SendClientUpdate and SendChatMessage ask IsConnected() of every socket  *)
(* and then call SendJson(): a send takes the host thread out of its loop  *)
(* only when a link it had found up was lost, in that gap or before its    *)
(* close handler ran, and never for one that has not opened yet.           *)
DownOnlyIfLost ==
    hostDown =>
        \E s \in Sockets : frames[s] > 0 /\ LinkOf(s) \in {"broken", "closed"}
=============================================================================
