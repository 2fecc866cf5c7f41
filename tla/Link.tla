-------------------------------- MODULE Link --------------------------------
(***************************************************************************)
(* The outgoing links of one server, as its host thread sees them.         *)
(*                                                                         *)
(* Server::ConnectToServer (main thread) appends a ServerSocket to the     *)
(* list it shares with the ServerHost and starts a thread for it.  The     *)
(* thread opens the link, may lose it and at last clears "connected".  The *)
(* host only asks IsConnected() and GetConnectionAddress() and calls       *)
(* SendJson(), so one state per socket is all it can tell apart:           *)
(*   idle    connected is false, the link has not opened yet;              *)
(*   open    connected is true and a send succeeds;                        *)
(*   broken  connected is still true, but the connection has left the open *)
(*           state and the close handler has not run: a send throws;       *)
(*   closed  the close handler cleared connected.  Nothing redials.        *)
(* ServerSocket.tla is the thread in detail, and implements this module.   *)
(***************************************************************************)
EXTENDS Sequences, SequencesExt

CONSTANTS
    Sockets,        \* the ServerSocket objects the main thread may create
    DstOf           \* [Sockets -> addresses]: the address each one dials

VARIABLES
    socketList,     \* the list shared by Server and ServerHost, in order
    link            \* [Sockets -> LinkStates]

linkVars == <<socketList, link>>

LinkStates == {"idle", "open", "broken", "closed"}

LinkTypeOK ==
    /\ socketList \in Seq(Sockets)
    /\ link \in [Sockets -> LinkStates]

LinkInit ==
    /\ socketList = <<>>
    /\ link = [s \in Sockets |-> "idle"]

(* ServerSocket::IsConnected.                                              *)
IsConnected(s) == link[s] \in {"open", "broken"}

(* SendJson only reports a connection that is not open, and then calls     *)
(* send, which throws.                                                     *)
SendThrows(s) == link[s] = "broken"

GetConnectionAddress(s) == DstOf[s]

-----------------------------------------------------------------------------
(* Server::ConnectToServer, for a line of Server List.txt or a connect     *)
(* command.                                                                *)
AddSocket(s) ==
    /\ s \notin ToSet(socketList)
    /\ socketList' = Append(socketList, s)
    /\ UNCHANGED link

(* OnOpen runs on the socket's thread; its first assignment is what the    *)
(* host sees.                                                              *)
OpenLink(s) ==
    /\ s \in ToSet(socketList)
    /\ link[s] = "idle"
    /\ link' = [link EXCEPT ![s] = "open"]
    /\ UNCHANGED socketList

(* The remote end closes, or the transport fails.                          *)
BreakLink(s) ==
    /\ link[s] = "open"
    /\ link' = [link EXCEPT ![s] = "broken"]
    /\ UNCHANGED socketList

(* OnClose.                                                                *)
DropLink(s) ==
    /\ link[s] = "broken"
    /\ link' = [link EXCEPT ![s] = "closed"]
    /\ UNCHANGED socketList

LinkStep(s) == AddSocket(s) \/ OpenLink(s) \/ BreakLink(s) \/ DropLink(s)

LinkNext == \E s \in Sockets : LinkStep(s)

LinkSpec == LinkInit /\ [][LinkNext]_linkVars
=============================================================================
