---------------------------- MODULE ClientSession ----------------------------
(***************************************************************************)
(* The session of a chat client: the connect dialog, the socket thread it  *)
(* starts, and what the window sends.                                      *)
(*                                                                         *)
(* Two threads share connectedState without a lock.  The window reads it   *)
(* to decide what a frame shows, and acts on what was shown a moment       *)
(* later; ClientSocket::Start and its handlers run on the socket thread.   *)
(* Nothing joins the thread of an attempt that is over.                    *)
(*                                                                         *)
(* Three things end the process at once ("terminated"): assigning to a     *)
(* joinable std::thread, destroying one, and an exception that leaves the  *)
(* window's main loop.                                                     *)
(***************************************************************************)
EXTENDS Naturals, Sequences

CONSTANT MaxChats   \* bound on the messages typed

ASSUME SessionAssumption == MaxChats \in Nat

VARIABLES
    state,      \* connectedState
    ui,         \* what the window is about to do
    fate,       \* of the process
    thread,     \* where socketThread is
    session,    \* state of the websocket connection
    counter,    \* the counter of the next signed message
    typed,      \* messages typed
    wire        \* frames sent: [type, counter]

windowVars == <<ui, fate, typed>>
socketVars == <<state, thread, session>>
sendVars == <<counter, wire>>
vars == <<windowVars, socketVars, sendVars>>

Threads == {"none", "start", "dial", "run", "hello", "request", "announce", "done"}

Init ==
    /\ state = "disconnected"
    /\ ui = "frame"
    /\ fate = "up"
    /\ thread = "none"
    /\ session = "none"
    /\ counter = 0
    /\ typed = 0
    /\ wire = <<>>

Alive == fate \in {"up", "joining"}

Frame(type, n) == [type |-> type, counter |-> n]

-----------------------------------------------------------------------------
(* The socket thread: ClientSocket::Start and the handlers.                *)
ThreadAt(from, to) ==
    /\ Alive
    /\ thread = from
    /\ thread' = to
    /\ UNCHANGED windowVars

Start ==
    /\ ThreadAt("start", "dial")
    /\ state' = "in_progress"
    /\ UNCHANGED <<session, sendVars>>

Dial ==
    /\ ThreadAt("dial", "run")
    /\ session' = "connecting"
    /\ UNCHANGED <<state, sendVars>>

(* get_connection rejects the address, and Start returns.                  *)
Reject ==
    /\ ThreadAt("dial", "done")
    /\ state' = "disconnected"
    /\ UNCHANGED <<session, sendVars>>

(* Faulty: the window is left waiting.                                     *)
OnFailSilent ==
    /\ session = "connecting"
    /\ ThreadAt("run", "done")
    /\ session' = "closed"
    /\ UNCHANGED <<state, sendVars>>

(* With the connection gone run() has no more work, and the thread ends.   *)
OnFail ==
    /\ session = "connecting"
    /\ ThreadAt("run", "done")
    /\ session' = "closed"
    /\ state' = "disconnected"
    /\ UNCHANGED sendVars

(* Faulty: the window may send from here on.                               *)
OnOpenAnnouncing ==
    /\ session = "connecting"
    /\ ThreadAt("run", "hello")
    /\ session' = "open"
    /\ state' = "connected"
    /\ counter' = 0
    /\ UNCHANGED wire

OnOpen ==
    /\ session = "connecting"
    /\ ThreadAt("run", "hello")
    /\ session' = "open"
    /\ counter' = 0
    /\ UNCHANGED <<state, wire>>

(* The key pair or its fingerprint cannot be made: OnOpen returns, and the *)
(* connection stays open and unused.                                       *)
NoKeys ==
    /\ ThreadAt("hello", "run")
    /\ UNCHANGED <<state, session, sendVars>>

SayHello ==
    /\ ThreadAt("hello", "request")
    /\ wire' = Append(wire, Frame("hello", counter))
    /\ counter' = counter + 1
    /\ UNCHANGED <<state, session>>

(* Faulty: the request takes a number, as the signed frames do.            *)
RequestListCounted ==
    /\ ThreadAt("request", "announce")
    /\ wire' = Append(wire, Frame("client_list_request", counter))
    /\ counter' = counter + 1
    /\ UNCHANGED <<state, session>>

RequestList ==
    /\ ThreadAt("request", "announce")
    /\ wire' = Append(wire, Frame("client_list_request", 0))
    /\ UNCHANGED <<state, session, counter>>

Announce ==
    /\ ThreadAt("announce", "run")
    /\ state' = "connected"
    /\ UNCHANGED <<session, sendVars>>

(* The server closes, or the transport fails.                              *)
Lose ==
    /\ session = "open"
    /\ ThreadAt("run", "run")
    /\ session' = "closing"
    /\ UNCHANGED <<state, sendVars>>

(* Faulty: run() is kept going.                                            *)
OnCloseRunning ==
    /\ session = "closing"
    /\ ThreadAt("run", "run")
    /\ session' = "closed"
    /\ state' = "disconnected"
    /\ UNCHANGED sendVars

OnClose ==
    /\ session = "closing"
    /\ ThreadAt("run", "done")
    /\ session' = "closed"
    /\ state' = "disconnected"
    /\ UNCHANGED sendVars

(* An exception of a handler, as of ParseMessage for a frame it cannot     *)
(* read, leaves run() and is caught in Start: the thread ends, the window  *)
(* is not told.  A server writes to those who said hello.                  *)
HandlerFails ==
    /\ state = "connected"
    /\ session = "open"
    /\ ThreadAt("run", "done")
    /\ UNCHANGED <<state, session, sendVars>>

-----------------------------------------------------------------------------
(* The window thread.                                                      *)
UiAt(from, to) ==
    /\ fate = "up"
    /\ ui = from
    /\ ui' = to

(* The dialog with its fields is drawn.                                    *)
ShowForm ==
    /\ state = "disconnected"
    /\ UiAt("frame", "form")
    /\ UNCHANGED <<fate, typed, socketVars, sendVars>>

HideForm ==
    /\ UiAt("form", "frame")
    /\ UNCHANGED <<fate, typed, socketVars, sendVars>>

(* Connect is pressed: socketThread = std::thread(...).                    *)
Connect ==
    /\ UiAt("form", "frame")
    /\ IF thread = "none"
       THEN thread' = "start" /\ UNCHANGED fate
       ELSE fate' = "terminated" /\ UNCHANGED thread
    /\ UNCHANGED <<typed, state, session, sendVars>>

(* Without the dialog the input field takes a message.                     *)
Type ==
    /\ state = "connected"
    /\ typed < MaxChats
    /\ UiAt("frame", "send")
    /\ typed' = typed + 1
    /\ UNCHANGED <<fate, socketVars, sendVars>>

(* The message cannot be encrypted: SendChatMessage returns before it      *)
(* takes a number.  A signature that fails is empty, and sent.             *)
DropMessage ==
    /\ UiAt("send", "frame")
    /\ UNCHANGED <<fate, typed, socketVars, sendVars>>

(* SendChatMessage: counter++, and a send that throws when the connection  *)
(* has left the open state.  Without a loop to write it a frame stays in   *)
(* the queue.                                                              *)
SendChatMessage ==
    /\ UiAt("send", "frame")
    /\ counter' = counter + 1
    /\ fate' = IF session = "open" THEN fate ELSE "terminated"
    /\ wire' = IF session = "open" /\ thread = "run"
               THEN Append(wire, Frame("chat", counter)) ELSE wire
    /\ UNCHANGED <<typed, socketVars>>

(* The window is closed.  Unless it is connected, End does nothing and     *)
(* socketThread is destroyed.                                              *)
Quit ==
    /\ UiAt("frame", "end")
    /\ IF state = "connected" THEN UNCHANGED fate
       ELSE fate' = IF thread = "none" THEN "ended" ELSE "terminated"
    /\ UNCHANGED <<typed, socketVars, sendVars>>

(* ClientSocket::End throws like a send does; then End joins.              *)
End ==
    /\ UiAt("end", "end")
    /\ IF session = "open"
       THEN fate' = "joining" /\ session' = "closing"
       ELSE fate' = "terminated" /\ UNCHANGED session
    /\ UNCHANGED <<typed, state, thread, sendVars>>

Join ==
    /\ fate = "joining"
    /\ thread = "done"
    /\ fate' = "ended"
    /\ UNCHANGED <<ui, typed, socketVars, sendVars>>

-----------------------------------------------------------------------------
Thread ==
    \/ Start \/ Dial \/ Reject \/ OnFail
    \/ OnOpen \/ NoKeys \/ SayHello \/ RequestList \/ Announce
    \/ OnClose

Window ==
    \/ ShowForm \/ HideForm \/ Connect
    \/ Type \/ DropMessage \/ SendChatMessage
    \/ Quit \/ End \/ Join

Next == Thread \/ Lose \/ HandlerFails \/ Window

Spec == Init /\ [][Next]_vars

(* The socket thread is scheduled, and an attempt to connect ends.  Of the *)
(* window only that it goes on with what it began to end.                  *)
FairSpec == Spec /\ WF_vars(Thread) /\ WF_vars(End) /\ WF_vars(Join)

-----------------------------------------------------------------------------
TypeOK ==
    /\ state \in {"disconnected", "in_progress", "connected"}
    /\ ui \in {"frame", "form", "send", "end"}
    /\ fate \in {"up", "joining", "ended", "terminated"}
    /\ thread \in Threads
    /\ session \in {"none", "connecting", "open", "closing", "closed"}
    /\ counter \in 0 .. MaxChats + 1
    /\ typed \in 0 .. MaxChats
    /\ wire \in Seq([type : {"hello", "client_list_request", "chat"}, counter : Nat])

(* However typing, losing the connection and the steps of OnOpen fall, the *)
(* frames on the wire are what the server takes: the hello, the request,   *)
(* then chats numbered 1, 2, ... (ServerHost!ValidCount).                  *)
WireValid ==
    \A i \in DOMAIN wire :
        wire[i] = CASE i = 1 -> Frame("hello", 0)
                    [] i = 2 -> Frame("client_list_request", 0)
                    [] OTHER -> Frame("chat", i - 2)

Keyless == thread = "run" /\ session = "open" /\ wire = <<>>

(* The dialog does not say "Connecting to" for good: the attempt succeeds  *)
(* or the fields come back, unless no key could be made or the process is  *)
(* over.                                                                   *)
AttemptSettles ==
    state = "in_progress" ~> state # "in_progress" \/ Keyless \/ ~Alive

(* Closing the window of a connected client ends: the thread End joins     *)
(* comes to its end.                                                       *)
QuitFinishes == ui = "end" ~> ~Alive

(* ClientSocket.h:56, "should be reset everytime we begin a new            *)
(* connection": once the thread of an attempt is over, a client can begin  *)
(* another.                                                                *)
CanBeginAgain == [][Connect /\ thread = "done" => fate' = "up"]_vars
=============================================================================
