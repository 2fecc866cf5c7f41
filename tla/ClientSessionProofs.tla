-------------------------- MODULE ClientSessionProofs --------------------------
(***************************************************************************)
(* Theorems about ClientSession, for any number of messages typed.         *)
(*                                                                         *)
(* Two threads write to the same connection without a lock.  What keeps    *)
(* their frames apart is that the window types only once it has seen       *)
(* "connected", and that the socket thread sends nothing after it said so. *)
(* Greeting states it: where the socket thread is says how many frames of  *)
(* the greeting are out, and a window that sends is past both.             *)
(***************************************************************************)
EXTENDS ClientSession, SequenceTheorems, TLAPS

(* Where the socket thread is with the two frames of the greeting.         *)
Greeting ==
    /\ thread \in {"none", "start", "dial", "hello"} => Len(wire) = 0
    /\ session = "connecting" => thread = "run" /\ Len(wire) = 0
    /\ thread = "request" <=> Len(wire) = 1
    /\ thread = "announce" => Len(wire) = 2
    /\ state = "connected" \/ typed > 0 \/ (Alive /\ ui \in {"send", "end"}) =>
            thread \in {"run", "done"} /\ Len(wire) >= 2

(* The number of the next frame follows from the frames sent; a send that  *)
(* threw, or one after the loop has ended, took a number with no frame,    *)
(* and nothing follows it.                                                 *)
Numbering ==
    /\ Len(wire) = 0 => counter = 0
    /\ Len(wire) = 1 => counter = 1
    /\ Len(wire) >= 2 /\ Alive /\ thread # "done" => Len(wire) = counter + 1
    /\ counter <= typed + 1
    /\ ui = "send" /\ Alive => counter <= typed

IInv ==
    /\ TypeOK
    /\ WireValid
    /\ Greeting
    /\ Numbering

-----------------------------------------------------------------------------
Frames == [type : {"hello", "client_list_request", "chat"}, counter : Nat]

LEMMA AppendFacts ==
    ASSUME NEW seq \in Seq(Frames), NEW e \in Frames
    PROVE  /\ Append(seq, e) \in Seq(Frames)
           /\ Len(seq) \in Nat
           /\ DOMAIN seq = 1 .. Len(seq)
           /\ Len(Append(seq, e)) = Len(seq) + 1
           /\ DOMAIN Append(seq, e) = 1 .. Len(seq) + 1
           /\ \A i \in 1 .. Len(seq) : Append(seq, e)[i] = seq[i]
           /\ Append(seq, e)[Len(seq) + 1] = e
BY AppendProperties, LenProperties

(* What the server expects as the n-th frame.                              *)
Expected(n) ==
    CASE n = 1 -> Frame("hello", 0)
      [] n = 2 -> Frame("client_list_request", 0)
      [] OTHER -> Frame("chat", n - 2)

LEMMA ExpectedIs ==
    /\ Expected(1) = Frame("hello", 0)
    /\ Expected(2) = Frame("client_list_request", 0)
    /\ \A n \in Nat : n > 2 => Expected(n) = Frame("chat", n - 2)
BY DEF Expected

(* A frame that is the expected one keeps the wire valid.                  *)
LEMMA Sends ==
    ASSUME TypeOK, WireValid, NEW e \in Frames,
           e = Expected(Len(wire) + 1), wire' = Append(wire, e)
    PROVE  WireValid' /\ Len(wire') = Len(wire) + 1 /\ wire' \in Seq(Frames)
<1> DEFINE n == Len(wire)
<1>1. wire \in Seq(Frames) /\ (WireValid <=> \A i \in DOMAIN wire : wire[i] = Expected(i))
  BY DEF TypeOK, Frames, WireValid, Expected
<1>2. WireValid' <=> \A i \in DOMAIN wire' : wire'[i] = Expected(i)
  BY DEF WireValid, Expected, Frame
<1>3. /\ wire' \in Seq(Frames) /\ n \in Nat /\ DOMAIN wire = 1 .. n
      /\ Len(wire') = n + 1 /\ DOMAIN wire' = 1 .. n + 1
      /\ \A i \in 1 .. n : wire'[i] = wire[i]
      /\ wire'[n + 1] = e
  BY <1>1, AppendFacts
<1>4. \A i : i \in 1 .. n + 1 <=> i \in 1 .. n \/ i = n + 1
  BY <1>3
<1> HIDE DEF n
<1>5. e = Expected(n + 1)
  BY DEF n
<1>6. \A i \in 1 .. n + 1 : wire'[i] = Expected(i)
  BY <1>1, <1>3, <1>4, <1>5
<1>7. QED BY <1>2, <1>3, <1>6 DEF n

-----------------------------------------------------------------------------
LEMMA InitIInv == Init => IInv
<1> SUFFICES ASSUME Init PROVE IInv
  OBVIOUS
<1>1. wire \in Seq(Frames) /\ Len(wire) = 0 /\ DOMAIN wire = {}
  BY EmptySeq DEF Init
<1>2. TypeOK
  BY <1>1, SessionAssumption DEF Init, TypeOK, Threads, Frames
<1>3. QED
  BY <1>1, <1>2 DEF Init, IInv, WireValid, Greeting, Numbering

(* Steps that send nothing.                                                *)
LEMMA QuietStep ==
    ASSUME IInv, wire' = wire,
           \/ Start \/ Dial \/ Reject \/ OnFail \/ OnOpen \/ NoKeys
           \/ Announce \/ OnClose \/ HandlerFails \/ Lose
           \/ ShowForm \/ HideForm \/ Connect \/ Type \/ DropMessage
           \/ Quit \/ End \/ Join
           \/ UNCHANGED vars
    PROVE  IInv'
<1> USE SessionAssumption
<1>1. Len(wire) \in Nat /\ Len(wire') = Len(wire)
  BY LenProperties DEF IInv, TypeOK
<1>2. WireValid'
  BY DEF IInv, WireValid, Frame
<1> DEFINE n == Len(wire)
<1>3. /\ n \in Nat /\ Len(wire') = n
      /\ Greeting <=>
            /\ thread \in {"none", "start", "dial", "hello"} => n = 0
            /\ session = "connecting" => thread = "run" /\ n = 0
            /\ thread = "request" <=> n = 1
            /\ thread = "announce" => n = 2
            /\ state = "connected" \/ typed > 0 \/ (Alive /\ ui \in {"send", "end"}) =>
                    thread \in {"run", "done"} /\ n >= 2
      /\ Numbering <=>
            /\ n = 0 => counter = 0
            /\ n = 1 => counter = 1
            /\ n >= 2 /\ Alive /\ thread # "done" => n = counter + 1
            /\ counter <= typed + 1
            /\ ui = "send" /\ Alive => counter <= typed
  BY <1>1 DEF Greeting, Numbering
<1>4. /\ Greeting' <=>
            /\ thread' \in {"none", "start", "dial", "hello"} => n = 0
            /\ session' = "connecting" => thread' = "run" /\ n = 0
            /\ thread' = "request" <=> n = 1
            /\ thread' = "announce" => n = 2
            /\ state' = "connected" \/ typed' > 0 \/ (Alive' /\ ui' \in {"send", "end"}) =>
                    thread' \in {"run", "done"} /\ n >= 2
      /\ Numbering' <=>
            /\ n = 0 => counter' = 0
            /\ n = 1 => counter' = 1
            /\ n >= 2 /\ Alive' /\ thread' # "done" => n = counter' + 1
            /\ counter' <= typed' + 1
            /\ ui' = "send" /\ Alive' => counter' <= typed'
  BY <1>1 DEF Greeting, Numbering
<1> HIDE DEF n
<1> DEFINE Goal == TypeOK' /\ Greeting' /\ Numbering'
<1>5. ASSUME \/ Start \/ Dial \/ Reject \/ OnFail \/ OnOpen \/ NoKeys
             \/ Announce \/ OnClose \/ HandlerFails \/ Lose
      PROVE  Goal
  <2> USE DEF ThreadAt, Alive, windowVars, sendVars
  <2>1. TypeOK'
    BY <1>5 DEF IInv, TypeOK, Threads, Start, Dial, Reject, OnFail, OnOpen, NoKeys, Announce,
                OnClose, HandlerFails, Lose
  <2>2. Greeting'
    BY <1>5, <1>3, <1>4 DEF IInv, TypeOK, Threads, Start, Dial, Reject, OnFail, OnOpen, NoKeys,
                Announce, OnClose, HandlerFails, Lose
  <2>3. Numbering'
    BY <1>5, <1>3, <1>4 DEF IInv, TypeOK, Start, Dial, Reject, OnFail, OnOpen, NoKeys,
                Announce, OnClose, HandlerFails, Lose
  <2>4. QED BY <2>1, <2>2, <2>3
<1>6. ASSUME \/ ShowForm \/ HideForm \/ Connect \/ Type \/ DropMessage
             \/ Quit \/ End \/ Join \/ UNCHANGED vars
      PROVE  Goal
  <2> USE DEF UiAt, Alive, vars, windowVars, socketVars, sendVars
  <2>1. TypeOK'
    BY <1>6 DEF IInv, TypeOK, Threads, ShowForm, HideForm, Connect, Type, DropMessage,
                Quit, End, Join
  <2>2. Greeting'
    BY <1>6, <1>3, <1>4 DEF IInv, TypeOK, Threads, ShowForm, HideForm, Connect, Type,
                DropMessage, Quit, End, Join
  <2>3. Numbering'
    BY <1>6, <1>3, <1>4 DEF IInv, TypeOK, ShowForm, HideForm, Connect, Type,
                DropMessage, Quit, End, Join
  <2>4. QED BY <2>1, <2>2, <2>3
<1>7. QED BY <1>2, <1>5, <1>6 DEF IInv

(* The frames of the greeting, sent by the socket thread.                  *)
LEMMA GreetingStep ==
    ASSUME IInv, SayHello \/ RequestList
    PROVE  IInv'
<1> USE SessionAssumption DEF ThreadAt, Alive, windowVars
<1> DEFINE n == Len(wire)
           e == IF thread = "request" THEN Frame("client_list_request", 0)
                                      ELSE Frame("hello", counter)
<1>1. n \in Nat
  BY LenProperties DEF IInv, TypeOK
<1>2. /\ SayHello => n = 0 /\ counter = 0
      /\ RequestList => n = 1 /\ counter = 1
      /\ state # "connected" /\ typed = 0 /\ ui \notin {"send", "end"}
      /\ session # "connecting"
  BY <1>1 DEF IInv, TypeOK, Greeting, Numbering, SayHello, RequestList
<1>3. e \in Frames /\ e = Expected(n + 1) /\ wire' = Append(wire, e)
  <2>1. CASE SayHello
    <3>1. e = Frame("hello", 0) /\ n + 1 = 1 /\ wire' = Append(wire, e)
      BY <1>1, <1>2, <2>1 DEF SayHello
    <3>2. QED BY <3>1, ExpectedIs DEF Frames, Frame
  <2>2. CASE RequestList
    <3>1. e = Frame("client_list_request", 0) /\ n + 1 = 2 /\ wire' = Append(wire, e)
      BY <1>1, <1>2, <2>2, SMTT(20) DEF RequestList, Frame
    <3>2. QED BY <3>1, ExpectedIs DEF Frames, Frame
  <2>3. QED BY <2>1, <2>2
<1>4. WireValid' /\ Len(wire') = n + 1 /\ wire' \in Seq(Frames)
  BY <1>3, Sends DEF IInv
<1> HIDE DEF n, e
<1>5. TypeOK'
  BY <1>2, <1>4 DEF IInv, TypeOK, Frames, Threads, SayHello, RequestList
<1>6. Greeting'
  BY <1>1, <1>2, <1>4 DEF IInv, TypeOK, Greeting, SayHello, RequestList
<1>7. Numbering'
  BY <1>1, <1>2, <1>4 DEF IInv, TypeOK, Numbering, SayHello, RequestList
<1>8. QED BY <1>4, <1>5, <1>6, <1>7 DEF IInv

(* A message of the window: the socket thread is past the greeting.        *)
LEMMA ChatStep ==
    ASSUME IInv, SendChatMessage
    PROVE  IInv'
<1> USE SessionAssumption DEF UiAt, Alive, socketVars
<1> DEFINE n == Len(wire)
           e == Frame("chat", counter)
<1>1. n \in Nat
  BY LenProperties DEF IInv, TypeOK
<1>2. /\ n >= 2 /\ counter <= typed
      /\ thread = "run" => n = counter + 1
      /\ counter \in Nat /\ counter + 1 \in 0 .. MaxChats + 1
      /\ thread \in {"run", "done"}
  BY <1>1 DEF IInv, TypeOK, Greeting, Numbering, SendChatMessage
<1>3. CASE session = "open" /\ thread = "run"
  <2>1. e \in Frames /\ e = Expected(n + 1) /\ wire' = Append(wire, e)
    BY <1>1, <1>2, <1>3 DEF Frames, Frame, Expected, SendChatMessage
  <2>2. WireValid' /\ Len(wire') = n + 1 /\ wire' \in Seq(Frames)
    BY <2>1, Sends DEF IInv
  <2> HIDE DEF n, e
  <2>3. TypeOK'
    BY <1>2, <1>3, <2>2 DEF IInv, TypeOK, Frames, SendChatMessage
  <2>4. Greeting'
    BY <1>1, <1>2, <1>3, <2>2 DEF IInv, TypeOK, Greeting, SendChatMessage
  <2>5. Numbering'
    BY <1>1, <1>2, <1>3, <2>2 DEF IInv, TypeOK, Numbering, SendChatMessage
  <2>6. QED BY <2>2, <2>3, <2>4, <2>5 DEF IInv
<1>4. CASE ~(session = "open" /\ thread = "run")
  <2>1. wire' = wire /\ Len(wire') = n /\ (thread = "run" => fate' = "terminated")
    BY <1>4 DEF SendChatMessage
  <2>2. WireValid'
    BY <2>1 DEF IInv, WireValid, Frame
  <2> HIDE DEF n, e
  <2>3. TypeOK'
    BY <1>2, <2>1 DEF IInv, TypeOK, SendChatMessage
  <2>4. Greeting'
    BY <1>1, <1>2, <2>1 DEF IInv, TypeOK, Greeting, SendChatMessage
  <2>5. Numbering'
    <3>1. ui' = "frame" /\ counter' = counter + 1 /\ typed' = typed /\ thread' = thread
      BY DEF SendChatMessage
    <3>2. thread' # "done" => ~Alive'
      BY <1>2, <2>1, <3>1
    <3>3. Len(wire') >= 2 /\ counter' <= typed' + 1
      BY <1>1, <1>2, <2>1, <3>1 DEF IInv, TypeOK
    <3>4. QED BY <1>1, <2>1, <3>1, <3>2, <3>3 DEF Numbering
  <2>6. QED BY <2>2, <2>3, <2>4, <2>5 DEF IInv
<1>5. QED BY <1>3, <1>4

LEMMA StepIInv == IInv /\ [Next]_vars => IInv'
<1> SUFFICES ASSUME IInv, [Next]_vars PROVE IInv'
  OBVIOUS
<1>1. CASE Thread
  <2>1. ASSUME \/ Start \/ Dial \/ Reject \/ OnFail \/ OnOpen \/ NoKeys \/ Announce \/ OnClose
        PROVE  wire' = wire
    BY <2>1 DEF Start, Dial, Reject, OnFail, OnOpen, NoKeys, Announce, OnClose, sendVars
  <2>2. QED BY <1>1, <2>1, QuietStep, GreetingStep DEF Thread
<1>2. CASE Lose \/ HandlerFails \/ UNCHANGED vars
  <2>1. wire' = wire
    BY <1>2 DEF Lose, HandlerFails, vars, sendVars
  <2>2. QED BY <1>2, <2>1, QuietStep
<1>3. CASE Window
  <2>1. ASSUME \/ ShowForm \/ HideForm \/ Connect \/ Type \/ DropMessage \/ Quit \/ End \/ Join
        PROVE  wire' = wire
    BY <2>1 DEF ShowForm, HideForm, Connect, Type, DropMessage, Quit, End, Join, sendVars
  <2>2. QED BY <1>3, <2>1, QuietStep, ChatStep DEF Window
<1>4. QED BY <1>1, <1>2, <1>3 DEF Next

(* What the session of a client keeps: the strengthened invariant.         *)
THEOREM Inductive == Spec => []IInv
BY InitIInv, StepIInv, PTL DEF Spec

(* The variables stay in their ranges; in particular the counter never     *)
(* passes the messages typed by more than the hello.                       *)
THEOREM TypeCorrect == Spec => []TypeOK
<1>1. IInv => TypeOK
  BY DEF IInv
<1>2. QED BY Inductive, <1>1, PTL

(* The two threads of the client never get in each other's way on the      *)
(* wire: the server reads the hello, the request and then chats with       *)
(* consecutive numbers, whatever the window does and whenever the          *)
(* connection goes.                                                        *)
THEOREM WireStaysValid == Spec => []WireValid
<1>1. IInv => WireValid
  BY DEF IInv
<1>2. QED BY Inductive, <1>1, PTL
=============================================================================
