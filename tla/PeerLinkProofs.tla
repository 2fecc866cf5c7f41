---------------------------- MODULE PeerLinkProofs ----------------------------
(***************************************************************************)
(* Theorems about PeerLink, for any number of sockets and any bound on the *)
(* frames of the host.                                                     *)
(*                                                                         *)
(* Everything about one socket follows from where its thread is (Phase):   *)
(* it ties the flag, the connection, the counter and the wire to pc.  The  *)
(* gate needs one more fact, that it has not passed a hello while it waits *)
(* (GateBehind); the host another, that the link it is about to write to   *)
(* has been open (HostBehind).                                             *)
(***************************************************************************)
EXTENDS PeerLink, SequenceTheorems, TLAPS

Hellos(s) == {i \in DOMAIN wire[s] : wire[s][i] = "server_hello"}

(* What the place of a socket's thread says of its other variables.        *)
Phase(s) ==
    /\ pc[s] = "none" <=> s \notin ToSet(socketList)
    /\ pc[s] \in {"none", "dial", "sleep", "over"} => session[s] \in {"none", "closed"}
    /\ pc[s] = "run" => session[s] \in {"connecting", "open", "closing"}
    /\ pc[s] \in {"hello", "request"} => session[s] = "open"
    /\ connected[s] <=> session[s] \in {"open", "closing"}
    /\ counter[s] = 0 <=>
           \/ ~connected[s] /\ pc[s] # "over"
           \/ pc[s] = "hello"
    /\ Hellos(s) = {} <=> counter[s] = 0
    /\ \A i, j \in Hellos(s) : i = j
    /\ ~connected[s] /\ pc[s] # "over" => wire[s] = <<>>

(* A gate that waits has handled no hello, and one that refused was right. *)
GateBehind(s) ==
    /\ taken[s] <= Len(wire[s])
    /\ gate[s] = "waiting" => \A i \in 1 .. taken[s] : wire[s][i] # "server_hello"
    /\ gate[s] = "refused" => Overtaken(s)

Began(s) == LinkOf(s) # "idle"
Lost(s) == LinkOf(s) \in {"broken", "closed"}

(* The host writes to a link that began, and one it lost brought it down.  *)
HostBehind ==
    /\ \A s \in Sockets, frame \in HostFrames :
        writing = <<s, frame>> => frames[s] > 0 /\ Began(s)
    /\ hostDown => \E s \in Sockets : frames[s] > 0 /\ Lost(s)

IInv ==
    /\ TypeOK
    /\ \A s \in Sockets : Phase(s) /\ GateBehind(s)
    /\ HostBehind

-----------------------------------------------------------------------------
(* Appending one element.                                                  *)
LEMMA AppendFacts ==
    ASSUME NEW S, NEW seq \in Seq(S), NEW e \in S
    PROVE  /\ Append(seq, e) \in Seq(S)
           /\ Len(seq) \in Nat
           /\ DOMAIN seq = 1 .. Len(seq)
           /\ Len(Append(seq, e)) = Len(seq) + 1
           /\ DOMAIN Append(seq, e) = 1 .. Len(seq) + 1
           /\ \A i \in 1 .. Len(seq) : Append(seq, e)[i] = seq[i]
           /\ Append(seq, e)[Len(seq) + 1] = e
           /\ ToSet(Append(seq, e)) = ToSet(seq) \cup {e}
<1>1. /\ Append(seq, e) \in Seq(S)
      /\ Len(seq) \in Nat
      /\ DOMAIN seq = 1 .. Len(seq)
      /\ Len(Append(seq, e)) = Len(seq) + 1
      /\ DOMAIN Append(seq, e) = 1 .. Len(seq) + 1
      /\ \A i \in 1 .. Len(seq) : Append(seq, e)[i] = seq[i]
      /\ Append(seq, e)[Len(seq) + 1] = e
  BY AppendProperties, LenProperties
<1>2. \A i : i \in 1 .. Len(seq) + 1 <=> i \in 1 .. Len(seq) \/ i = Len(seq) + 1
  BY <1>1
<1> DEFINE n == Len(seq)
           new == Append(seq, e)
<1>3. ToSet(new) = {new[i] : i \in 1 .. n + 1} /\ ToSet(seq) = {seq[i] : i \in 1 .. n}
  BY <1>1 DEF ToSet
<1>4. ToSet(new) = ToSet(seq) \cup {e}
  <2> HIDE DEF n, new
  <2>1. /\ \A i \in 1 .. n : new[i] = seq[i]
        /\ new[n + 1] = e
        /\ \A i : i \in 1 .. n + 1 <=> i \in 1 .. n \/ i = n + 1
    BY <1>1, <1>2 DEF n, new
  <2>2. QED BY <1>3, <2>1
<1>5. QED BY <1>1, <1>4

(* A step that leaves what concerns a socket alone.                        *)
LEMMA PhaseKept ==
    ASSUME NEW s \in Sockets, Phase(s),
           pc'[s] = pc[s], connected'[s] = connected[s], session'[s] = session[s],
           counter'[s] = counter[s], wire'[s] = wire[s],
           s \in ToSet(socketList)' <=> s \in ToSet(socketList)
    PROVE  Phase(s)'
BY DEF Phase, Hellos

LEMMA GateKept ==
    ASSUME NEW s \in Sockets, GateBehind(s),
           wire'[s] = wire[s], taken'[s] = taken[s], gate'[s] = gate[s]
    PROVE  GateBehind(s)'
BY DEF GateBehind, Overtaken

(* A frame more on the wire changes nothing for the gate.                  *)
LEMMA GateAppended ==
    ASSUME NEW s \in Sockets, TypeOK, GateBehind(s), NEW frame \in Frames,
           wire'[s] = Append(wire[s], frame), taken'[s] = taken[s], gate'[s] = gate[s]
    PROVE  GateBehind(s)'
<1> DEFINE n == Len(wire[s])
           new == Append(wire[s], frame)
<1>1. /\ n \in Nat /\ DOMAIN wire[s] = 1 .. n
      /\ Len(new) = n + 1 /\ DOMAIN new = 1 .. n + 1
      /\ \A i \in 1 .. n : new[i] = wire[s][i]
      /\ taken[s] \in Nat /\ taken[s] <= n
  BY AppendFacts DEF TypeOK, SocketTypeOK, GateBehind
<1> HIDE DEF new, n
<1>2. wire'[s] = new
  BY DEF new
<1>3. taken'[s] <= Len(wire'[s])
  BY <1>1, <1>2
<1>4. gate'[s] = "waiting" => \A i \in 1 .. taken'[s] : wire'[s][i] # "server_hello"
  BY <1>1, <1>2 DEF GateBehind
<1>5. ASSUME gate'[s] = "refused" PROVE Overtaken(s)'
  <2>1. PICK i \in 1 .. n :
           /\ wire[s][i] \in HostFrames \ {"client_update"}
           /\ \A j \in 1 .. i : wire[s][j] # "server_hello"
    BY <1>1, <1>5 DEF GateBehind, Overtaken
  <2>2. \A j \in 1 .. i : j \in 1 .. n
    BY <1>1
  <2>3. i \in DOMAIN wire'[s]
    BY <1>1, <1>2
  <2>4. QED BY <1>1, <1>2, <2>1, <2>2, <2>3 DEF Overtaken
<1>6. QED BY <1>3, <1>4, <1>5 DEF GateBehind

LEMMA HellosAppended ==
    ASSUME NEW s \in Sockets, TypeOK, NEW frame \in Frames,
           wire'[s] = Append(wire[s], frame)
    PROVE  /\ frame # "server_hello" => Hellos(s)' = Hellos(s)
           /\ frame = "server_hello" => Hellos(s)' = Hellos(s) \cup {Len(wire[s]) + 1}
<1> DEFINE n == Len(wire[s])
           new == Append(wire[s], frame)
<1>1. /\ n \in Nat /\ DOMAIN wire[s] = 1 .. n
      /\ DOMAIN new = 1 .. n + 1
      /\ \A i \in 1 .. n : new[i] = wire[s][i]
      /\ new[n + 1] = frame
  BY AppendFacts DEF TypeOK, SocketTypeOK
<1>2. \A i : i \in 1 .. n + 1 <=> i \in 1 .. n \/ i = n + 1
  BY <1>1
<1> HIDE DEF new, n
<1>3. Hellos(s) = {i \in 1 .. n : wire[s][i] = "server_hello"}
  BY <1>1 DEF Hellos
<1>4. Hellos(s)' = {i \in 1 .. n + 1 : new[i] = "server_hello"}
  BY <1>1 DEF Hellos, new
<1>5. QED BY <1>1, <1>2, <1>3, <1>4 DEF n

-----------------------------------------------------------------------------
(* The type invariant.                                                     *)
LEMMA SocketTypeKept ==
    ASSUME TypeOK, NEW s \in Sockets, SocketStep(s)
    PROVE  SocketTypeOK'
<1> USE DEF TypeOK, SocketTypeOK, At, IsNow, PCs, Sessions, threadVars
<1>1. CASE Add(s)
  BY <1>1 DEF Add
<1>2. CASE Dial(s) \/ Fail(s) \/ Retry(s) \/ OnOpen(s) \/ OnClose(s)
  BY <1>2 DEF Dial, Fail, Retry, OnOpen, OnClose
<1>3. CASE SayHello(s)
  <2>1. wire' \in [Sockets -> Seq(Frames)]
    BY <1>3 DEF SayHello, SendJson, Frames
  <2>2. counter' \in [Sockets -> Nat]
    BY <1>3 DEF SayHello
  <2>3. pc' \in [Sockets -> PCs]
    BY <1>3 DEF SayHello
  <2>4. QED BY <1>3, <2>1, <2>2, <2>3 DEF SayHello
<1>4. CASE RequestUpdate(s)
  <2>1. wire' \in [Sockets -> Seq(Frames)]
    BY <1>4 DEF RequestUpdate, SendJson, Frames, HostFrames
  <2>2. QED BY <1>4, <2>1 DEF RequestUpdate
<1>5. CASE Lose(s)
  BY <1>5 DEF Lose
<1>6. CASE Reachability(s)
  BY <1>6 DEF Reachability
<1>7. QED BY <1>1, <1>2, <1>3, <1>4, <1>5, <1>6 DEF SocketStep, Thread

(* A link that began is never idle again, and one that was lost stays so.  *)
LEMMA HostKept ==
    ASSUME IInv, UNCHANGED <<writing, hostDown, frames>>,
           \A t \in Sockets : (Began(t) => Began(t)') /\ (Lost(t) => Lost(t)')
    PROVE  HostBehind'
<1>1. \A s \in Sockets, frame \in HostFrames :
          writing' = <<s, frame>> => frames'[s] > 0 /\ Began(s)'
  BY DEF IInv, HostBehind
<1>2. ASSUME hostDown'
      PROVE  \E s \in Sockets : frames'[s] > 0 /\ Lost(s)'
  <2>1. PICK s \in Sockets : frames[s] > 0 /\ Lost(s)
    BY <1>2 DEF IInv, HostBehind
  <2>2. QED BY <2>1
<1>3. QED BY <1>1, <1>2 DEF HostBehind

LEMMA LinkOnward ==
    ASSUME IInv, NEW s \in Sockets, SocketStep(s)
    PROVE  \A t \in Sockets : (Began(t) => Began(t)') /\ (Lost(t) => Lost(t)')
<1> TAKE t \in Sockets
<1>1. CASE t # s
  BY <1>1
  DEF IInv, TypeOK, SocketTypeOK, Began, Lost, LinkOf, SocketStep, Thread, Add, Dial, Fail,
      Retry, OnOpen, SayHello, RequestUpdate, OnClose, Lose, Reachability, threadVars, At,
      IsNow
<1>2. CASE t = s
  <2>1. Phase(s)
    BY DEF IInv
  <2>2. CASE Add(s) \/ Dial(s) \/ Fail(s) \/ Retry(s) \/ SayHello(s) \/ RequestUpdate(s)
             \/ Reachability(s)
    BY <1>2, <2>1, <2>2
    DEF IInv, TypeOK, SocketTypeOK, Phase, Began, Lost, LinkOf, Add, Dial, Fail, Retry,
        SayHello, RequestUpdate, Reachability, threadVars, At, IsNow
  <2>3. CASE OnOpen(s) \/ OnClose(s) \/ Lose(s)
    BY <1>2, <2>1, <2>3
    DEF IInv, TypeOK, SocketTypeOK, Phase, Began, Lost, LinkOf, OnOpen, OnClose, Lose, At,
        IsNow
  <2>4. QED BY <2>2, <2>3 DEF SocketStep, Thread
<1>3. QED BY <1>1, <1>2

(* Steps that send nothing.                                                *)
LEMMA SilentStep ==
    ASSUME IInv, NEW s \in Sockets,
           \/ Add(s) \/ Dial(s) \/ Fail(s) \/ Retry(s) \/ OnOpen(s)
           \/ OnClose(s) \/ Lose(s) \/ Reachability(s),
           UNCHANGED <<hostVars, gateVars>>
    PROVE  \A t \in Sockets : Phase(t)' /\ GateBehind(t)'
<1> TAKE t \in Sockets
<1> DEFINE listed == t \in ToSet(socketList)
<1>1. /\ UNCHANGED wire
      /\ t # s => /\ pc'[t] = pc[t]
                  /\ connected'[t] = connected[t]
                  /\ session'[t] = session[t]
                  /\ counter'[t] = counter[t]
  BY DEF Add, Dial, Fail, Retry, OnOpen, OnClose, Lose, Reachability, At, IsNow,
         threadVars, IInv, TypeOK, SocketTypeOK
<1>2. t # s => (listed' <=> listed)
  <2>1. CASE Add(s)
    <3>1. socketList' = Append(socketList, s) /\ socketList \in Seq(Sockets)
      BY <2>1 DEF Add, IInv, TypeOK, SocketTypeOK
    <3>2. ToSet(socketList') = ToSet(socketList) \cup {s}
      BY <3>1, AppendFacts
    <3>3. QED BY <3>2
  <2>2. CASE UNCHANGED socketList
    BY <2>2
  <2>3. QED
    BY <2>1, <2>2 DEF Dial, Fail, Retry, OnOpen, OnClose, Lose, Reachability
<1>3. GateBehind(t)'
  BY <1>1, GateKept DEF gateVars, IInv
<1>4. CASE t # s
  BY <1>1, <1>2, <1>3, <1>4, PhaseKept DEF IInv
<1>5. CASE t = s
  <2>1. Hellos(s)' = Hellos(s)
    BY <1>1 DEF Hellos
  <2>2. CASE Add(s)
    <3>1. socketList' = Append(socketList, s) /\ socketList \in Seq(Sockets)
      BY <2>2 DEF Add, IInv, TypeOK, SocketTypeOK
    <3>2. s \in ToSet(socketList')
      BY <3>1, AppendFacts
    <3>3. Phase(s)'
      BY <2>1, <2>2, <3>2, <1>1 DEF Add, At, Phase, IInv, TypeOK, SocketTypeOK
    <3>4. QED BY <1>3, <1>5, <3>3
  <2>3. CASE Dial(s) \/ Fail(s) \/ Retry(s) \/ OnOpen(s) \/ OnClose(s)
             \/ Lose(s) \/ Reachability(s)
    <3>1. Phase(s)'
      BY <2>1, <2>3, <1>1
      DEF Dial, Fail, Retry, OnOpen, OnClose, Lose, Reachability, threadVars, At, IsNow,
          Phase, IInv, TypeOK, SocketTypeOK
    <3>2. QED BY <1>3, <1>5, <3>1
  <2>4. QED BY <2>2, <2>3
<1>6. QED BY <1>4, <1>5

(* SayHello and RequestUpdate append a frame each.                         *)
LEMMA HelloOrRequestStep ==
    ASSUME IInv, NEW s \in Sockets, SayHello(s) \/ RequestUpdate(s),
           UNCHANGED <<hostVars, gateVars>>
    PROVE  \A t \in Sockets : Phase(t)' /\ GateBehind(t)'
<1> TAKE t \in Sockets
<1> DEFINE frame == IF SayHello(s) THEN "server_hello" ELSE "client_update_request"
<1>1. /\ t # s => /\ pc'[t] = pc[t]
                  /\ counter'[t] = counter[t]
                  /\ wire'[t] = wire[t]
      /\ UNCHANGED <<socketList, connected, session>>
  BY DEF SayHello, RequestUpdate, At, SendJson, IInv, TypeOK, SocketTypeOK
<1>2. frame \in Frames /\ wire'[s] = Append(wire[s], frame)
  BY DEF SayHello, RequestUpdate, SendJson, Frames, HostFrames, IInv, TypeOK, SocketTypeOK
<1> HIDE DEF frame
<1>3. CASE t # s
  BY <1>1, <1>3, PhaseKept, GateKept DEF gateVars, IInv
<1>4. CASE t = s
  <2>1. GateBehind(s)'
    BY <1>2, GateAppended DEF gateVars, IInv
  <2>2. /\ frame # "server_hello" => Hellos(s)' = Hellos(s)
        /\ frame = "server_hello" => Hellos(s)' = Hellos(s) \cup {Len(wire[s]) + 1}
    BY <1>2, HellosAppended DEF IInv
  <2>3. CASE SayHello(s)
    <3>1. Hellos(s) = {} /\ Hellos(s)' = {Len(wire[s]) + 1}
      BY <2>2, <2>3 DEF frame, SayHello, At, Phase, IInv
    <3>2. pc[s] = "hello" /\ pc'[s] = "request" /\ counter'[s] = counter[s] + 1
      BY <2>3 DEF SayHello, At, IInv, TypeOK, SocketTypeOK
    <3>3. Phase(s)'
      BY <1>1, <3>1, <3>2 DEF Phase, IInv, TypeOK, SocketTypeOK
    <3>4. QED BY <1>4, <2>1, <3>3
  <2>4. CASE ~SayHello(s)
    <3>1. Hellos(s)' = Hellos(s)
      BY <2>2, <2>4 DEF frame
    <3>2. pc[s] = "request" /\ pc'[s] = "run" /\ counter'[s] = counter[s]
      BY <2>4 DEF RequestUpdate, At, IInv, TypeOK, SocketTypeOK
    <3>3. Phase(s)'
      BY <1>1, <3>1, <3>2 DEF Phase, IInv, TypeOK, SocketTypeOK
    <3>4. QED BY <1>4, <2>1, <3>3
  <2>5. QED BY <2>3, <2>4
<1>5. QED BY <1>3, <1>4

LEMMA SocketStepInv ==
    ASSUME IInv, NEW s \in Sockets, SocketStep(s), UNCHANGED <<hostVars, gateVars>>
    PROVE  IInv'
<1>1. TypeOK'
  BY SocketTypeKept DEF IInv, TypeOK, hostVars, gateVars
<1>2. \A t \in Sockets : Phase(t)' /\ GateBehind(t)'
  BY SilentStep, HelloOrRequestStep DEF SocketStep, Thread
<1>3. HostBehind'
  BY LinkOnward, HostKept DEF hostVars
<1>4. QED BY <1>1, <1>2, <1>3 DEF IInv

-----------------------------------------------------------------------------
(* The host thread and the gate.                                           *)
LEMMA CheckStep ==
    ASSUME IInv, NEW s \in Sockets, NEW frame \in HostFrames, Check(s, frame)
    PROVE  IInv'
<1>1. UNCHANGED <<socketVars, hostDown, gateVars>>
  BY DEF Check
<1>2. TypeOK'
  <2>1. frames' \in [Sockets -> 0 .. MaxFrames]
    BY PeerLinkAssumption DEF Check, IInv, TypeOK
  <2>2. writing' \in {<<>>} \cup (Sockets \X HostFrames)
    BY DEF Check
  <2>3. QED
    BY <1>1, <2>1, <2>2 DEF IInv, TypeOK, SocketTypeOK, socketVars, threadVars, gateVars
<1>3. \A t \in Sockets : Phase(t)' /\ GateBehind(t)'
  BY <1>1, PhaseKept, GateKept DEF IInv, socketVars, threadVars, gateVars
<1>4. HostBehind'
  <2>1. \A t \in Sockets : LinkOf(t)' = LinkOf(t)
    BY <1>1 DEF LinkOf, socketVars, threadVars
  <2>2. /\ writing' = <<s, frame>> /\ ~hostDown /\ hostDown' = hostDown
        /\ frames' = [frames EXCEPT ![s] = @ + 1] /\ frames[s] \in Nat
        /\ Began(s)
    BY PeerLinkAssumption DEF Check, IInv, TypeOK, Phase, Began, LinkOf
  <2>3. frames'[s] > 0
    BY <2>2 DEF IInv, TypeOK
  <2>4. QED BY <2>1, <2>2, <2>3 DEF HostBehind, Began
<1>5. QED BY <1>2, <1>3, <1>4 DEF IInv

LEMMA WriteStep ==
    ASSUME IInv, NEW s \in Sockets, NEW frame \in HostFrames, Write(s, frame)
    PROVE  IInv'
<1>1. /\ UNCHANGED <<socketList, threadVars, reachable, frames, gateVars>>
      /\ writing' = <<>>
      /\ \/ session[s] = "open" /\ SendJson(s, frame) /\ UNCHANGED hostDown
         \/ hostDown' = TRUE /\ UNCHANGED wire
  BY DEF Write
<1>2. frame \in Frames /\ frame # "server_hello"
  BY DEF Frames, HostFrames
<1>3. TypeOK'
  <2>1. wire' \in [Sockets -> Seq(Frames)]
    <3>1. wire \in [Sockets -> Seq(Frames)]
      BY DEF IInv, TypeOK, SocketTypeOK
    <3>2. wire[s] \in Seq(Frames)
      BY <3>1
    <3>3. Append(wire[s], frame) \in Seq(Frames)
      BY <1>2, <3>2, AppendFacts
    <3>4. CASE SendJson(s, frame)
      BY <3>1, <3>3, <3>4 DEF SendJson
    <3>5. QED BY <1>1, <3>1, <3>4
  <2>2. hostDown' \in BOOLEAN
    BY <1>1 DEF IInv, TypeOK
  <2>3. QED
    BY <1>1, <2>1, <2>2 DEF IInv, TypeOK, SocketTypeOK, threadVars, gateVars
<1>4. \A t \in Sockets : Phase(t)' /\ GateBehind(t)'
  <2> TAKE t \in Sockets
  <2>1. CASE wire'[t] = wire[t]
    BY <1>1, <2>1, PhaseKept, GateKept DEF IInv, threadVars, gateVars
  <2>2. CASE wire'[t] # wire[t]
    <3>1. t = s /\ session[s] = "open" /\ wire'[s] = Append(wire[s], frame)
      BY <1>1, <2>2 DEF SendJson, IInv, TypeOK, SocketTypeOK
    <3>2. GateBehind(s)'
      BY <1>1, <1>2, <3>1, GateAppended DEF IInv, gateVars
    <3>3. Hellos(s)' = Hellos(s)
      BY <1>2, <3>1, HellosAppended DEF IInv
    <3>4. connected[s]
      BY <3>1 DEF Phase, IInv
    <3>5. Phase(s)'
      BY <1>1, <3>3, <3>4 DEF Phase, IInv, threadVars
    <3>6. QED BY <3>1, <3>2, <3>5
  <2>3. QED BY <2>1, <2>2
<1>5. HostBehind'
  <2>1. \A t \in Sockets : LinkOf(t)' = LinkOf(t)
    BY <1>1 DEF LinkOf, threadVars
  <2>2. hostDown' => \E t \in Sockets : frames[t] > 0 /\ Lost(t)
    <3>1. CASE session[s] = "open"
      BY <1>1, <3>1 DEF Write, IInv, HostBehind
    <3>2. CASE session[s] # "open"
      <4>1. frames[s] > 0 /\ Began(s)
        BY DEF Write, IInv, HostBehind
      <4>2. Lost(s)
        BY <3>2, <4>1 DEF Began, Lost, LinkOf
      <4>3. QED BY <4>1, <4>2
    <3>3. QED BY <3>1, <3>2
  <2>3. \A t \in Sockets, f \in HostFrames : writing' # <<t, f>>
    BY <1>1
  <2>4. QED BY <1>1, <2>1, <2>2, <2>3 DEF HostBehind, Lost
<1>6. QED BY <1>3, <1>4, <1>5 DEF IInv

LEMMA TakeStep ==
    ASSUME IInv, NEW s \in Sockets, Take(s)
    PROVE  IInv'
<1> DEFINE n == taken[s]
           frame == wire[s][n + 1]
<1>1. /\ gate[s] \in {"waiting", "registered"}
      /\ n < Len(wire[s])
      /\ taken' = [taken EXCEPT ![s] = n + 1]
      /\ gate' = [gate EXCEPT ![s] = Verdict(s, frame)]
      /\ UNCHANGED <<socketVars, hostVars>>
  BY DEF Take, Served
<1>2. /\ wire[s] \in Seq(Frames) /\ Len(wire[s]) \in Nat
      /\ DOMAIN wire[s] = 1 .. Len(wire[s])
      /\ n \in Nat
  BY LenProperties DEF IInv, TypeOK, SocketTypeOK
<1>3. n + 1 \in 1 .. Len(wire[s])
  BY <1>1, <1>2
<1>4. frame \in Frames
  BY <1>2, <1>3, ElementOfSeq
<1> HIDE DEF frame, n
<1>5. TypeOK'
  <2>1. taken' \in [Sockets -> Nat] /\ gate' \in [Sockets -> Gates]
    BY <1>1, <1>2 DEF Verdict, Gates, IInv, TypeOK
  <2>2. QED
    BY <1>1, <2>1 DEF IInv, TypeOK, SocketTypeOK, socketVars, threadVars, hostVars
<1>6. \A t \in Sockets : Phase(t)'
  BY <1>1, PhaseKept DEF IInv, socketVars, threadVars
<1>7. \A t \in Sockets : t # s => GateBehind(t)'
  BY <1>1, GateKept DEF IInv, TypeOK, socketVars
<1>8. GateBehind(s)'
  <2>1. taken'[s] = n + 1 /\ gate'[s] = Verdict(s, frame) /\ wire' = wire
    BY <1>1 DEF IInv, TypeOK, socketVars
  <2>2. \A i \in 1 .. n + 1 : i \in 1 .. n \/ i = n + 1
    BY <1>2
  <2>3. gate[s] = "waiting" => \A i \in 1 .. n : wire[s][i] # "server_hello"
    BY DEF IInv, GateBehind, n
  <2>4. ASSUME gate'[s] = "waiting"
        PROVE  \A i \in 1 .. n + 1 : wire[s][i] # "server_hello"
    BY <2>1, <2>2, <2>3, <2>4 DEF Verdict, frame
  <2>5. ASSUME gate'[s] = "refused"
        PROVE  Overtaken(s)
    <3>1. gate[s] = "waiting" /\ frame \in HostFrames \ {"client_update"}
      BY <1>1, <1>4, <2>1, <2>5 DEF Verdict, Frames
    <3>2. \A i \in 1 .. n + 1 : wire[s][i] # "server_hello"
      BY <2>2, <2>3, <3>1 DEF frame, HostFrames
    <3>3. QED BY <1>2, <1>3, <3>1, <3>2 DEF Overtaken, frame
  <2>6. n + 1 <= Len(wire[s])
    BY <1>2, <1>3
  <2>7. QED BY <2>1, <2>4, <2>5, <2>6 DEF GateBehind, Overtaken
<1>9. HostBehind'
  BY <1>1, HostKept DEF Began, Lost, LinkOf, socketVars, threadVars, hostVars
<1>10. QED BY <1>5, <1>6, <1>7, <1>8, <1>9 DEF IInv

LEMMA CutOffStep ==
    ASSUME IInv, NEW s \in Sockets, Unserved(s) \/ Gone(s)
    PROVE  IInv'
<1> DEFINE to == IF Unserved(s) THEN "unserved" ELSE "gone"
<1>1. /\ gate' = [gate EXCEPT ![s] = to]
      /\ to \in {"unserved", "gone"}
      /\ UNCHANGED <<socketVars, hostVars, taken>>
  BY DEF Unserved, Gone
<1> HIDE DEF to
<1>2. TypeOK'
  BY <1>1 DEF IInv, TypeOK, Gates, SocketTypeOK, socketVars, threadVars, hostVars
<1>3. \A t \in Sockets : Phase(t)'
  BY <1>1, PhaseKept DEF IInv, socketVars, threadVars
<1>4. \A t \in Sockets : GateBehind(t)'
  BY <1>1 DEF IInv, TypeOK, GateBehind, Overtaken, socketVars
<1>5. HostBehind'
  BY <1>1, HostKept DEF Began, Lost, LinkOf, socketVars, threadVars, hostVars
<1>6. QED BY <1>2, <1>3, <1>4, <1>5 DEF IInv

-----------------------------------------------------------------------------
LEMMA InitInv == Init => IInv
<1> SUFFICES ASSUME Init PROVE IInv
  OBVIOUS
<1>1. TypeOK
  <2>1. SocketTypeOK
    <3>1. <<>> \in Seq(Sockets) /\ <<>> \in Seq(Frames)
      BY EmptySeq
    <3>2. wire \in [Sockets -> Seq(Frames)]
      BY <3>1 DEF Init, SocketInit
    <3>3. counter \in [Sockets -> Nat] /\ connected \in [Sockets -> BOOLEAN]
      BY DEF Init, SocketInit
    <3>4. pc \in [Sockets -> PCs] /\ session \in [Sockets -> Sessions]
      BY DEF Init, SocketInit, PCs, Sessions
    <3>5. socketList \in Seq(Sockets) /\ reachable \in [Sockets -> BOOLEAN]
      BY <3>1 DEF Init, SocketInit
    <3>6. QED BY <3>2, <3>3, <3>4, <3>5 DEF SocketTypeOK
  <2>2. writing \in {<<>>} \cup (Sockets \X HostFrames)
    BY DEF Init
  <2>3. 0 \in Nat /\ 0 \in 0 .. MaxFrames /\ "waiting" \in Gates
    BY PeerLinkAssumption DEF Gates
  <2>4. /\ hostDown \in BOOLEAN
        /\ frames \in [Sockets -> 0 .. MaxFrames]
        /\ taken \in [Sockets -> Nat]
        /\ gate \in [Sockets -> Gates]
    BY <2>3 DEF Init
  <2>5. QED BY <2>1, <2>2, <2>4 DEF TypeOK
<1>2. ASSUME NEW s \in Sockets PROVE Phase(s) /\ GateBehind(s)
  <2>1. /\ wire[s] = <<>> /\ ToSet(socketList) = {}
        /\ taken[s] = 0 /\ gate[s] = "waiting"
    BY DEF Init, SocketInit, ToSet
  <2>2. Phase(s)
    BY <2>1 DEF Init, SocketInit, Phase, Hellos
  <2>3. GateBehind(s)
    BY <2>1 DEF GateBehind
  <2>4. QED BY <2>2, <2>3
<1>3. HostBehind
  BY DEF Init, HostBehind
<1>4. QED BY <1>1, <1>2, <1>3 DEF IInv

LEMMA NextInv == IInv /\ [Next]_vars => IInv'
<1> SUFFICES ASSUME IInv, [Next]_vars PROVE IInv'
  OBVIOUS
<1>1. CASE Next
  <2>1. PICK s \in Sockets :
           \/ SocketStep(s) /\ UNCHANGED <<hostVars, gateVars>>
           \/ \E frame \in HostFrames : Check(s, frame) \/ Write(s, frame)
           \/ Take(s)
           \/ Unserved(s)
           \/ Gone(s)
    BY <1>1 DEF Next
  <2>2. QED BY <2>1, SocketStepInv, CheckStep, WriteStep, TakeStep, CutOffStep
<1>2. CASE UNCHANGED vars
  <2>1. UNCHANGED <<socketVars, hostVars, gateVars>>
    BY <1>2 DEF vars
  <2>2. TypeOK'
    BY <2>1
    DEF IInv, TypeOK, SocketTypeOK, socketVars, threadVars, hostVars, gateVars
  <2>3. \A s \in Sockets : Phase(s)' /\ GateBehind(s)'
    BY <2>1, PhaseKept, GateKept DEF IInv, socketVars, threadVars, gateVars
  <2>4. HostBehind'
    BY <2>1, HostKept DEF Began, Lost, LinkOf, socketVars, threadVars, hostVars
  <2>5. QED BY <2>2, <2>3, <2>4 DEF IInv
<1>3. QED BY <1>1, <1>2

(* Where the thread of a socket is determines its flag, its connection,    *)
(* its counter and what is on its wire, its gate is behind the wire, and   *)
(* the host writes to no link that has not begun.                          *)
THEOREM Inductive == Spec => []IInv
BY InitInv, NextInv, PTL DEF Spec

(* Type correctness.                                                       *)
THEOREM TypeCorrect == Spec => []TypeOK
<1>1. IInv => TypeOK
  BY DEF IInv
<1>2. QED BY <1>1, Inductive, PTL

(* Over all attempts of a socket's thread there is one hello, it takes     *)
(* number 0, and nothing is on the wire before the link opens.             *)
THEOREM OneHelloOnly == Spec => []OneHello
<1>1. IInv => OneHello
  <2> SUFFICES ASSUME IInv, NEW s \in Sockets
               PROVE  /\ Hellos(s) = {} <=> counter[s] = 0
                      /\ \A i, j \in Hellos(s) : i = j
                      /\ Hellos(s) = {} => pc[s] \notin {"request", "over"}
                      /\ ~connected[s] /\ pc[s] # "over" => wire[s] = <<>>
    BY DEF OneHello, Hellos
  <2>1. Phase(s)
    BY DEF IInv
  <2>2. QED BY <2>1 DEF Phase
<1>2. QED BY <1>1, Inductive, PTL

(* The other server refuses a whitelisted one only when a request or chat  *)
(* of the host thread got onto the wire ahead of the hello of OnOpen.      *)
THEOREM RefusedWhenOvertaken == Spec => []RefusedOnlyIfOvertaken
<1>1. IInv => RefusedOnlyIfOvertaken
  BY DEF IInv, GateBehind, RefusedOnlyIfOvertaken
<1>2. QED BY <1>1, Inductive, PTL

(* A send takes the host thread out of its loop only when a link that was  *)
(* up was lost between IsConnected() and SendJson(), or before its close   *)
(* handler cleared the flag; a socket still dialling never does.           *)
THEOREM DownWhenLost == Spec => []DownOnlyIfLost
<1>1. IInv => DownOnlyIfLost
  BY DEF IInv, HostBehind, Lost, DownOnlyIfLost
<1>2. QED BY <1>1, Inductive, PTL

-----------------------------------------------------------------------------
(* The refinement of Link.                                                 *)
LEMMA LinkInitMaps == Init => Link!LinkInit
BY DEF Init, SocketInit, Link!LinkInit, LinkOf

(* A step that changes neither the list nor what LinkOf reads of a socket, *)
(* or both as Link does.                                                   *)
LEMMA LinkStepMaps ==
    ASSUME IInv, NEW s \in Sockets, SocketStep(s)
    PROVE  Link!LinkNext \/ UNCHANGED Link!linkVars
<1> DEFINE link == [t \in Sockets |-> LinkOf(t)]
<1>1. Phase(s)
  BY DEF IInv
<1>2. \A t \in Sockets : t # s => LinkOf(t)' = LinkOf(t)
  BY DEF IInv, TypeOK, SocketTypeOK, LinkOf, SocketStep, Thread, Add, Dial, Fail, Retry,
         OnOpen, SayHello, RequestUpdate, OnClose, Lose, Reachability, threadVars, At, IsNow
<1>3. link' = [link EXCEPT ![s] = LinkOf(s)']
  BY <1>2
<1>4. LinkOf(s)' = LinkOf(s) => link' = link
  BY <1>3
<1>5. s \in DOMAIN link /\ link[s] = LinkOf(s)
  OBVIOUS
<1>6. CASE Add(s)
  <2>1. LinkOf(s)' = LinkOf(s)
    BY <1>1, <1>6 DEF Add, At, LinkOf, Phase, IInv, TypeOK, SocketTypeOK
  <2>2. Link!AddSocket(s)
    BY <1>1, <1>4, <1>6, <2>1
    DEF Add, At, Phase, Link!AddSocket, Link!ToSet, ToSet
  <2>3. QED BY <2>2 DEF Link!LinkNext, Link!LinkStep
<1>7. CASE OnOpen(s)
  <2>1. LinkOf(s) = "idle" /\ LinkOf(s)' = "open"
    BY <1>1, <1>7 DEF OnOpen, At, IsNow, LinkOf, Phase, IInv, TypeOK, SocketTypeOK
  <2>2. Link!OpenLink(s)
    BY <1>1, <1>3, <1>5, <1>7, <2>1
    DEF OnOpen, At, Phase, Link!OpenLink, Link!ToSet, ToSet
  <2>3. QED BY <2>2 DEF Link!LinkNext, Link!LinkStep
<1>8. CASE Lose(s)
  <2>1. LinkOf(s) = "open" /\ LinkOf(s)' = "broken"
    BY <1>1, <1>8 DEF Lose, IsNow, LinkOf, Phase, IInv, TypeOK, SocketTypeOK
  <2>2. Link!BreakLink(s)
    BY <1>3, <1>5, <1>8, <2>1 DEF Lose, Link!BreakLink
  <2>3. QED BY <2>2 DEF Link!LinkNext, Link!LinkStep
<1>9. CASE OnClose(s)
  <2>1. LinkOf(s) = "broken" /\ LinkOf(s)' = "closed"
    BY <1>1, <1>9 DEF OnClose, At, IsNow, LinkOf, Phase, IInv, TypeOK, SocketTypeOK
  <2>2. Link!DropLink(s)
    BY <1>3, <1>5, <1>9, <2>1 DEF OnClose, Link!DropLink
  <2>3. QED BY <2>2 DEF Link!LinkNext, Link!LinkStep
<1>10. CASE Dial(s) \/ Fail(s) \/ Retry(s) \/ SayHello(s) \/ RequestUpdate(s)
            \/ Reachability(s)
  <2>1. LinkOf(s)' = LinkOf(s) /\ UNCHANGED socketList
    BY <1>1, <1>10
    DEF Dial, Fail, Retry, SayHello, RequestUpdate, Reachability, threadVars, At, IsNow,
        LinkOf, Phase, IInv, TypeOK, SocketTypeOK
  <2>2. QED BY <1>4, <2>1 DEF Link!linkVars
<1>11. QED BY <1>6, <1>7, <1>8, <1>9, <1>10 DEF SocketStep, Thread

(* The host and the gate leave the thread alone.                           *)
LEMMA NextMaps ==
    IInv /\ [Next]_vars => Link!LinkNext \/ UNCHANGED Link!linkVars
<1> SUFFICES ASSUME IInv, [Next]_vars
             PROVE  Link!LinkNext \/ UNCHANGED Link!linkVars
  OBVIOUS
<1>1. CASE UNCHANGED <<socketList, threadVars>>
  BY <1>1 DEF Link!linkVars, LinkOf, threadVars
<1>2. CASE \E s \in Sockets : SocketStep(s)
  BY <1>2, LinkStepMaps
<1>3. QED
  BY <1>1, <1>2 DEF Next, Check, Write, Take, Unserved, Gone, socketVars, vars

(* The thread of a socket implements the link the host sees: dialling,     *)
(* failing and sleeping are invisible, "connected" goes up once and down   *)
(* once, and a send fails only in between.                                 *)
THEOREM Implements == Spec => ImplementsLink
<1>1. Init => Link!LinkInit
  BY LinkInitMaps
<1>2. IInv /\ [Next]_vars => [Link!LinkNext]_(Link!linkVars)
  BY NextMaps
<1>3. QED BY <1>1, <1>2, Inductive, PTL DEF Spec, ImplementsLink, Link!LinkSpec
=============================================================================
