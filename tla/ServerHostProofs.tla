-------------------------- MODULE ServerHostProofs --------------------------
(***************************************************************************)
(* Theorems about ServerHost, for any clients, peers, sockets and bounds.  *)
(*                                                                         *)
(* Three parts, each with its inductive invariant on top of the former:    *)
(* the parallel lists (IInv), who is shown and told which roster           *)
(* (RosterInv), and the chats (ChatInv).                                   *)
(*                                                                         *)
(* The type invariant is not inductive by itself: OnClose erases one       *)
(* position of three lists, which keeps their types only if the position   *)
(* exists in all three.                                                    *)
(***************************************************************************)
EXTENDS ServerHost, Loops

IInv == TypeOK /\ RosterAligned /\ ExternalAligned

-----------------------------------------------------------------------------
(* The lists a peer may send are sequences of keys.                        *)
LEMMA RemoteListsType == RemoteLists \cup {<<>>} \subseteq Seq(Keys)
<1>1. \A l \in RemoteLists : l \in Seq(ToSet(l)) /\ ToSet(l) \subseteq Keys
  BY HostAssumption DEF Keys
<1>2. \A l \in RemoteLists : l \in Seq(Keys)
  BY <1>1, SeqMonotonic
<1>3. <<>> \in Seq(Keys)
  BY EmptySeq
<1>4. QED BY <1>2, <1>3

(* The client_list message is a sequence of frames.                        *)
LEMMA ClientListsType ==
    ASSUME NEW local \in Seq(Keys), NEW external \in Seq(External)
    PROVE  ClientListsOf(local, external) \in Seq(Frame)
<1> DEFINE rest == [i \in DOMAIN external |->
                       [address |-> external[i].address,
                        clients |-> external[i].clientList]]
           first == [address |-> MyAddress, clients |-> local]
<1>1. first \in Frame
  BY DEF Frame
<1>2. rest \in Seq(Frame)
  <2>1. Len(external) \in Nat /\ DOMAIN external = 1 .. Len(external)
    BY LenProperties
  <2>2. \A i \in 1 .. Len(external) :
           [address |-> external[i].address, clients |-> external[i].clientList]
               \in Frame
    <3> TAKE i \in 1 .. Len(external)
    <3>1. external[i] \in External
      BY ElementOfSeq
    <3>2. /\ external[i].address \in {AddrOf[p] : p \in Peers}
          /\ external[i].clientList \in RemoteLists \cup {<<>>}
      BY <3>1 DEF External
    <3>3. QED BY <3>2, RemoteListsType DEF Frame
  <2>3. rest \in [1 .. Len(external) -> Frame]
    BY <2>1, <2>2
  <2>4. QED BY <2>1, <2>3, SeqDef
<1>3. <<first>> \in Seq(Frame)
  BY <1>1
<1> HIDE DEF first, rest
<1>4. <<first>> \o rest \in Seq(Frame)
  BY <1>2, <1>3, ConcatProperties
<1>5. QED BY <1>4 DEF ClientListsOf, first, rest

-----------------------------------------------------------------------------
(* Steps that leave the lists, and who is present, as they are.            *)
LEMMA SameRoster ==
    ASSUME RosterAligned,
           UNCHANGED <<clientList, clientConnections>>,
           Len(clientCounts') = Len(clientCounts),
           \A c \in Clients : Present(c)' <=> Present(c)
    PROVE  RosterAligned'
BY DEF RosterAligned, IsClient, Places

LEMMA SameExternal ==
    ASSUME ExternalAligned,
           UNCHANGED <<externalClientLists, serverCounts, foo, count>>,
           \A p \in Peers : Present(p)' <=> Present(p)
    PROVE  ExternalAligned'
BY DEF ExternalAligned, ExternalPlaces

(* What the sends of a handler leave in view, told, heard and relayed has  *)
(* the right type.                                                         *)
LEMMA SendClientUpdateType ==
    ASSUME NEW plan, told \in [Sockets -> Seq(Seq(Keys))],
           clientList' \in Seq(Keys), SendClientUpdate(plan)
    PROVE  told' \in [Sockets -> Seq(Seq(Keys))]
<1>1. <<clientList'>> \in Seq(Seq(Keys))
  OBVIOUS
<1>2. QED BY <1>1 DEF SendClientUpdate

LEMMA SendAllClientListsType ==
    ASSUME NEW plan, view \in [Clients -> Seq(Frame)],
           clientList' \in Seq(Keys), externalClientLists' \in Seq(External),
           SendAllClientLists(plan)
    PROVE  view' \in [Clients -> Seq(Frame)]
<1>1. ClientLists' \in Seq(Frame)
  BY ClientListsType DEF ClientLists
<1>2. QED BY <1>1 DEF SendAllClientLists

LEMMA RunType ==
    ASSUME NEW plan, Run(plan)
    PROVE  running' \in BOOLEAN
BY DEF Run, Completes

-----------------------------------------------------------------------------
(* Connections.                                                            *)
LEMMA AcceptStep ==
    ASSUME IInv, NEW x \in Conns, Accept(x)
    PROVE  IInv'
<1> USE DEF IInv
<1>1. TypeOK'
  BY DEF Accept, TypeOK, LinkTypeOK, linkVars, rosterVars, externalVars, ConnStates
<1>2. \A y \in Conns : Present(y)' <=> Present(y)
  BY DEF Accept, Present, TypeOK
<1>3. RosterAligned'
  BY <1>2, SameRoster DEF Accept, rosterVars, Conns
<1>4. ExternalAligned'
  BY <1>2, SameExternal DEF Accept, externalVars, Conns
<1>5. QED BY <1>1, <1>3, <1>4

LEMMA RemoteCloseStep ==
    ASSUME IInv, NEW x \in Conns, RemoteClose(x)
    PROVE  IInv'
<1> USE DEF IInv
<1>1. TypeOK'
  BY DEF RemoteClose, Close, TypeOK, LinkTypeOK, linkVars, rosterVars, externalVars,
         ConnStates
<1>2. \A y \in Conns : Present(y)' <=> Present(y)
  BY DEF RemoteClose, Receives, Close, Present, TypeOK
<1>3. RosterAligned'
  BY <1>2, SameRoster DEF RemoteClose, rosterVars, Conns
<1>4. ExternalAligned'
  BY <1>2, SameExternal DEF RemoteClose, externalVars, Conns
<1>5. QED BY <1>1, <1>3, <1>4

LEMMA OnCloseOtherStep ==
    ASSUME IInv, NEW x \in Conns, OnCloseOther(x)
    PROVE  IInv'
<1> USE DEF IInv
<1>1. TypeOK'
  BY DEF OnCloseOther, TypeOK, LinkTypeOK, linkVars, rosterVars, externalVars,
         ConnStates
<1>2. ~Present(x)
  BY DEF OnCloseOther, RosterAligned, ExternalAligned, Conns
<1>3. \A y \in Conns : Present(y)' <=> Present(y)
  BY <1>2 DEF OnCloseOther, Present, TypeOK
<1>4. RosterAligned'
  BY <1>3, SameRoster DEF OnCloseOther, rosterVars, Conns
<1>5. ExternalAligned'
  BY <1>3, SameExternal DEF OnCloseOther, externalVars, Conns
<1>6. QED BY <1>1, <1>4, <1>5

(* A list without duplicates has none after an erase, and all its other    *)
(* elements.                                                               *)
LEMMA EraseDistinct ==
    ASSUME NEW S, NEW s \in Seq(S), NEW i \in 1 .. Len(s), IsInjective(s)
    PROVE  /\ IsInjective(RemoveAt(s, i))
           /\ ToSet(RemoveAt(s, i)) = ToSet(s) \ {s[i]}
<1> DEFINE t == RemoveAt(s, i)
           From(j) == IF j < i THEN j ELSE j + 1
<1>1. /\ Len(s) \in Nat /\ DOMAIN s = 1 .. Len(s)
      /\ DOMAIN t = 1 .. Len(s) - 1
      /\ \A j \in DOMAIN t : t[j] = s[From(j)]
  BY RemoveAtProperties, LenProperties
<1>2. \A j \in DOMAIN t : From(j) \in DOMAIN s /\ From(j) # i
  BY <1>1
<1>3. \A j, k \in DOMAIN t : From(j) = From(k) => j = k
  BY <1>1
<1>4. \A k \in DOMAIN s : k # i => \E j \in DOMAIN t : From(j) = k
  <2> TAKE k \in DOMAIN s
  <2> HAVE k # i
  <2>1. CASE k < i
    <3>1. k \in DOMAIN t /\ From(k) = k
      BY <1>1, <2>1
    <3>2. QED BY <3>1
  <2>2. CASE ~(k < i)
    <3>1. k - 1 \in DOMAIN t /\ From(k - 1) = k
      BY <1>1, <2>2
    <3>2. QED BY <3>1
  <2>3. QED BY <2>1, <2>2
<1>5. i \in DOMAIN s /\ \A j, k \in DOMAIN s : s[j] = s[k] => j = k
  BY <1>1 DEF IsInjective
<1> HIDE DEF From, t
<1>6. IsInjective(t)
  BY <1>1, <1>2, <1>3, <1>5 DEF IsInjective
<1>7. ToSet(t) \subseteq ToSet(s) \ {s[i]}
  BY <1>1, <1>2, <1>5 DEF ToSet
<1>8. ToSet(s) \ {s[i]} \subseteq ToSet(t)
  <2> SUFFICES ASSUME NEW k \in DOMAIN s, s[k] # s[i]
               PROVE  s[k] \in ToSet(t)
    BY DEF ToSet
  <2>1. PICK j \in DOMAIN t : From(j) = k
    BY <1>4
  <2>2. QED BY <1>1, <2>1 DEF ToSet
<1>9. QED BY <1>6, <1>7, <1>8 DEF t

(* A client is on the list when its connection is an element of it.        *)
LEMMA IsClientToSet == \A c : IsClient(c) <=> c \in ToSet(clientConnections)
BY DEF IsClient, Places, ToSet

LEMMA OnCloseClientStep ==
    ASSUME IInv, NEW x \in Conns, OnCloseClient(x)
    PROVE  IInv'
<1> USE DEF IInv
<1> DEFINE n == Len(clientConnections)
<1>1. PICK i \in Places(x) : EraseClient(i)
  BY DEF OnCloseClient
<1>2. /\ clientConnections \in Seq(Clients)
      /\ clientList \in Seq(Keys)
      /\ clientCounts \in Seq(-1 .. MaxChats)
      /\ n \in Nat
      /\ DOMAIN clientConnections = 1 .. n
      /\ Len(clientList) = n /\ Len(clientCounts) = n
  BY LenProperties DEF TypeOK, RosterAligned
<1>3. i \in 1 .. n /\ clientConnections[i] = x /\ x \in Clients
  BY <1>2, ElementOfSeq DEF Places
<1>4. /\ clientConnections' = RemoveAt(clientConnections, i)
      /\ clientList' = RemoveAt(clientList, i)
      /\ clientCounts' = RemoveAt(clientCounts, i)
  BY <1>1 DEF EraseClient
<1>5. /\ clientConnections' \in Seq(Clients)
      /\ clientList' \in Seq(Keys)
      /\ clientCounts' \in Seq(-1 .. MaxChats)
      /\ Len(clientConnections') = n - 1
      /\ Len(clientList') = n - 1
      /\ Len(clientCounts') = n - 1
      /\ DOMAIN clientConnections' = 1 .. n - 1
  BY <1>2, <1>3, <1>4, RemoveAtProperties
<1>6. TypeOK'
  <2>1. UNCHANGED <<linkVars, helloed, sent, externalVars, heard, relayed>>
    BY DEF OnCloseClient
  <2>2. PICK plan : Run(plan) /\ SendClientUpdate(plan) /\ SendAllClientLists(plan)
    BY DEF OnCloseClient
  <2>3. /\ running' \in BOOLEAN
        /\ told' \in [Sockets -> Seq(Seq(Keys))]
    BY <1>5, <2>2, RunType, SendClientUpdateType DEF TypeOK
  <2>4. externalClientLists' \in Seq(External)
    BY <2>1 DEF externalVars, TypeOK
  <2>5. view' \in [Clients -> Seq(Frame)]
    BY <1>5, <2>2, <2>4, SendAllClientListsType DEF TypeOK
  <2>6. conn' \in [Conns -> ConnStates]
    BY DEF OnCloseClient, TypeOK, ConnStates
  <2>7. QED
    BY <1>5, <2>1, <2>3, <2>4, <2>5, <2>6
    DEF TypeOK, LinkTypeOK, linkVars, externalVars
<1>7. /\ ~Present(x)'
      /\ \A y \in Conns : y # x => (Present(y)' <=> Present(y))
  BY DEF OnCloseClient, Present, TypeOK
<1>8. RosterAligned'
  <2>1. /\ IsInjective(clientConnections')
        /\ ToSet(clientConnections') = ToSet(clientConnections) \ {x}
    BY <1>2, <1>3, <1>4, EraseDistinct DEF RosterAligned
  <2>2. \A j \in 1 .. n - 1 : clientList'[j] = KeyOf[clientConnections'[j]]
    <3> TAKE j \in 1 .. n - 1
    <3> DEFINE k == IF j < i THEN j ELSE j + 1
    <3>1. k \in 1 .. n
      BY <1>2, <1>3
    <3>2. clientList'[j] = clientList[k] /\ clientConnections'[j] = clientConnections[k]
      <4>1. i \in 1 .. Len(clientList) /\ j \in 1 .. Len(clientList) - 1
        BY <1>2, <1>3
      <4>2. RemoveAt(clientList, i)[j] = clientList[k]
        BY <1>2, <4>1, RemoveAtProperties
      <4>3. i \in 1 .. Len(clientConnections) /\ j \in 1 .. Len(clientConnections) - 1
        BY <1>3
      <4>4. RemoveAt(clientConnections, i)[j] = clientConnections[k]
        BY <1>2, <4>3, RemoveAtProperties
      <4>5. QED BY <1>4, <4>2, <4>4
    <3>3. clientList[k] = KeyOf[clientConnections[k]]
      BY <1>2, <3>1 DEF RosterAligned
    <3>4. QED BY <3>2, <3>3
  <2>3. \A c \in Clients : c \in ToSet(clientConnections) <=> Present(c)
    BY IsClientToSet DEF RosterAligned
  <2>4. \A c \in Clients : IsClient(c)' <=> Present(c)'
    <3>1. \A c \in Clients : IsClient(c)' <=> c \in ToSet(clientConnections')
      BY DEF IsClient, Places, ToSet
    <3>2. QED BY <1>7, <2>1, <2>3, <3>1 DEF Conns
  <2>5. QED BY <1>5, <2>1, <2>2, <2>4 DEF RosterAligned
<1>9. ExternalAligned'
  <2>1. \A p \in Peers : Present(p)' <=> Present(p)
    BY <1>3, <1>7, HostAssumption DEF Conns
  <2>2. QED BY <2>1, SameExternal DEF OnCloseClient, externalVars
<1>10. QED BY <1>6, <1>8, <1>9

(* Where the element at position j was before position i was erased.       *)
Before(i, j) == IF j < i THEN j ELSE j + 1

LEMMA BeforeProperties ==
    ASSUME NEW n \in Nat, NEW i \in 1 .. n
    PROVE  /\ \A j \in 1 .. n - 1 : Before(i, j) \in 1 .. n /\ Before(i, j) # i
           /\ \A j, k \in 1 .. n - 1 : j < k => Before(i, j) < Before(i, k)
           /\ \A j, k \in 1 .. n - 1 : Before(i, j) = Before(i, k) => j = k
           /\ \A k \in 1 .. n : k # i => \E j \in 1 .. n - 1 : Before(i, j) = k
<1>1. \A k \in 1 .. n : k # i => \E j \in 1 .. n - 1 : Before(i, j) = k
  <2> TAKE k \in 1 .. n
  <2> HAVE k # i
  <2>1. CASE k < i
    <3>1. k \in 1 .. n - 1 /\ Before(i, k) = k
      BY <2>1 DEF Before
    <3>2. QED BY <3>1
  <2>2. CASE ~(k < i)
    <3>1. k - 1 \in 1 .. n - 1 /\ Before(i, k - 1) = k
      BY <2>2 DEF Before
    <3>2. QED BY <3>1
  <2>3. QED BY <2>1, <2>2
<1>2. QED BY <1>1 DEF Before

LEMMA OnCloseServerStep ==
    ASSUME IInv, NEW x \in Conns, OnCloseServer(x)
    PROVE  IInv'
<1> USE DEF IInv
<1> DEFINE n == Len(externalClientLists)
<1>1. PICK i \in ExternalPlaces(x) : EraseExternal(i)
  BY DEF OnCloseServer
<1>2. /\ externalClientLists \in Seq(External)
      /\ serverCounts \in Seq({-1})
      /\ foo \in Seq(Nat)
      /\ n \in Nat
      /\ DOMAIN externalClientLists = 1 .. n /\ DOMAIN foo = 1 .. n
      /\ Len(serverCounts) = n /\ Len(foo) = n
  BY LenProperties DEF TypeOK, ExternalAligned
<1>3. i \in 1 .. n /\ externalClientLists[i].connection = x /\ x \in Peers
  <2>1. i \in 1 .. n /\ externalClientLists[i].connection = x
    BY <1>2 DEF ExternalPlaces
  <2>2. externalClientLists[i] \in External
    BY <1>2, <2>1, ElementOfSeq
  <2>3. QED BY <2>1, <2>2 DEF External
<1>4. /\ externalClientLists' = RemoveAt(externalClientLists, i)
      /\ serverCounts' = RemoveAt(serverCounts, i)
      /\ foo' = RemoveAt(foo, i)
  BY <1>1 DEF EraseExternal
<1>5. /\ externalClientLists' \in Seq(External)
      /\ serverCounts' \in Seq({-1})
      /\ foo' \in Seq(Nat)
      /\ Len(externalClientLists') = n - 1
      /\ Len(serverCounts') = n - 1
      /\ Len(foo') = n - 1
      /\ DOMAIN externalClientLists' = 1 .. n - 1
      /\ DOMAIN foo' = 1 .. n - 1
  BY <1>2, <1>3, <1>4, RemoveAtProperties, ZenonT(40)
<1>6. \A j \in 1 .. n - 1 :
         /\ externalClientLists'[j] = externalClientLists[Before(i, j)]
         /\ foo'[j] = foo[Before(i, j)]
  <2>1. \A j \in 1 .. n - 1 :
           RemoveAt(externalClientLists, i)[j] = externalClientLists[Before(i, j)]
    BY <1>2, <1>3, RemoveAtProperties DEF Before
  <2>2. \A j \in 1 .. n - 1 : RemoveAt(foo, i)[j] = foo[Before(i, j)]
    <3>1. foo \in Seq(Nat) /\ Len(foo) = n /\ i \in 1 .. Len(foo)
      BY <1>2, <1>3
    <3>2. \A j \in 1 .. Len(foo) - 1 : RemoveAt(foo, i)[j] = foo[Before(i, j)]
      BY <3>1, RemoveAtProperties DEF Before
    <3>3. QED BY <3>1, <3>2
  <2>3. QED BY <1>4, <2>1, <2>2
<1>7. TypeOK'
  <2>1. UNCHANGED <<linkVars, helloed, sent, rosterVars, serverConnections, count,
                    heard, told, relayed>>
    BY DEF OnCloseServer
  <2>2. clientList' \in Seq(Keys)
    BY <2>1 DEF rosterVars, TypeOK
  <2>3. Run(clientConnections) /\ SendAllClientLists(clientConnections)
    BY DEF OnCloseServer
  <2>4. running' \in BOOLEAN /\ view' \in [Clients -> Seq(Frame)]
    BY <1>5, <2>2, <2>3, RunType, SendAllClientListsType DEF TypeOK
  <2>5. conn' \in [Conns -> ConnStates]
    BY DEF OnCloseServer, TypeOK, ConnStates
  <2>6. QED
    BY <1>5, <2>1, <2>4, <2>5 DEF TypeOK, LinkTypeOK, linkVars, rosterVars
<1>8. /\ ~Present(x)'
      /\ \A y \in Conns : y # x => (Present(y)' <=> Present(y))
  BY DEF OnCloseServer, Present, TypeOK
<1>9. RosterAligned'
  <2>1. \A c \in Clients : Present(c)' <=> Present(c)
    BY <1>3, <1>8, HostAssumption DEF Conns
  <2>2. QED BY <2>1, SameRoster DEF OnCloseServer, rosterVars
<1>10. ExternalAligned'
  <2>1. /\ \A j \in 1 .. n - 1 : Before(i, j) \in 1 .. n /\ Before(i, j) # i
        /\ \A j, k \in 1 .. n - 1 : j < k => Before(i, j) < Before(i, k)
        /\ \A j, k \in 1 .. n - 1 : Before(i, j) = Before(i, k) => j = k
        /\ \A k \in 1 .. n : k # i => \E j \in 1 .. n - 1 : Before(i, j) = k
    BY <1>2, <1>3, BeforeProperties
  <2>2. /\ \A j \in 1 .. n - 1 : foo'[j] < count'
        /\ \A j, k \in 1 .. n - 1 : j < k => foo'[j] < foo'[k]
    BY <1>2, <1>6, <2>1 DEF ExternalAligned, OnCloseServer
  <2>3. \A j, k \in 1 .. n - 1 :
           externalClientLists'[j].connection = externalClientLists'[k].connection
               => j = k
    BY <1>2, <1>6, <2>1 DEF ExternalAligned
  <2>4. \A p \in Peers :
           ExternalPlaces(p)' # {} <=> (p # x /\ ExternalPlaces(p) # {})
    <3> TAKE p \in Peers
    <3>1. ASSUME NEW j \in 1 .. n - 1, externalClientLists'[j].connection = p
          PROVE  p # x /\ \E k \in 1 .. n : externalClientLists[k].connection = p
      BY <1>2, <1>3, <1>6, <2>1, <3>1, ZenonT(40) DEF ExternalAligned
    <3>2. ASSUME p # x, NEW k \in 1 .. n, externalClientLists[k].connection = p
          PROVE  \E j \in 1 .. n - 1 : externalClientLists'[j].connection = p
      <4>1. k # i
        BY <1>3, <3>2
      <4>2. PICK j \in 1 .. n - 1 : Before(i, j) = k
        BY <2>1, <3>2, <4>1
      <4>3. QED BY <1>6, <3>2, <4>2
    <3>3. ExternalPlaces(p)' # {}
             <=> \E j \in 1 .. n - 1 : externalClientLists'[j].connection = p
      BY <1>5 DEF ExternalPlaces
    <3>4. ExternalPlaces(p) # {}
             <=> \E k \in 1 .. n : externalClientLists[k].connection = p
      BY <1>2 DEF ExternalPlaces
    <3>5. QED BY <3>1, <3>2, <3>3, <3>4
  <2>5. \A p \in Peers : ExternalPlaces(p)' # {} <=> Present(p)'
    BY <1>8, <2>4 DEF ExternalAligned, Conns
  <2>6. QED BY <1>5, <2>2, <2>3, <2>5 DEF ExternalAligned
<1>11. QED BY <1>7, <1>9, <1>10

LEMMA OnCloseStep ==
    ASSUME IInv, NEW x \in Conns, OnClose(x)
    PROVE  IInv'
BY OnCloseClientStep, OnCloseServerStep, OnCloseOtherStep DEF OnClose

-----------------------------------------------------------------------------
(* Messages.                                                               *)
LEMMA HelloStep ==
    ASSUME IInv, NEW c \in Clients, Hello(c)
    PROVE  IInv'
<1> USE DEF IInv
<1> DEFINE n == Len(clientConnections)
<1>1. PICK plan :
         /\ Run(plan) /\ SendClientUpdate(plan) /\ SendAllClientLists(plan)
         /\ clientCounts' = Append(clientCounts, IF Completes(plan) THEN 0 ELSE -1)
  BY DEF Hello
<1>2. /\ clientList' = Append(clientList, KeyOf[c])
      /\ clientConnections' = Append(clientConnections, c)
      /\ helloed' = [helloed EXCEPT ![c] = TRUE]
      /\ UNCHANGED <<linkVars, conn, sent, externalVars, heard, relayed>>
      /\ conn[c] = "open" /\ ~helloed[c]
  BY DEF Hello, Receives
<1>3. /\ clientConnections \in Seq(Clients)
      /\ clientList \in Seq(Keys)
      /\ clientCounts \in Seq(-1 .. MaxChats)
      /\ n \in Nat
      /\ DOMAIN clientConnections = 1 .. n
      /\ Len(clientList) = n /\ Len(clientCounts) = n
  BY LenProperties DEF TypeOK, RosterAligned
<1>4. /\ KeyOf[c] \in Keys
      /\ (IF Completes(plan) THEN 0 ELSE -1) \in -1 .. MaxChats
  BY HostAssumption DEF Keys
<1>5. /\ clientConnections' \in Seq(Clients)
      /\ clientList' \in Seq(Keys)
      /\ clientCounts' \in Seq(-1 .. MaxChats)
      /\ Len(clientConnections') = n + 1
      /\ Len(clientList') = n + 1
      /\ Len(clientCounts') = n + 1
      /\ DOMAIN clientConnections' = 1 .. n + 1
  BY <1>1, <1>2, <1>3, <1>4
<1>6. TypeOK'
  <2>1. running' \in BOOLEAN /\ told' \in [Sockets -> Seq(Seq(Keys))]
    BY <1>1, <1>5, RunType, SendClientUpdateType DEF TypeOK
  <2>2. externalClientLists' \in Seq(External)
    BY <1>2 DEF externalVars, TypeOK
  <2>3. view' \in [Clients -> Seq(Frame)]
    BY <1>1, <1>5, <2>2, SendAllClientListsType DEF TypeOK
  <2>4. helloed' \in [Conns -> BOOLEAN]
    BY <1>2 DEF TypeOK
  <2>5. QED
    BY <1>2, <1>5, <2>1, <2>3, <2>4 DEF TypeOK, LinkTypeOK, linkVars, externalVars
<1>7. /\ ~Present(c) /\ Present(c)'
      /\ \A y \in Conns : y # c => (Present(y)' <=> Present(y))
  BY <1>2 DEF Present, TypeOK, Conns
<1>8. RosterAligned'
  <2>1. c \notin ToSet(clientConnections)
    BY <1>7, IsClientToSet DEF RosterAligned
  <2>2. \A j \in 1 .. n + 1 :
           /\ clientConnections'[j] = IF j = n + 1 THEN c ELSE clientConnections[j]
           /\ clientList'[j] = IF j = n + 1 THEN KeyOf[c] ELSE clientList[j]
    BY <1>2, <1>3
  <2>3. IsInjective(clientConnections')
    BY <1>3, <1>5, <2>1, <2>2 DEF RosterAligned, IsInjective, ToSet
  <2>4. \A j \in 1 .. n + 1 : clientList'[j] = KeyOf[clientConnections'[j]]
    BY <1>3, <2>2 DEF RosterAligned
  <2>5. \A d \in Clients : IsClient(d)' <=> (d = c \/ IsClient(d))
    <3>1. /\ clientConnections'[n + 1] = c /\ n + 1 \in 1 .. n + 1
          /\ \A j \in 1 .. n : clientConnections'[j] = clientConnections[j]
                               /\ j \in 1 .. n + 1
          /\ \A j \in 1 .. n + 1 : j = n + 1 \/ j \in 1 .. n
      BY <1>3, <2>2
    <3>2. QED BY <1>3, <1>5, <3>1 DEF IsClient, Places
  <2>6. \A d \in Clients : IsClient(d)' <=> Present(d)'
    BY <1>7, <2>5 DEF RosterAligned, Conns
  <2>7. QED BY <1>5, <2>3, <2>4, <2>6 DEF RosterAligned
<1>9. ExternalAligned'
  <2>1. \A p \in Peers : Present(p)' <=> Present(p)
    BY <1>7, HostAssumption DEF Conns
  <2>2. QED BY <1>2, <2>1, SameExternal DEF externalVars
<1>10. QED BY <1>6, <1>8, <1>9

LEMMA ClientListRequestStep ==
    ASSUME IInv, NEW c \in Clients, ClientListRequest(c)
    PROVE  IInv'
<1> USE DEF IInv
<1>1. /\ UNCHANGED <<linkVars, running, conn, helloed, sent, rosterVars,
                     externalVars, heard, told, relayed>>
      /\ SendAllClientLists(<<c>>)
  BY DEF ClientListRequest
<1>2. clientList' \in Seq(Keys) /\ externalClientLists' \in Seq(External)
  BY <1>1 DEF TypeOK, rosterVars, externalVars
<1>3. view' \in [Clients -> Seq(Frame)]
  BY <1>1, <1>2, SendAllClientListsType DEF TypeOK
<1>4. TypeOK'
  BY <1>1, <1>3 DEF TypeOK, LinkTypeOK, linkVars, rosterVars, externalVars
<1>5. \A y \in Conns : Present(y)' <=> Present(y)
  BY <1>1 DEF Present
<1>6. RosterAligned' /\ ExternalAligned'
  BY <1>1, <1>5, SameRoster, SameExternal DEF rosterVars, externalVars, Conns
<1>7. QED BY <1>4, <1>6

LEMMA ClientUpdateRequestStep ==
    ASSUME IInv, NEW p \in Peers, ClientUpdateRequest(p)
    PROVE  IInv'
<1> USE DEF IInv
<1>1. /\ UNCHANGED <<linkVars, conn, helloed, sent, rosterVars, externalVars,
                     view, heard, relayed>>
      /\ Run(socketList) /\ SendClientUpdate(socketList)
  BY DEF ClientUpdateRequest
<1>2. clientList' \in Seq(Keys)
  BY <1>1 DEF TypeOK, rosterVars
<1>3. told' \in [Sockets -> Seq(Seq(Keys))] /\ running' \in BOOLEAN
  BY <1>1, <1>2, RunType, SendClientUpdateType DEF TypeOK
<1>4. TypeOK'
  BY <1>1, <1>3 DEF TypeOK, LinkTypeOK, linkVars, rosterVars, externalVars
<1>5. \A y \in Conns : Present(y)' <=> Present(y)
  BY <1>1 DEF Present
<1>6. RosterAligned' /\ ExternalAligned'
  BY <1>1, <1>5, SameRoster, SameExternal DEF rosterVars, externalVars, Conns
<1>7. QED BY <1>4, <1>6

LEMMA RefuseUpdateRequestStep ==
    ASSUME IInv, NEW p \in Peers, RefuseUpdateRequest(p)
    PROVE  IInv'
<1> USE DEF IInv
<1>1. TypeOK'
  BY DEF RefuseUpdateRequest, Close, TypeOK, LinkTypeOK, linkVars, rosterVars,
         externalVars, ConnStates, Conns
<1>2. \A y \in Conns : Present(y)' <=> Present(y)
  BY DEF RefuseUpdateRequest, Receives, Close, Present, TypeOK, Conns
<1>3. RosterAligned' /\ ExternalAligned'
  BY <1>2, SameRoster, SameExternal DEF RefuseUpdateRequest, rosterVars, externalVars,
     Conns
<1>4. QED BY <1>1, <1>3

LEMMA ClientUpdateStep ==
    ASSUME IInv, NEW p \in Peers, NEW list \in RemoteLists, ClientUpdate(p, list)
    PROVE  IInv'
<1> USE DEF IInv
<1> DEFINE n == Len(externalClientLists)
           Updated == [i \in DOMAIN externalClientLists |->
                          IF i \in ExternalPlaces(p)
                          THEN [externalClientLists[i] EXCEPT !.clientList = list]
                          ELSE externalClientLists[i]]
<1>1. /\ externalClientLists' = Updated
      /\ UNCHANGED <<linkVars, conn, helloed, sent, rosterVars, serverConnections,
                     serverCounts, foo, count, heard, told, relayed>>
      /\ Run(clientConnections) /\ SendAllClientLists(clientConnections)
  BY DEF ClientUpdate
<1>2. n \in Nat /\ DOMAIN externalClientLists = 1 .. n
      /\ \A i \in 1 .. n : externalClientLists[i] \in External
  BY LenProperties, ElementOfSeq DEF TypeOK
<1>3. \A i \in 1 .. n :
         /\ Updated[i] \in External
         /\ Updated[i].connection = externalClientLists[i].connection
  BY <1>2 DEF External
<1>4. Updated \in Seq(External) /\ Len(Updated) = n /\ DOMAIN Updated = 1 .. n
  <2>1. Updated \in [1 .. n -> External]
    BY <1>2, <1>3
  <2>2. Updated \in Seq(External)
    BY <1>2, <2>1, SeqDef
  <2>3. QED BY <1>2, <2>1, <2>2, LenProperties
<1> HIDE DEF Updated
<1>5. clientList' \in Seq(Keys) /\ externalClientLists' \in Seq(External)
  BY <1>1, <1>4 DEF TypeOK, rosterVars
<1>6. view' \in [Clients -> Seq(Frame)] /\ running' \in BOOLEAN
  BY <1>1, <1>5, SendAllClientListsType, RunType DEF TypeOK
<1>7. TypeOK'
  BY <1>1, <1>5, <1>6 DEF TypeOK, LinkTypeOK, linkVars, rosterVars
<1>8. \A y \in Conns : Present(y)' <=> Present(y)
  BY <1>1 DEF Present
<1>9. RosterAligned'
  BY <1>1, <1>8, SameRoster DEF rosterVars, Conns
<1>10. ExternalAligned'
  <2>1. \A q : ExternalPlaces(q)' = ExternalPlaces(q)
    BY <1>1, <1>2, <1>3, <1>4 DEF ExternalPlaces
  <2>2. QED
    BY <1>1, <1>2, <1>3, <1>4, <1>8, <2>1 DEF ExternalAligned, Conns
<1>11. QED BY <1>7, <1>9, <1>10

LEMMA ServerHelloStep ==
    ASSUME IInv, NEW p \in Peers, ServerHello(p)
    PROVE  IInv'
<1> USE DEF IInv
<1> DEFINE n == Len(externalClientLists)
           entry == [address |-> AddrOf[p], connection |-> p, clientList |-> <<>>]
<1>1. /\ helloed' = [helloed EXCEPT ![p] = TRUE]
      /\ conn' \in {conn, [conn EXCEPT ![p] = "closing"]}
      /\ conn[p] = "open" /\ ~helloed[p]
      /\ serverConnections' = Append(serverConnections, p)
      /\ externalClientLists' = Append(externalClientLists, entry)
      /\ serverCounts' = Append(serverCounts, -1)
      /\ foo' = Append(foo, count)
      /\ count' = count + 1
      /\ Run(socketList)
      /\ UNCHANGED <<linkVars, sent, rosterVars, view, heard, told, relayed>>
  BY DEF ServerHello, Receives, Close
<1>2. /\ externalClientLists \in Seq(External)
      /\ serverCounts \in Seq({-1})
      /\ foo \in Seq(Nat) /\ count \in Nat
      /\ n \in Nat
      /\ DOMAIN externalClientLists = 1 .. n /\ DOMAIN foo = 1 .. n
      /\ Len(serverCounts) = n /\ Len(foo) = n
  BY LenProperties DEF TypeOK, ExternalAligned
<1>3. entry \in External /\ entry.connection = p
  BY DEF External
<1> HIDE DEF entry
<1>4. /\ externalClientLists' \in Seq(External)
      /\ serverCounts' \in Seq({-1})
      /\ foo' \in Seq(Nat)
      /\ Len(externalClientLists') = n + 1
      /\ Len(serverCounts') = n + 1
      /\ Len(foo') = n + 1
      /\ DOMAIN externalClientLists' = 1 .. n + 1
      /\ DOMAIN foo' = 1 .. n + 1
  BY <1>1, <1>2, <1>3
<1>5. TypeOK'
  <2>1. running' \in BOOLEAN
    BY <1>1, RunType
  <2>2. /\ conn' \in [Conns -> ConnStates]
        /\ helloed' \in [Conns -> BOOLEAN]
    BY <1>1 DEF TypeOK, ConnStates
  <2>3. serverConnections' \in Seq(Peers) /\ count' \in Nat
    BY <1>1 DEF TypeOK
  <2>4. QED
    BY <1>1, <1>4, <2>1, <2>2, <2>3 DEF TypeOK, LinkTypeOK, linkVars, rosterVars
<1>6. /\ ~Present(p) /\ Present(p)'
      /\ \A y \in Conns : y # p => (Present(y)' <=> Present(y))
  BY <1>1 DEF Present, TypeOK, Conns
<1>7. RosterAligned'
  <2>1. \A c \in Clients : Present(c)' <=> Present(c)
    BY <1>6, HostAssumption DEF Conns
  <2>2. QED BY <1>1, <2>1, SameRoster DEF rosterVars
<1>8. ExternalAligned'
  <2>1. \A j \in 1 .. n + 1 :
           /\ externalClientLists'[j] =
                  IF j = n + 1 THEN entry ELSE externalClientLists[j]
           /\ foo'[j] = IF j = n + 1 THEN count ELSE foo[j]
    BY <1>1, <1>2
  <2>2. \A j \in 1 .. n : externalClientLists[j].connection # p
    BY <1>2, <1>6 DEF ExternalAligned, ExternalPlaces
  <2> DEFINE new == externalClientLists'
             late == foo'
  <2>3. /\ new[n + 1] = entry /\ late[n + 1] = count /\ n + 1 \in 1 .. n + 1
        /\ \A j \in 1 .. n : /\ new[j] = externalClientLists[j]
                             /\ late[j] = foo[j]
                             /\ j \in 1 .. n + 1
        /\ \A j \in 1 .. n + 1 : j = n + 1 \/ j \in 1 .. n
    <3>1. /\ n + 1 \in 1 .. n + 1
          /\ \A j \in 1 .. n : j \in 1 .. n + 1 /\ j # n + 1
          /\ \A j \in 1 .. n + 1 : j = n + 1 \/ j \in 1 .. n
      BY <1>2
    <3>2. \A j \in 1 .. n : new[j] = externalClientLists[j] /\ late[j] = foo[j]
      BY <2>1, <3>1
    <3>3. new[n + 1] = entry /\ late[n + 1] = count
      BY <2>1, <3>1
    <3> HIDE DEF new, late
    <3>4. QED BY <3>1, <3>2, <3>3
  <2>4. /\ \A j \in 1 .. n : foo[j] \in Nat /\ foo[j] < count
        /\ \A j, k \in 1 .. n : j < k => foo[j] < foo[k]
    BY <1>2, ElementOfSeq DEF ExternalAligned
  <2>5. /\ \A j \in 1 .. n + 1 : foo'[j] < count'
        /\ \A j, k \in 1 .. n + 1 : j < k => foo'[j] < foo'[k]
    <3>1. \A j \in 1 .. n + 1 : late[j] < count + 1
      BY <1>2, <2>3, <2>4
    <3>2. ASSUME NEW j \in 1 .. n + 1, NEW k \in 1 .. n + 1, j < k
          PROVE  late[j] < late[k]
      <4>1. j \in 1 .. n
        BY <1>2, <3>2
      <4>2. CASE k = n + 1
        BY <1>2, <2>3, <2>4, <4>1, <4>2
      <4>3. CASE k \in 1 .. n
        BY <2>3, <2>4, <3>2, <4>1, <4>3
      <4>4. QED BY <2>3, <4>2, <4>3
    <3>3. QED BY <1>1, <3>1, <3>2
  <2>6. \A j, k \in 1 .. n + 1 :
           externalClientLists'[j].connection = externalClientLists'[k].connection
               => j = k
    <3>1. \A j, k \in 1 .. n :
             externalClientLists[j].connection = externalClientLists[k].connection
                 => j = k
      BY <1>2 DEF ExternalAligned
    <3> HIDE DEF new
    <3>2. \A j, k \in 1 .. n + 1 : new[j].connection = new[k].connection => j = k
      BY <1>3, <2>2, <2>3, <3>1
    <3>3. QED BY <3>2 DEF new
  <2>7. \A q \in Peers :
           ExternalPlaces(q)' # {} <=> (q = p \/ ExternalPlaces(q) # {})
    BY <1>2, <1>3, <1>4, <2>3 DEF ExternalPlaces
  <2>8. \A q \in Peers : ExternalPlaces(q)' # {} <=> Present(q)'
    BY <1>6, <2>7 DEF ExternalAligned, Conns
  <2>9. QED BY <1>4, <2>5, <2>6, <2>8 DEF ExternalAligned
<1>9. QED BY <1>5, <1>7, <1>8

LEMMA DeliverStep ==
    ASSUME IInv, NEW x \in Conns, NEW plan, Deliver(x, plan)
    PROVE  IInv'
<1> USE DEF IInv
<1> DEFINE chat == NextChat(x)
<1>1. /\ sent[x] < MaxChats /\ sent' = [sent EXCEPT ![x] = @ + 1]
      /\ clientCounts' = CountsAfter(x, chat.n)
      /\ Run(plan) /\ SendChat(plan, chat)
      /\ UNCHANGED <<linkVars, conn, helloed, clientList, clientConnections,
                     externalVars, view, told>>
  BY DEF Deliver, TakesChat
<1>2. /\ sent[x] \in 0 .. MaxChats
      /\ MaxChats \in Nat
  BY HostAssumption DEF TypeOK
<1>3. chat \in Chats /\ chat.n \in -1 .. MaxChats
  BY <1>1, <1>2 DEF NextChat, Chats
<1> HIDE DEF chat
<1>4. sent' \in [Conns -> 0 .. MaxChats]
  BY <1>1, <1>2 DEF TypeOK
<1>5. clientCounts' \in Seq(-1 .. MaxChats) /\ Len(clientCounts') = Len(clientCounts)
  <2> DEFINE n == Len(clientCounts)
  <2>1. n \in Nat /\ DOMAIN clientCounts = 1 .. n
        /\ \A i \in 1 .. n : clientCounts[i] \in -1 .. MaxChats
    BY LenProperties, ElementOfSeq DEF TypeOK
  <2>2. CountsAfter(x, chat.n) \in [1 .. n -> -1 .. MaxChats]
    BY <1>3, <2>1 DEF CountsAfter
  <2>3. CountsAfter(x, chat.n) \in Seq(-1 .. MaxChats)
    BY <2>1, <2>2, SeqDef
  <2>4. QED BY <1>1, <2>1, <2>2, <2>3, LenProperties
<1>6. /\ heard' \in [Clients -> Seq(Chats)]
      /\ relayed' \in [Sockets -> Seq(Chats)]
  BY <1>1, <1>3 DEF SendChat, TypeOK
<1>7. TypeOK'
  <2>1. running' \in BOOLEAN
    BY <1>1, RunType
  <2>2. QED
    BY <1>1, <1>4, <1>5, <1>6, <2>1 DEF TypeOK, LinkTypeOK, linkVars, externalVars
<1>8. \A y \in Conns : Present(y)' <=> Present(y)
  BY <1>1 DEF Present
<1>9. RosterAligned' /\ ExternalAligned'
  BY <1>1, <1>5, <1>8, SameRoster, SameExternal DEF externalVars, Conns
<1>10. QED BY <1>7, <1>9

LEMMA RefuseChatStep ==
    ASSUME IInv, NEW x \in Conns, RefuseChat(x)
    PROVE  IInv'
<1> USE DEF IInv
<1>1. /\ running /\ conn[x] = "open"
      /\ sent[x] < MaxChats /\ sent' = [sent EXCEPT ![x] = @ + 1]
      /\ conn' = [conn EXCEPT ![x] = "closing"]
      /\ UNCHANGED <<linkVars, running, helloed, rosterVars, externalVars,
                     view, heard, told, relayed>>
  BY DEF RefuseChat, TakesChat, Receives, Close
<1>2. sent' \in [Conns -> 0 .. MaxChats]
  BY <1>1, HostAssumption DEF TypeOK
<1>3. TypeOK'
  BY <1>1, <1>2 DEF TypeOK, LinkTypeOK, linkVars, rosterVars, externalVars, ConnStates
<1>4. \A y \in Conns : Present(y)' <=> Present(y)
  BY <1>1 DEF Present, TypeOK
<1>5. RosterAligned' /\ ExternalAligned'
  BY <1>1, <1>4, SameRoster, SameExternal DEF rosterVars, externalVars, Conns
<1>6. QED BY <1>3, <1>5

(* The links change nothing of the host.                                   *)
LEMMA LinkStepInv ==
    ASSUME IInv, LinkNext, UNCHANGED hostVars
    PROVE  IInv'
<1> USE DEF IInv
<1>1. LinkTypeOK'
  <2>1. PICK s \in Sockets : LinkStep(s)
    BY DEF LinkNext
  <2>2. socketList \in Seq(Sockets) /\ link \in [Sockets -> LinkStates]
    BY DEF TypeOK, LinkTypeOK
  <2>3. CASE AddSocket(s)
    BY <2>2, <2>3 DEF AddSocket, LinkTypeOK
  <2>4. CASE OpenLink(s)
    BY <2>2, <2>4 DEF OpenLink, LinkTypeOK, LinkStates
  <2>5. CASE BreakLink(s)
    BY <2>2, <2>5 DEF BreakLink, LinkTypeOK, LinkStates
  <2>6. CASE DropLink(s)
    BY <2>2, <2>6 DEF DropLink, LinkTypeOK, LinkStates
  <2>7. QED BY <2>1, <2>3, <2>4, <2>5, <2>6 DEF LinkStep
<1>2. UNCHANGED <<running, conn, helloed, sent, rosterVars, externalVars,
                 view, heard, told, relayed>>
  BY DEF hostVars
<1>3. TypeOK'
  BY <1>1, <1>2 DEF TypeOK, rosterVars, externalVars
<1>4. \A y \in Conns : Present(y)' <=> Present(y)
  BY <1>2 DEF Present
<1>5. RosterAligned' /\ ExternalAligned'
  BY <1>2, <1>4, SameRoster, SameExternal DEF rosterVars, externalVars, Conns
<1>6. QED BY <1>3, <1>5

-----------------------------------------------------------------------------
LEMMA InitInv == Init => IInv
<1> SUFFICES ASSUME Init PROVE IInv
  OBVIOUS
<1>1. TypeOK
  BY HostAssumption
  DEF Init, LinkInit, TypeOK, LinkTypeOK, LinkStates, ConnStates
<1>2. RosterAligned
  BY DEF Init, RosterAligned, IsClient, Places, Present, IsInjective, Conns
<1>3. ExternalAligned
  BY DEF Init, ExternalAligned, ExternalPlaces, Present, Conns
<1>4. QED BY <1>1, <1>2, <1>3 DEF IInv

LEMMA NextInv == IInv /\ [Next]_vars => IInv'
<1> SUFFICES ASSUME IInv, [Next]_vars PROVE IInv'
  OBVIOUS
<1>1. ASSUME NEW x \in Conns, ConnStep(x) PROVE IInv'
  BY <1>1, AcceptStep, RemoteCloseStep, OnCloseStep DEF ConnStep
<1>2. ASSUME NEW x \in Conns, ChatStep(x) PROVE IInv'
  BY <1>2, DeliverStep, RefuseChatStep DEF ChatStep, Chat, PublicChat
<1>3. ASSUME NEW c \in Clients, ClientStep(c) PROVE IInv'
  BY <1>3, HelloStep, ClientListRequestStep DEF ClientStep
<1>4. ASSUME NEW p \in Peers, PeerStep(p) PROVE IInv'
  BY <1>4, ServerHelloStep, ClientUpdateRequestStep, RefuseUpdateRequestStep,
     ClientUpdateStep DEF PeerStep
<1>5. CASE LinkNext /\ UNCHANGED hostVars
  BY <1>5, LinkStepInv
<1>6. CASE UNCHANGED vars
  <2>1. UNCHANGED <<linkVars, running, conn, helloed, sent, rosterVars, externalVars,
                   view, heard, told, relayed>>
    BY <1>6 DEF vars, hostVars
  <2>2. TypeOK'
    BY <2>1 DEF IInv, TypeOK, LinkTypeOK, linkVars, rosterVars, externalVars
  <2>3. \A y \in Conns : Present(y)' <=> Present(y)
    BY <2>1 DEF Present
  <2>4. RosterAligned' /\ ExternalAligned'
    BY <2>1, <2>3, SameRoster, SameExternal DEF IInv, rosterVars, externalVars, Conns
  <2>5. QED BY <2>2, <2>4 DEF IInv
<1>7. QED BY <1>1, <1>2, <1>3, <1>4, <1>5, <1>6 DEF Next

(* In every reachable state, whatever the clients, peers, sockets and      *)
(* bounds: the variables of the host are well-typed, its parallel lists of *)
(* clients name each present client once and stay aligned, and so do its   *)
(* parallel lists of servers.                                              *)
THEOREM Inductive == Spec => []IInv
<1>1. QED BY InitInv, NextInv, PTL DEF Spec

(* Type correctness.                                                       *)
THEOREM TypeCorrect == Spec => []TypeOK
<1>1. IInv => TypeOK
  BY DEF IInv
<1>2. QED BY <1>1, Inductive, PTL

(* clientList, clientConnections and clientCounts, changed by AddClient,   *)
(* ValidCount and OnClose with list positions, never come apart.           *)
THEOREM RosterStaysAligned == Spec => []RosterAligned
<1>1. IInv => RosterAligned
  BY DEF IInv
<1>2. QED BY <1>1, Inductive, PTL

(* externalClientLists, serverCounts and foo never come apart.             *)
THEOREM ExternalStaysAligned == Spec => []ExternalAligned
<1>1. IInv => ExternalAligned
  BY DEF IInv
<1>2. QED BY <1>1, Inductive, PTL

-----------------------------------------------------------------------------
(* The rosters: OwnKeyShown, RosterPushed, ToldIsCurrent and               *)
(* OnlyWhitelistedContribute.                                              *)
(*                                                                         *)
(* They rest on IInv and on three facts about single connections (ConnInv, *)
(* Judged, Dialled).  A step is seen by its effect: on a connection        *)
(* (ConnEffect), on what clients are shown (ViewEffect) or on what other   *)
(* servers are told (ToldEffect).                                          *)

(* Nothing is handled of a connection before it was accepted.              *)
ConnInv == \A x \in Conns : helloed[x] => conn[x] # "none"

(* A server that said hello and is not on the whitelist is being closed.   *)
Judged == \A p \in Peers : helloed[p] /\ conn[p] = "open" => CheckServerSignature(p)

(* A link opens after its socket was listed, and is told nothing before.   *)
Dialled ==
    \A s \in Sockets :
        /\ link[s] # "idle" => s \in ToSet(socketList)
        /\ link[s] = "idle" => told[s] = <<>>

-----------------------------------------------------------------------------
(* Plans.                                                                  *)
(* A handler reaches targets of its plan only, and all of them when no     *)
(* send throws.                                                            *)
LEMMA ReachedOfPlan ==
    ASSUME NEW T, NEW plan \in Seq(T)
    PROVE  /\ Reached(plan) \subseteq ToSet(plan)
           /\ Completes(plan) => Reached(plan) = ToSet(plan)
<1>1. Len(plan) \in Nat /\ DOMAIN plan = 1 .. Len(plan)
  BY LenProperties
<1>2. \A i \in DOMAIN plan : \A j \in 1 .. i : j \in DOMAIN plan
  BY <1>1
<1>3. Reached(plan) \subseteq ToSet(plan)
  BY DEF Reached, ToSet
<1>4. ASSUME Completes(plan) PROVE ToSet(plan) \subseteq Reached(plan)
  BY <1>2, <1>4 DEF Completes, Reached, ToSet
<1>5. QED BY <1>3, <1>4

(* The two loops of a roster change: all sockets, then all clients.        *)
LEMMA BroadcastPlan ==
    ASSUME NEW sockets \in Seq(Sockets), NEW clients \in Seq(Clients)
    PROVE  /\ sockets \o clients \in Seq(Sockets \cup Clients)
           /\ ToSet(sockets \o clients) \cap Clients = ToSet(clients)
           /\ ToSet(sockets \o clients) \cap Sockets = ToSet(sockets)
<1>1. sockets \in Seq(Sockets \cup Clients) /\ clients \in Seq(Sockets \cup Clients)
  BY SeqMonotonic
<1>2. /\ sockets \o clients \in Seq(Sockets \cup Clients)
      /\ ToSet(sockets \o clients) = ToSet(sockets) \cup ToSet(clients)
  BY <1>1, ToSetConcat
<1>3. ToSet(sockets) \subseteq Sockets /\ ToSet(clients) \subseteq Clients
  BY LenProperties, ElementOfSeq DEF ToSet
<1>4. Sockets \cap Clients = {}
  BY HostAssumption DEF Conns
<1>5. QED BY <1>2, <1>3, <1>4

-----------------------------------------------------------------------------
(* What a step may do to a connection.                                     *)
ConnEffect(x) ==
    /\ conn'[x] = "none" => conn[x] = "none"
    /\ conn'[x] = "open" => conn[x] \in {"none", "open"}
    /\ conn[x] = "none" => helloed'[x] = helloed[x]
    /\ helloed'[x] # helloed[x] =>
           conn[x] = "open" /\ (x \in Peers => CheckServerSignature(x) \/ conn'[x] # "open")

LEMMA ConnEffects ==
    ASSUME IInv, [Next]_vars
    PROVE  \A x \in Conns : ConnEffect(x)
<1> SUFFICES ASSUME NEW x \in Conns PROVE ConnEffect(x)
  OBVIOUS
<1>0. conn \in [Conns -> ConnStates] /\ helloed \in [Conns -> BOOLEAN]
  BY DEF IInv, TypeOK
<1>1. CASE UNCHANGED <<conn, helloed>>
  BY <1>1 DEF ConnEffect
<1>2. ASSUME NEW y \in Conns, ConnStep(y) PROVE ConnEffect(x)
  BY <1>0, <1>2
  DEF ConnStep, Accept, RemoteClose, Receives, Close, OnClose, OnCloseClient,
      OnCloseServer, OnCloseOther, ConnEffect
<1>3. ASSUME NEW y \in Conns, RefuseChat(y) \/ RefuseUpdateRequest(y)
      PROVE  ConnEffect(x)
  BY <1>0, <1>3 DEF RefuseChat, TakesChat, RefuseUpdateRequest, Receives, Close, ConnEffect
<1>4. ASSUME NEW c \in Clients, Hello(c) PROVE ConnEffect(x)
  <2>1. c \notin Peers
    BY HostAssumption
  <2>2. QED BY <1>0, <1>4, <2>1 DEF Hello, Receives, ConnEffect
<1>5. ASSUME NEW p \in Peers, ServerHello(p) PROVE ConnEffect(x)
  BY <1>0, <1>5 DEF ServerHello, Receives, Close, ConnEffect, Conns
<1>6. QED
  BY <1>1, <1>2, <1>3, <1>4, <1>5
  DEF Next, ChatStep, Chat, PublicChat, Deliver, ClientStep, ClientListRequest,
      PeerStep, ClientUpdateRequest, ClientUpdate, hostVars, vars, Conns

LEMMA ConnInvStep ==
    ASSUME IInv, ConnInv, Judged, [Next]_vars
    PROVE  ConnInv' /\ Judged'
<1>1. \A x \in Conns : ConnEffect(x)
  BY ConnEffects
<1>2. ConnInv'
  BY <1>1 DEF ConnInv, ConnEffect
<1>3. \A p \in Peers : CheckServerSignature(p)' <=> CheckServerSignature(p)
  BY DEF CheckServerSignature
<1>4. Judged'
  BY <1>1, <1>3 DEF ConnInv, Judged, ConnEffect, Conns
<1>5. QED BY <1>2, <1>4

-----------------------------------------------------------------------------
(* The client_list message: the local list first, then one per peer.       *)
LEMMA ClientListsFrames ==
    ASSUME NEW local, NEW external \in Seq(External)
    PROVE  LET frames == ClientListsOf(local, external)
               n == Len(external)
           IN  /\ DOMAIN frames = 1 .. n + 1
               /\ frames[1] = [address |-> MyAddress, clients |-> local]
               /\ \A i \in 1 .. n :
                     frames[i + 1] = [address |-> external[i].address,
                                      clients |-> external[i].clientList]
<1> DEFINE n == Len(external)
           Of(i) == [address |-> external[i].address, clients |-> external[i].clientList]
           rest == [i \in DOMAIN external |-> Of(i)]
           first == [address |-> MyAddress, clients |-> local]
           Sendable == {first} \cup {Of(i) : i \in 1 .. n}
<1>1. n \in Nat /\ DOMAIN external = 1 .. n
  BY LenProperties
<1>2. rest \in Seq(Sendable) /\ Len(rest) = n /\ \A i \in 1 .. n : rest[i] = Of(i)
  <2>1. rest \in [1 .. n -> Sendable]
    BY <1>1
  <2>2. rest \in Seq(Sendable)
    BY <1>1, <2>1, SeqDef
  <2>3. QED BY <1>1, <2>1, <2>2, LenProperties
<1>3. /\ <<first>> \in Seq(Sendable) /\ Len(<<first>>) = 1 /\ <<first>>[1] = first
  OBVIOUS
<1> HIDE DEF rest, first, Sendable, Of, n
<1> DEFINE frames == <<first>> \o rest
<1>4. /\ frames \in Seq(Sendable)
      /\ Len(frames) = 1 + n
      /\ \A i \in 1 .. 1 + n : frames[i] = IF i <= 1 THEN <<first>>[i] ELSE rest[i - 1]
  BY <1>2, <1>3, ConcatProperties
<1>5. DOMAIN frames = 1 .. n + 1
  BY <1>1, <1>4, LenProperties
<1>6. frames[1] = first
  BY <1>1, <1>3, <1>4
<1>7. ASSUME NEW i \in 1 .. n PROVE frames[i + 1] = Of(i)
  <2>1. i + 1 \in 1 .. 1 + n /\ ~(i + 1 <= 1) /\ (i + 1) - 1 = i
    BY <1>1
  <2>2. QED BY <1>2, <1>4, <2>1
<1>8. frames = ClientListsOf(local, external)
  BY DEF ClientListsOf, first, rest, Of
<1>9. QED BY <1>5, <1>6, <1>7, <1>8 DEF first, Of, n

(* The pairs a client_list shows, by the list they come from.              *)
LEMMA ShownPairs ==
    ASSUME NEW local, NEW external \in Seq(External), NEW e
    PROVE  e \in Shown(ClientListsOf(local, external)) <=>
               \/ \E k \in ToSet(local) : e = <<MyAddress, k>>
               \/ \E i \in 1 .. Len(external) :
                      \E k \in ToSet(external[i].clientList) :
                          e = <<external[i].address, k>>
<1> DEFINE n == Len(external)
           frames == ClientListsOf(local, external)
<1>1. n \in Nat
  BY LenProperties
<1>2. /\ DOMAIN frames = 1 .. n + 1
      /\ frames[1].address = MyAddress /\ frames[1].clients = local
      /\ \A i \in 1 .. n : /\ frames[i + 1].address = external[i].address
                           /\ frames[i + 1].clients = external[i].clientList
  <2>1. /\ DOMAIN frames = 1 .. n + 1
        /\ frames[1] = [address |-> MyAddress, clients |-> local]
        /\ \A i \in 1 .. n :
              frames[i + 1] = [address |-> external[i].address,
                               clients |-> external[i].clientList]
    BY ClientListsFrames
  <2> HIDE DEF frames, n
  <2>2. frames[1].address = MyAddress /\ frames[1].clients = local
    BY <2>1
  <2>3. ASSUME NEW i \in 1 .. n
        PROVE  /\ frames[i + 1].address = external[i].address
               /\ frames[i + 1].clients = external[i].clientList
    <3>1. frames[i + 1] = [address |-> external[i].address,
                           clients |-> external[i].clientList]
      BY <2>1
    <3>2. QED BY <3>1
  <2>4. QED BY <2>1, <2>2, <2>3
<1> HIDE DEF n, frames
<1>3. e \in Shown(frames) <=>
          \E i \in 1 .. n + 1 : \E k \in ToSet(frames[i].clients) :
              e = <<frames[i].address, k>>
  BY <1>2 DEF Shown
<1>4. /\ 1 \in 1 .. n + 1
      /\ \A i \in 1 .. n : i + 1 \in 1 .. n + 1
      /\ \A i \in 1 .. n + 1 : i = 1 \/ (i - 1 \in 1 .. n /\ i = (i - 1) + 1)
  BY <1>1
<1>5. ASSUME NEW i \in 1 .. n + 1, NEW k \in ToSet(frames[i].clients),
             e = <<frames[i].address, k>>
      PROVE  \/ \E m \in ToSet(local) : e = <<MyAddress, m>>
             \/ \E j \in 1 .. n : \E m \in ToSet(external[j].clientList) :
                    e = <<external[j].address, m>>
  <2>1. CASE i = 1
    BY <1>2, <1>5, <2>1
  <2>2. CASE i - 1 \in 1 .. n /\ i = (i - 1) + 1
    <3>1. PICK j \in 1 .. n : i = j + 1
      BY <2>2
    <3>2. k \in ToSet(external[j].clientList) /\ e = <<external[j].address, k>>
      BY <1>2, <1>5, <3>1
    <3>3. QED BY <3>2
  <2>3. QED BY <1>4, <2>1, <2>2
<1>6. ASSUME NEW k \in ToSet(local), e = <<MyAddress, k>>
      PROVE  e \in Shown(frames)
  BY <1>2, <1>3, <1>4, <1>6
<1>7. ASSUME NEW j \in 1 .. n, NEW k \in ToSet(external[j].clientList),
             e = <<external[j].address, k>>
      PROVE  e \in Shown(frames)
  BY <1>2, <1>3, <1>4, <1>7
<1>8. QED BY <1>3, <1>5, <1>6, <1>7 DEF n, frames

(* The list a client would be sent now has its own key.                    *)
LEMMA OwnKeyListed ==
    ASSUME IInv, NEW c \in Clients, c \in ToSet(clientConnections)
    PROVE  <<MyAddress, KeyOf[c]>> \in Shown(ClientLists)
<1>1. PICK i \in DOMAIN clientConnections : clientConnections[i] = c
  BY DEF ToSet
<1>2. i \in DOMAIN clientList
  BY LenProperties DEF IInv, TypeOK, RosterAligned
<1>3. KeyOf[c] \in ToSet(clientList)
  BY <1>1, <1>2 DEF IInv, RosterAligned, ToSet
<1>4. externalClientLists \in Seq(External)
  BY DEF IInv, TypeOK
<1>5. QED BY <1>3, <1>4, ShownPairs DEF ClientLists

LEMMA OwnKeysListed ==
    IInv => \A c \in ToSet(clientConnections) :
                <<MyAddress, KeyOf[c]>> \in Shown(ClientLists)
<1> SUFFICES ASSUME IInv, NEW c \in ToSet(clientConnections)
             PROVE  <<MyAddress, KeyOf[c]>> \in Shown(ClientLists)
  OBVIOUS
<1>1. c \in Clients
  BY LenProperties, ElementOfSeq DEF IInv, TypeOK, ToSet
<1>2. QED BY <1>1, OwnKeyListed

-----------------------------------------------------------------------------
(* What a step does to the lists and to what clients are shown of them.    *)
SameLists == Shown(ClientLists)' = Shown(ClientLists) /\ Members' \subseteq Members

Pushes(plan) ==
    /\ SendAllClientLists(plan)
    /\ ToSet(plan) \cap Clients \subseteq ToSet(clientConnections')
    /\ running' => Completes(plan)
    /\ SameLists \/ ToSet(clientConnections') \subseteq ToSet(plan)

ViewEffect ==
    /\ running' => running
    /\ \/ UNCHANGED view /\ SameLists
       \/ \E plan \in Seq(Sockets \cup Clients) : Pushes(plan)

LEMMA MembersKept ==
    ASSUME IInv, ConnInv, [Next]_vars, \A c \in Clients : helloed'[c] = helloed[c]
    PROVE  Members' \subseteq Members
<1>1. \A c \in Clients : ConnEffect(c)
  BY ConnEffects DEF Conns
<1>2. QED BY <1>1 DEF Members, Present, ConnInv, ConnEffect, Conns

(* A list that is pushed to the clients connected afterwards.              *)
LEMMA PushesClients ==
    ASSUME clientConnections' \in Seq(Clients), Run(clientConnections'),
           SendAllClientLists(clientConnections')
    PROVE  \E plan \in Seq(Sockets \cup Clients) : Pushes(plan)
<1>1. clientConnections' \in Seq(Sockets \cup Clients)
  BY SeqMonotonic
<1>2. Pushes(clientConnections')
  BY DEF Pushes, Run
<1>3. QED BY <1>1, <1>2

LEMMA PushesAll ==
    ASSUME clientConnections' \in Seq(Clients), socketList \in Seq(Sockets),
           Run(socketList \o clientConnections'),
           SendAllClientLists(socketList \o clientConnections')
    PROVE  \E plan \in Seq(Sockets \cup Clients) : Pushes(plan)
<1> DEFINE plan == socketList \o clientConnections'
<1>1. plan \in Seq(Sockets \cup Clients)
      /\ ToSet(plan) \cap Clients = ToSet(clientConnections')
  BY BroadcastPlan
<1>2. Pushes(plan)
  <2> HIDE DEF plan
  <2>1. Run(plan) /\ SendAllClientLists(plan)
    BY DEF plan
  <2>2. QED BY <1>1, <2>1 DEF Pushes, Run
<1>3. QED BY <1>1, <1>2

LEMMA ServerHelloShowsNothing ==
    ASSUME IInv, NEW p \in Peers, ServerHello(p)
    PROVE  Shown(ClientLists)' = Shown(ClientLists)
<1> DEFINE n == Len(externalClientLists)
           entry == [address |-> AddrOf[p], connection |-> p, clientList |-> <<>>]
           new == Append(externalClientLists, entry)
<1>1. externalClientLists' = new /\ clientList' = clientList
  BY DEF ServerHello, rosterVars
<1>2. externalClientLists \in Seq(External) /\ entry \in External
  BY DEF IInv, TypeOK, External
<1>3. /\ new \in Seq(External)
      /\ n \in Nat /\ Len(new) = n + 1
      /\ \A i \in 1 .. n : new[i] = externalClientLists[i]
      /\ new[n + 1] = entry
  BY <1>2, AppendProperties, LenProperties
<1>4. ToSet(entry.clientList) = {}
  BY DEF ToSet
<1>5. \A i : i \in 1 .. n + 1 <=> i \in 1 .. n \/ i = n + 1
  BY <1>3
<1> HIDE DEF entry, new, n
<1>6. Shown(ClientLists)' = Shown(ClientListsOf(clientList, new))
  BY <1>1 DEF ClientLists, ClientListsOf, Shown
<1>7. ASSUME NEW e
      PROVE  e \in Shown(ClientListsOf(clientList, new))
                 <=> e \in Shown(ClientListsOf(clientList, externalClientLists))
  <2>1. e \in Shown(ClientListsOf(clientList, externalClientLists)) <=>
            \/ \E k \in ToSet(clientList) : e = <<MyAddress, k>>
            \/ \E i \in 1 .. n : \E k \in ToSet(externalClientLists[i].clientList) :
                   e = <<externalClientLists[i].address, k>>
    BY <1>2, ShownPairs DEF n
  <2>2. e \in Shown(ClientListsOf(clientList, new)) <=>
            \/ \E k \in ToSet(clientList) : e = <<MyAddress, k>>
            \/ \E i \in 1 .. n + 1 : \E k \in ToSet(new[i].clientList) :
                   e = <<new[i].address, k>>
    BY <1>3, ShownPairs
  <2>3. QED BY <1>3, <1>4, <1>5, <2>1, <2>2
<1>8. QED BY <1>6, <1>7 DEF ClientLists

LEMMA ViewEffects ==
    ASSUME IInv, IInv', ConnInv, [Next]_vars
    PROVE  ViewEffect
<1>0. /\ clientConnections' \in Seq(Clients)
      /\ socketList \in Seq(Sockets)
  BY DEF IInv, TypeOK, LinkTypeOK
<1>1. ASSUME UNCHANGED <<running, view, clientList, externalClientLists>>,
             \A c \in Clients : helloed'[c] = helloed[c]
      PROVE  ViewEffect
  <2>1. Members' \subseteq Members
    BY <1>1, MembersKept
  <2>2. Shown(ClientLists)' = Shown(ClientLists)
    BY <1>1 DEF Shown, ClientLists, ClientListsOf
  <2>3. QED BY <1>1, <2>1, <2>2 DEF ViewEffect, SameLists
<1>2. ASSUME NEW c \in Clients, Hello(c) PROVE ViewEffect
  <2>1. /\ running
        /\ Run(socketList \o clientConnections')
        /\ SendAllClientLists(socketList \o clientConnections')
    BY <1>2 DEF Hello, Receives
  <2>2. QED BY <1>0, <2>1, PushesAll DEF ViewEffect
<1>3. ASSUME NEW x \in Conns, OnCloseClient(x) PROVE ViewEffect
  <2>1. /\ running
        /\ Run(socketList \o clientConnections')
        /\ SendAllClientLists(socketList \o clientConnections')
    BY <1>3 DEF OnCloseClient
  <2>2. QED BY <1>0, <2>1, PushesAll DEF ViewEffect
<1>4. ASSUME NEW x \in Conns, OnCloseServer(x) PROVE ViewEffect
  <2>1. /\ running
        /\ Run(clientConnections') /\ SendAllClientLists(clientConnections')
    BY <1>4 DEF OnCloseServer, rosterVars
  <2>2. QED BY <1>0, <2>1, PushesClients DEF ViewEffect
<1>5. ASSUME NEW p \in Peers, NEW list \in RemoteLists, ClientUpdate(p, list)
      PROVE  ViewEffect
  <2>1. /\ running
        /\ Run(clientConnections') /\ SendAllClientLists(clientConnections')
    BY <1>5 DEF ClientUpdate, rosterVars, Receives
  <2>2. QED BY <1>0, <2>1, PushesClients DEF ViewEffect
<1>6. ASSUME NEW c \in Clients, ClientListRequest(c) PROVE ViewEffect
  <2>1. /\ UNCHANGED <<running, conn, helloed, clientList, clientConnections,
                       externalClientLists>>
        /\ SendAllClientLists(<<c>>)
        /\ conn[c] = "open" /\ helloed[c]
    BY <1>6 DEF ClientListRequest, Receives, rosterVars, externalVars
  <2>2. <<c>> \in Seq(Sockets \cup Clients) /\ ToSet(<<c>>) = {c}
    BY DEF ToSet
  <2>3. c \in ToSet(clientConnections')
    BY <2>1, IsClientToSet DEF IInv, RosterAligned, Present
  <2>4. Completes(<<c>>)
    BY <2>1, HostAssumption DEF Completes, Throws, Conns
  <2>5. SameLists
    <3>1. Members' \subseteq Members
      BY <2>1, MembersKept
    <3>2. QED BY <2>1, <3>1 DEF SameLists, Shown, ClientLists, ClientListsOf
  <2>6. Pushes(<<c>>)
    BY <2>1, <2>2, <2>3, <2>4, <2>5 DEF Pushes
  <2>7. QED BY <2>1, <2>2, <2>6 DEF ViewEffect
<1>7. ASSUME NEW p \in Peers, ServerHello(p) PROVE ViewEffect
  <2>1. running /\ UNCHANGED view
    BY <1>7 DEF ServerHello, Receives
  <2>2. \A c \in Clients : helloed'[c] = helloed[c]
    <3>1. helloed' = [helloed EXCEPT ![p] = TRUE] /\ p \notin Clients
      BY <1>7, HostAssumption DEF ServerHello
    <3>2. helloed \in [Conns -> BOOLEAN]
      BY DEF IInv, TypeOK
    <3>3. QED BY <3>1, <3>2 DEF Conns
  <2>3. Members' \subseteq Members
    BY <2>2, MembersKept
  <2>4. SameLists
    <3>1. Shown(ClientLists)' = Shown(ClientLists)
      BY <1>7, ServerHelloShowsNothing
    <3>2. QED BY <2>3, <3>1 DEF SameLists
  <2>5. QED BY <2>1, <2>4 DEF ViewEffect
<1>8. ASSUME \/ \E x \in Conns : ChatStep(x)
             \/ \E p \in Peers : ClientUpdateRequest(p)
      PROVE  ViewEffect
  <2>1. /\ running
        /\ UNCHANGED <<view, helloed, clientList, externalClientLists>>
    BY <1>8
    DEF ChatStep, Chat, PublicChat, Deliver, RefuseChat, TakesChat, Receives,
        ClientUpdateRequest, rosterVars, externalVars
  <2>2. Members' \subseteq Members
    BY <2>1, MembersKept
  <2>3. Shown(ClientLists)' = Shown(ClientLists)
    BY <2>1 DEF Shown, ClientLists, ClientListsOf
  <2>4. QED BY <2>1, <2>2, <2>3 DEF ViewEffect, SameLists
<1>9. ASSUME \/ \E x \in Conns : Accept(x) \/ RemoteClose(x) \/ OnCloseOther(x)
             \/ \E p \in Peers : RefuseUpdateRequest(p)
             \/ LinkNext /\ UNCHANGED hostVars
             \/ UNCHANGED vars
      PROVE  ViewEffect
  <2>1. UNCHANGED <<running, view, helloed, clientList, externalClientLists>>
    BY <1>9
    DEF Accept, RemoteClose, OnCloseOther, RefuseUpdateRequest, vars, hostVars,
        rosterVars, externalVars
  <2>2. QED BY <1>1, <2>1
<1>10. QED
  BY <1>2, <1>3, <1>4, <1>5, <1>6, <1>7, <1>8, <1>9
  DEF Next, ConnStep, OnClose, ClientStep, PeerStep

-----------------------------------------------------------------------------
(* The two properties of what clients are shown.                           *)
LEMMA OwnKeysListedNext ==
    IInv' => (\A c \in ToSet(clientConnections) :
                 <<MyAddress, KeyOf[c]>> \in Shown(ClientLists))'
BY OwnKeysListed, PTL

LEMMA OwnKeyShownStep ==
    ASSUME IInv, IInv', ConnInv, OwnKeyShown, [Next]_vars
    PROVE  OwnKeyShown'
<1>1. ViewEffect
  BY ViewEffects
<1>2. CASE UNCHANGED view
  BY <1>2 DEF OwnKeyShown, Shown
<1>3. ASSUME NEW plan \in Seq(Sockets \cup Clients), Pushes(plan)
      PROVE  OwnKeyShown'
  <2>1. SUFFICES ASSUME NEW c \in Clients, view'[c] # <<>>
                 PROVE  <<MyAddress, KeyOf[c]>> \in Shown(view'[c])
    BY DEF OwnKeyShown, Shown
  <2>2. view'[c] = IF c \in Reached(plan) THEN ClientLists' ELSE view[c]
    BY <1>3 DEF Pushes, SendAllClientLists
  <2>3. CASE c \in Reached(plan)
    <3>1. c \in ToSet(clientConnections')
      BY <1>3, <2>3, ReachedOfPlan DEF Pushes
    <3>2. \A d \in ToSet(clientConnections') :
             <<MyAddress, KeyOf[d]>> \in Shown(ClientLists')
      BY OwnKeysListedNext DEF ToSet, Shown
    <3>3. QED BY <2>2, <2>3, <3>1, <3>2
  <2>4. CASE c \notin Reached(plan)
    BY <2>1, <2>2, <2>4 DEF OwnKeyShown
  <2>5. QED BY <2>3, <2>4
<1>4. QED BY <1>1, <1>2, <1>3 DEF ViewEffect

LEMMA RosterPushedStep ==
    ASSUME IInv, IInv', ConnInv, RosterPushed, [Next]_vars
    PROVE  RosterPushed'
<1>1. SUFFICES ASSUME running', NEW c \in Members'
               PROVE  Shown(view'[c]) = Shown(ClientLists)'
  BY DEF RosterPushed, Shown
<1>2. ViewEffect /\ running
  BY <1>1, ViewEffects DEF ViewEffect
<1>3. c \in Clients /\ c \in ToSet(clientConnections')
  <2>1. c \in Clients /\ Present(c)'
    BY <1>1 DEF Members
  <2>2. IsClient(c)'
    BY <2>1 DEF IInv, RosterAligned
  <2>3. QED BY <2>1, <2>2 DEF IsClient, Places, ToSet
<1>4. ASSUME SameLists, view'[c] = view[c]
      PROVE  Shown(view'[c]) = Shown(ClientLists)'
  <2>1. c \in Members
    BY <1>1, <1>4 DEF SameLists
  <2>2. QED BY <1>2, <1>4, <2>1 DEF RosterPushed, SameLists
<1>5. ASSUME NEW plan \in Seq(Sockets \cup Clients), Pushes(plan)
      PROVE  Shown(view'[c]) = Shown(ClientLists)'
  <2>1. view'[c] = IF c \in ToSet(plan) THEN ClientLists' ELSE view[c]
    <3>1. Reached(plan) = ToSet(plan)
      BY <1>1, <1>5, ReachedOfPlan DEF Pushes
    <3>2. view'[c] = IF c \in Reached(plan) THEN ClientLists' ELSE view[c]
      BY <1>3, <1>5 DEF Pushes, SendAllClientLists
    <3>3. QED BY <3>1, <3>2
  <2>2. CASE c \in ToSet(plan)
    BY <2>1, <2>2 DEF Shown
  <2>3. CASE c \notin ToSet(plan)
    <3>1. SameLists
      BY <1>3, <1>5, <2>3 DEF Pushes
    <3>2. QED BY <1>4, <2>1, <2>3, <3>1
  <2>4. QED BY <2>2, <2>3
<1>6. QED BY <1>2, <1>4, <1>5 DEF ViewEffect

-----------------------------------------------------------------------------
(* What a server that failed the whitelist can do to the lists.            *)
LEMMA ContributeStep ==
    ASSUME IInv, Judged, OnlyWhitelistedContribute, [Next]_vars
    PROVE  OnlyWhitelistedContribute'
<1> DEFINE n == Len(externalClientLists)
           new == externalClientLists'
           Fine(e) == ~CheckServerSignature(e.connection) => e.clientList = <<>>
<1>1. /\ externalClientLists \in Seq(External)
      /\ n \in Nat /\ DOMAIN externalClientLists = 1 .. n
      /\ \A i \in 1 .. n : externalClientLists[i] \in External
                           /\ Fine(externalClientLists[i])
  BY LenProperties, ElementOfSeq DEF IInv, TypeOK, OnlyWhitelistedContribute
<1>2. SUFFICES \A i \in DOMAIN new : Fine(new[i])
  BY DEF OnlyWhitelistedContribute, CheckServerSignature
<1>3. CASE UNCHANGED externalClientLists
  BY <1>1, <1>3
<1>4. ASSUME NEW x \in Conns, OnCloseServer(x) PROVE \A i \in DOMAIN new : Fine(new[i])
  <2>1. PICK i \in 1 .. n : new = RemoveAt(externalClientLists, i)
    BY <1>1, <1>4 DEF OnCloseServer, EraseExternal, ExternalPlaces
  <2>2. /\ DOMAIN new = 1 .. n - 1
        /\ \A j \in 1 .. n - 1 : new[j] = IF j < i THEN externalClientLists[j]
                                          ELSE externalClientLists[j + 1]
    BY <1>1, <2>1, RemoveAtProperties
  <2>3. \A j \in 1 .. n - 1 : j \in 1 .. n /\ j + 1 \in 1 .. n
    BY <1>1
  <2> HIDE DEF Fine, n, new
  <2>4. QED BY <1>1, <2>2, <2>3
<1>5. ASSUME NEW p \in Peers, ServerHello(p) PROVE \A i \in DOMAIN new : Fine(new[i])
  <2> DEFINE entry == [address |-> AddrOf[p], connection |-> p, clientList |-> <<>>]
  <2>1. new = Append(externalClientLists, entry)
    BY <1>5 DEF ServerHello
  <2>2. entry \in External /\ Fine(entry)
    BY DEF External
  <2> HIDE DEF entry, Fine, n
  <2>3. /\ new \in Seq(External) /\ Len(new) = n + 1
        /\ \A i \in 1 .. n : new[i] = externalClientLists[i]
        /\ new[n + 1] = entry
    BY <1>1, <2>1, <2>2, AppendProperties DEF n
  <2> HIDE DEF new
  <2>4. DOMAIN new = 1 .. n + 1
    BY <2>3, LenProperties
  <2>5. \A i : i \in 1 .. n + 1 <=> i \in 1 .. n \/ i = n + 1
    BY <1>1
  <2>6. QED BY <1>1, <2>2, <2>3, <2>4, <2>5
<1>6. ASSUME NEW p \in Peers, NEW list \in RemoteLists, ClientUpdate(p, list)
      PROVE  \A i \in DOMAIN new : Fine(new[i])
  <2>1. /\ DOMAIN new = 1 .. n
        /\ \A i \in 1 .. n :
              new[i] = IF i \in ExternalPlaces(p)
                       THEN [externalClientLists[i] EXCEPT !.clientList = list]
                       ELSE externalClientLists[i]
    BY <1>1, <1>6 DEF ClientUpdate
  <2>2. ASSUME NEW i \in ExternalPlaces(p) PROVE Fine(new[i])
    <3>1. Present(p) /\ conn[p] = "open"
      BY <1>6, <2>2 DEF IInv, ExternalAligned, ClientUpdate, Receives
    <3>2. CheckServerSignature(p)
      BY <3>1 DEF Judged, Present
    <3>3. i \in 1 .. n /\ externalClientLists[i].connection = p
      BY <1>1 DEF ExternalPlaces
    <3>4. new[i] = [externalClientLists[i] EXCEPT !.clientList = list]
      BY <2>1, <3>3
    <3>5. new[i].connection = p
      BY <1>1, <3>3, <3>4 DEF External
    <3>6. QED BY <3>2, <3>5
  <2> HIDE DEF Fine, n, new
  <2>3. QED BY <1>1, <2>1, <2>2
<1>7. QED
  BY <1>3, <1>4, <1>5, <1>6
  DEF Next, ConnStep, Accept, RemoteClose, OnClose, OnCloseClient, OnCloseOther,
      ChatStep, Chat, PublicChat, Deliver, RefuseChat, ClientStep, Hello,
      ClientListRequest, PeerStep, ClientUpdateRequest, RefuseUpdateRequest,
      externalVars, hostVars, vars

-----------------------------------------------------------------------------
(* What a step does to the lists other servers are told.                   *)
Tells(plan) ==
    /\ SendClientUpdate(plan)
    /\ Run(plan)
    /\ ToSet(socketList) \subseteq ToSet(plan)

ToldEffect ==
    \/ UNCHANGED <<linkVars, told, clientList>> /\ (running' => running)
    \/ /\ UNCHANGED linkVars
       /\ \E plan \in Seq(Sockets \cup Clients) : Tells(plan)
    \/ LinkNext /\ UNCHANGED <<told, clientList, running>>

LEMMA TellsAll ==
    ASSUME clientConnections' \in Seq(Clients), socketList \in Seq(Sockets),
           Run(socketList \o clientConnections'),
           SendClientUpdate(socketList \o clientConnections')
    PROVE  \E plan \in Seq(Sockets \cup Clients) : Tells(plan)
<1> DEFINE plan == socketList \o clientConnections'
<1>1. /\ plan \in Seq(Sockets \cup Clients)
      /\ ToSet(plan) \cap Sockets = ToSet(socketList)
  BY BroadcastPlan
<1>2. Tells(plan)
  <2> HIDE DEF plan
  <2>1. Run(plan) /\ SendClientUpdate(plan)
    BY DEF plan
  <2>2. QED BY <1>1, <2>1 DEF Tells
<1>3. QED BY <1>1, <1>2

LEMMA ToldEffects ==
    ASSUME IInv, IInv', [Next]_vars
    PROVE  ToldEffect
<1>0. /\ clientConnections' \in Seq(Clients)
      /\ socketList \in Seq(Sockets)
  BY DEF IInv, TypeOK, LinkTypeOK
<1>1. ASSUME NEW c \in Clients, Hello(c) PROVE ToldEffect
  <2>1. /\ UNCHANGED linkVars
        /\ Run(socketList \o clientConnections')
        /\ SendClientUpdate(socketList \o clientConnections')
    BY <1>1 DEF Hello
  <2>2. QED BY <1>0, <2>1, TellsAll DEF ToldEffect
<1>2. ASSUME NEW x \in Conns, OnCloseClient(x) PROVE ToldEffect
  <2>1. /\ UNCHANGED linkVars
        /\ Run(socketList \o clientConnections')
        /\ SendClientUpdate(socketList \o clientConnections')
    BY <1>2 DEF OnCloseClient
  <2>2. QED BY <1>0, <2>1, TellsAll DEF ToldEffect
<1>3. ASSUME NEW p \in Peers, ClientUpdateRequest(p) PROVE ToldEffect
  <2>1. UNCHANGED linkVars /\ Run(socketList) /\ SendClientUpdate(socketList)
    BY <1>3 DEF ClientUpdateRequest
  <2>2. socketList \in Seq(Sockets \cup Clients)
    BY <1>0, SeqMonotonic
  <2>3. Tells(socketList)
    BY <2>1 DEF Tells
  <2>4. QED BY <2>1, <2>2, <2>3 DEF ToldEffect
<1>4. CASE LinkNext /\ UNCHANGED hostVars
  BY <1>4 DEF ToldEffect, hostVars, rosterVars
<1>5. ASSUME \/ \E x \in Conns : \/ Accept(x) \/ RemoteClose(x)
                                 \/ OnCloseServer(x) \/ OnCloseOther(x)
             \/ \E c \in Clients : ClientListRequest(c)
             \/ \E p \in Peers : ServerHello(p) \/ RefuseUpdateRequest(p)
             \/ UNCHANGED vars
      PROVE  ToldEffect
  <2>1. UNCHANGED <<linkVars, told, clientList>>
    BY <1>5
    DEF Accept, RemoteClose, OnCloseServer, OnCloseOther, ClientListRequest,
        ServerHello, RefuseUpdateRequest, rosterVars, hostVars, vars
  <2>2. running' => running
    BY <1>5
    DEF Accept, RemoteClose, OnCloseServer, OnCloseOther, ClientListRequest,
        ServerHello, RefuseUpdateRequest, Receives, hostVars, vars
  <2>3. QED BY <2>1, <2>2 DEF ToldEffect
<1>6. ASSUME NEW x \in Conns, ChatStep(x) PROVE ToldEffect
  <2>1. UNCHANGED <<linkVars, told, clientList>> /\ running
    BY <1>6
    DEF ChatStep, Chat, PublicChat, Deliver, TakesChat, RefuseChat, Receives, rosterVars
  <2>2. QED BY <2>1 DEF ToldEffect
<1>7. ASSUME NEW p \in Peers, NEW list \in RemoteLists, ClientUpdate(p, list)
      PROVE  ToldEffect
  <2>1. UNCHANGED <<linkVars, told, clientList>> /\ running
    BY <1>7 DEF ClientUpdate, Receives, rosterVars
  <2>2. QED BY <2>1 DEF ToldEffect
<1>8. QED
  BY <1>1, <1>2, <1>3, <1>4, <1>5, <1>6, <1>7
  DEF Next, ConnStep, OnClose, ClientStep, PeerStep

(* What opens is listed, and what is not open was told nothing.            *)
LEMMA DialledStep ==
    ASSUME IInv, IInv', Dialled, [Next]_vars
    PROVE  Dialled'
<1>1. ToldEffect
  BY ToldEffects
<1>2. CASE UNCHANGED <<linkVars, told>>
  BY <1>2 DEF Dialled, linkVars, ToSet
<1>3. ASSUME NEW plan, UNCHANGED linkVars, SendClientUpdate(plan)
      PROVE  Dialled'
  <2>1. \A s \in Sockets : link[s] = "idle" => s \notin ReachedSockets(plan)
    BY DEF ReachedSockets, IsConnected
  <2>2. \A s \in Sockets : link[s] = "idle" => told'[s] = told[s]
    BY <1>3, <2>1 DEF SendClientUpdate
  <2>3. link' = link /\ ToSet(socketList)' = ToSet(socketList)
    BY <1>3 DEF linkVars, ToSet
  <2>4. QED BY <2>2, <2>3 DEF Dialled
<1>4. ASSUME NEW t \in Sockets, LinkStep(t), UNCHANGED told
      PROVE  Dialled'
  <2>1. link \in [Sockets -> LinkStates] /\ socketList \in Seq(Sockets)
    BY DEF IInv, TypeOK, LinkTypeOK
  <2>2. ASSUME NEW s \in ToSet(socketList) PROVE s \in ToSet(socketList')
    <3>1. CASE UNCHANGED socketList
      BY <3>1
    <3>2. CASE AddSocket(t)
      <4>1. socketList' = Append(socketList, t)
        BY <3>2 DEF AddSocket
      <4>2. PICK i \in 1 .. Len(socketList) : socketList[i] = s
        BY <2>1, LenProperties DEF ToSet
      <4>3. /\ socketList' \in Seq(Sockets) /\ Len(socketList') = Len(socketList) + 1
            /\ socketList'[i] = s
        BY <2>1, <4>1, <4>2, AppendProperties
      <4>4. i \in DOMAIN socketList'
        BY <2>1, <4>3, LenProperties
      <4>5. QED BY <4>3, <4>4 DEF ToSet
    <3>3. QED BY <1>4, <3>1, <3>2 DEF LinkStep, OpenLink, BreakLink, DropLink
  <2>3. ASSUME NEW s \in Sockets
        PROVE  /\ link'[s] = "idle" => link[s] = "idle"
               /\ link'[s] # "idle" => s \in ToSet(socketList)
    BY <1>4, <2>1, <2>3
    DEF LinkStep, AddSocket, OpenLink, BreakLink, DropLink, Dialled
  <2>4. ToSet(socketList)' = ToSet(socketList')
    BY DEF ToSet
  <2>5. QED BY <1>4, <2>2, <2>3, <2>4 DEF Dialled
<1>5. QED BY <1>1, <1>2, <1>3, <1>4 DEF ToldEffect, Tells, LinkNext

LEMMA ToldIsCurrentStep ==
    ASSUME IInv, IInv', Dialled, ToldIsCurrent, [Next]_vars
    PROVE  ToldIsCurrent'
<1>1. ToldEffect
  BY ToldEffects
<1>2. CASE UNCHANGED <<linkVars, told, clientList>> /\ (running' => running)
  BY <1>2 DEF ToldIsCurrent, linkVars
<1>3. ASSUME NEW plan \in Seq(Sockets \cup Clients), UNCHANGED linkVars, Tells(plan)
      PROVE  ToldIsCurrent'
  <2>1. SUFFICES ASSUME running', NEW s \in Sockets, link'[s] = "open"
                 PROVE  told'[s] = <<clientList'>>
    BY DEF ToldIsCurrent
  <2>2. link[s] = "open" /\ s \in ToSet(plan)
    BY <1>3, <2>1 DEF linkVars, Dialled, Tells
  <2>3. Reached(plan) = ToSet(plan)
    BY <1>3, <2>1, ReachedOfPlan DEF Tells, Run
  <2>4. s \in ReachedSockets(plan)
    BY <2>2, <2>3 DEF ReachedSockets, IsConnected
  <2>5. QED BY <1>3, <2>4 DEF Tells, SendClientUpdate
<1>4. ASSUME NEW t \in Sockets, LinkStep(t), UNCHANGED <<told, clientList, running>>
      PROVE  ToldIsCurrent'
  <2>1. SUFFICES ASSUME running, NEW s \in Sockets, link'[s] = "open", told[s] # <<>>
                 PROVE  told[s] = <<clientList>>
    BY <1>4 DEF ToldIsCurrent
  <2>2. link \in [Sockets -> LinkStates] /\ link[s] # "idle"
    BY <2>1 DEF IInv, TypeOK, LinkTypeOK, Dialled
  <2>3. link[s] = "open"
    BY <1>4, <2>1, <2>2 DEF LinkStep, AddSocket, OpenLink, BreakLink, DropLink
  <2>4. QED BY <2>1, <2>3 DEF ToldIsCurrent
<1>5. QED BY <1>1, <1>2, <1>3, <1>4 DEF ToldEffect, LinkNext

-----------------------------------------------------------------------------
(* The inductive invariant, and the theorems.                              *)
RosterInv ==
    /\ IInv
    /\ ConnInv /\ Judged /\ Dialled
    /\ OwnKeyShown /\ RosterPushed
    /\ OnlyWhitelistedContribute
    /\ ToldIsCurrent

LEMMA InitRosterInv == Init => RosterInv
<1> SUFFICES ASSUME Init PROVE RosterInv
  OBVIOUS
<1>1. IInv
  BY InitInv
<1>2. ConnInv /\ Judged
  BY DEF Init, ConnInv, Judged, Conns
<1>3. Dialled /\ ToldIsCurrent
  BY DEF Init, LinkInit, Dialled, ToldIsCurrent
<1>4. OwnKeyShown /\ RosterPushed
  BY DEF Init, OwnKeyShown, RosterPushed, Members, Present, Conns
<1>5. OnlyWhitelistedContribute
  BY DEF Init, OnlyWhitelistedContribute
<1>6. QED BY <1>1, <1>2, <1>3, <1>4, <1>5 DEF RosterInv

LEMMA NextRosterInv == RosterInv /\ [Next]_vars => RosterInv'
<1> SUFFICES ASSUME RosterInv, [Next]_vars PROVE RosterInv'
  OBVIOUS
<1>1. IInv'
  BY NextInv DEF RosterInv
<1>2. ConnInv' /\ Judged'
  BY ConnInvStep DEF RosterInv
<1>3. Dialled' /\ ToldIsCurrent'
  BY <1>1, DialledStep, ToldIsCurrentStep DEF RosterInv
<1>4. OwnKeyShown' /\ RosterPushed'
  BY <1>1, OwnKeyShownStep, RosterPushedStep DEF RosterInv
<1>5. OnlyWhitelistedContribute'
  BY ContributeStep DEF RosterInv
<1>6. QED BY <1>1, <1>2, <1>3, <1>4, <1>5 DEF RosterInv

(* Everything of this module at once, for the proofs that build on it.     *)
THEOREM RosterInductive == Spec => []RosterInv
<1>1. QED BY InitRosterInv, NextRosterInv, PTL DEF Spec

(* A client is never sent a client_list without its own key, the key       *)
(* ClientSocket::ParseMessage marks without looking whether it is there.   *)
THEOREM ClientsSeeThemselves == Spec => []OwnKeyShown
<1>1. RosterInv => OwnKeyShown
  BY DEF RosterInv
<1>2. QED BY <1>1, RosterInductive, PTL

(* Every client the running endpoint can write to was last sent the roster *)
(* as it is, whatever hellos, closes and client_updates came since.        *)
THEOREM ClientsSeeTheRoster == Spec => []RosterPushed
<1>1. RosterInv => RosterPushed
  BY DEF RosterInv
<1>2. QED BY <1>1, RosterInductive, PTL

(* A peer told of the local clients was last told the clients as they are, *)
(* though the links open, break and are added under the handlers.          *)
THEOREM PeersAreToldTheRoster == Spec => []ToldIsCurrent
<1>1. RosterInv => ToldIsCurrent
  BY DEF RosterInv
<1>2. QED BY <1>1, RosterInductive, PTL

(* A server that is not on the whitelist stays registered after its        *)
(* server_hello was refused, and never gets a client onto the list.        *)
THEOREM StrangersContributeNothing == Spec => []OnlyWhitelistedContribute
<1>1. RosterInv => OnlyWhitelistedContribute
  BY DEF RosterInv
<1>2. QED BY <1>1, RosterInductive, PTL

-----------------------------------------------------------------------------
(* The chats: CountsCurrent, EachTargetOnce, RelayedByOrigin,              *)
(* TranscriptsAgree, and that the host implements a Room.                  *)
(*                                                                         *)
(* Every plan is Fair: all the local clients or none of them, sockets only *)
(* for a local sender, nothing twice.  The rest follows from that and from *)
(* counting the chats of each connection.                                  *)

(* The plans of a chat.                                                    *)
SocketsOnce == IsInjective(socketList)

LEMMA SocketsToProperties ==
    ASSUME socketList \in Seq(Sockets), SocketsOnce, NEW address
    PROVE  /\ SocketsTo(address) \in Seq(Sockets)
           /\ ToSet(SocketsTo(address)) =
                  {s \in ToSet(socketList) : GetConnectionAddress(s) = address}
           /\ IsInjective(SocketsTo(address))
<1> DEFINE n == Len(socketList)
           Part(i) == IF GetConnectionAddress(socketList[i]) = address
                      THEN <<socketList[i]>> ELSE <<>>
           parts == [i \in DOMAIN socketList |-> Part(i)]
<1>1. n \in Nat /\ DOMAIN socketList = 1 .. n /\ \A i \in 1 .. n : socketList[i] \in Sockets
  BY LenProperties, ElementOfSeq
<1>2. ASSUME NEW i \in 1 .. n
      PROVE  /\ Part(i) \in Seq(Sockets)
             /\ ToSet(Part(i)) = {s \in {socketList[i]} : GetConnectionAddress(s) = address}
             /\ IsInjective(Part(i))
  <2>1. CASE GetConnectionAddress(socketList[i]) = address
    <3>1. Part(i) = <<socketList[i]>>
      BY <2>1
    <3>2. <<socketList[i]>> \in Seq(Sockets)
      BY <1>1
    <3>3. ToSet(<<socketList[i]>>) = {socketList[i]} /\ IsInjective(<<socketList[i]>>)
      BY DEF ToSet, IsInjective
    <3>4. QED BY <2>1, <3>1, <3>2, <3>3
  <2>2. CASE GetConnectionAddress(socketList[i]) # address
    <3>1. Part(i) = <<>>
      BY <2>2
    <3>2. ToSet(<<>>) = {} /\ IsInjective(<<>>)
      BY DEF ToSet, IsInjective
    <3>3. QED BY <2>2, <3>1, <3>2, EmptySeq
  <2>3. QED BY <2>1, <2>2
<1> HIDE DEF Part
<1>3. parts \in Seq(Seq(Sockets)) /\ DOMAIN parts = 1 .. n /\ \A i \in 1 .. n : parts[i] = Part(i)
  <2>1. parts \in [1 .. n -> Seq(Sockets)]
    BY <1>1, <1>2
  <2>2. parts \in Seq(Seq(Sockets))
    BY <1>1, <2>1, SeqDef
  <2>3. QED BY <1>1, <2>1, <2>2
<1>4. SocketsTo(address) = FlattenSeq(parts)
  BY DEF SocketsTo, Part
<1> HIDE DEF parts, n
<1>5. Disjoint(parts)
  <2>1. \A i, j \in 1 .. n : i # j => socketList[i] # socketList[j]
    BY <1>1 DEF SocketsOnce, IsInjective
  <2>2. \A i, j \in 1 .. n : i # j => ToSet(Part(i)) \cap ToSet(Part(j)) = {}
    BY <1>2, <2>1
  <2>3. QED BY <1>2, <1>3, <2>2 DEF Disjoint
<1>6. UNION {ToSet(parts[i]) : i \in DOMAIN parts} =
          {s \in ToSet(socketList) : GetConnectionAddress(s) = address}
  <2>1. UNION {ToSet(parts[i]) : i \in DOMAIN parts} =
            {s \in {socketList[i] : i \in 1 .. n} : GetConnectionAddress(s) = address}
    <3>1. \A i \in 1 .. n : \A e :
             e \in ToSet(parts[i]) <=>
                 e = socketList[i] /\ GetConnectionAddress(e) = address
      BY <1>2, <1>3
    <3>2. DOMAIN parts = 1 .. n
      BY <1>3
    <3>3. \A e : e \in UNION {ToSet(parts[i]) : i \in DOMAIN parts} <=>
                   \E i \in 1 .. n : e \in ToSet(parts[i])
      BY <3>2
    <3>4. QED BY <3>1, <3>3
  <2>2. ToSet(socketList) = {socketList[i] : i \in 1 .. n}
    BY <1>1 DEF ToSet
  <2>3. QED BY <2>1, <2>2
<1>7. QED BY <1>3, <1>4, <1>5, <1>6, FlattenProperties

(* What every plan of a chat of x is: local clients, all or none, and      *)
(* sockets only when x is a local client; nothing twice.                   *)
Fair(x, plan) ==
    /\ plan \in Seq(Sockets \cup Clients)
    /\ IsInjective(plan)
    /\ ToSet(plan) \cap Clients \in {{}, ToSet(clientConnections)}
    /\ ~IsClient(x) => ToSet(plan) \cap Sockets = {}

LEMMA ListsOfTargets ==
    ASSUME IInv, SocketsOnce
    PROVE  /\ clientConnections \in Seq(Clients) /\ IsInjective(clientConnections)
           /\ socketList \in Seq(Sockets)
           /\ ToSet(clientConnections) \subseteq Clients
           /\ ToSet(socketList) \subseteq Sockets
           /\ Sockets \cap Clients = {}
<1>1. /\ clientConnections \in Seq(Clients) /\ socketList \in Seq(Sockets)
      /\ IsInjective(clientConnections)
  BY DEF IInv, TypeOK, LinkTypeOK, RosterAligned
<1>2. ToSet(clientConnections) \subseteq Clients /\ ToSet(socketList) \subseteq Sockets
  BY <1>1, LenProperties, ElementOfSeq DEF ToSet
<1>3. Sockets \cap Clients = {}
  BY HostAssumption DEF Conns
<1>4. QED BY <1>1, <1>2, <1>3

LEMMA PublicChatPlanIsFair ==
    ASSUME IInv, SocketsOnce, NEW x \in Conns
    PROVE  Fair(x, PublicChatPlan(x))
<1> DEFINE rest == IF IsClient(x) THEN socketList ELSE <<>>
<1>1. /\ clientConnections \in Seq(Clients) /\ IsInjective(clientConnections)
      /\ socketList \in Seq(Sockets)
      /\ ToSet(clientConnections) \subseteq Clients
      /\ ToSet(socketList) \subseteq Sockets
      /\ Sockets \cap Clients = {}
  BY ListsOfTargets
<1>2. ToSet(<<>>) = {} /\ IsInjective(<<>>)
  BY DEF ToSet, IsInjective
<1>3. /\ rest \in Seq(Sockets) /\ IsInjective(rest) /\ ToSet(rest) \subseteq Sockets
      /\ ~IsClient(x) => ToSet(rest) = {}
  BY <1>1, <1>2, EmptySeq DEF SocketsOnce
<1>4. /\ clientConnections \in Seq(Sockets \cup Clients)
      /\ rest \in Seq(Sockets \cup Clients)
  BY <1>1, <1>3, SeqMonotonic
<1>5. PublicChatPlan(x) = clientConnections \o rest
  BY DEF PublicChatPlan
<1> HIDE DEF rest
<1>6. /\ clientConnections \o rest \in Seq(Sockets \cup Clients)
      /\ ToSet(clientConnections \o rest) = ToSet(clientConnections) \cup ToSet(rest)
  BY <1>4, ToSetConcat
<1>7. ToSet(clientConnections) \cap ToSet(rest) = {}
  BY <1>1, <1>3
<1>8. IsInjective(clientConnections \o rest)
  BY <1>1, <1>3, <1>4, <1>7, ConcatInjective
<1>9. QED BY <1>1, <1>3, <1>5, <1>6, <1>8 DEF Fair

LEMMA ChatPlanIsFair ==
    ASSUME IInv, SocketsOnce, NEW x \in Conns, NEW dests \in DestLists
    PROVE  Fair(x, ChatPlan(x, dests))
<1> DEFINE T == Sockets \cup Clients
           n == Len(dests)
           Part(k) == IF dests[k] = MyAddress THEN clientConnections
                      ELSE IF IsClient(x) THEN SocketsTo(dests[k])
                      ELSE <<>>
           parts == [k \in DOMAIN dests |-> Part(k)]
<1>1. /\ clientConnections \in Seq(Clients) /\ IsInjective(clientConnections)
      /\ socketList \in Seq(Sockets)
      /\ ToSet(clientConnections) \subseteq Clients
      /\ ToSet(socketList) \subseteq Sockets
      /\ Sockets \cap Clients = {}
  BY ListsOfTargets
<1>2. n \in Nat /\ DOMAIN dests = 1 .. n
  BY HostAssumption, LenProperties
<1>3. \A j, k \in 1 .. n : dests[j] = dests[k] => j = k
  BY <1>2, HostAssumption DEF IsInjective
<1>4. ASSUME NEW k \in 1 .. n
      PROVE  /\ Part(k) \in Seq(T)
             /\ IsInjective(Part(k))
             /\ dests[k] = MyAddress => ToSet(Part(k)) = ToSet(clientConnections)
             /\ dests[k] # MyAddress =>
                    /\ ToSet(Part(k)) \subseteq
                           {s \in Sockets : GetConnectionAddress(s) = dests[k]}
                    /\ ~IsClient(x) => ToSet(Part(k)) = {}
  <2>1. CASE dests[k] = MyAddress
    <3>1. Part(k) = clientConnections
      BY <2>1
    <3>2. clientConnections \in Seq(T)
      BY <1>1, SeqMonotonic
    <3>3. QED BY <1>1, <2>1, <3>1, <3>2
  <2>2. CASE dests[k] # MyAddress /\ IsClient(x)
    <3>1. Part(k) = SocketsTo(dests[k])
      BY <2>2
    <3>2. /\ SocketsTo(dests[k]) \in Seq(Sockets)
          /\ ToSet(SocketsTo(dests[k])) =
                 {s \in ToSet(socketList) : GetConnectionAddress(s) = dests[k]}
          /\ IsInjective(SocketsTo(dests[k]))
      BY <1>1, SocketsToProperties
    <3>3. SocketsTo(dests[k]) \in Seq(T)
      BY <3>2, SeqMonotonic
    <3> HIDE DEF Part
    <3>4. QED BY <1>1, <2>2, <3>1, <3>2, <3>3
  <2>3. CASE dests[k] # MyAddress /\ ~IsClient(x)
    <3>1. Part(k) = <<>>
      BY <2>3
    <3>2. ToSet(<<>>) = {} /\ IsInjective(<<>>)
      BY DEF ToSet, IsInjective
    <3> HIDE DEF Part
    <3>3. QED BY <2>3, <3>1, <3>2, EmptySeq
  <2>4. QED BY <2>1, <2>2, <2>3
<1> HIDE DEF Part
<1>5. parts \in Seq(Seq(T)) /\ DOMAIN parts = 1 .. n /\ \A k \in 1 .. n : parts[k] = Part(k)
  <2>1. parts \in [1 .. n -> Seq(T)]
    BY <1>2, <1>4
  <2>2. parts \in Seq(Seq(T))
    BY <1>2, <2>1, SeqDef
  <2>3. QED BY <1>2, <2>1, <2>2
<1>6. ChatPlan(x, dests) = FlattenSeq(parts)
  BY DEF ChatPlan, Part
<1> HIDE DEF parts, n
<1>7. Disjoint(parts)
  <2>1. ASSUME NEW j \in 1 .. n, NEW k \in 1 .. n, j # k
        PROVE  ToSet(Part(j)) \cap ToSet(Part(k)) = {}
    <3>1. dests[j] # dests[k]
      BY <1>3, <2>1
    <3>2. QED BY <1>1, <1>4, <3>1
  <2>2. QED BY <1>4, <1>5, <2>1 DEF Disjoint
<1>8. /\ FlattenSeq(parts) \in Seq(T)
      /\ IsInjective(FlattenSeq(parts))
      /\ ToSet(FlattenSeq(parts)) = UNION {ToSet(Part(k)) : k \in 1 .. n}
  <2>1. /\ FlattenSeq(parts) \in Seq(T)
        /\ IsInjective(FlattenSeq(parts))
        /\ ToSet(FlattenSeq(parts)) = UNION {ToSet(parts[k]) : k \in DOMAIN parts}
    BY <1>5, <1>7, FlattenProperties
  <2>2. QED BY <1>5, <2>1
<1> DEFINE U == UNION {ToSet(Part(k)) : k \in 1 .. n}
<1>9. /\ U \cap Clients \in {{}, ToSet(clientConnections)}
      /\ ~IsClient(x) => U \cap Sockets = {}
  <2>1. \A e : e \in U <=> \E k \in 1 .. n : e \in ToSet(Part(k))
    OBVIOUS
  <2>2. ASSUME NEW k \in 1 .. n, NEW e \in ToSet(Part(k))
        PROVE  /\ dests[k] = MyAddress => e \in ToSet(clientConnections)
               /\ dests[k] # MyAddress => e \in Sockets /\ IsClient(x)
    BY <1>4
  <2>3. ASSUME NEW k \in 1 .. n, dests[k] = MyAddress, NEW e \in ToSet(clientConnections)
        PROVE  e \in U
    BY <1>4, <2>1, <2>3
  <2> HIDE DEF U
  <2>4. CASE \E k \in 1 .. n : dests[k] = MyAddress
    <3>1. ToSet(clientConnections) \subseteq U
      BY <2>3, <2>4
    <3>2. U \cap Clients \subseteq ToSet(clientConnections)
      BY <1>1, <2>1, <2>2
    <3>3. U \cap Clients = ToSet(clientConnections)
      BY <1>1, <3>1, <3>2
    <3>4. ~IsClient(x) => U \cap Sockets = {}
      BY <1>1, <2>1, <2>2
    <3>5. QED BY <3>3, <3>4
  <2>5. CASE \A k \in 1 .. n : dests[k] # MyAddress
    <3>1. U \subseteq Sockets /\ (~IsClient(x) => U = {})
      BY <2>1, <2>2, <2>5
    <3>2. QED BY <1>1, <3>1
  <2>6. QED BY <2>4, <2>5
<1>10. QED BY <1>6, <1>8, <1>9 DEF Fair

-----------------------------------------------------------------------------
(* Invariants about single connections and chats.                          *)

(* Before its hello a client has sent and heard nothing.                   *)
Late == \A c \in Clients : ~helloed[c] => sent[c] = 0 /\ heard[c] = <<>>

(* A chat that was heard was counted when it was received.                 *)
Counted ==
    \A c \in Clients : \A i \in DOMAIN heard[c] : heard[c][i].n <= sent[heard[c][i].from]

(* The steps that touch what is sent, heard and relayed.                   *)
ChatEffect ==
    \/ UNCHANGED <<sent, heard, relayed>>
    \/ \E x \in Conns : RefuseChat(x)
    \/ \E x \in Conns : \E plan \in Seq(Sockets \cup Clients) :
           Fair(x, plan) /\ Deliver(x, plan)

LEMMA ChatEffects ==
    ASSUME IInv, SocketsOnce, [Next]_vars
    PROVE  ChatEffect
<1>1. ASSUME NEW x \in Conns, ChatStep(x) PROVE ChatEffect
  <2>1. ASSUME NEW plan, Fair(x, plan), Deliver(x, plan) PROVE ChatEffect
    BY <2>1 DEF Fair, ChatEffect
  <2>2. CASE \E dests \in DestLists : Chat(x, dests)
    BY <2>1, <2>2, ChatPlanIsFair DEF Chat
  <2>3. CASE PublicChat(x)
    BY <2>1, <2>3, PublicChatPlanIsFair DEF PublicChat
  <2>4. CASE RefuseChat(x)
    BY <2>4 DEF ChatEffect
  <2>5. QED BY <1>1, <2>2, <2>3, <2>4 DEF ChatStep
<1>2. ASSUME \/ \E x \in Conns : ConnStep(x)
             \/ \E c \in Clients : ClientStep(c)
             \/ LinkNext /\ UNCHANGED hostVars
             \/ UNCHANGED vars
      PROVE  UNCHANGED <<sent, heard, relayed>>
  BY <1>2
  DEF ConnStep, Accept, RemoteClose, OnClose, OnCloseClient, OnCloseServer,
      OnCloseOther, ClientStep, Hello, ClientListRequest, hostVars, vars
<1>3. ASSUME NEW p \in Peers, PeerStep(p)
      PROVE  UNCHANGED <<sent, heard, relayed>>
  BY <1>3
  DEF PeerStep, ServerHello, ClientUpdateRequest, RefuseUpdateRequest, ClientUpdate
<1>4. QED BY <1>1, <1>2, <1>3 DEF Next, ChatEffect

(* What the delivery of a chat does.                                       *)
LEMMA Delivered ==
    ASSUME IInv, NEW x \in Conns, NEW plan \in Seq(Sockets \cup Clients),
           Fair(x, plan), Deliver(x, plan)
    PROVE  LET chat == NextChat(x)
           IN  /\ running /\ conn[x] = "open" /\ (x \in Clients => helloed[x])
               /\ running' = Completes(plan)
               /\ chat \in Chats /\ chat.from = x /\ chat.n = sent[x] + 1
               /\ sent[x] \in Nat
               /\ sent' = [sent EXCEPT ![x] = sent[x] + 1]
               /\ heard' = [c \in Clients |-> IF c \in Reached(plan)
                                              THEN Append(heard[c], chat) ELSE heard[c]]
               /\ Reached(plan) \cap Clients \subseteq ToSet(clientConnections)
               /\ \A c \in Reached(plan) \cap Clients : Present(c) /\ conn[c] = "open"
               /\ Completes(plan) =>
                      Reached(plan) \cap Clients \in {{}, ToSet(clientConnections)}
               /\ UNCHANGED <<conn, helloed, clientConnections>>
<1>1. /\ running /\ conn[x] = "open" /\ (x \in Clients => helloed[x])
      /\ sent[x] < MaxChats /\ sent' = [sent EXCEPT ![x] = sent[x] + 1]
      /\ running' = Completes(plan)
      /\ UNCHANGED <<conn, helloed, clientConnections>>
  BY DEF Deliver, TakesChat, Receives, Run
<1>2. sent[x] \in Nat /\ MaxChats \in Nat
  BY HostAssumption DEF IInv, TypeOK
<1>3. NextChat(x) \in Chats /\ NextChat(x).from = x /\ NextChat(x).n = sent[x] + 1
  BY <1>1, <1>2 DEF NextChat, Chats
<1>4. heard' = [c \in Clients |-> IF c \in Reached(plan)
                                  THEN Append(heard[c], NextChat(x)) ELSE heard[c]]
  BY DEF Deliver, SendChat
<1>5. /\ Reached(plan) \subseteq ToSet(plan)
      /\ Completes(plan) => Reached(plan) = ToSet(plan)
  BY ReachedOfPlan
<1>6. Reached(plan) \cap Clients \subseteq ToSet(clientConnections)
  BY <1>5 DEF Fair
<1>7. Completes(plan) => Reached(plan) \cap Clients \in {{}, ToSet(clientConnections)}
  BY <1>5 DEF Fair
<1>8. ASSUME NEW c \in Reached(plan) \cap Clients PROVE Present(c) /\ conn[c] = "open"
  <2>1. Present(c)
    BY <1>6, IsClientToSet DEF IInv, RosterAligned
  <2>2. PICK i \in DOMAIN plan : plan[i] = c /\ \A j \in 1 .. i : ~Throws(plan[j])
    BY DEF Reached
  <2>3. i \in 1 .. i
    BY <2>2, LenProperties
  <2>4. ~Throws(c) /\ c \notin Sockets
    BY <2>2, <2>3, HostAssumption DEF Conns
  <2>5. QED BY <2>1, <2>4 DEF Throws
<1>9. QED BY <1>1, <1>2, <1>3, <1>4, <1>6, <1>7, <1>8

-----------------------------------------------------------------------------
LEMMA SocketsOnceStep ==
    ASSUME IInv, IInv', SocketsOnce, [Next]_vars
    PROVE  SocketsOnce'
<1>1. CASE UNCHANGED socketList
  BY <1>1 DEF SocketsOnce, IsInjective
<1>2. ASSUME NEW s \in Sockets, AddSocket(s) PROVE SocketsOnce'
  <2> DEFINE n == Len(socketList)
             new == socketList'
  <2>1. socketList \in Seq(Sockets) /\ new = Append(socketList, s)
        /\ s \notin ToSet(socketList)
    BY <1>2 DEF IInv, TypeOK, LinkTypeOK, AddSocket
  <2>2. /\ n \in Nat /\ DOMAIN socketList = 1 .. n /\ DOMAIN new = 1 .. n + 1
        /\ \A i \in 1 .. n : new[i] = socketList[i] /\ i # n + 1
        /\ new[n + 1] = s
        /\ \A i : i \in 1 .. n + 1 <=> i \in 1 .. n \/ i = n + 1
    BY <2>1, AppendOne
  <2>3. /\ \A i \in 1 .. n : socketList[i] # s
        /\ \A i, j \in 1 .. n : socketList[i] = socketList[j] => i = j
    BY <2>1, <2>2 DEF ToSet, SocketsOnce, IsInjective
  <2> HIDE DEF n, new
  <2>4. \A i, j \in 1 .. n + 1 : new[i] = new[j] => i = j
    BY <2>2, <2>3
  <2>5. QED BY <2>2, <2>4 DEF SocketsOnce, IsInjective, new
<1>3. ToldEffect
  BY ToldEffects
<1>4. QED
  BY <1>1, <1>2, <1>3
  DEF ToldEffect, linkVars, LinkNext, LinkStep, OpenLink, BreakLink, DropLink

LEMMA LateStep ==
    ASSUME IInv, SocketsOnce, Late, [Next]_vars
    PROVE  Late'
<1>1. \A c \in Clients : ~helloed'[c] => ~helloed[c]
  <2>1. helloed \in [Conns -> BOOLEAN]
    BY DEF IInv, TypeOK
  <2>2. UNCHANGED helloed \/ \E x \in Conns : helloed' = [helloed EXCEPT ![x] = TRUE]
    BY DEF Next, ConnStep, Accept, RemoteClose, OnClose, OnCloseClient, OnCloseServer,
       OnCloseOther, ChatStep, Chat, PublicChat, Deliver, RefuseChat, ClientStep, Hello,
       ClientListRequest, PeerStep, ServerHello, ClientUpdateRequest,
       RefuseUpdateRequest, ClientUpdate, hostVars, vars, Conns
  <2>3. QED BY <2>1, <2>2 DEF Conns
<1>2. ChatEffect
  BY ChatEffects
<1>3. CASE UNCHANGED <<sent, heard, relayed>>
  BY <1>1, <1>3 DEF Late
<1>4. ASSUME NEW x \in Conns, RefuseChat(x) PROVE Late'
  <2>1. /\ sent' = [sent EXCEPT ![x] = sent[x] + 1] /\ (x \in Clients => helloed[x])
        /\ sent \in [Conns -> 0 .. MaxChats] /\ UNCHANGED <<heard, helloed>>
    BY <1>4 DEF RefuseChat, TakesChat, IInv, TypeOK
  <2>2. QED BY <2>1 DEF Late, Conns
<1>5. ASSUME NEW x \in Conns, NEW plan \in Seq(Sockets \cup Clients),
             Fair(x, plan), Deliver(x, plan)
      PROVE  Late'
  <2>1. /\ sent' = [sent EXCEPT ![x] = sent[x] + 1] /\ (x \in Clients => helloed[x])
        /\ \A c \in Clients : ~helloed[c] => heard'[c] = heard[c]
        /\ UNCHANGED helloed
    BY <1>5, Delivered DEF Present
  <2>2. sent \in [Conns -> 0 .. MaxChats]
    BY DEF IInv, TypeOK
  <2>3. QED BY <2>1, <2>2 DEF Late, Conns
<1>6. QED BY <1>2, <1>3, <1>4, <1>5 DEF ChatEffect

LEMMA CountedStep ==
    ASSUME IInv, SocketsOnce, Counted, [Next]_vars
    PROVE  Counted'
<1>0. /\ sent \in [Conns -> 0 .. MaxChats]
      /\ \A c \in Clients : heard[c] \in Seq(Chats)
  BY DEF IInv, TypeOK
<1>1. \A c \in Clients : \A i \in DOMAIN heard[c] :
         heard[c][i] \in Chats /\ heard[c][i].from \in Conns /\ heard[c][i].n \in Nat
  <2> TAKE c \in Clients
  <2> TAKE i \in DOMAIN heard[c]
  <2>1. heard[c][i] \in Chats
    BY <1>0, LenProperties, ElementOfSeq
  <2>2. QED BY <2>1, HostAssumption DEF Chats
<1>2. ASSUME NEW x \in Conns, sent' = [sent EXCEPT ![x] = sent[x] + 1],
             NEW c \in Clients, NEW i \in DOMAIN heard[c]
      PROVE  heard[c][i].n <= sent'[heard[c][i].from]
  <2>1. heard[c][i].n <= sent[heard[c][i].from]
    BY DEF Counted
  <2>2. sent[heard[c][i].from] <= sent'[heard[c][i].from]
        /\ sent'[heard[c][i].from] \in Nat /\ sent[heard[c][i].from] \in Nat
    BY <1>0, <1>1, <1>2, HostAssumption
  <2>3. QED BY <1>1, <2>1, <2>2
<1>3. ChatEffect
  BY ChatEffects
<1>4. CASE UNCHANGED <<sent, heard, relayed>>
  BY <1>4 DEF Counted
<1>5. ASSUME NEW x \in Conns, RefuseChat(x) PROVE Counted'
  <2>1. sent' = [sent EXCEPT ![x] = sent[x] + 1] /\ heard' = heard
    BY <1>5 DEF RefuseChat, TakesChat
  <2>2. QED BY <1>2, <2>1 DEF Counted
<1>6. ASSUME NEW x \in Conns, NEW plan \in Seq(Sockets \cup Clients),
             Fair(x, plan), Deliver(x, plan)
      PROVE  Counted'
  <2> DEFINE chat == NextChat(x)
  <2>1. /\ chat \in Chats /\ chat.from = x /\ chat.n = sent[x] + 1
        /\ sent' = [sent EXCEPT ![x] = sent[x] + 1]
        /\ \A c \in Clients : heard'[c] = heard[c] \/ heard'[c] = Append(heard[c], chat)
    BY <1>6, Delivered
  <2> HIDE DEF chat
  <2>2. chat.n <= sent'[chat.from]
    BY <1>0, <2>1
  <2>3. ASSUME NEW c \in Clients, NEW i \in DOMAIN heard'[c]
        PROVE  heard'[c][i].n <= sent'[heard'[c][i].from]
    <3>1. CASE heard'[c] = heard[c]
      BY <1>2, <2>1, <3>1
    <3>2. CASE heard'[c] = Append(heard[c], chat)
      <4>1. heard[c] \in Seq(Chats)
        BY <1>0
      <4>2. (i \in DOMAIN heard[c] /\ heard'[c][i] = heard[c][i]) \/ heard'[c][i] = chat
        BY <2>1, <3>2, <4>1, AppendOne
      <4>3. QED BY <1>2, <2>1, <2>2, <4>2
    <3>3. QED BY <2>1, <3>1, <3>2
  <2>4. QED BY <2>3 DEF Counted
<1>7. QED BY <1>3, <1>4, <1>5, <1>6 DEF ChatEffect

-----------------------------------------------------------------------------
(* The recorded counters.                                                  *)
LEMMA CountsCurrentStep ==
    ASSUME IInv, IInv', SocketsOnce, Late, CountsCurrent, [Next]_vars
    PROVE  CountsCurrent'
<1> DEFINE n == Len(clientConnections)
<1>0. /\ clientConnections \in Seq(Clients) /\ clientCounts \in Seq(-1 .. MaxChats)
      /\ n \in Nat /\ DOMAIN clientConnections = 1 .. n
      /\ DOMAIN clientCounts = 1 .. n /\ Len(clientCounts) = n
      /\ IsInjective(clientConnections)
      /\ \A i \in 1 .. n : clientConnections[i] \in Clients
      /\ sent \in [Conns -> 0 .. MaxChats]
  BY LenProperties, ElementOfSeq DEF IInv, TypeOK, RosterAligned
<1>1. ASSUME running' => running, UNCHANGED <<clientConnections, clientCounts, sent>>
      PROVE  CountsCurrent'
  BY <1>1 DEF CountsCurrent
<1>2. ASSUME NEW c \in Clients, Hello(c) PROVE CountsCurrent'
  <2> SUFFICES ASSUME running'
               PROVE  \A i \in DOMAIN clientConnections' :
                          clientCounts'[i] = sent'[clientConnections'[i]]
    BY DEF CountsCurrent
  <2>1. /\ running /\ sent' = sent /\ sent[c] = 0
        /\ clientConnections' = Append(clientConnections, c)
        /\ clientCounts' = Append(clientCounts, 0)
    BY <1>2 DEF Hello, Receives, Run, Late
  <2>2. 0 \in -1 .. MaxChats
    BY HostAssumption
  <2>3. /\ DOMAIN clientConnections' = 1 .. n + 1
        /\ \A i \in 1 .. n : /\ clientConnections'[i] = clientConnections[i]
                             /\ clientCounts'[i] = clientCounts[i]
        /\ clientConnections'[n + 1] = c /\ clientCounts'[n + 1] = 0
        /\ \A i : i \in 1 .. n + 1 <=> i \in 1 .. n \/ i = n + 1
    <3>1. /\ DOMAIN clientConnections' = 1 .. n + 1
          /\ \A i \in 1 .. n : clientConnections'[i] = clientConnections[i]
          /\ clientConnections'[n + 1] = c
          /\ \A i : i \in 1 .. n + 1 <=> i \in 1 .. n \/ i = n + 1
      BY <1>0, <2>1, AppendOne
    <3>2. /\ \A i \in 1 .. n : clientCounts'[i] = clientCounts[i]
          /\ clientCounts'[n + 1] = 0
      BY <1>0, <2>1, <2>2, AppendOne
    <3>3. QED BY <3>1, <3>2
  <2> HIDE DEF n
  <2>4. QED BY <1>0, <2>1, <2>3 DEF CountsCurrent
<1>3. ASSUME NEW x \in Conns, OnCloseClient(x) PROVE CountsCurrent'
  <2>1. running /\ sent' = sent
    BY <1>3 DEF OnCloseClient
  <2>2. PICK i \in 1 .. n : /\ clientConnections' = RemoveAt(clientConnections, i)
                            /\ clientCounts' = RemoveAt(clientCounts, i)
    BY <1>0, <1>3 DEF OnCloseClient, EraseClient, Places
  <2>3. /\ DOMAIN clientConnections' = 1 .. n - 1
        /\ \A j \in 1 .. n - 1 : clientConnections'[j] = clientConnections[Before(i, j)]
    BY <1>0, <2>2, RemoveAtProperties DEF Before
  <2>4. \A j \in 1 .. n - 1 : clientCounts'[j] = clientCounts[Before(i, j)]
    <3>1. i \in 1 .. Len(clientCounts)
      BY <1>0
    <3>2. \A j \in 1 .. Len(clientCounts) - 1 :
             RemoveAt(clientCounts, i)[j] = clientCounts[Before(i, j)]
      BY <1>0, <3>1, RemoveAtProperties DEF Before
    <3>3. QED BY <1>0, <2>2, <3>2
  <2>5. \A j \in 1 .. n - 1 : Before(i, j) \in 1 .. n
    BY <1>0, BeforeProperties
  <2>6. \A j \in 1 .. n : clientCounts[j] = sent[clientConnections[j]]
    BY <1>0, <2>1 DEF CountsCurrent
  <2> HIDE DEF n
  <2>7. \A j \in 1 .. n - 1 : clientCounts'[j] = sent'[clientConnections'[j]]
    BY <2>1, <2>3, <2>4, <2>5, <2>6
  <2>8. QED BY <2>3, <2>7 DEF CountsCurrent
<1>4. ASSUME NEW x \in Conns, NEW plan, Deliver(x, plan) PROVE CountsCurrent'
  <2>1. /\ running /\ UNCHANGED clientConnections
        /\ sent' = [sent EXCEPT ![x] = sent[x] + 1]
        /\ clientCounts' = [i \in DOMAIN clientCounts |->
                               IF i \in Places(x) THEN sent[x] + 1 ELSE clientCounts[i]]
    BY <1>4 DEF Deliver, TakesChat, Receives, CountsAfter, NextChat
  <2>2. \A i \in 1 .. n : i \in Places(x) <=> clientConnections[i] = x
    BY <1>0 DEF Places
  <2>3. ASSUME NEW i \in 1 .. n PROVE clientCounts'[i] = sent'[clientConnections[i]]
    <3>1. clientConnections[i] \in Conns
      BY <1>0 DEF Conns
    <3>2. clientCounts[i] = sent[clientConnections[i]]
      BY <1>0, <2>1 DEF CountsCurrent
    <3> HIDE DEF n
    <3>3. QED BY <1>0, <2>1, <2>2, <3>1, <3>2
  <2>4. QED BY <1>0, <2>1, <2>3 DEF CountsCurrent
<1>5. ASSUME NEW x \in Conns, RefuseChat(x) PROVE CountsCurrent'
  <2>1. /\ running /\ UNCHANGED <<running, clientConnections, clientCounts>>
        /\ sent' = [sent EXCEPT ![x] = sent[x] + 1]
        /\ ~ValidCount(x, sent[x] + 1)
    BY <1>5 DEF RefuseChat, TakesChat, Receives, NextChat, rosterVars
  <2>2. \A i \in 1 .. n : clientConnections[i] # x
    <3> SUFFICES ASSUME NEW i \in 1 .. n, clientConnections[i] = x PROVE FALSE
      OBVIOUS
    <3>1. i \in Places(x)
      BY <1>0 DEF Places
    <3>2. clientCounts[i] = sent[x] /\ sent[x] + 1 > sent[x]
      BY <1>0, <2>1 DEF CountsCurrent
    <3>3. ValidCount(x, sent[x] + 1)
      BY <3>1, <3>2 DEF ValidCount, IsClient
    <3>4. QED BY <2>1, <3>3
  <2>3. QED BY <1>0, <2>1, <2>2 DEF CountsCurrent, Conns
<1>6. ASSUME NEW x \in Conns, \/ Accept(x) \/ RemoteClose(x)
                              \/ OnCloseServer(x) \/ OnCloseOther(x)
      PROVE  CountsCurrent'
  <2>1. running /\ UNCHANGED <<clientConnections, clientCounts, sent>>
    BY <1>6 DEF Accept, RemoteClose, OnCloseServer, OnCloseOther, Receives, rosterVars
  <2>2. QED BY <1>1, <2>1
<1>7. ASSUME NEW p \in Peers, PeerStep(p) PROVE CountsCurrent'
  <2>1. running /\ UNCHANGED <<clientConnections, clientCounts, sent>>
    BY <1>7
    DEF PeerStep, ServerHello, ClientUpdateRequest, RefuseUpdateRequest, ClientUpdate,
        Receives, rosterVars
  <2>2. QED BY <1>1, <2>1
<1>8. ASSUME \/ \E c \in Clients : ClientListRequest(c)
             \/ LinkNext /\ UNCHANGED hostVars
             \/ UNCHANGED vars
      PROVE  CountsCurrent'
  <2>1. UNCHANGED <<running, clientConnections, clientCounts, sent>>
    BY <1>8 DEF ClientListRequest, hostVars, vars, rosterVars
  <2>2. QED BY <1>1, <2>1
<1>9. QED
  BY <1>2, <1>3, <1>4, <1>5, <1>6, <1>7, <1>8
  DEF Next, ConnStep, OnClose, ChatStep, Chat, PublicChat, ClientStep

-----------------------------------------------------------------------------
(* What other servers are relayed.                                         *)
LEMMA RelayedStep ==
    ASSUME IInv, SocketsOnce, RelayedByOrigin, [Next]_vars
    PROVE  RelayedByOrigin'
<1>1. ChatEffect
  BY ChatEffects
<1>2. CASE UNCHANGED relayed
  BY <1>2 DEF RelayedByOrigin
<1>3. ASSUME NEW x \in Conns, NEW plan \in Seq(Sockets \cup Clients),
             Fair(x, plan), Deliver(x, plan)
      PROVE  RelayedByOrigin'
  <2> DEFINE chat == NextChat(x)
  <2>1. /\ relayed' = [s \in Sockets |-> IF s \in ReachedSockets(plan)
                                         THEN Append(relayed[s], chat) ELSE relayed[s]]
        /\ relayed \in [Sockets -> Seq(Chats)]
        /\ chat \in Chats /\ chat.from = x
    <3>1. chat \in Chats /\ chat.from = x
      BY <1>3, Delivered
    <3>2. QED BY <1>3, <3>1 DEF Deliver, SendChat, IInv, TypeOK
  <2> HIDE DEF chat
  <2>2. ASSUME NEW s \in ReachedSockets(plan) PROVE x \in Clients
    <3>1. s \in ToSet(plan) /\ s \in Sockets
      BY ReachedOfPlan DEF ReachedSockets
    <3>2. IsClient(x)
      BY <1>3, <3>1 DEF Fair
    <3>3. QED BY <3>2, LenProperties, ElementOfSeq DEF IsClient, Places, IInv, TypeOK
  <2>3. ASSUME NEW s \in Sockets, NEW i \in DOMAIN relayed'[s]
        PROVE  relayed'[s][i].from \in Clients
    <3>1. CASE s \in ReachedSockets(plan)
      <4>1. relayed'[s] = Append(relayed[s], chat) /\ relayed[s] \in Seq(Chats)
        BY <2>1, <3>1
      <4>2. (i \in DOMAIN relayed[s] /\ relayed'[s][i] = relayed[s][i])
            \/ relayed'[s][i] = chat
        BY <2>1, <4>1, AppendOne
      <4>3. QED BY <2>1, <2>2, <3>1, <4>2 DEF RelayedByOrigin
    <3>2. CASE s \notin ReachedSockets(plan)
      BY <2>1, <3>2 DEF RelayedByOrigin
    <3>3. QED BY <3>1, <3>2
  <2>4. QED BY <2>3 DEF RelayedByOrigin
<1>4. QED BY <1>1, <1>2, <1>3 DEF ChatEffect, RefuseChat

LEMMA TargetsOnce ==
    ASSUME IInv, SocketsOnce
    PROVE  EachTargetOnce
BY PublicChatPlanIsFair, ChatPlanIsFair DEF EachTargetOnce, Fair

-----------------------------------------------------------------------------
(* Transcripts.                                                            *)

(* A suffix, counted from the end.                                         *)
EndsAlike(s, t) == \A i \in 1 .. Len(s) : s[(Len(s) - i) + 1] = t[(Len(t) - i) + 1]

LEMMA SuffixMeans ==
    ASSUME NEW T, NEW s \in Seq(T), NEW t \in Seq(T)
    PROVE  IsSuffix(s, t) <=> Len(s) <= Len(t) /\ EndsAlike(s, t)
<1> DEFINE m == Len(s)
           n == Len(t)
           r == Reverse(s)
           q == Reverse(t)
<1>1. m \in Nat /\ n \in Nat
  BY LenProperties
<1>2. ASSUME NEW k \in Nat, NEW u \in Seq(T), Len(u) = k
      PROVE  /\ Reverse(u) \in Seq(T) /\ Len(Reverse(u)) = k
             /\ \A i \in 1 .. k : Reverse(u)[i] = u[(k - i) + 1]
  <2>1. \A i \in 1 .. k : (k - i) + 1 \in 1 .. Len(u)
    BY <1>2
  <2>2. \A i \in 1 .. k : u[(k - i) + 1] \in T
    BY <2>1, ElementOfSeq
  <2>3. Reverse(u) = [i \in 1 .. k |-> u[(k - i) + 1]]
    BY <1>2 DEF Reverse
  <2>4. Reverse(u) \in [1 .. k -> T]
    BY <2>2, <2>3
  <2>5. Reverse(u) \in Seq(T)
    BY <1>2, <2>4, SeqDef
  <2>6. QED BY <1>2, <2>3, <2>4, <2>5, LenProperties
<1>3. /\ r \in Seq(T) /\ Len(r) = m /\ \A i \in 1 .. m : r[i] = s[(m - i) + 1]
      /\ q \in Seq(T) /\ Len(q) = n /\ \A i \in 1 .. n : q[i] = t[(n - i) + 1]
  BY <1>1, <1>2
<1>4. IsSuffix(s, t) <=> m <= n /\ SubSeq(r, 1, m) = SubSeq(q, 1, m)
  BY <1>3 DEF IsSuffix, IsPrefix
<1> HIDE DEF r, q, m, n
<1>5. ASSUME m <= n
      PROVE  SubSeq(r, 1, m) = SubSeq(q, 1, m) <=> \A i \in 1 .. m : r[i] = q[i]
  <2>1. \A i \in 1 .. m : r[i] \in T /\ q[i] \in T
    BY <1>1, <1>3, <1>5, ElementOfSeq
  <2>2. SubSeq(r, 1, m) = [i \in 1 .. m |-> r[i]]
    BY <1>1, <1>3, <2>1
  <2>3. SubSeq(q, 1, m) = [i \in 1 .. m |-> q[i]]
    BY <1>1, <1>3, <1>5, <2>1
  <2>4. QED BY <2>2, <2>3
<1>6. m <= n => \A i \in 1 .. m : i \in 1 .. n
  BY <1>1
<1>7. QED BY <1>3, <1>4, <1>5, <1>6 DEF EndsAlike, m, n

LEMMA SuffixOfAll ==
    ASSUME NEW T, NEW s \in Seq(T), NEW t \in Seq(T), s = <<>>
    PROVE  IsSuffix(s, t)
<1>1. Len(s) = 0 /\ Len(t) \in Nat
  BY LenProperties
<1>2. EndsAlike(s, t)
  BY <1>1 DEF EndsAlike
<1>3. Len(s) <= Len(t)
  BY <1>1
<1>4. QED BY <1>2, <1>3, SuffixMeans

(* Both transcripts get the same chat.                                     *)
LEMMA SuffixAppend ==
    ASSUME NEW T, NEW s \in Seq(T), NEW t \in Seq(T), NEW e \in T, IsSuffix(s, t)
    PROVE  IsSuffix(Append(s, e), Append(t, e))
<1> DEFINE m == Len(s)
           n == Len(t)
           u == Append(s, e)
           v == Append(t, e)
<1>1. /\ m \in Nat /\ u \in Seq(T) /\ Len(u) = m + 1
      /\ \A i \in 1 .. m : u[i] = s[i]
      /\ u[m + 1] = e
  BY AppendOne
<1>2. /\ n \in Nat /\ v \in Seq(T) /\ Len(v) = n + 1
      /\ \A i \in 1 .. n : v[i] = t[i]
      /\ v[n + 1] = e
  BY AppendOne
<1>3. m <= n /\ \A i \in 1 .. m : s[(m - i) + 1] = t[(n - i) + 1]
  BY SuffixMeans DEF EndsAlike
<1> HIDE DEF m, n, u, v
<1>4. ASSUME NEW i \in 1 .. m + 1
      PROVE  u[(m + 1 - i) + 1] = v[(n + 1 - i) + 1]
  <2>1. CASE i = 1
    <3>1. (m + 1 - i) + 1 = m + 1 /\ (n + 1 - i) + 1 = n + 1
      BY <1>1, <1>2, <2>1
    <3>2. QED BY <1>1, <1>2, <3>1
  <2>2. CASE i # 1
    <3> DEFINE j == i - 1
    <3>1. /\ j \in 1 .. m
          /\ (m + 1 - i) + 1 = (m - j) + 1 /\ (m - j) + 1 \in 1 .. m
          /\ (n + 1 - i) + 1 = (n - j) + 1 /\ (n - j) + 1 \in 1 .. n
      BY <1>1, <1>2, <1>3, <2>2
    <3> HIDE DEF j
    <3>2. QED BY <1>1, <1>2, <1>3, <3>1, SMTT(20)
  <2>3. QED BY <2>1, <2>2
<1>5. m + 1 <= n + 1
  BY <1>1, <1>2, <1>3
<1>6. IsSuffix(u, v)
  <2>1. EndsAlike(u, v)
    BY <1>1, <1>2, <1>4 DEF EndsAlike
  <2>2. QED BY <1>1, <1>2, <1>5, <2>1, SuffixMeans
<1>7. QED BY <1>6 DEF u, v

(* Who is a member after a step was one before, or has heard nothing.      *)
LEMMA NewMembers ==
    ASSUME IInv, ConnInv, Late, [Next]_vars
    PROVE  \A c \in Members' : c \in Clients /\ (c \in Members \/ heard[c] = <<>>)
<1>1. \A c \in Clients : ConnEffect(c)
  BY ConnEffects DEF Conns
<1>2. QED BY <1>1 DEF Members, Present, ConnInv, ConnEffect, Late, Conns

LEMMA TranscriptsStep ==
    ASSUME IInv, ConnInv, SocketsOnce, Late, TranscriptsAgree, [Next]_vars
    PROVE  TranscriptsAgree'
<1>0. \A c \in Clients : heard[c] \in Seq(Chats)
  BY DEF IInv, TypeOK
<1> SUFFICES ASSUME running'
             PROVE  \A c, d \in Members' : \/ IsSuffix(heard'[c], heard'[d])
                                           \/ IsSuffix(heard'[d], heard'[c])
  BY DEF TranscriptsAgree, SameTranscript, IsSuffix, IsPrefix, Reverse
<1>1. CASE UNCHANGED heard
  <2>1. running
    <3>1. ASSUME NEW x \in Conns, ConnStep(x) \/ ChatStep(x) PROVE running
      BY <3>1 DEF ConnStep, Accept, RemoteClose, OnClose, OnCloseClient, OnCloseServer,
         OnCloseOther, ChatStep, Chat, PublicChat, Deliver, RefuseChat, TakesChat, Receives
    <3>2. ASSUME NEW c \in Clients, ClientStep(c) PROVE running
      BY <3>2 DEF ClientStep, Hello, ClientListRequest, Receives
    <3>3. ASSUME NEW p \in Peers, PeerStep(p) PROVE running
      BY <3>3 DEF PeerStep, ServerHello, ClientUpdateRequest, RefuseUpdateRequest,
         ClientUpdate, Receives
    <3>4. QED BY <3>1, <3>2, <3>3 DEF Next, hostVars, vars
  <2>2. SUFFICES ASSUME NEW c \in Members', NEW d \in Members'
                 PROVE  IsSuffix(heard[c], heard[d]) \/ IsSuffix(heard[d], heard[c])
    BY <1>1
  <2>3. /\ c \in Clients /\ (c \in Members \/ heard[c] = <<>>)
        /\ d \in Clients /\ (d \in Members \/ heard[d] = <<>>)
    BY NewMembers
  <2>4. CASE c \in Members /\ d \in Members
    BY <2>1, <2>4 DEF TranscriptsAgree, SameTranscript
  <2>5. CASE heard[c] = <<>>
    BY <1>0, <2>3, <2>5, SuffixOfAll
  <2>6. CASE heard[d] = <<>>
    BY <1>0, <2>3, <2>6, SuffixOfAll
  <2>7. QED BY <2>3, <2>4, <2>5, <2>6
<1>2. ASSUME NEW x \in Conns, NEW plan \in Seq(Sockets \cup Clients),
             Fair(x, plan), Deliver(x, plan)
      PROVE  \A c, d \in Members' : \/ IsSuffix(heard'[c], heard'[d])
                                    \/ IsSuffix(heard'[d], heard'[c])
  <2> DEFINE chat == NextChat(x)
  <2>1. /\ running /\ chat \in Chats
        /\ heard' = [c \in Clients |-> IF c \in Reached(plan)
                                       THEN Append(heard[c], chat) ELSE heard[c]]
        /\ Reached(plan) \cap Clients \in {{}, ToSet(clientConnections)}
        /\ UNCHANGED <<conn, helloed>>
    BY <1>2, Delivered
  <2>2. Members' = Members /\ Members \subseteq Clients
    BY <2>1 DEF Members, Present
  <2>3. \A c \in Members : c \in ToSet(clientConnections)
    BY IsClientToSet DEF Members, IInv, RosterAligned
  <2> HIDE DEF chat
  <2>4. CASE Reached(plan) \cap Clients = {}
    BY <2>1, <2>2, <2>4 DEF TranscriptsAgree, SameTranscript
  <2>5. CASE Reached(plan) \cap Clients = ToSet(clientConnections)
    <3>1. \A c \in Members : heard'[c] = Append(heard[c], chat)
      BY <2>1, <2>2, <2>3, <2>5
    <3>2. ASSUME NEW c \in Members, NEW d \in Members
          PROVE  IsSuffix(heard'[c], heard'[d]) \/ IsSuffix(heard'[d], heard'[c])
      <4>1. IsSuffix(heard[c], heard[d]) \/ IsSuffix(heard[d], heard[c])
        BY <2>1 DEF TranscriptsAgree, SameTranscript
      <4>2. heard[c] \in Seq(Chats) /\ heard[d] \in Seq(Chats)
        BY <1>0, <2>2
      <4>3. /\ IsSuffix(heard[c], heard[d]) =>
                    IsSuffix(Append(heard[c], chat), Append(heard[d], chat))
            /\ IsSuffix(heard[d], heard[c]) =>
                    IsSuffix(Append(heard[d], chat), Append(heard[c], chat))
        BY <2>1, <4>2, SuffixAppend
      <4>4. heard'[c] = Append(heard[c], chat) /\ heard'[d] = Append(heard[d], chat)
        BY <3>1
      <4>5. QED BY <4>1, <4>3, <4>4
    <3>3. QED BY <2>2, <3>2
  <2>6. QED BY <2>1, <2>4, <2>5
<1>3. ChatEffect
  BY ChatEffects
<1>4. QED BY <1>1, <1>2, <1>3 DEF ChatEffect, RefuseChat

-----------------------------------------------------------------------------
(* The inductive invariant.                                                *)
ChatInv ==
    /\ RosterInv
    /\ SocketsOnce /\ Late /\ Counted
    /\ CountsCurrent
    /\ RelayedByOrigin
    /\ TranscriptsAgree

LEMMA InitChatInv == Init => ChatInv
<1> SUFFICES ASSUME Init PROVE ChatInv
  OBVIOUS
<1>1. RosterInv
  BY InitRosterInv
<1>2. SocketsOnce
  BY DEF Init, LinkInit, SocketsOnce, IsInjective
<1>3. Late /\ Counted
  BY DEF Init, Late, Counted, Conns
<1>4. CountsCurrent /\ RelayedByOrigin
  BY DEF Init, CountsCurrent, RelayedByOrigin
<1>5. Members = {}
  BY DEF Init, Members, Present, Conns
<1>6. TranscriptsAgree
  BY <1>5 DEF TranscriptsAgree, SameTranscript
<1>7. QED BY <1>1, <1>2, <1>3, <1>4, <1>6 DEF ChatInv

LEMMA NextChatInv == ChatInv /\ [Next]_vars => ChatInv'
<1> SUFFICES ASSUME ChatInv, [Next]_vars PROVE ChatInv'
  OBVIOUS
<1>1. RosterInv' /\ IInv /\ IInv' /\ ConnInv
  BY NextRosterInv DEF ChatInv, RosterInv
<1>2. SocketsOnce'
  BY <1>1, SocketsOnceStep DEF ChatInv
<1>3. Late' /\ Counted'
  BY <1>1, LateStep, CountedStep DEF ChatInv
<1>4. CountsCurrent'
  BY <1>1, CountsCurrentStep DEF ChatInv
<1>5. RelayedByOrigin'
  BY <1>1, RelayedStep DEF ChatInv
<1>6. TranscriptsAgree'
  BY <1>1, TranscriptsStep DEF ChatInv
<1>7. QED BY <1>1, <1>2, <1>3, <1>4, <1>5, <1>6 DEF ChatInv

THEOREM ChatInductive == Spec => []ChatInv
<1>1. QED BY InitChatInv, NextChatInv, PTL DEF Spec

(* The counter ValidCount keeps for a client is the number of its last     *)
(* message: none is taken twice, and the next one is never refused.        *)
THEOREM CountsStayCurrent == Spec => []CountsCurrent
<1>1. ChatInv => CountsCurrent
  BY DEF ChatInv
<1>2. QED BY <1>1, ChatInductive, PTL

(* Only the server of its sender relays a chat to other servers.           *)
THEOREM OriginRelays == Spec => []RelayedByOrigin
<1>1. ChatInv => RelayedByOrigin
  BY DEF ChatInv
<1>2. QED BY <1>1, ChatInductive, PTL

(* The plan of a chat, whatever its destinations, names each client and    *)
(* each socket once at most, in every reachable state.                     *)
THEOREM PlansNameTargetsOnce == Spec => []EachTargetOnce
<1>1. ChatInv => EachTargetOnce
  BY TargetsOnce DEF ChatInv, RosterInv
<1>2. QED BY <1>1, ChatInductive, PTL

(* While the endpoint runs, of the transcripts of two clients it can write *)
(* to one is the end of the other.                                         *)
THEOREM TranscriptsStayAlike == Spec => []TranscriptsAgree
<1>1. ChatInv => TranscriptsAgree
  BY DEF ChatInv
<1>2. QED BY <1>1, ChatInductive, PTL

-----------------------------------------------------------------------------
(* The room.  Each step of the host is a step of the room or leaves it as  *)
(* it is.                                                                  *)
LEMMA InitRoom == Init => Room!Init
BY DEF Init, Room!Init, Members, Present, Conns

(* A connection leaves the open state.                                     *)
LEMMA CloseRoom ==
    ASSUME IInv, NEW x \in Conns, running, conn[x] = "open", Close(x),
           UNCHANGED <<running, helloed, heard>>
    PROVE  [Room!Next]_(Room!roomVars)
<1>1. Members' = Members \ {x}
  BY DEF Members, Present, Close, IInv, TypeOK, Conns
<1>2. CASE x \in Members
  <2>1. Room!Leave(x) /\ x \in Clients
    BY <1>1, <1>2 DEF Room!Leave, Members
  <2>2. QED BY <2>1 DEF Room!Next
<1>3. CASE x \notin Members
  BY <1>1, <1>3 DEF Room!roomVars
<1>4. QED BY <1>2, <1>3

(* Nothing happens in the room but that the endpoint may stop.             *)
LEMMA QuietRoom ==
    ASSUME running, running' \in BOOLEAN, UNCHANGED heard, Members' = Members
    PROVE  [Room!Next]_(Room!roomVars)
<1>1. CASE running' = running
  BY <1>1 DEF Room!roomVars
<1>2. CASE running' = FALSE
  BY <1>2 DEF Room!Next, Room!Shut
<1>3. QED BY <1>1, <1>2

LEMMA HelloRoom ==
    ASSUME IInv, IInv', Late, NEW c \in Clients, Hello(c)
    PROVE  [Room!Next]_(Room!roomVars)
<1>1. /\ running /\ running' \in BOOLEAN
      /\ conn[c] = "open" /\ ~helloed[c]
      /\ helloed' = [helloed EXCEPT ![c] = TRUE]
      /\ UNCHANGED <<conn, heard>>
  BY DEF Hello, Receives, IInv, TypeOK
<1>2. Members' = Members \cup {c} /\ c \notin Members
  BY <1>1 DEF Members, Present, IInv, TypeOK, Conns
<1>3. heard[c] = <<>>
  BY <1>1 DEF Late
<1>4. Room!Enter(c)
  BY <1>1, <1>2, <1>3 DEF Room!Enter
<1>5. QED BY <1>4 DEF Room!Next

LEMMA DeliverRoom ==
    ASSUME IInv, IInv', Counted, NEW x \in Conns,
           NEW plan \in Seq(Sockets \cup Clients), Fair(x, plan), Deliver(x, plan)
    PROVE  [Room!Next]_(Room!roomVars)
<1> DEFINE chat == NextChat(x)
           some == Reached(plan) \cap Clients
<1>1. /\ running /\ running' = Completes(plan)
      /\ chat \in Chats /\ chat.from = x /\ chat.n = sent[x] + 1 /\ sent[x] \in Nat
      /\ heard' = [c \in Clients |-> IF c \in Reached(plan)
                                     THEN Append(heard[c], chat) ELSE heard[c]]
      /\ \A c \in some : Present(c) /\ conn[c] = "open"
      /\ Completes(plan) => some \in {{}, ToSet(clientConnections)}
      /\ UNCHANGED <<conn, helloed, clientConnections>>
  BY Delivered
<1>2. running' \in BOOLEAN /\ Members' = Members
  BY <1>1 DEF IInv, TypeOK, Members, Present
<1>3. some \in SUBSET Members
  BY <1>1 DEF Members
<1>4. \A g \in Clients : ~Room!Contains(heard[g], chat)
  <2> SUFFICES ASSUME NEW g \in Clients, NEW i \in 1 .. Len(heard[g]), heard[g][i] = chat
               PROVE  FALSE
    BY DEF Room!Contains
  <2>1. heard[g] \in Seq(Chats)
    BY DEF IInv, TypeOK
  <2>2. i \in DOMAIN heard[g]
    BY <2>1, LenProperties
  <2>3. heard[g][i].n <= sent[heard[g][i].from]
    BY <2>2 DEF Counted
  <2> HIDE DEF chat
  <2>4. QED BY <1>1, <2>3
<1>5. heard' = [c \in Clients |-> IF c \in some THEN Append(heard[c], chat) ELSE heard[c]]
  BY <1>1
<1> HIDE DEF chat, some
<1>6. CASE ~running'
  <2>1. running' = FALSE
    BY <1>2, <1>6
  <2>2. Room!Shut
    BY <1>1, <1>2, <1>3, <1>4, <1>5, <2>1 DEF Room!Shut, Room!Hears
  <2>3. QED BY <2>2 DEF Room!Next
<1>7. CASE running' /\ some = {}
  <2>1. heard' = heard
    BY <1>5, <1>7 DEF IInv, TypeOK
  <2>2. QED BY <1>1, <1>2, <2>1, QuietRoom
<1>8. CASE running' /\ some = ToSet(clientConnections)
  <2>1. Members \subseteq some
    BY <1>8, IsClientToSet DEF Members, IInv, RosterAligned
  <2>2. some = Members
    BY <1>3, <2>1
  <2>3. running' = running
    BY <1>1, <1>2, <1>8 DEF IInv, TypeOK
  <2>4. Room!Post(chat)
    BY <1>1, <1>2, <1>4, <1>5, <2>2, <2>3 DEF Room!Post, Room!Hears
  <2>5. QED BY <1>1, <2>4 DEF Room!Next
<1>9. QED BY <1>1, <1>6, <1>7, <1>8

LEMMA StepRoom ==
    ASSUME ChatInv, IInv', [Next]_vars
    PROVE  [Room!Next]_(Room!roomVars)
<1>0. /\ IInv /\ ConnInv /\ SocketsOnce /\ Late /\ Counted
      /\ conn \in [Conns -> ConnStates] /\ helloed \in [Conns -> BOOLEAN]
      /\ running' \in BOOLEAN
  BY DEF ChatInv, RosterInv, IInv, TypeOK
<1>1. ASSUME NEW x \in Conns, RemoteClose(x) PROVE [Room!Next]_(Room!roomVars)
  <2>1. running /\ conn[x] = "open" /\ Close(x) /\ UNCHANGED <<running, helloed, heard>>
    BY <1>1 DEF RemoteClose, Receives
  <2>2. QED BY <1>0, <2>1, CloseRoom
<1>2. ASSUME NEW x \in Conns, RefuseChat(x) PROVE [Room!Next]_(Room!roomVars)
  <2>1. running /\ conn[x] = "open" /\ Close(x) /\ UNCHANGED <<running, helloed, heard>>
    BY <1>2 DEF RefuseChat, TakesChat, Receives
  <2>2. QED BY <1>0, <2>1, CloseRoom
<1>3. ASSUME NEW p \in Peers, RefuseUpdateRequest(p) PROVE [Room!Next]_(Room!roomVars)
  <2>1. /\ running /\ conn[p] = "open" /\ Close(p) /\ p \in Conns
        /\ UNCHANGED <<running, helloed, heard>>
    BY <1>3 DEF RefuseUpdateRequest, Receives, Conns
  <2>2. QED BY <1>0, <2>1, CloseRoom
<1>4. ASSUME NEW x \in Conns, Accept(x) \/ OnClose(x) PROVE [Room!Next]_(Room!roomVars)
  <2>1. running /\ UNCHANGED <<helloed, heard>>
    BY <1>4 DEF Accept, OnClose, OnCloseClient, OnCloseServer, OnCloseOther
  <2>2. \/ conn[x] = "none" /\ ~helloed[x] /\ conn' = [conn EXCEPT ![x] = "open"]
        \/ conn[x] = "closing" /\ conn' = [conn EXCEPT ![x] = "closed"]
    BY <1>0, <1>4
    DEF ConnInv, Accept, OnClose, OnCloseClient, OnCloseServer, OnCloseOther
  <2>3. Members' = Members
    BY <1>0, <2>1, <2>2 DEF Members, Present, Conns
  <2>4. QED BY <1>0, <2>1, <2>3, QuietRoom
<1>5. ASSUME NEW c \in Clients, Hello(c) PROVE [Room!Next]_(Room!roomVars)
  BY <1>0, <1>5, HelloRoom
<1>6. ASSUME \/ \E c \in Clients : ClientListRequest(c)
             \/ \E p \in Peers : \/ ClientUpdateRequest(p)
                                 \/ \E list \in RemoteLists : ClientUpdate(p, list)
      PROVE  [Room!Next]_(Room!roomVars)
  <2>1. running /\ UNCHANGED <<conn, helloed, heard>>
    BY <1>6 DEF ClientListRequest, ClientUpdateRequest, ClientUpdate, Receives
  <2>2. Members' = Members
    BY <2>1 DEF Members, Present
  <2>3. QED BY <1>0, <2>1, <2>2, QuietRoom
<1>7. ASSUME NEW p \in Peers, ServerHello(p) PROVE [Room!Next]_(Room!roomVars)
  <2>1. /\ running /\ UNCHANGED heard /\ p \in Conns /\ p \notin Clients
        /\ helloed' = [helloed EXCEPT ![p] = TRUE]
        /\ UNCHANGED conn \/ conn' = [conn EXCEPT ![p] = "closing"]
    BY <1>7, HostAssumption DEF ServerHello, Receives, Close, Conns
  <2>2. Members' = Members
    BY <1>0, <2>1 DEF Members, Present, Conns
  <2>3. QED BY <1>0, <2>1, <2>2, QuietRoom
<1>8. CASE (LinkNext /\ UNCHANGED hostVars) \/ UNCHANGED vars
  <2>1. UNCHANGED <<running, conn, helloed, heard>>
    BY <1>8 DEF hostVars, vars
  <2>2. Members' = Members
    BY <2>1 DEF Members, Present
  <2>3. QED BY <2>1, <2>2 DEF Room!roomVars
<1>9. ASSUME NEW x \in Conns, NEW plan \in Seq(Sockets \cup Clients),
             Fair(x, plan), Deliver(x, plan)
      PROVE  [Room!Next]_(Room!roomVars)
  BY <1>0, <1>9, DeliverRoom
<1>10. ASSUME NEW x \in Conns, ChatStep(x) PROVE [Room!Next]_(Room!roomVars)
  <2>1. ASSUME NEW plan, Fair(x, plan), Deliver(x, plan)
        PROVE  [Room!Next]_(Room!roomVars)
    BY <1>9, <2>1 DEF Fair
  <2>2. CASE \E dests \in DestLists : Chat(x, dests)
    BY <1>0, <2>1, <2>2, ChatPlanIsFair DEF Chat
  <2>3. CASE PublicChat(x)
    BY <1>0, <2>1, <2>3, PublicChatPlanIsFair DEF PublicChat
  <2>4. QED BY <1>2, <1>10, <2>2, <2>3 DEF ChatStep
<1>11. QED
  BY <1>1, <1>3, <1>4, <1>5, <1>6, <1>7, <1>8, <1>10
  DEF Next, ConnStep, ClientStep, PeerStep

(* The host implements a room: what a server promises the chat clients     *)
(* connected to it.                                                        *)
THEOREM ImplementsRoom == Spec => IsRoom
<1>1. ChatInv /\ ChatInv' /\ [Next]_vars => [Room!Next]_(Room!roomVars)
  BY StepRoom DEF ChatInv, RosterInv
<1>2. QED
  BY InitRoom, ChatInductive, <1>1, PTL DEF Spec, IsRoom, Room!Spec
=============================================================================
