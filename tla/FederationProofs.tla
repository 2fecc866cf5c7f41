--------------------------- MODULE FederationProofs ---------------------------
(***************************************************************************)
(* Theorems about Federation, for any servers, clients and links that      *)
(* satisfy FederationAssumption, and any scenarios.                        *)
(*                                                                         *)
(* The argument follows one link, from the server that dials (its roster)  *)
(* over the frames on the wire to the list the other server keeps.  At     *)
(* every place of the wire one list is in force: that of the last          *)
(* client_update before it or, if there is none, the list that is kept.    *)
(* What is in force at the end of the wire is the roster (Forced), and     *)
(* every chat is of a client on the list in force where it stands          *)
(* (Introduced).  A kept list that was never filled is one somebody is     *)
(* still about to ask for (Asked).                                         *)
(***************************************************************************)
EXTENDS Federation, SequenceTheorems, TLAPS

AllFrames == Frames \cup [type : {"client_update"}, clients : Seq(Clients)]

(* The lists the accepting server keeps for a link: one at most.           *)
Entries(l) == {known[To[l]][i].clients : i \in Place(l)}

(* The socket can be written to.                                           *)
Up(l) == link[l] \in {"hello", "request", "open"} /\ gate[l] = "open"

IsUpdate(frame) == frame.type = "client_update"
Updates(w) == {i \in DOMAIN w : IsUpdate(w[i])}
Holds(w, frame) == \E i \in DOMAIN w : w[i] = frame

(* The list of the last client_update before place i of a wire, if any.    *)
Latest(w, i) ==
    {w[j].clients : j \in {j \in Updates(w) :
        j < i /\ \A k \in Updates(w) : k <= j \/ i <= k}}
Silent(w, i) == \A k \in Updates(w) : i <= k

(* The lists in force before place i of the wire of l.                     *)
InForce(l, i) ==
    Latest(wire[l], i) \cup
    IF l \in told /\ Silent(wire[l], i) THEN Entries(l) ELSE {}

Ranges ==
    /\ wire \in [Links -> Seq(AllFrames)]
    /\ \A h \in Servers : \A c \in ToSet(roster[h]) : Home[c] = h
    /\ \A c \in Clients : conn[c] = "in" => c \in ToSet(roster[Home[c]])

(* A hello is said once, and is on its way until it is taken.              *)
Greeted(l) ==
    /\ link[l] = "idle" => gate[l] = "none"
    /\ gate[l] # "open" => wire[l] = <<>>
    /\ link[l] \in {"idle", "hello"} => Entries(l) = {} /\ ~Holds(wire[l], Hello)
    /\ Holds(wire[l], Hello) => Entries(l) = {}
    /\ \A i, j \in DOMAIN wire[l] : wire[l][i] = Hello /\ wire[l][j] = Hello => i = j
    /\ gate[l] = "open" /\ link[l] \notin {"idle", "hello"} =>
            Holds(wire[l], Hello) \/ Entries(l) # {}
    /\ l \in told => Entries(l) # {}

(* The last a server says of its roster is what it is.                     *)
Forced(l) ==
    up[From(l)] /\ Up(l) =>
        \A list \in InForce(l, Len(wire[l]) + 1) : list = roster[From(l)]

Introduced(l) ==
    \A i \in DOMAIN wire[l] : wire[l][i].type = "public_chat" =>
        \A list \in InForce(l, i) : wire[l][i].from \in ToSet(list)

(* Of two links that face each other, each has been told of a roster, or   *)
(* something is on its way that leads to it: the list itself, the hello    *)
(* that makes the other server ask for it, or the question.                *)
Learns(l) == l \in told \/ Updates(wire[l]) # {}
Greets(l) == link[l] = "hello" \/ Holds(wire[l], Hello)
Asks(l) == link[l] \in {"hello", "request"} \/ Holds(wire[l], Request)

Asked(l, r) ==
    Up(l) /\ Up(r) /\ up[From(l)] /\ up[To[l]] => Learns(l) \/ Greets(l) \/ Asks(r)

(* Chats are numbered, and are sent on their own server's links only.      *)
Numbered(l) ==
    /\ \A i \in DOMAIN wire[l] : wire[l][i].type = "public_chat" =>
        Home[wire[l][i].from] = From(l) /\ wire[l][i].n <= posted
    /\ \A i, j \in DOMAIN wire[l] :
        wire[l][i].type = "public_chat" /\ wire[l][j].type = "public_chat"
            /\ wire[l][i].n = wire[l][j].n => i = j

(* The numbers of the chats on a wire.                                     *)
Numbers(w) == {w[i].n : i \in {i \in DOMAIN w : w[i].type = "public_chat"}}

(* What a client heard by a link is not on its way there any more.         *)
Heard(c) ==
    /\ IsInjective(heard[c])
    /\ \A e \in ToSet(heard[c]) :
        /\ e.n <= posted
        /\ IF Home[e.from] = Home[c] THEN e.via = Local
           ELSE e.via \in Links /\ From(e.via) = Home[e.from]
        /\ \A l \in Links : e.via = l => e.n \notin Numbers(wire[l])

Seen(c) ==
    \A h \in Servers : up[h] /\ c \in ToSet(roster[h]) => view[c] = Shown(h)

LinkInv(l) == Greeted(l) /\ Forced(l) /\ Introduced(l) /\ Numbered(l)

IInv ==
    /\ TypeOK
    /\ Ranges
    /\ \A l \in Links : LinkInv(l)
    /\ \A l, r \in Links : Opposite(l, r) => Asked(l, r)
    /\ \A c \in Clients : Heard(c) /\ Seen(c)

-----------------------------------------------------------------------------
LEMMA AppendFacts ==
    ASSUME NEW S, NEW seq \in Seq(S), NEW e \in S
    PROVE  /\ Append(seq, e) \in Seq(S)
           /\ Len(seq) \in Nat
           /\ DOMAIN seq = 1 .. Len(seq)
           /\ Len(Append(seq, e)) = Len(seq) + 1
           /\ DOMAIN Append(seq, e) = 1 .. Len(seq) + 1
           /\ \A i \in 1 .. Len(seq) : Append(seq, e)[i] = seq[i]
           /\ Append(seq, e)[Len(seq) + 1] = e
           /\ \A i : i \in 1 .. Len(seq) + 1 <=> i \in 1 .. Len(seq) \/ i = Len(seq) + 1
BY AppendProperties, LenProperties

LEMMA TailFacts ==
    ASSUME NEW S, NEW seq \in Seq(S), seq # <<>>
    PROVE  /\ Tail(seq) \in Seq(S)
           /\ Len(seq) \in Nat /\ Len(seq) > 0
           /\ Head(seq) \in S /\ Head(seq) = seq[1]
           /\ DOMAIN seq = 1 .. Len(seq)
           /\ Len(Tail(seq)) = Len(seq) - 1
           /\ DOMAIN Tail(seq) = 1 .. Len(seq) - 1
           /\ \A i \in 1 .. Len(seq) - 1 : Tail(seq)[i] = seq[i + 1] /\ i + 1 \in 1 .. Len(seq)
<1>1. /\ Tail(seq) \in Seq(S) /\ Head(seq) \in S
      /\ Len(Tail(seq)) = Len(seq) - 1
      /\ \A i \in 1 .. Len(Tail(seq)) : Tail(seq)[i] = seq[i + 1]
  BY HeadTailProperties
<1>2. Len(seq) \in Nat /\ DOMAIN seq = 1 .. Len(seq) /\ DOMAIN Tail(seq) = 1 .. Len(Tail(seq))
  BY <1>1, LenProperties
<1>3. Len(seq) > 0
  BY <1>2, EmptySeq
<1>4. Head(seq) = seq[1]
  OBVIOUS
<1>5. QED BY <1>1, <1>2, <1>3, <1>4

LEMMA ToSetIn ==
    ASSUME NEW S, NEW seq \in Seq(S)
    PROVE  \A e \in ToSet(seq) : e \in S
BY ElementOfSeq, LenProperties DEF ToSet

LEMMA ToSetAppend ==
    ASSUME NEW S, NEW seq \in Seq(S), NEW e \in S
    PROVE  ToSet(Append(seq, e)) = ToSet(seq) \cup {e}
<1> DEFINE n == Len(seq)
           new == Append(seq, e)
<1>1. ToSet(new) = {new[i] : i \in 1 .. n + 1} /\ ToSet(seq) = {seq[i] : i \in 1 .. n}
  BY AppendFacts DEF ToSet
<1>2. /\ \A i \in 1 .. n : new[i] = seq[i]
      /\ new[n + 1] = e
      /\ \A i : i \in 1 .. n + 1 <=> i \in 1 .. n \/ i = n + 1
  BY AppendFacts
<1> HIDE DEF n, new
<1>3. QED BY <1>1, <1>2 DEF new

(* The kinds of frames.                                                    *)
LEMMA FrameFacts ==
    /\ Hello \in AllFrames /\ Request \in AllFrames /\ Hello # Request
    /\ Hello.type = "server_hello" /\ Request.type = "client_update_request"
    /\ \A r \in Seq(Clients) :
        Update(r) \in AllFrames /\ Update(r).type = "client_update" /\ Update(r).clients = r
    /\ \A c \in Clients, n \in 1 .. MaxChats :
        /\ Chat(c, n) \in AllFrames /\ Chat(c, n).type = "public_chat"
        /\ Chat(c, n).from = c /\ Chat(c, n).n = n
    /\ \A f \in AllFrames :
        /\ f.type = "client_update" => f.clients \in Seq(Clients)
        /\ f.type = "public_chat" => f.from \in Clients /\ f.n \in 1 .. MaxChats
<1>1. /\ Hello.type = "server_hello" /\ Request.type = "client_update_request"
      /\ Hello \in AllFrames /\ Request \in AllFrames
  BY DEF Hello, Request, AllFrames, Frames
<1>2. \A r \in Seq(Clients) :
        Update(r) \in AllFrames /\ Update(r).type = "client_update" /\ Update(r).clients = r
  BY DEF Update, AllFrames
<1>3. \A c \in Clients, n \in 1 .. MaxChats :
        /\ Chat(c, n) \in AllFrames /\ Chat(c, n).type = "public_chat"
        /\ Chat(c, n).from = c /\ Chat(c, n).n = n
  BY DEF Chat, AllFrames, Frames
<1>4. \A f \in AllFrames :
        \/ f = Hello \/ f = Request
        \/ \E c \in Clients, n \in 1 .. MaxChats : f = Chat(c, n)
        \/ f.type = "client_update" /\ f.clients \in Seq(Clients)
  BY DEF AllFrames, Frames
<1>5. QED BY <1>1, <1>2, <1>3, <1>4

LEMMA FromFacts ==
    /\ \A l \in Links :
        /\ From(l) \in Servers /\ To[l] \in Servers /\ To[l] # From(l)
        /\ l \in ToSet(Dials[From(l)])
    /\ \A h \in Servers : \A l \in ToSet(Dials[h]) : l \in Links /\ From(l) = h
    /\ \A h \in Servers : Dials[h] \in Seq(Links)
    /\ Links \cap Clients = {} /\ Local \notin Links
    /\ \A c \in Clients : Home[c] \in Servers
<1>1. \A h \in Servers : Dials[h] \in Seq(Links) /\ \A l \in ToSet(Dials[h]) : l \in Links
  <2>1. \A h \in Servers : Dials[h] \in Seq(Links)
    BY FederationAssumption
  <2>2. QED BY <2>1, LenProperties, ElementOfSeq DEF ToSet
<1>2. \A l \in Links : \E h \in Servers : l \in ToSet(Dials[h]) /\ To[l] # h
  BY FederationAssumption
<1>3. \A l \in Links : From(l) \in Servers /\ l \in ToSet(Dials[From(l)])
  BY <1>2 DEF From
<1>4. \A g, h \in Servers : g # h => ToSet(Dials[g]) \cap ToSet(Dials[h]) = {}
  BY FederationAssumption
<1>5. \A h \in Servers : \A l \in ToSet(Dials[h]) : From(l) = h
  BY <1>1, <1>3, <1>4
<1>6. \A l \in Links : To[l] \in Servers /\ To[l] # From(l)
  <2>1. \A l \in Links : To[l] \in Servers
    BY FederationAssumption
  <2>2. QED BY <1>2, <1>5, <2>1
<1>7. Links \cap Clients = {} /\ Local \notin Links /\ \A c \in Clients : Home[c] \in Servers
  BY FederationAssumption
<1>8. QED BY <1>1, <1>3, <1>5, <1>6, <1>7

-----------------------------------------------------------------------------
(* What is in force, when a frame is appended and when one is taken.       *)
LEMMA UpdatesAppend ==
    ASSUME NEW w \in Seq(AllFrames), NEW e \in AllFrames
    PROVE  Updates(Append(w, e)) =
               Updates(w) \cup (IF IsUpdate(e) THEN {Len(w) + 1} ELSE {})
<1> DEFINE n == Len(w)
           new == Append(w, e)
<1>1. /\ n \in Nat /\ DOMAIN w = 1 .. n /\ DOMAIN new = 1 .. n + 1
      /\ \A i \in 1 .. n : new[i] = w[i]
      /\ new[n + 1] = e
      /\ \A i : i \in 1 .. n + 1 <=> i \in 1 .. n \/ i = n + 1
  BY AppendFacts
<1> HIDE DEF n, new
<1>2. QED BY <1>1 DEF Updates, n, new

LEMMA LatestAppend ==
    ASSUME NEW w \in Seq(AllFrames), NEW e \in AllFrames
    PROVE  /\ \A i \in 1 .. Len(w) + 1 :
                /\ Latest(Append(w, e), i) = Latest(w, i)
                /\ Silent(Append(w, e), i) <=> Silent(w, i)
           /\ IsUpdate(e) =>
                Latest(Append(w, e), Len(w) + 2) = {e.clients} /\ ~Silent(Append(w, e), Len(w) + 2)
           /\ ~IsUpdate(e) =>
                /\ Latest(Append(w, e), Len(w) + 2) = Latest(w, Len(w) + 1)
                /\ Silent(Append(w, e), Len(w) + 2) => Silent(w, Len(w) + 1)
<1> DEFINE n == Len(w)
           new == Append(w, e)
<1>1. /\ n \in Nat /\ DOMAIN w = 1 .. n
      /\ \A i \in 1 .. n : new[i] = w[i]
      /\ new[n + 1] = e
      /\ Updates(new) = Updates(w) \cup (IF IsUpdate(e) THEN {n + 1} ELSE {})
      /\ \A j \in Updates(w) : j \in 1 .. n
  BY AppendFacts, UpdatesAppend DEF Updates
<1> HIDE DEF n, new
<1>2. ASSUME NEW i \in 1 .. n + 1
      PROVE  /\ Latest(new, i) = Latest(w, i)
             /\ Silent(new, i) <=> Silent(w, i)
  <2>1. \A j \in Updates(new) : j < i => j \in Updates(w)
    BY <1>1
  <2>2. \A j \in Updates(new) : j \in Updates(w) \/ i <= j
    BY <1>1
  <2>3. Silent(new, i) <=> Silent(w, i)
    BY <1>1, <2>2 DEF Silent
  <2>4. \A j : /\ j \in Updates(new) /\ j < i /\ \A k \in Updates(new) : k <= j \/ i <= k
               <=> /\ j \in Updates(w) /\ j < i /\ \A k \in Updates(w) : k <= j \/ i <= k
    BY <1>1, <2>1, <2>2
  <2>5. \A j \in Updates(w) : new[j].clients = w[j].clients
    BY <1>1
  <2>6. QED BY <2>3, <2>4, <2>5 DEF Latest
<1>3. ASSUME IsUpdate(e)
      PROVE  Latest(new, n + 2) = {e.clients} /\ ~Silent(new, n + 2)
  <2>1. n + 1 \in Updates(new) /\ \A j \in Updates(new) : j <= n + 1
    BY <1>1, <1>3
  <2>2. \A j : /\ j \in Updates(new) /\ j < n + 2
               /\ \A k \in Updates(new) : k <= j \/ n + 2 <= k
               <=> j = n + 1
    <3>1. ASSUME NEW j \in Updates(new), n + 1 <= j \/ n + 2 <= n + 1
          PROVE  j = n + 1
      BY <1>1, <1>3, <3>1
    <3>2. n + 1 < n + 2
      BY <1>1
    <3>3. QED BY <2>1, <3>1, <3>2
  <2>3. Latest(new, n + 2) = {new[n + 1].clients}
    BY <2>2 DEF Latest
  <2>4. ~(n + 2 <= n + 1)
    BY <1>1
  <2>5. QED BY <1>1, <2>1, <2>3, <2>4 DEF Silent
<1>4. ASSUME ~IsUpdate(e)
      PROVE  /\ Latest(new, n + 2) = Latest(w, n + 1)
             /\ Silent(new, n + 2) => Silent(w, n + 1)
  <2>1. Updates(new) = Updates(w)
    BY <1>1, <1>4
  <2>2. \A j \in Updates(w) : j < n + 2 /\ j < n + 1 /\ ~(n + 2 <= j) /\ ~(n + 1 <= j)
    BY <1>1
  <2>3. \A j \in Updates(w) : new[j].clients = w[j].clients
    BY <1>1
  <2>4. QED BY <2>1, <2>2, <2>3 DEF Latest, Silent
<1>5. QED BY <1>2, <1>3, <1>4 DEF n, new

LEMMA LatestTail ==
    ASSUME NEW w \in Seq(AllFrames), w # <<>>, NEW i \in 1 .. Len(w)
    PROVE  /\ Latest(Tail(w), i) \subseteq Latest(w, i + 1)
           /\ Silent(Tail(w), i) =>
                IF IsUpdate(Head(w)) THEN Head(w).clients \in Latest(w, i + 1)
                                     ELSE Silent(w, i + 1)
<1> DEFINE n == Len(w)
           t == Tail(w)
<1>1. /\ n \in Nat /\ n > 0 /\ DOMAIN w = 1 .. n /\ DOMAIN t = 1 .. n - 1
      /\ \A j \in 1 .. n - 1 : t[j] = w[j + 1] /\ j + 1 \in 1 .. n
      /\ Head(w) = w[1]
      /\ i \in 1 .. n
  BY TailFacts
<1> HIDE DEF n, t
<1>2. \A j \in Updates(t) : j \in 1 .. n - 1 /\ j + 1 \in Updates(w) /\ t[j] = w[j + 1]
  BY <1>1 DEF Updates
<1>3. \A k \in Updates(w) : k \in 1 .. n /\ (k = 1 \/ k - 1 \in Updates(t))
  <2> SUFFICES ASSUME NEW k \in Updates(w), k # 1 PROVE k \in 1 .. n /\ k - 1 \in Updates(t)
    BY <1>1 DEF Updates
  <2>1. k \in 1 .. n /\ k - 1 \in 1 .. n - 1 /\ (k - 1) + 1 = k
    BY <1>1 DEF Updates
  <2>2. t[k - 1] = w[k]
    BY <1>1, <2>1
  <2>3. QED BY <1>1, <2>1, <2>2 DEF Updates
<1>4. Latest(t, i) \subseteq Latest(w, i + 1)
  <2> SUFFICES ASSUME NEW j \in Updates(t), j < i,
                      \A k \in Updates(t) : k <= j \/ i <= k
               PROVE  t[j].clients \in Latest(w, i + 1)
    BY DEF Latest
  <2>1. j + 1 \in Updates(w) /\ j + 1 < i + 1
    BY <1>1, <1>2
  <2>2. \A k \in Updates(w) : k <= j + 1 \/ i + 1 <= k
    <3>1. j \in Nat /\ j > 0
      BY <1>1, <1>2
    <3>2. \A k \in Updates(w) : k \in Nat /\ (k = 1 \/ k - 1 <= j \/ i <= k - 1)
      BY <1>1, <1>3
    <3>3. QED BY <1>1, <3>1, <3>2
  <2>3. QED BY <1>2, <2>1, <2>2 DEF Latest
<1>5. ASSUME Silent(t, i), ~IsUpdate(Head(w)) PROVE Silent(w, i + 1)
  <2>1. \A k \in Updates(w) : k # 1
    BY <1>1, <1>5 DEF Updates
  <2>2. \A k \in Updates(w) : i <= k - 1
    BY <1>3, <1>5, <2>1 DEF Silent
  <2>3. QED BY <1>1, <1>3, <2>2 DEF Silent
<1>6. ASSUME Silent(t, i), IsUpdate(Head(w)) PROVE Head(w).clients \in Latest(w, i + 1)
  <2>1. 1 \in Updates(w) /\ 1 < i + 1
    BY <1>1, <1>6 DEF Updates
  <2>2. \A k \in Updates(w) : k <= 1 \/ i + 1 <= k
    BY <1>1, <1>3, <1>6 DEF Silent
  <2>3. QED BY <1>1, <2>1, <2>2 DEF Latest
<1>7. QED BY <1>4, <1>5, <1>6 DEF t

LEMMA HoldsAppend ==
    ASSUME NEW w \in Seq(AllFrames), NEW e \in AllFrames, NEW f
    PROVE  Holds(Append(w, e), f) <=> Holds(w, f) \/ e = f
<1> DEFINE n == Len(w)
           new == Append(w, e)
<1>1. /\ DOMAIN w = 1 .. n /\ DOMAIN new = 1 .. n + 1
      /\ \A i \in 1 .. n : new[i] = w[i]
      /\ new[n + 1] = e
      /\ \A i : i \in 1 .. n + 1 <=> i \in 1 .. n \/ i = n + 1
  BY AppendFacts
<1> HIDE DEF n, new
<1>2. QED BY <1>1 DEF Holds, new

LEMMA HoldsTail ==
    ASSUME NEW w \in Seq(AllFrames), w # <<>>, NEW f
    PROVE  /\ Holds(Tail(w), f) => Holds(w, f)
           /\ Holds(w, f) => Head(w) = f \/ Holds(Tail(w), f)
<1> DEFINE n == Len(w)
           t == Tail(w)
<1>1. /\ n \in Nat /\ n > 0 /\ DOMAIN w = 1 .. n /\ DOMAIN t = 1 .. n - 1
      /\ \A j \in 1 .. n - 1 : t[j] = w[j + 1] /\ j + 1 \in 1 .. n
      /\ Head(w) = w[1]
  BY TailFacts
<1> HIDE DEF n, t
<1>2. \A j \in 1 .. n : j = 1 \/ (j - 1 \in 1 .. n - 1 /\ (j - 1) + 1 = j)
  BY <1>1
<1>3. Holds(t, f) => Holds(w, f)
  BY <1>1 DEF Holds
<1>4. Holds(w, f) => Head(w) = f \/ Holds(t, f)
  <2> SUFFICES ASSUME NEW j \in 1 .. n, w[j] = f PROVE Head(w) = f \/ Holds(t, f)
    BY <1>1 DEF Holds
  <2>1. CASE j = 1
    BY <1>1, <2>1
  <2>2. CASE j # 1
    <3>1. j - 1 \in 1 .. n - 1 /\ t[j - 1] = w[j]
      BY <1>1, <1>2, <2>2
    <3>2. QED BY <1>1, <3>1 DEF Holds
  <2>3. QED BY <2>1, <2>2
<1>5. QED BY <1>3, <1>4 DEF t

-----------------------------------------------------------------------------
(* One link, seen through a step.  First a link the step does not touch.   *)
LEMMA KeptLink ==
    ASSUME NEW l \in Links, LinkInv(l), Ranges,
           wire'[l] = wire[l], link'[l] = link[l], gate'[l] = gate[l],
           Entries(l)' = Entries(l), l \in told' <=> l \in told,
           posted \in Nat, posted' \in Nat, posted' >= posted,
           up'[From(l)] => up[From(l)],
           up'[From(l)] /\ Up(l) => roster'[From(l)] = roster[From(l)]
    PROVE  LinkInv(l)'
<1>1. \A i : InForce(l, i)' = InForce(l, i)
  BY DEF InForce, Latest, Silent, Updates, IsUpdate
<1>2. Up(l)' <=> Up(l)
  BY DEF Up
<1>3. Greeted(l)'
  BY DEF LinkInv, Greeted, Holds, Hello
<1>4. Forced(l)'
  BY <1>1, <1>2 DEF LinkInv, Forced
<1>5. Introduced(l)'
  BY <1>1 DEF LinkInv, Introduced
<1>6. Numbered(l)'
  <2>1. \A i \in DOMAIN wire[l] : wire[l][i].type = "public_chat" => wire[l][i].n \in Nat
    <3>1. \A i \in DOMAIN wire[l] : wire[l][i] \in AllFrames
      BY ElementOfSeq, LenProperties DEF Ranges
    <3>2. \A f \in AllFrames : f.type = "public_chat" => f.n \in Nat
      BY FrameFacts
    <3>3. QED BY <3>1, <3>2
  <2>2. \A n \in Nat : n <= posted => n <= posted'
    OBVIOUS
  <2>3. QED BY <2>1, <2>2 DEF LinkInv, Numbered
<1>7. QED BY <1>3, <1>4, <1>5, <1>6 DEF LinkInv

LEMMA WireFacts ==
    ASSUME Ranges, NEW l \in Links
    PROVE  /\ wire[l] \in Seq(AllFrames)
           /\ \A i \in DOMAIN wire[l] : wire[l][i] \in AllFrames
           /\ \A i \in DOMAIN wire[l] : wire[l][i].type = "public_chat" =>
                wire[l][i].n \in 1 .. MaxChats /\ wire[l][i].from \in Clients
<1>1. wire[l] \in Seq(AllFrames)
  BY DEF Ranges
<1>2. \A i \in DOMAIN wire[l] : wire[l][i] \in AllFrames
  BY <1>1, ElementOfSeq, LenProperties
<1>3. \A f \in AllFrames : f.type = "public_chat" => f.n \in 1 .. MaxChats /\ f.from \in Clients
  BY FrameFacts
<1>4. QED BY <1>1, <1>2, <1>3

(* Of the hello, a frame that is not one changes nothing.                  *)
LEMMA AppendedGreeted ==
    ASSUME NEW l \in Links, Greeted(l), Ranges, NEW f \in AllFrames, f # Hello, Up(l),
           wire'[l] = Append(wire[l], f), gate'[l] = gate[l],
           link'[l] = link[l] \/ (link[l] = "request" /\ link'[l] = "open"),
           Entries(l)' = Entries(l), l \in told' <=> l \in told
    PROVE  Greeted(l)'
<1>0. PICK n \in Nat : n = Len(wire[l])
  BY WireFacts, LenProperties
<1> DEFINE w == wire[l]
           new == Append(wire[l], f)
<1>1. /\ DOMAIN w = 1 .. n /\ DOMAIN new = 1 .. n + 1
      /\ \A i \in 1 .. n : new[i] = w[i]
      /\ new[n + 1] = f
      /\ \A i : i \in 1 .. n + 1 <=> i \in 1 .. n \/ i = n + 1
      /\ wire'[l] = new /\ wire[l] = w
  BY <1>0, WireFacts, AppendFacts
<1>2. Holds(new, Hello) <=> Holds(w, Hello)
  BY WireFacts, HoldsAppend
<1> HIDE DEF w, new
<1>3. gate'[l] = "open" /\ link'[l] # "idle" /\ (link'[l] = "hello" <=> link[l] = "hello")
      /\ link[l] # "idle"
  BY DEF Up
<1>4. \A i, j \in DOMAIN new : new[i] = Hello /\ new[j] = Hello => i = j
  BY <1>1 DEF Greeted
<1>5. Hello' = Hello /\ (Holds(wire[l], Hello)' <=> Holds(wire[l], Hello))
  BY <1>1, <1>2 DEF Hello, Holds
<1>6. (link[l] \in {"idle", "hello"} => Entries(l) = {} /\ ~Holds(wire[l], Hello))'
  BY <1>3, <1>5 DEF Greeted
<1>7. (Holds(wire[l], Hello) => Entries(l) = {})'
  BY <1>5 DEF Greeted
<1>8. (gate[l] = "open" /\ link[l] \notin {"idle", "hello"} =>
          Holds(wire[l], Hello) \/ Entries(l) # {})'
  BY <1>3, <1>5 DEF Greeted
<1>9. (l \in told => Entries(l) # {})'
  BY DEF Greeted
<1>10. QED BY <1>1, <1>3, <1>4, <1>5, <1>6, <1>7, <1>8, <1>9 DEF Greeted

(* A link its server writes a frame to: a client_update is the roster, a   *)
(* chat is new and of a client on the roster.                              *)
LEMMA AppendedCarries ==
    ASSUME NEW l \in Links, LinkInv(l), Ranges, NEW f \in AllFrames, Up(l),
           wire'[l] = Append(wire[l], f),
           Entries(l)' = Entries(l), l \in told' <=> l \in told,
           posted \in Nat, posted' \in Nat, posted' >= posted,
           up'[From(l)] => up[From(l)],
           IsUpdate(f) /\ up'[From(l)] => f.clients = roster'[From(l)],
           ~IsUpdate(f) /\ up'[From(l)] => roster'[From(l)] = roster[From(l)],
           f.type = "public_chat" =>
               /\ up[From(l)] /\ Home[f.from] = From(l)
               /\ f.from \in ToSet(roster[From(l)])
               /\ f.n = posted + 1 /\ posted' = posted + 1
    PROVE  Forced(l)' /\ Introduced(l)' /\ Numbered(l)'
<1>0. PICK n \in Nat : n = Len(wire[l])
  BY WireFacts, LenProperties
<1> DEFINE w == wire[l]
           new == Append(wire[l], f)
<1>1. /\ n \in Nat /\ DOMAIN w = 1 .. n /\ Len(new) = n + 1 /\ DOMAIN new = 1 .. n + 1
      /\ \A i \in 1 .. n : new[i] = w[i]
      /\ new[n + 1] = f
      /\ \A i : i \in 1 .. n + 1 <=> i \in 1 .. n \/ i = n + 1
      /\ wire'[l] = new /\ wire[l] = w /\ n = Len(wire[l])
      /\ n + 1 \in 1 .. n + 1 /\ \A i \in 1 .. n : i \in 1 .. n + 1
      /\ (n + 1) + 1 = n + 2
  BY <1>0, WireFacts, AppendFacts
<1>2. /\ \A i \in DOMAIN w : w[i].type = "public_chat" => w[i].n \in Nat
      /\ Greeted(l) /\ Forced(l) /\ Introduced(l) /\ Numbered(l)
  BY WireFacts DEF LinkInv
<1>3. /\ \A i \in 1 .. n + 1 : InForce(l, i)' = InForce(l, i)
      /\ IsUpdate(f) => InForce(l, n + 2)' = {f.clients}
      /\ ~IsUpdate(f) => InForce(l, n + 2)' \subseteq InForce(l, n + 1)
  <2>1. /\ \A i \in 1 .. n + 1 :
             Latest(new, i) = Latest(w, i) /\ (Silent(new, i) <=> Silent(w, i))
        /\ IsUpdate(f) => Latest(new, n + 2) = {f.clients} /\ ~Silent(new, n + 2)
        /\ ~IsUpdate(f) =>
             /\ Latest(new, n + 2) = Latest(w, n + 1)
             /\ Silent(new, n + 2) => Silent(w, n + 1)
    BY <1>0, WireFacts, LatestAppend
  <2>2. \A i : InForce(l, i)' = Latest(new, i) \cup
                   (IF l \in told /\ Silent(new, i) THEN Entries(l) ELSE {})
    BY <1>1 DEF InForce, Latest, Silent, Updates, IsUpdate
  <2>3. \A i : InForce(l, i) = Latest(w, i) \cup
                   (IF l \in told /\ Silent(w, i) THEN Entries(l) ELSE {})
    BY DEF InForce
  <2> HIDE DEF w, new
  <2>4. \A i \in 1 .. n + 1 : InForce(l, i)' = InForce(l, i)
    BY <2>1, <2>2, <2>3
  <2>5. IsUpdate(f) => InForce(l, n + 2)' = {f.clients}
    <3>1. InForce(l, n + 2)' = Latest(new, n + 2) \cup
              (IF l \in told /\ Silent(new, n + 2) THEN Entries(l) ELSE {})
      BY <2>2
    <3>2. QED BY <2>1, <3>1
  <2>6. ~IsUpdate(f) => InForce(l, n + 2)' \subseteq InForce(l, n + 1)
    <3>1. InForce(l, n + 2)' = Latest(new, n + 2) \cup
              (IF l \in told /\ Silent(new, n + 2) THEN Entries(l) ELSE {})
      BY <2>2
    <3>2. InForce(l, n + 1) = Latest(w, n + 1) \cup
              (IF l \in told /\ Silent(w, n + 1) THEN Entries(l) ELSE {})
      BY <2>3
    <3>3. QED BY <2>1, <3>1, <3>2
  <2>7. QED BY <2>4, <2>5, <2>6
<1> HIDE DEF w, new
<1>6. Forced(l)'
  <2> SUFFICES ASSUME up'[From(l)], NEW list \in InForce(l, n + 2)'
               PROVE  list = roster'[From(l)]
    <3>1. Len(wire'[l]) + 1 = n + 2
      BY <1>1
    <3>2. Forced(l)' <=> (up'[From(l)] /\ Up(l)' =>
              \A list \in InForce(l, n + 2)' : list = roster'[From(l)])
      BY <3>1 DEF Forced
    <3>3. QED BY <3>2
  <2>1. CASE IsUpdate(f)
    BY <1>3, <2>1
  <2>2. CASE ~IsUpdate(f)
    BY <1>2, <1>3, <1>1, <2>2 DEF Forced, w
  <2>3. QED BY <2>1, <2>2
<1>7. Introduced(l)'
  <2> SUFFICES ASSUME NEW i \in 1 .. n + 1, new[i].type = "public_chat",
                      NEW list \in InForce(l, i)'
               PROVE  new[i].from \in ToSet(list)
    BY <1>1 DEF Introduced
  <2>1. list \in InForce(l, i)
    BY <1>3
  <2>2. CASE i = n + 1
    <3>1. list = roster[From(l)]
      BY <1>1, <1>2, <2>1, <2>2 DEF Forced
    <3>2. QED BY <1>1, <2>2, <3>1
  <2>3. CASE i \in 1 .. n
    BY <1>1, <1>2, <2>1, <2>3 DEF Introduced
  <2>4. QED BY <1>1, <2>2, <2>3
<1>8. Numbered(l)'
  <2>1. \A i \in 1 .. n : w[i].type = "public_chat" =>
            Home[w[i].from] = From(l) /\ w[i].n <= posted /\ w[i].n \in Nat
    BY <1>1, <1>2 DEF Numbered
  <2>2. \A i \in 1 .. n + 1 : new[i].type = "public_chat" =>
            Home[new[i].from] = From(l) /\ new[i].n <= posted'
    BY <1>1, <2>1
  <2>3. ASSUME NEW i \in 1 .. n + 1, NEW j \in 1 .. n + 1,
               new[i].type = "public_chat", new[j].type = "public_chat",
               new[i].n = new[j].n
        PROVE  i = j
    <3>1. CASE i \in 1 .. n /\ j \in 1 .. n
      BY <1>1, <1>2, <2>3, <3>1 DEF Numbered
    <3>2. CASE i = n + 1 \/ j = n + 1
      <4>1. \A k \in 1 .. n : w[k].type = "public_chat" => w[k].n # posted + 1
        BY <2>1
      <4>2. QED BY <1>1, <2>3, <3>2, <4>1
    <3>3. QED BY <1>1, <3>1, <3>2
  <2>4. QED BY <1>1, <2>2, <2>3 DEF Numbered
<1>9. QED BY <1>6, <1>7, <1>8

LEMMA AppendedLink ==
    ASSUME NEW l \in Links, LinkInv(l), Ranges, NEW f \in AllFrames, f # Hello, Up(l),
           wire'[l] = Append(wire[l], f), gate'[l] = gate[l],
           link'[l] = link[l] \/ (link[l] = "request" /\ link'[l] = "open"),
           Entries(l)' = Entries(l), l \in told' <=> l \in told,
           posted \in Nat, posted' \in Nat, posted' >= posted,
           up'[From(l)] => up[From(l)],
           IsUpdate(f) /\ up'[From(l)] => f.clients = roster'[From(l)],
           ~IsUpdate(f) /\ up'[From(l)] => roster'[From(l)] = roster[From(l)],
           f.type = "public_chat" =>
               /\ up[From(l)] /\ Home[f.from] = From(l)
               /\ f.from \in ToSet(roster[From(l)])
               /\ f.n = posted + 1 /\ posted' = posted + 1
    PROVE  LinkInv(l)'
<1>1. Forced(l)' /\ Introduced(l)' /\ Numbered(l)'
  BY AppendedCarries
<1>2. Greeted(l)'
  BY AppendedGreeted DEF LinkInv
<1>3. QED BY <1>1, <1>2 DEF LinkInv

(* A link whose first frame is taken.                                      *)
LEMMA TakenLink ==
    ASSUME NEW l \in Links, LinkInv(l), Ranges, NEW f, wire[l] # <<>>, f = Head(wire[l]),
           gate[l] = "open",
           wire'[l] = Tail(wire[l]), link'[l] = link[l], gate'[l] = gate[l],
           posted \in Nat, posted' = posted,
           up'[From(l)] => up[From(l)],
           roster'[From(l)] = roster[From(l)],
           f = Hello => Entries(l)' # {} /\ (l \in told' <=> l \in told),
           IsUpdate(f) /\ Entries(l) # {} => Entries(l)' = {f.clients} /\ l \in told',
           f # Hello /\ ~(IsUpdate(f) /\ Entries(l) # {}) =>
               Entries(l)' = Entries(l) /\ (l \in told' <=> l \in told)
    PROVE  LinkInv(l)'
<1>0. PICK n \in Nat : n = Len(wire[l])
  BY WireFacts, LenProperties
<1> DEFINE w == wire[l]
           t == Tail(wire[l])
<1>1. /\ n > 0 /\ DOMAIN w = 1 .. n /\ Len(t) = n - 1 /\ DOMAIN t = 1 .. n - 1
      /\ \A i \in 1 .. n - 1 : t[i] = w[i + 1] /\ i + 1 \in 1 .. n /\ i \in 1 .. n
      /\ f = w[1] /\ f \in AllFrames
      /\ wire'[l] = t /\ wire[l] = w /\ n = Len(wire[l])
      /\ (n - 1) + 1 = n /\ n \in 1 .. n /\ 1 \in 1 .. n
  BY <1>0, WireFacts, TailFacts
<1>2. /\ Holds(t, Hello) => Holds(w, Hello)
      /\ Holds(w, Hello) => f = Hello \/ Holds(t, Hello)
      /\ f = Hello => Holds(w, Hello)
      /\ Greeted(l) /\ Forced(l) /\ Introduced(l) /\ Numbered(l)
  <2>1. /\ Holds(t, Hello) => Holds(w, Hello)
        /\ Holds(w, Hello) => f = Hello \/ Holds(t, Hello)
    BY WireFacts, HoldsTail
  <2>2. f = Hello => Holds(w, Hello)
    BY <1>1 DEF Holds
  <2>3. QED BY <2>1, <2>2 DEF LinkInv
<1>3. \A i \in 1 .. n : InForce(l, i)' \subseteq InForce(l, i + 1)
  <2> SUFFICES ASSUME NEW i \in 1 .. n PROVE InForce(l, i)' \subseteq InForce(l, i + 1)
    OBVIOUS
  <2>1. /\ Latest(t, i) \subseteq Latest(w, i + 1)
        /\ Silent(t, i) =>
             IF IsUpdate(f) THEN f.clients \in Latest(w, i + 1) ELSE Silent(w, i + 1)
    BY <1>0, WireFacts, LatestTail
  <2>2. InForce(l, i)' = Latest(t, i) \cup
            (IF l \in told' /\ Silent(t, i) THEN Entries(l)' ELSE {})
    BY <1>1 DEF InForce, Latest, Silent, Updates, IsUpdate
  <2>3. InForce(l, i + 1) = Latest(w, i + 1) \cup
            (IF l \in told /\ Silent(w, i + 1) THEN Entries(l) ELSE {})
    BY DEF InForce
  <2>4. l \in told => Entries(l) # {}
    BY <1>2 DEF Greeted
  <2>5. f = Hello => ~IsUpdate(f) /\ l \notin told
    <3>1. f = Hello => Entries(l) = {}
      BY <1>1, <1>2 DEF Greeted
    <3>2. f = Hello => ~IsUpdate(f)
      BY FrameFacts DEF IsUpdate
    <3>3. QED BY <2>4, <3>1, <3>2
  <2> HIDE DEF w, t
  <2>6. CASE f = Hello
    BY <2>1, <2>2, <2>3, <2>5, <2>6
  <2>7. CASE IsUpdate(f) /\ Entries(l) # {}
    BY <2>1, <2>2, <2>3, <2>7
  <2>8. CASE f # Hello /\ ~(IsUpdate(f) /\ Entries(l) # {})
    BY <2>1, <2>2, <2>3, <2>4, <2>8
  <2>9. QED BY <2>5, <2>6, <2>7, <2>8
<1> HIDE DEF w, t
<1>4. Up(l)' <=> Up(l)
  BY DEF Up
<1>5. Greeted(l)'
  <2>1. Hello' = Hello /\ (Holds(wire[l], Hello)' <=> Holds(t, Hello))
    BY <1>1 DEF Hello, Holds
  <2>2. /\ Greeted(l) /\ (Holds(t, Hello) => Holds(wire[l], Hello))
        /\ Holds(wire[l], Hello) => f = Hello \/ Holds(t, Hello)
        /\ f = Hello => Holds(wire[l], Hello)
    BY <1>1, <1>2
  <2>3. \A i, j \in DOMAIN t : t[i] = Hello /\ t[j] = Hello => i = j
    <3>1. ASSUME NEW i \in 1 .. n - 1, NEW j \in 1 .. n - 1, t[i] = Hello, t[j] = Hello
          PROVE  i = j
      <4>1. i + 1 = j + 1
        BY <1>1, <1>2, <3>1, ZenonT(40) DEF Greeted
      <4>2. QED BY <4>1
    <3>2. QED BY <1>1, <3>1
  <2>4. f = Hello => ~Holds(t, Hello)
    <3> SUFFICES ASSUME f = Hello, NEW i \in 1 .. n - 1, t[i] = Hello PROVE FALSE
      BY <1>1 DEF Holds
    <3>1. i + 1 = 1
      BY <1>1, <1>2, SMTT(20) DEF Greeted
    <3>2. QED BY <3>1
  <2>5. gate'[l] = "open" /\ link'[l] # "idle"
    BY <2>2 DEF Greeted
  <2>6. (link[l] \in {"idle", "hello"} => Entries(l) = {} /\ ~Holds(wire[l], Hello))'
    BY <2>1, <2>2 DEF Greeted
  <2>7. (Holds(wire[l], Hello) => Entries(l) = {})'
    BY <2>1, <2>2, <2>4 DEF Greeted
  <2>8. (gate[l] = "open" /\ link[l] \notin {"idle", "hello"} =>
            Holds(wire[l], Hello) \/ Entries(l) # {})'
    BY <2>1, <2>2 DEF Greeted
  <2>9. (l \in told => Entries(l) # {})'
    BY <2>2 DEF Greeted
  <2>10. QED BY <1>1, <2>1, <2>3, <2>5, <2>6, <2>7, <2>8, <2>9 DEF Greeted
<1>6. Forced(l)'
  <2> SUFFICES ASSUME up'[From(l)], Up(l), NEW list \in InForce(l, n)'
               PROVE  list = roster'[From(l)]
    <3>1. Len(wire'[l]) + 1 = n
      BY <1>1
    <3>2. Forced(l)' <=> (up'[From(l)] /\ Up(l)' =>
              \A list \in InForce(l, n)' : list = roster'[From(l)])
      BY <3>1 DEF Forced
    <3>3. QED BY <1>4, <3>2
  <2>1. list \in InForce(l, n + 1)
    BY <1>1, <1>3
  <2>2. QED BY <1>1, <1>2, <2>1 DEF Forced
<1>7. Introduced(l)'
  <2> SUFFICES ASSUME NEW i \in 1 .. n - 1, t[i].type = "public_chat",
                      NEW list \in InForce(l, i)'
               PROVE  t[i].from \in ToSet(list)
    BY <1>1 DEF Introduced
  <2>1. list \in InForce(l, i + 1)
    BY <1>1, <1>3
  <2>2. QED BY <1>1, <1>2, <2>1 DEF Introduced
<1>8. Numbered(l)'
  <2>1. /\ \A i \in 1 .. n : w[i].type = "public_chat" =>
               Home[w[i].from] = From(l) /\ w[i].n <= posted
        /\ \A i, j \in 1 .. n :
               w[i].type = "public_chat" /\ w[j].type = "public_chat" /\ w[i].n = w[j].n
                   => i = j
    BY <1>1, <1>2 DEF Numbered
  <2>2. \A i \in 1 .. n - 1 : t[i].type = "public_chat" =>
            Home[t[i].from] = From(l) /\ t[i].n <= posted
    BY <1>1, <2>1
  <2>3. ASSUME NEW i \in 1 .. n - 1, NEW j \in 1 .. n - 1,
               t[i].type = "public_chat", t[j].type = "public_chat", t[i].n = t[j].n
        PROVE  i = j
    <3>1. i + 1 = j + 1
      BY <1>1, <2>1, <2>3
    <3>2. QED BY <3>1
  <2>4. Numbered(l)' <=>
            /\ \A i \in DOMAIN t : t[i].type = "public_chat" =>
                Home[t[i].from] = From(l) /\ t[i].n <= posted
            /\ \A i, j \in DOMAIN t :
                t[i].type = "public_chat" /\ t[j].type = "public_chat"
                    /\ t[i].n = t[j].n => i = j
    BY <1>1 DEF Numbered
  <2>5. QED BY <1>1, <2>2, <2>3, <2>4
<1>9. QED BY <1>5, <1>6, <1>7, <1>8 DEF LinkInv

(* A link that opens.                                                      *)
LEMMA OpenedLink ==
    ASSUME NEW l \in Links, LinkInv(l), Ranges, link[l] = "idle",
           wire'[l] = wire[l], link'[l] = "hello", gate'[l] = "open",
           Entries(l)' = Entries(l), told' = told, posted' = posted
    PROVE  LinkInv(l)'
<1>1. wire[l] = <<>> /\ Entries(l) = {} /\ l \notin told /\ DOMAIN wire[l] = {}
  BY DEF LinkInv, Greeted
<1>2. DOMAIN wire'[l] = {} /\ Entries(l)' = {} /\ l \notin told'
  BY <1>1
<1>3. Updates(wire'[l]) = {}
  BY <1>2 DEF Updates
<1>4. \A i : InForce(l, i)' = {}
  <2>1. \A i : Latest(wire'[l], i) = {}
    BY <1>3 DEF Latest
  <2>2. \A i : InForce(l, i)' = Latest(wire'[l], i) \cup
            (IF l \in told' /\ Silent(wire'[l], i) THEN Entries(l)' ELSE {})
    BY DEF InForce, Latest, Silent, Updates, IsUpdate
  <2>3. QED BY <1>2, <2>1, <2>2
<1>5. Greeted(l)'
  BY <1>1, <1>2 DEF Greeted, Holds
<1>6. Forced(l)'
  BY <1>4 DEF Forced
<1>7. Introduced(l)' /\ Numbered(l)'
  BY <1>2 DEF Introduced, Numbered
<1>8. QED BY <1>5, <1>6, <1>7 DEF LinkInv

(* A link of which only the socket's end moves on.                         *)
LEMMA MovedLink ==
    ASSUME NEW l \in Links, LinkInv(l),
           wire'[l] = wire[l], link'[l] \notin {"idle", "hello"}, gate'[l] = gate[l],
           gate[l] = "open" => link[l] \notin {"idle", "hello"},
           Up(l)' => Up(l),
           Entries(l)' = Entries(l), told' = told, posted' = posted,
           up' = up, roster' = roster
    PROVE  LinkInv(l)'
<1>1. \A i : InForce(l, i)' = InForce(l, i)
  BY DEF InForce, Latest, Silent, Updates, IsUpdate
<1>2. Greeted(l)'
  BY DEF LinkInv, Greeted, Holds, Hello
<1>3. Forced(l)'
  BY <1>1 DEF LinkInv, Forced
<1>4. Introduced(l)' /\ Numbered(l)'
  BY <1>1 DEF LinkInv, Introduced, Numbered
<1>5. QED BY <1>2, <1>3, <1>4 DEF LinkInv

(* A link that says its hello to an open gate.                             *)
LEMMA HelloLink ==
    ASSUME NEW l \in Links, LinkInv(l), Ranges, link[l] = "hello", gate[l] = "open",
           wire'[l] = Append(wire[l], Hello), link'[l] = "request", gate'[l] = gate[l],
           Entries(l)' = Entries(l), told' = told, posted \in Nat, posted' = posted,
           up' = up, roster' = roster
    PROVE  LinkInv(l)'
<1>0. PICK n \in Nat : n = Len(wire[l])
  BY WireFacts, LenProperties
<1> DEFINE w == wire[l]
           new == Append(wire[l], Hello)
<1>1. /\ DOMAIN w = 1 .. n /\ DOMAIN new = 1 .. n + 1
      /\ \A i \in 1 .. n : new[i] = w[i]
      /\ new[n + 1] = Hello
      /\ \A i : i \in 1 .. n + 1 <=> i \in 1 .. n \/ i = n + 1
      /\ wire'[l] = new /\ wire[l] = w
  BY <1>0, WireFacts, AppendFacts, FrameFacts
<1>2. /\ Entries(l) = {} /\ \A i \in 1 .. n : w[i] # Hello
      /\ l \notin told
  BY <1>1 DEF LinkInv, Greeted, Holds
<1> HIDE DEF w, new
<1>3. Greeted(l)'
  <2>1. \A i, j \in DOMAIN new : new[i] = Hello /\ new[j] = Hello => i = j
    BY <1>1, <1>2
  <2>2. Hello' = Hello /\ Holds(wire[l], Hello)'
    BY <1>1 DEF Hello, Holds
  <2>3. QED BY <1>1, <1>2, <2>1, <2>2 DEF Greeted
<1>4. ~IsUpdate(Hello) /\ Hello.type # "public_chat" /\ Hello \in AllFrames
  BY FrameFacts DEF IsUpdate
<1>5. Up(l) /\ posted' \in Nat /\ posted' >= posted
  BY DEF Up
<1>6. Forced(l)' /\ Introduced(l)' /\ Numbered(l)'
  BY <1>4, <1>5, AppendedCarries
<1>7. QED BY <1>3, <1>6 DEF LinkInv

(* A link whose gate is not open any more.                                 *)
LEMMA EmptiedLink ==
    ASSUME NEW l \in Links, LinkInv(l), link[l] # "idle",
           wire'[l] = <<>>, link'[l] = link[l], gate'[l] # "open",
           Entries(l)' \subseteq Entries(l), l \in told' => Entries(l)' # {}
    PROVE  LinkInv(l)'
<1>1. DOMAIN wire'[l] = {}
  OBVIOUS
<1>2. ~Up(l)'
  BY DEF Up
<1>3. Greeted(l)'
  BY <1>1 DEF LinkInv, Greeted, Holds
<1>4. Forced(l)'
  BY <1>2 DEF Forced
<1>5. Introduced(l)' /\ Numbered(l)'
  BY <1>1 DEF Introduced, Numbered
<1>6. QED BY <1>3, <1>4, <1>5 DEF LinkInv

-----------------------------------------------------------------------------
(* Plans.                                                                  *)
LEMMA ReachedFacts ==
    ASSUME NEW T, NEW plan \in Seq(T)
    PROVE  /\ \A t \in Reached(plan) : t \in ToSet(plan) /\ ~Throws(t)
           /\ Completes(plan) => Reached(plan) = ToSet(plan)
           /\ ToSet(plan) \subseteq T
<1>1. Len(plan) \in Nat /\ DOMAIN plan = 1 .. Len(plan)
  BY LenProperties
<1>2. \A i \in DOMAIN plan : i \in 1 .. i /\ \A j \in 1 .. i : j \in DOMAIN plan
  BY <1>1
<1>3. \A i \in DOMAIN plan : plan[i] \in T
  BY <1>1, ElementOfSeq
<1>4. QED BY <1>2, <1>3 DEF Reached, Completes, ToSet

LEMMA ConcatFacts ==
    ASSUME NEW S, NEW a \in Seq(S), NEW b \in Seq(S)
    PROVE  /\ a \o b \in Seq(S)
           /\ ToSet(a \o b) = ToSet(a) \cup ToSet(b)
<1> DEFINE m == Len(a)
           n == Len(b)
           c == a \o b
<1>1. /\ c \in Seq(S) /\ m \in Nat /\ n \in Nat
      /\ DOMAIN a = 1 .. m /\ DOMAIN b = 1 .. n /\ DOMAIN c = 1 .. m + n
      /\ \A i \in 1 .. m + n : c[i] = IF i <= m THEN a[i] ELSE b[i - m]
  BY ConcatProperties, LenProperties
<1> HIDE DEF m, n, c
<1>2. \A i \in 1 .. m : i \in 1 .. m + n /\ c[i] = a[i]
  BY <1>1
<1>3. \A i \in 1 .. n : m + i \in 1 .. m + n
  BY <1>1
<1>4. \A i \in 1 .. m + n : i \in 1 .. m \/ (i - m \in 1 .. n /\ c[i] = b[i - m])
  BY <1>1
<1>5. \A i \in 1 .. n : (m + i) - m = i
  BY <1>1
<1>6. ToSet(a) \subseteq ToSet(c)
  BY <1>1, <1>2 DEF ToSet
<1>7. ToSet(b) \subseteq ToSet(c)
  <2>1. \A i \in 1 .. n : c[m + i] = b[i]
    <3>1. \A i \in 1 .. n : ~(m + i <= m)
      BY <1>1
    <3>2. QED BY <1>1, <1>3, <1>5, <3>1
  <2>2. QED BY <1>1, <1>3, <2>1 DEF ToSet
<1>8. ToSet(c) \subseteq ToSet(a) \cup ToSet(b)
  BY <1>1, <1>2, <1>4 DEF ToSet
<1>9. QED BY <1>1, <1>6, <1>7, <1>8 DEF c

LEMMA WrittenFacts ==
    ASSUME TypeOK, NEW w \in [Links -> Seq(AllFrames)],
           NEW plan \in Seq(Links \cup Clients), NEW frame \in AllFrames
    PROVE  /\ Written(w, plan, frame) \in [Links -> Seq(AllFrames)]
           /\ \A l \in Links : Written(w, plan, frame)[l] =
                IF l \in Reached(plan) /\ Up(l) THEN Append(w[l], frame) ELSE w[l]
<1>1. \A l \in Links : l \in Reached(plan) => link[l] # "broken"
  BY ReachedFacts DEF Throws
<1>2. \A l \in Links : l \in Reached(plan) /\ IsConnected(l) /\ gate[l] = "open"
                       <=> l \in Reached(plan) /\ Up(l)
  BY <1>1 DEF TypeOK, LinkStates, IsConnected, Up
<1>3. \A l \in Links : Append(w[l], frame) \in Seq(AllFrames) /\ w[l] \in Seq(AllFrames)
  BY AppendFacts
<1>4. QED BY <1>2, <1>3 DEF Written

(* What a server that sends by a plan does to a link: its own links that   *)
(* are reached get the frame, and unless it stops they all are.            *)
LEMMA SentLink ==
    ASSUME NEW l \in Links, LinkInv(l), Ranges, TypeOK,
           NEW h \in Servers, NEW plan \in Seq(Links \cup Clients),
           NEW f \in AllFrames, f # Hello,
           wire'[l] = IF l \in Reached(plan) /\ Up(l) THEN Append(wire[l], f) ELSE wire[l],
           l \in ToSet(plan) => From(l) = h,
           up[h], Run(h, plan),
           link'[l] = link[l], gate'[l] = gate[l],
           Entries(l)' = Entries(l), l \in told' <=> l \in told,
           posted' \in Nat, posted' >= posted,
           \A g \in Servers \ {h} : roster'[g] = roster[g],
           IsUpdate(f) => f.clients = roster'[h],
           ~IsUpdate(f) => roster'[h] = roster[h],
           roster'[h] # roster[h] => ToSet(Dials[h]) \subseteq ToSet(plan),
           f.type = "public_chat" /\ l \in ToSet(plan) =>
               /\ Home[f.from] = h /\ f.from \in ToSet(roster[h])
               /\ f.n = posted + 1 /\ posted' = posted + 1
    PROVE  LinkInv(l)'
<1>1. /\ From(l) \in Servers /\ l \in ToSet(Dials[From(l)])
      /\ posted \in Nat
  BY FromFacts, FederationAssumption DEF TypeOK
<1>2. /\ up'[h] = Completes(plan)
      /\ \A g \in Servers \ {h} : up'[g] = up[g]
      /\ up'[From(l)] => up[From(l)]
  BY <1>1 DEF Run, TypeOK
<1>3. l \in Reached(plan) => l \in ToSet(plan)
  BY ReachedFacts
<1>4. CASE l \in Reached(plan) /\ Up(l)
  <2>1. From(l) = h /\ wire'[l] = Append(wire[l], f) /\ l \in ToSet(plan)
    BY <1>3, <1>4
  <2>2. f.type = "public_chat" =>
            /\ up[From(l)] /\ Home[f.from] = From(l)
            /\ f.from \in ToSet(roster[From(l)])
            /\ f.n = posted + 1 /\ posted' = posted + 1
    BY <2>1
  <2>3. /\ IsUpdate(f) => f.clients = roster'[From(l)]
        /\ ~IsUpdate(f) => roster'[From(l)] = roster[From(l)]
    BY <2>1
  <2>4. QED BY <1>1, <1>2, <1>4, <2>1, <2>2, <2>3, AppendedLink
<1>5. CASE ~(l \in Reached(plan) /\ Up(l))
  <2>1. wire'[l] = wire[l]
    BY <1>5
  <2>2. up'[From(l)] /\ Up(l) => roster'[From(l)] = roster[From(l)]
    <3>1. CASE From(l) # h
      BY <1>1, <3>1
    <3>2. CASE From(l) = h
      <4>1. up'[h] => Reached(plan) = ToSet(plan)
        BY <1>2, ReachedFacts
      <4>2. QED BY <1>1, <1>5, <3>2, <4>1
    <3>3. QED BY <3>1, <3>2
  <2>3. QED BY <1>1, <1>2, <2>1, <2>2, KeptLink
<1>6. QED BY <1>4, <1>5

-----------------------------------------------------------------------------
(* What a frame more or less on a wire means for who learns, asks, hears.  *)
LEMMA FrameMore ==
    ASSUME NEW w \in Seq(AllFrames), NEW f \in AllFrames
    PROVE  /\ Updates(w) # {} => Updates(Append(w, f)) # {}
           /\ IsUpdate(f) => Updates(Append(w, f)) # {}
           /\ Numbers(Append(w, f)) =
                Numbers(w) \cup (IF f.type = "public_chat" THEN {f.n} ELSE {})
<1> DEFINE n == Len(w)
           new == Append(w, f)
<1>1. /\ DOMAIN w = 1 .. n /\ DOMAIN new = 1 .. n + 1
      /\ \A i \in 1 .. n : new[i] = w[i]
      /\ new[n + 1] = f
      /\ \A i : i \in 1 .. n + 1 <=> i \in 1 .. n \/ i = n + 1
  BY AppendFacts
<1>2. Updates(new) = Updates(w) \cup (IF IsUpdate(f) THEN {n + 1} ELSE {})
  BY UpdatesAppend
<1> HIDE DEF n, new
<1>3. \A m : m \in Numbers(new) <=>
            m \in Numbers(w) \/ (f.type = "public_chat" /\ m = f.n)
  BY <1>1 DEF Numbers
<1>4. Numbers(new) = Numbers(w) \cup (IF f.type = "public_chat" THEN {f.n} ELSE {})
  BY <1>3
<1>5. QED BY <1>2, <1>4 DEF new

LEMMA FrameLess ==
    ASSUME NEW w \in Seq(AllFrames), w # <<>>
    PROVE  /\ Updates(w) # {} => IsUpdate(Head(w)) \/ Updates(Tail(w)) # {}
           /\ Numbers(Tail(w)) \subseteq Numbers(w)
<1> DEFINE n == Len(w)
           t == Tail(w)
<1>1. /\ n \in Nat /\ n > 0 /\ DOMAIN w = 1 .. n /\ DOMAIN t = 1 .. n - 1
      /\ \A j \in 1 .. n - 1 : t[j] = w[j + 1] /\ j + 1 \in 1 .. n
      /\ Head(w) = w[1]
  BY TailFacts
<1> HIDE DEF n, t
<1>2. \A j \in 1 .. n : j = 1 \/ (j - 1 \in 1 .. n - 1 /\ (j - 1) + 1 = j)
  BY <1>1
<1>3. Updates(w) # {} => IsUpdate(Head(w)) \/ Updates(t) # {}
  <2> SUFFICES ASSUME NEW j \in 1 .. n, IsUpdate(w[j]), j # 1 PROVE Updates(t) # {}
    BY <1>1 DEF Updates
  <2>1. j - 1 \in 1 .. n - 1 /\ t[j - 1] = w[j]
    BY <1>1, <1>2
  <2>2. QED BY <1>1, <2>1 DEF Updates
<1>4. Numbers(t) \subseteq Numbers(w)
  BY <1>1 DEF Numbers
<1>5. QED BY <1>3, <1>4 DEF t

LEMMA HeadNumber ==
    ASSUME NEW l \in Links, Ranges, Numbered(l), wire[l] # <<>>,
           Head(wire[l]).type = "public_chat"
    PROVE  /\ Head(wire[l]).n \notin Numbers(Tail(wire[l]))
           /\ Head(wire[l]).n \in Numbers(wire[l])
           /\ Head(wire[l]).n <= posted
           /\ Home[Head(wire[l]).from] = From(l)
<1> DEFINE w == wire[l]
           n == Len(w)
           t == Tail(w)
<1>1. /\ n \in Nat /\ n > 0 /\ DOMAIN w = 1 .. n /\ DOMAIN t = 1 .. n - 1
      /\ \A j \in 1 .. n - 1 : t[j] = w[j + 1] /\ j + 1 \in 1 .. n
      /\ Head(w) = w[1] /\ 1 \in 1 .. n
  BY WireFacts, TailFacts
<1>2. \A i, j \in DOMAIN w :
          w[i].type = "public_chat" /\ w[j].type = "public_chat" /\ w[i].n = w[j].n => i = j
  BY DEF Numbered
<1>3. Head(w).n <= posted /\ Home[Head(w).from] = From(l)
  BY <1>1 DEF Numbered
<1> HIDE DEF w, n, t
<1>4. ASSUME NEW j \in 1 .. n - 1, t[j].type = "public_chat", t[j].n = w[1].n
      PROVE  FALSE
  <2>1. j + 1 = 1
    BY <1>1, <1>2, <1>4 DEF w
  <2>2. QED BY <2>1
<1>5. Head(w).n \notin Numbers(t)
  BY <1>1, <1>4 DEF Numbers
<1>6. Head(w).n \in Numbers(w)
  BY <1>1 DEF Numbers, w
<1>7. QED BY <1>3, <1>5, <1>6 DEF w, t

LEMMA KeptHeard ==
    ASSUME TypeOK, NEW c \in Clients, Heard(c), heard'[c] = heard[c],
           posted' \in Nat, posted' >= posted,
           \A l \in Links : Numbers(wire'[l]) \subseteq Numbers(wire[l]) \cup {posted + 1}
    PROVE  Heard(c)'
<1>1. \A e \in ToSet(heard[c]) : e.n \in Nat
  <2>1. heard[c] \in Seq([from : Clients, n : 1 .. MaxChats, via : Links \cup {Local}])
    BY DEF TypeOK
  <2>2. \A e \in ToSet(heard[c]) : e \in [from : Clients, n : 1 .. MaxChats, via : Links \cup {Local}]
    BY <2>1, ToSetIn
  <2>3. \A e \in ToSet(heard[c]) : e.n \in 1 .. MaxChats
    BY <2>2
  <2>4. QED BY <2>3
<1>2. posted \in Nat
  BY FederationAssumption DEF TypeOK
<1>3. ToSet(heard[c])' = ToSet(heard[c]) /\ (IsInjective(heard[c])' <=> IsInjective(heard[c]))
  BY DEF ToSet, IsInjective
<1>4. \A l : Numbers(wire[l])' = Numbers(wire'[l])
  BY DEF Numbers
<1>5. \A e \in ToSet(heard[c]) : e.n <= posted' /\ e.n # posted + 1
  BY <1>1, <1>2 DEF Heard
<1>6. QED BY <1>3, <1>4, <1>5 DEF Heard

(* A client_list goes to every client of a server, or the server stops.    *)
LEMMA ShownToAll ==
    ASSUME TypeOK, Ranges, \A c \in Clients : Seen(c),
           NEW h \in Servers, NEW plan \in Seq(Links \cup Clients),
           Run(h, plan), SendAllClientLists(h, plan),
           ToSet(roster'[h]) \subseteq ToSet(plan),
           \A c \in Clients : c \in ToSet(plan) => Home[c] = h,
           \A g \in Servers \ {h} : roster'[g] = roster[g] /\ Shown(g)' = Shown(g)
    PROVE  \A c \in Clients : Seen(c)'
<1> SUFFICES ASSUME NEW c \in Clients, NEW g \in Servers, up'[g], c \in ToSet(roster'[g])
             PROVE  view'[c] = Shown(g)'
  BY DEF Seen
<1>1. view'[c] = IF c \in Reached(plan) THEN Shown(h)' ELSE view[c]
  BY DEF SendAllClientLists
<1>2. CASE g = h
  <2>1. Completes(plan)
    BY <1>2 DEF Run, TypeOK
  <2>2. c \in Reached(plan)
    BY <1>2, <2>1, ReachedFacts
  <2>3. QED BY <1>1, <1>2, <2>2
<1>3. CASE g # h
  <2>1. up[g] /\ c \in ToSet(roster[g])
    BY <1>3 DEF Run, TypeOK
  <2>2. Home[c] = g
    BY <2>1 DEF Ranges
  <2>3. c \notin Reached(plan)
    BY <1>3, <2>2, ReachedFacts
  <2>4. view[c] = Shown(g)
    BY <2>1 DEF Seen
  <2>5. Shown(g)' = Shown(g)
    BY <1>3
  <2>6. QED BY <1>1, <2>3, <2>4, <2>5
<1>4. QED BY <1>2, <1>3

LEMMA EntriesKept ==
    ASSUME UNCHANGED known
    PROVE  /\ \A l : Entries(l)' = Entries(l)
           /\ \A h : UNION {ToSet(known[h][i].clients) : i \in DOMAIN known[h]}' =
                     UNION {ToSet(known[h][i].clients) : i \in DOMAIN known[h]}
BY DEF Entries, Place

(* A step that takes nothing off two links and goes on with no handshake.  *)
LEMMA AskedSent ==
    ASSUME Ranges, NEW l \in Links, NEW r \in Links, Asked(l, r),
           NEW f \in AllFrames,
           wire'[l] \in {wire[l], Append(wire[l], f)},
           wire'[r] \in {wire[r], Append(wire[r], f)},
           link'[l] = link[l], link'[r] = link[r], gate'[l] = gate[l], gate'[r] = gate[r],
           l \in told => l \in told',
           up'[From(l)] => up[From(l)], up'[To[l]] => up[To[l]]
    PROVE  Asked(l, r)'
<1>1. Learns(l) => Learns(l)'
  <2>1. Updates(wire[l]) # {} => Updates(wire'[l]) # {}
    BY WireFacts, FrameMore
  <2>2. Updates(wire[l])' = Updates(wire'[l])
    BY DEF Updates, IsUpdate
  <2>3. QED BY <2>1, <2>2 DEF Learns
<1>2. Greets(l) => Greets(l)'
  <2>1. Holds(wire[l], Hello) => Holds(wire'[l], Hello)
    <3>1. Holds(wire[l], Hello) => Holds(Append(wire[l], f), Hello)
      BY WireFacts, HoldsAppend
    <3>2. QED BY <3>1
  <2>2. Holds(wire[l], Hello)' <=> Holds(wire'[l], Hello)
    BY DEF Holds, Hello
  <2>3. QED BY <2>1, <2>2 DEF Greets
<1>3. Asks(r) => Asks(r)'
  <2>1. Holds(wire[r], Request) => Holds(wire'[r], Request)
    <3>1. Holds(wire[r], Request) => Holds(Append(wire[r], f), Request)
      BY WireFacts, HoldsAppend
    <3>2. QED BY <3>1
  <2>2. Holds(wire[r], Request)' <=> Holds(wire'[r], Request)
    BY DEF Holds, Request
  <2>3. QED BY <2>1, <2>2 DEF Asks
<1>4. Up(l)' = Up(l) /\ Up(r)' = Up(r)
  BY DEF Up
<1>5. QED BY <1>1, <1>2, <1>3, <1>4 DEF Asked

-----------------------------------------------------------------------------
LEMMA WireTyped ==
    ASSUME wire' \in [Links -> Seq(AllFrames)]
    PROVE  \A l \in Links : \A f \in ToSet(wire'[l]) :
               f \in Frames \/ f \in [type : {"client_update"}, clients : Seq(Clients)]
<1> SUFFICES ASSUME NEW l \in Links, NEW f \in ToSet(wire'[l]) PROVE f \in AllFrames
  BY DEF AllFrames
<1>1. wire'[l] \in Seq(AllFrames)
  OBVIOUS
<1>2. QED BY <1>1, ToSetIn

LEMMA ViewTyped ==
    ASSUME TypeOK, NEW h \in Servers, NEW plan,
           roster' \in [Servers -> Seq(Clients)],
           known' \in [Servers -> Seq([link : Links, clients : Seq(Clients)])],
           SendAllClientLists(h, plan)
    PROVE  view' \in [Clients -> SUBSET Clients]
<1>1. Shown(h)' \subseteq Clients
  <2>1. ToSet(roster'[h]) \subseteq Clients
    BY ToSetIn
  <2>2. \A i \in DOMAIN known'[h] : ToSet(known'[h][i].clients) \subseteq Clients
    <3> SUFFICES ASSUME NEW i \in DOMAIN known'[h]
                 PROVE  ToSet(known'[h][i].clients) \subseteq Clients
      OBVIOUS
    <3>1. known'[h] \in Seq([link : Links, clients : Seq(Clients)])
      OBVIOUS
    <3>2. known'[h][i] \in [link : Links, clients : Seq(Clients)]
      BY <3>1, ElementOfSeq, LenProperties
    <3>3. known'[h][i].clients \in Seq(Clients)
      BY <3>2
    <3>4. QED BY <3>3, ToSetIn
  <2>3. Shown(h)' = ToSet(roster'[h]) \cup
            UNION {ToSet(known'[h][i].clients) : i \in DOMAIN known'[h]}
    BY DEF Shown, ToSet
  <2>4. QED BY <2>1, <2>2, <2>3
<1>2. QED BY <1>1 DEF SendAllClientLists, TypeOK

LEMMA Parts ==
    ASSUME IInv
    PROVE  /\ TypeOK /\ Ranges
           /\ \A l \in Links : LinkInv(l)
           /\ \A l, r \in Links : Opposite(l, r) => Asked(l, r)
           /\ \A c \in Clients : Heard(c)
           /\ \A c \in Clients : Seen(c)
           /\ posted \in Nat
<1>1. TypeOK => posted \in Nat
  BY FederationAssumption DEF TypeOK
<1>2. QED BY <1>1 DEF IInv

LEMMA RunFacts ==
    ASSUME up \in [Servers -> BOOLEAN], NEW h \in Servers, up[h], NEW plan, Run(h, plan)
    PROVE  /\ up' \in [Servers -> BOOLEAN]
           /\ \A g \in Servers : up'[g] => up[g]
BY DEF Run, Completes

LEMMA EveryoneFacts ==
    ASSUME NEW h \in Servers, NEW q \in Seq(Clients), roster'[h] = q,
           NEW plan, plan = Everyone(h), NEW f, f = Update(q)
    PROVE  /\ plan \in Seq(Links \cup Clients)
           /\ ToSet(plan) = ToSet(Dials[h]) \cup ToSet(q)
           /\ f \in AllFrames /\ IsUpdate(f) /\ f.clients = q /\ f # Hello
           /\ f.type # "public_chat"
<1>1. Dials[h] \in Seq(Links \cup Clients) /\ q \in Seq(Links \cup Clients)
  BY FromFacts, SeqMonotonic
<1>2. plan = Dials[h] \o q
  BY DEF Everyone
<1>3. /\ plan \in Seq(Links \cup Clients)
      /\ ToSet(plan) = ToSet(Dials[h]) \cup ToSet(q)
  BY <1>1, <1>2, ConcatFacts
<1>4. f \in AllFrames /\ f.type = "client_update" /\ f.clients = q /\ f # Hello
  BY FrameFacts
<1>5. QED BY <1>3, <1>4 DEF IsUpdate

(* The roster of a server changes: its servers and clients are told.       *)
LEMMA RosterStep ==
    ASSUME IInv, NEW h \in Servers, up[h], NEW q \in Seq(Clients),
           NEW plan \in Seq(Links \cup Clients),
           ToSet(plan) = ToSet(Dials[h]) \cup ToSet(q),
           NEW f \in AllFrames, IsUpdate(f), f.clients = q, f # Hello,
           f.type # "public_chat",
           \A d \in ToSet(q) : Home[d] = h,
           roster' = [roster EXCEPT ![h] = q],
           conn' \in [Clients -> ConnStates],
           \A d \in Clients : conn'[d] = "in" => d \in ToSet(roster'[Home[d]]),
           UNCHANGED <<scenario, link, gate, known, told, heard, posted>>,
           Run(h, plan),
           wire' = Written(wire, plan, f),
           SendAllClientLists(h, plan)
    PROVE  IInv'
<1>1. /\ TypeOK /\ Ranges
      /\ \A l \in Links : LinkInv(l)
      /\ \A l, r \in Links : Opposite(l, r) => Asked(l, r)
      /\ \A c \in Clients : Heard(c)
      /\ \A c \in Clients : Seen(c)
      /\ posted \in Nat /\ posted' = posted /\ posted' \in Nat /\ posted' >= posted
      /\ wire \in [Links -> Seq(AllFrames)]
  BY Parts DEF Ranges
<1>2. /\ roster'[h] = q /\ \A g \in Servers \ {h} : roster'[g] = roster[g]
      /\ roster' \in [Servers -> Seq(Clients)]
  BY <1>1 DEF TypeOK
<1>3. \A x \in ToSet(q) : x \in Clients
  BY ToSetIn
<1>5. /\ \A l \in Links : l \in ToSet(plan) => From(l) = h
      /\ \A c \in Clients : c \in ToSet(plan) => Home[c] = h
      /\ ToSet(Dials[h]) \subseteq ToSet(plan) /\ ToSet(q) \subseteq ToSet(plan)
  BY <1>3, FromFacts
<1>7. /\ wire' \in [Links -> Seq(AllFrames)]
      /\ \A l \in Links : wire'[l] =
             IF l \in Reached(plan) /\ Up(l) THEN Append(wire[l], f) ELSE wire[l]
  <2>1. TypeOK /\ wire \in [Links -> Seq(AllFrames)]
    BY <1>1
  <2>2. /\ Written(wire, plan, f) \in [Links -> Seq(AllFrames)]
        /\ \A l \in Links : Written(wire, plan, f)[l] =
               IF l \in Reached(plan) /\ Up(l) THEN Append(wire[l], f) ELSE wire[l]
    BY <2>1, WrittenFacts, Zenon
  <2>3. QED BY <2>2
<1>8. \A l : Entries(l)' = Entries(l)
  BY EntriesKept
<1>9. ASSUME NEW l \in Links PROVE LinkInv(l)'
  <2>1. /\ LinkInv(l) /\ Ranges /\ TypeOK
        /\ wire'[l] = IF l \in Reached(plan) /\ Up(l) THEN Append(wire[l], f) ELSE wire[l]
        /\ l \in ToSet(plan) => From(l) = h
        /\ link'[l] = link[l] /\ gate'[l] = gate[l]
        /\ Entries(l)' = Entries(l) /\ (l \in told' <=> l \in told)
        /\ f.clients = roster'[h]
    BY <1>1, <1>2, <1>5, <1>7, <1>8
  <2>2. QED BY <1>1, <1>2, <1>5, <2>1, SentLink
<1>10. /\ up' \in [Servers -> BOOLEAN]
       /\ \A g \in Servers : up'[g] => up[g]
  BY <1>1, RunFacts DEF TypeOK
<1>11. \A l, r \in Links : Opposite(l, r)' => Asked(l, r)'
  <2> SUFFICES ASSUME NEW l \in Links, NEW r \in Links, Opposite(l, r) PROVE Asked(l, r)'
    BY DEF Opposite
  <2>1. /\ Asked(l, r)
        /\ wire'[l] \in {wire[l], Append(wire[l], f)}
        /\ wire'[r] \in {wire[r], Append(wire[r], f)}
        /\ up'[From(l)] => up[From(l)]
        /\ up'[To[l]] => up[To[l]]
        /\ link'[l] = link[l] /\ link'[r] = link[r]
        /\ gate'[l] = gate[l] /\ gate'[r] = gate[r]
        /\ (l \in told => l \in told') /\ Ranges
    BY <1>1, <1>7, <1>10, FromFacts
  <2>2. QED BY <2>1, AskedSent
<1>12. \A c \in Clients : Heard(c)'
  <2>1. \A l \in Links : Numbers(wire'[l]) \subseteq Numbers(wire[l]) \cup {posted + 1}
    <3> SUFFICES ASSUME NEW l \in Links PROVE Numbers(wire'[l]) \subseteq Numbers(wire[l])
      OBVIOUS
    <3>1. Numbers(Append(wire[l], f)) = Numbers(wire[l])
      BY <1>1, FrameMore
    <3>2. QED BY <1>7, <3>1
  <2>2. heard' = heard
    OBVIOUS
  <2>3. QED BY <1>1, <2>1, <2>2, KeptHeard
<1>13. \A c \in Clients : Seen(c)'
  <2>1. \A g \in Servers \ {h} : roster'[g] = roster[g] /\ Shown(g)' = Shown(g)
    BY <1>2, EntriesKept DEF Shown
  <2>2. ToSet(roster'[h]) \subseteq ToSet(plan)
    BY <1>2, <1>5
  <2>3. QED BY <1>1, <1>5, <2>1, <2>2, ShownToAll
<1>14. Ranges'
  <2>1. \A g \in Servers : \A c \in ToSet(roster'[g]) : Home[c] = g
    BY <1>1, <1>2 DEF Ranges
  <2>2. QED BY <1>7, <2>1 DEF Ranges

<1>15. TypeOK'
  <2>1. view' \in [Clients -> SUBSET Clients]
    BY <1>1, <1>2, ViewTyped DEF TypeOK
  <2>2. \A l \in Links : \A x \in ToSet(wire'[l]) :
            x \in Frames \/ x \in [type : {"client_update"}, clients : Seq(Clients)]
    BY <1>7, WireTyped
  <2>3. \A l : ToSet(wire[l])' = ToSet(wire'[l])
    BY DEF ToSet
  <2>4. /\ scenario' \in Scenarios /\ up' \in [Servers -> BOOLEAN]
        /\ conn' \in [Clients -> ConnStates] /\ roster' \in [Servers -> Seq(Clients)]
        /\ link' \in [Links -> LinkStates] /\ gate' \in [Links -> GateStates]
        /\ known' \in [Servers -> Seq([link : Links, clients : Seq(Clients)])]
        /\ heard' \in [Clients -> Seq([from : Clients, n : 1 .. MaxChats,
                                       via : Links \cup {Local}])]
        /\ posted' \in 0 .. MaxChats /\ told' \subseteq Links
    BY <1>1, <1>2, <1>10 DEF TypeOK
  <2>5. QED BY <2>1, <2>2, <2>3, <2>4 DEF TypeOK
<1>16. QED
  BY <1>9, <1>11, <1>12, <1>13, <1>14, <1>15 DEF IInv

LEMMA JoinStep == ASSUME IInv, NEW c \in Clients, Join(c) PROVE IInv'
<1>1. PICK h \in Servers : h = Home[c]
  BY FromFacts
<1>2. /\ TypeOK /\ Ranges /\ roster[h] \in Seq(Clients)
      /\ conn \in [Clients -> ConnStates] /\ roster \in [Servers -> Seq(Clients)]
  BY Parts DEF TypeOK
<1>3. PICK q \in Seq(Clients) : q = Append(roster[h], c)
  BY <1>2, AppendFacts
<1>4. PICK plan : plan = Everyone(h)
  OBVIOUS
<1>5. PICK f : f = Update(q)
  OBVIOUS
<1>6. ToSet(q) = ToSet(roster[h]) \cup {c}
  BY <1>2, <1>3, ToSetAppend
<1>7. \A d \in ToSet(q) : Home[d] = h
  BY <1>1, <1>2, <1>6 DEF Ranges
<1>8. /\ up[h] /\ roster' = [roster EXCEPT ![h] = q] /\ roster'[h] = q
      /\ conn' = [conn EXCEPT ![c] = "in"]
      /\ Run(h, plan)
      /\ wire' = Written(wire, plan, f)
      /\ SendAllClientLists(h, plan)
      /\ UNCHANGED <<scenario, link, gate, known, told, heard, posted>>
  BY <1>1, <1>2, <1>3, <1>4, <1>5 DEF Join
<1>9. conn' \in [Clients -> ConnStates]
  BY <1>2, <1>8 DEF ConnStates
<1>10. \A d \in Clients : conn'[d] = "in" => d \in ToSet(roster'[Home[d]])
  <2> SUFFICES ASSUME NEW d \in Clients, conn'[d] = "in" PROVE d \in ToSet(roster'[Home[d]])
    OBVIOUS
  <2>1. CASE d = c
    BY <1>1, <1>6, <1>8, <2>1
  <2>2. CASE d # c
    <3>1. d \in ToSet(roster[Home[d]])
      BY <1>2, <1>8, <2>2 DEF Ranges
    <3>2. QED BY <1>2, <1>6, <1>8, <3>1, FromFacts
  <2>3. QED BY <2>1, <2>2
<1>11. QED
  <2>1. /\ plan \in Seq(Links \cup Clients)
        /\ ToSet(plan) = ToSet(Dials[h]) \cup ToSet(q)
        /\ f \in AllFrames /\ IsUpdate(f) /\ f.clients = q /\ f # Hello
        /\ f.type # "public_chat"
    BY <1>4, <1>5, <1>8, EveryoneFacts
  <2>2. QED BY <1>7, <1>8, <1>9, <1>10, <2>1, RosterStep

(* What is erased from a list is the element at one place.                 *)
LEMMA SubSeqSet ==
    ASSUME NEW S, NEW s \in Seq(S), NEW m \in 1 .. Len(s) + 1, NEW n \in 0 .. Len(s)
    PROVE  /\ SubSeq(s, m, n) \in Seq(S)
           /\ \A x : x \in ToSet(SubSeq(s, m, n)) <=> \E j \in m .. n : x = s[j]
<1>1. Len(s) \in Nat /\ \A j \in 1 .. Len(s) : s[j] \in S
  BY LenProperties, ElementOfSeq
<1>2. m \in Int /\ n \in Int /\ \A j \in m .. n : s[j] \in S
  BY <1>1
<1>3. PICK sub : sub = SubSeq(s, m, n)
  OBVIOUS
<1>4. /\ sub \in Seq(S)
      /\ Len(sub) = IF m <= n THEN n - m + 1 ELSE 0
      /\ \A j \in 1 .. n - m + 1 : sub[j] = s[m + j - 1]
  BY <1>2, <1>3, SubSeqProperties
<1>5. ToSet(sub) = {sub[j] : j \in 1 .. Len(sub)}
  BY <1>4, LenProperties DEF ToSet
<1>6. \A j \in 1 .. Len(sub) : j \in 1 .. n - m + 1 /\ m + j - 1 \in m .. n
  BY <1>1, <1>4
<1>7. \A j \in m .. n : j - m + 1 \in 1 .. Len(sub) /\ m + (j - m + 1) - 1 = j
  BY <1>1, <1>4
<1>8. \A x \in ToSet(sub) : \E j \in m .. n : x = s[j]
  BY <1>4, <1>5, <1>6
<1>9. \A j \in m .. n : s[j] \in ToSet(sub)
  <2> TAKE j \in m .. n
  <2>1. sub[j - m + 1] = s[j]
    BY <1>4, <1>6, <1>7
  <2>2. QED BY <1>5, <1>7, <2>1
<1>10. QED BY <1>3, <1>4, <1>8, <1>9

LEMMA RemovedFacts ==
    ASSUME NEW S, NEW s \in Seq(S), NEW i \in 1 .. Len(s)
    PROVE  /\ RemoveAt(s, i) \in Seq(S)
           /\ \A x \in ToSet(RemoveAt(s, i)) : x \in ToSet(s)
           /\ \A x \in ToSet(s) : x = s[i] \/ x \in ToSet(RemoveAt(s, i))
<1>1. Len(s) \in Nat /\ ToSet(s) = {s[j] : j \in 1 .. Len(s)}
  BY LenProperties DEF ToSet
<1>2. PICK front : front = SubSeq(s, 1, i - 1)
  OBVIOUS
<1>3. PICK back : back = SubSeq(s, i + 1, Len(s))
  OBVIOUS
<1>4. front \in Seq(S) /\ \A x : x \in ToSet(front) <=> \E j \in 1 .. i - 1 : x = s[j]
  <2>1. 1 \in 1 .. Len(s) + 1 /\ i - 1 \in 0 .. Len(s)
    BY <1>1
  <2>2. QED BY <1>2, <2>1, SubSeqSet
<1>5. back \in Seq(S) /\ \A x : x \in ToSet(back) <=> \E j \in i + 1 .. Len(s) : x = s[j]
  <2>1. PICK n : n = Len(s)
    OBVIOUS
  <2>2. i + 1 \in 1 .. Len(s) + 1 /\ n \in 0 .. Len(s)
    BY <1>1, <2>1
  <2>3. /\ SubSeq(s, i + 1, n) \in Seq(S)
        /\ \A x : x \in ToSet(SubSeq(s, i + 1, n)) <=> \E j \in i + 1 .. n : x = s[j]
    BY <2>2, SubSeqSet, Zenon
  <2>4. QED BY <1>3, <2>1, <2>3
<1>6. RemoveAt(s, i) = front \o back
  BY <1>2, <1>3 DEF RemoveAt
<1>7. /\ front \o back \in Seq(S)
      /\ ToSet(front \o back) = ToSet(front) \cup ToSet(back)
  BY <1>4, <1>5, ConcatFacts
<1>8. \A j \in 1 .. Len(s) : j = i \/ j \in 1 .. i - 1 \/ j \in i + 1 .. Len(s)
  BY <1>1
<1>9. \A j : j \in 1 .. i - 1 \/ j \in i + 1 .. Len(s) => j \in 1 .. Len(s)
  BY <1>1
<1>10. QED BY <1>1, <1>4, <1>5, <1>6, <1>7, <1>8, <1>9

LEMMA LeaveStep == ASSUME IInv, NEW c \in Clients, Leave(c) PROVE IInv'
<1>1. PICK h \in Servers : h = Home[c]
  BY FromFacts
<1>2. /\ TypeOK /\ Ranges /\ roster[h] \in Seq(Clients)
      /\ conn \in [Clients -> ConnStates] /\ roster \in [Servers -> Seq(Clients)]
  BY Parts DEF TypeOK
<1>3. PICK i \in DOMAIN roster[h] :
          roster[h][i] = c /\ roster' = [roster EXCEPT ![h] = RemoveAt(roster[h], i)]
  BY <1>1 DEF Leave, First
<1>4. i \in 1 .. Len(roster[h])
  BY <1>2, <1>3, LenProperties
<1>5. PICK q \in Seq(Clients) : q = RemoveAt(roster[h], i)
  BY <1>2, <1>4, RemovedFacts
<1>6. /\ \A d \in ToSet(q) : d \in ToSet(roster[h])
      /\ \A d \in ToSet(roster[h]) : d = c \/ d \in ToSet(q)
  BY <1>2, <1>3, <1>4, <1>5, RemovedFacts
<1>7. PICK plan : plan = Everyone(h)
  OBVIOUS
<1>8. PICK f : f = Update(q)
  OBVIOUS
<1>9. \A d \in ToSet(q) : Home[d] = h
  BY <1>2, <1>6 DEF Ranges
<1>10. roster' = [roster EXCEPT ![h] = q] /\ roster'[h] = q
  BY <1>2, <1>3, <1>5
<1>11. /\ up[h]
       /\ conn' = [conn EXCEPT ![c] = "out"]
       /\ Run(h, plan)
       /\ wire' = Written(wire, plan, f)
       /\ SendAllClientLists(h, plan)
       /\ UNCHANGED <<scenario, link, gate, known, told, heard, posted>>
  BY <1>1, <1>7, <1>8, <1>10 DEF Leave
<1>12. conn' \in [Clients -> ConnStates]
  BY <1>2, <1>11 DEF ConnStates
<1>13. \A d \in Clients : conn'[d] = "in" => d \in ToSet(roster'[Home[d]])
  <2> SUFFICES ASSUME NEW d \in Clients, conn'[d] = "in" PROVE d \in ToSet(roster'[Home[d]])
    OBVIOUS
  <2>1. d # c /\ conn[d] = "in"
    BY <1>2, <1>11
  <2>2. d \in ToSet(roster[Home[d]])
    BY <1>2, <2>1 DEF Ranges
  <2>3. QED BY <1>2, <1>6, <1>10, <2>1, <2>2, FromFacts
<1>14. QED
  <2>1. /\ plan \in Seq(Links \cup Clients)
        /\ ToSet(plan) = ToSet(Dials[h]) \cup ToSet(q)
        /\ f \in AllFrames /\ IsUpdate(f) /\ f.clients = q /\ f # Hello
        /\ f.type # "public_chat"
    BY <1>7, <1>8, <1>10, EveryoneFacts
  <2>2. QED BY <1>9, <1>10, <1>11, <1>12, <1>13, <2>1, RosterStep

-----------------------------------------------------------------------------
(* A step that leaves the servers, what they know and say, alone.          *)
LEMMA LinkStep ==
    ASSUME IInv,
           UNCHANGED <<scenario, up, known, told, roster, view, heard, posted>>,
           conn' \in [Clients -> ConnStates],
           \A d \in Clients : conn'[d] = "in" => conn[d] = "in",
           link' \in [Links -> LinkStates], gate' \in [Links -> GateStates],
           wire' \in [Links -> Seq(AllFrames)],
           \A l \in Links : Numbers(wire'[l]) \subseteq Numbers(wire[l]) \cup {posted + 1},
           \A l \in Links : LinkInv(l)',
           \A l, r \in Links : Opposite(l, r) => Asked(l, r)'
    PROVE  IInv'
<1>1. /\ TypeOK /\ Ranges /\ posted \in Nat
      /\ \A c \in Clients : Heard(c)
      /\ \A c \in Clients : Seen(c)
  BY Parts
<1>2. \A c \in Clients : Heard(c)'
  <2>1. heard' = heard /\ posted' \in Nat /\ posted' >= posted
    BY <1>1
  <2>2. QED BY <1>1, <2>1, KeptHeard
<1>3. \A c \in Clients : Seen(c)'
  <2>1. \A h \in Servers : Shown(h)' = Shown(h)
    BY DEF Shown, ToSet
  <2>2. \A h \in Servers : ToSet(roster[h])' = ToSet(roster[h])
    BY DEF ToSet
  <2>3. QED BY <1>1, <2>1, <2>2 DEF Seen
<1>4. Ranges'
  <2>1. \A h \in Servers : ToSet(roster[h])' = ToSet(roster[h])
    BY DEF ToSet
  <2>2. \A c \in Clients : ToSet(roster[Home[c]])' = ToSet(roster[Home[c]])
    BY DEF ToSet
  <2>3. QED BY <1>1, <2>1, <2>2 DEF Ranges
<1>5. TypeOK'
  <2>1. \A l \in Links : \A x \in ToSet(wire'[l]) :
            x \in Frames \/ x \in [type : {"client_update"}, clients : Seq(Clients)]
    BY WireTyped
  <2>2. \A l : ToSet(wire[l])' = ToSet(wire'[l])
    BY DEF ToSet
  <2>3. QED BY <1>1, <2>1, <2>2 DEF TypeOK
<1>6. \A l, r \in Links : Opposite(l, r)' => Asked(l, r)'
  BY DEF Opposite
<1>7. QED BY <1>2, <1>3, <1>4, <1>5, <1>6 DEF IInv

LEMMA Fields ==
    ASSUME IInv
    PROVE  /\ scenario \in Scenarios /\ up \in [Servers -> BOOLEAN]
           /\ conn \in [Clients -> ConnStates] /\ roster \in [Servers -> Seq(Clients)]
           /\ link \in [Links -> LinkStates] /\ gate \in [Links -> GateStates]
           /\ wire \in [Links -> Seq(AllFrames)]
           /\ known \in [Servers -> Seq([link : Links, clients : Seq(Clients)])]
           /\ view \in [Clients -> SUBSET Clients]
           /\ posted \in Nat /\ told \subseteq Links
BY Parts DEF TypeOK, Ranges

(* A link a step of another one leaves alone.                              *)
LEMMA OtherLinks ==
    ASSUME IInv, NEW l \in Links,
           UNCHANGED <<up, known, told, roster, posted>>,
           \A m \in Links \ {l} : /\ wire'[m] = wire[m] /\ link'[m] = link[m]
                                  /\ gate'[m] = gate[m]
    PROVE  /\ \A m \in Links \ {l} : LinkInv(m)'
           /\ \A m, r \in Links \ {l} : Opposite(m, r) => Asked(m, r)'
<1>1. /\ Ranges /\ posted \in Nat
      /\ \A m \in Links : LinkInv(m)
      /\ \A m, r \in Links : Opposite(m, r) => Asked(m, r)
  BY Parts
<1>2. ASSUME NEW m \in Links \ {l} PROVE LinkInv(m)'
  <2>1. Entries(m)' = Entries(m)
    BY EntriesKept
  <2>2. posted' \in Nat /\ posted' >= posted
    BY <1>1
  <2>3. QED BY <1>1, <2>1, <2>2, KeptLink
<1>3. ASSUME NEW m \in Links \ {l}, NEW r \in Links \ {l}, Opposite(m, r)
      PROVE  Asked(m, r)'
  BY <1>1, <1>3, AskedSent, FrameFacts
<1>4. QED BY <1>2, <1>3

LEMMA DepartStep == ASSUME IInv, NEW c \in Clients, Depart(c) PROVE IInv'
<1>1. /\ conn[c] = "in" /\ conn' = [conn EXCEPT ![c] = "closing"]
      /\ UNCHANGED <<scenario, up, known, told, roster, view, heard, posted>>
      /\ UNCHANGED <<link, gate, wire>>
  BY DEF Depart, peerVars
<1>2. /\ conn' \in [Clients -> ConnStates]
      /\ \A d \in Clients : conn'[d] = "in" => conn[d] = "in"
  BY <1>1, Fields DEF ConnStates
<1>3. /\ link' \in [Links -> LinkStates] /\ gate' \in [Links -> GateStates]
      /\ wire' \in [Links -> Seq(AllFrames)]
  BY <1>1, Fields
<1>4. \A l \in Links : Numbers(wire'[l]) \subseteq Numbers(wire[l]) \cup {posted + 1}
  BY <1>1
<1>5. ASSUME NEW l \in Links PROVE LinkInv(l)'
  <2>1. Entries(l)' = Entries(l)
    BY <1>1, EntriesKept
  <2>2. posted' \in Nat /\ posted' >= posted
    BY <1>1, Fields
  <2>3. QED BY <1>1, <2>1, <2>2, Parts, KeptLink
<1>6. ASSUME NEW l \in Links, NEW r \in Links, Opposite(l, r) PROVE Asked(l, r)'
  BY <1>1, <1>6, Parts, AskedSent, FrameFacts
<1>7. QED BY <1>1, <1>2, <1>3, <1>4, <1>5, <1>6, LinkStep

(* A step at one of the ends of a link, and nowhere else.                  *)
LEMMA EndStep ==
    ASSUME IInv, NEW l \in Links,
           UNCHANGED <<scenario, up, known, told, clientVars>>,
           NEW p \in LinkStates, link' = [link EXCEPT ![l] = p],
           NEW g \in GateStates, gate' = [gate EXCEPT ![l] = g],
           NEW w \in Seq(AllFrames), wire' = [wire EXCEPT ![l] = w],
           Numbers(w) \subseteq Numbers(wire[l]),
           LinkInv(l)',
           \A r \in Links : Opposite(l, r) => Asked(l, r)' /\ Asked(r, l)'
    PROVE  IInv'
<1>1. /\ UNCHANGED <<scenario, up, known, told, conn, roster, view, heard, posted>>
      /\ conn' \in [Clients -> ConnStates]
  BY Fields DEF clientVars
<1>2. /\ link' \in [Links -> LinkStates] /\ gate' \in [Links -> GateStates]
      /\ wire' \in [Links -> Seq(AllFrames)]
      /\ \A m \in Links \ {l} : wire'[m] = wire[m] /\ link'[m] = link[m] /\ gate'[m] = gate[m]
      /\ wire'[l] = w
  BY Fields
<1>3. \A m \in Links : Numbers(wire'[m]) \subseteq Numbers(wire[m]) \cup {posted + 1}
  BY <1>2
<1>4. /\ \A m \in Links \ {l} : LinkInv(m)'
      /\ \A m, r \in Links \ {l} : Opposite(m, r) => Asked(m, r)'
  BY <1>1, <1>2, OtherLinks
<1>5. \A m, r \in Links : Opposite(m, r) => Opposite(r, m) /\ m # r
  BY FromFacts DEF Opposite
<1>6. \A m, r \in Links : Opposite(m, r) => Asked(m, r)'
  BY <1>4, <1>5
<1>7. \A m \in Links : LinkInv(m)'
  BY <1>4
<1>8. QED BY <1>1, <1>2, <1>3, <1>6, <1>7, LinkStep

LEMMA SameGate ==
    ASSUME IInv, NEW l \in Links
    PROVE  /\ gate[l] \in GateStates /\ gate = [gate EXCEPT ![l] = gate[l]]
           /\ wire[l] \in Seq(AllFrames) /\ wire = [wire EXCEPT ![l] = wire[l]]
           /\ link[l] \in LinkStates /\ link = [link EXCEPT ![l] = link[l]]
BY Fields

LEMMA OpenStep == ASSUME IInv, NEW l \in Links, Open(l) PROVE IInv'
<1>1. /\ link[l] = "idle"
      /\ link' = [link EXCEPT ![l] = "hello"] /\ gate' = [gate EXCEPT ![l] = "open"]
      /\ wire' = [wire EXCEPT ![l] = wire[l]]
      /\ UNCHANGED <<scenario, up, known, told, clientVars>>
  BY SameGate DEF Open
<1>2. /\ link'[l] = "hello" /\ gate'[l] = "open" /\ wire'[l] = wire[l]
      /\ told' = told /\ posted' = posted /\ LinkInv(l) /\ Ranges
  BY <1>1, Fields, Parts DEF clientVars
<1>3. Entries(l)' = Entries(l)
  BY <1>1, EntriesKept
<1>4. LinkInv(l)'
  BY <1>1, <1>2, <1>3, OpenedLink
<1>5. \A r \in Links : Asked(l, r)' /\ Asked(r, l)'
  BY <1>2 DEF Asked, Greets, Asks
<1>6. "hello" \in LinkStates /\ "open" \in GateStates
  BY DEF LinkStates, GateStates
<1>7. Numbers(wire[l]) \subseteq Numbers(wire[l])
  OBVIOUS
<1>8. QED BY <1>1, <1>4, <1>5, <1>6, <1>7, SameGate, EndStep

LEMMA LoseStep ==
    ASSUME IInv, NEW l \in Links, Lose(l) \/ OnCloseSocket(l) PROVE IInv'
<1>1. PICK p \in {"broken", "closed"} :
          /\ link[l] \in {"open", "broken"}
          /\ link' = [link EXCEPT ![l] = p]
          /\ gate' = [gate EXCEPT ![l] = gate[l]] /\ wire' = [wire EXCEPT ![l] = wire[l]]
          /\ UNCHANGED <<scenario, up, known, told, clientVars>>
  BY SameGate DEF Lose, OnCloseSocket
<1>2. /\ link'[l] = p /\ gate'[l] = gate[l] /\ wire'[l] = wire[l]
      /\ told' = told /\ posted' = posted /\ up' = up /\ roster' = roster
      /\ LinkInv(l)
  BY <1>1, Fields, Parts DEF clientVars
<1>3. Entries(l)' = Entries(l)
  BY <1>1, EntriesKept
<1>4. ~Up(l)'
  BY <1>2 DEF Up
<1>5. LinkInv(l)'
  <2>1. link'[l] \notin {"idle", "hello"} /\ link[l] \notin {"idle", "hello"}
    BY <1>1, <1>2
  <2>2. QED BY <1>2, <1>3, <1>4, <2>1, MovedLink
<1>6. \A r \in Links : Asked(l, r)' /\ Asked(r, l)'
  BY <1>4 DEF Asked
<1>7. p \in LinkStates /\ Numbers(wire[l]) \subseteq Numbers(wire[l])
  BY DEF LinkStates
<1>8. QED BY <1>1, <1>5, <1>6, <1>7, SameGate, EndStep

LEMMA ShutStep ==
    ASSUME IInv, NEW l \in Links, gate[l] = "open", Shut(l),
           UNCHANGED <<scenario, up, link, known, told, clientVars>>
    PROVE  IInv'
<1>1. /\ link' = [link EXCEPT ![l] = link[l]]
      /\ gate' = [gate EXCEPT ![l] = "closing"] /\ wire' = [wire EXCEPT ![l] = <<>>]
      /\ UNCHANGED <<scenario, up, known, told, clientVars>>
  BY SameGate DEF Shut
<1>2. /\ link'[l] = link[l] /\ gate'[l] = "closing" /\ wire'[l] = <<>>
      /\ told' = told /\ LinkInv(l)
  BY <1>1, Fields, Parts
<1>3. Entries(l)' = Entries(l)
  BY <1>1, EntriesKept
<1>4. link[l] # "idle" /\ (l \in told => Entries(l) # {})
  BY <1>1, <1>2 DEF LinkInv, Greeted
<1>5. LinkInv(l)'
  BY <1>2, <1>3, <1>4, EmptiedLink
<1>6. \A r \in Links : Asked(l, r)' /\ Asked(r, l)'
  BY <1>2 DEF Asked, Up
<1>7. /\ "closing" \in GateStates /\ <<>> \in Seq(AllFrames)
      /\ Numbers(<<>>) \subseteq Numbers(wire[l])
  BY DEF GateStates, Numbers
<1>8. QED BY <1>1, <1>5, <1>6, <1>7, SameGate, EndStep

LEMMA SayHelloStep == ASSUME IInv, NEW l \in Links, SayHello(l) PROVE IInv'
<1>1. /\ link[l] = "hello"
      /\ link' = [link EXCEPT ![l] = "request"] /\ gate' = [gate EXCEPT ![l] = gate[l]]
      /\ UNCHANGED <<scenario, up, known, told, clientVars>>
      /\ wire' = IF gate[l] = "open" THEN [wire EXCEPT ![l] = Append(wire[l], Hello)]
                                     ELSE wire
  BY SameGate DEF SayHello, Writes
<1>2. /\ wire[l] \in Seq(AllFrames) /\ Hello \in AllFrames
      /\ Append(wire[l], Hello) \in Seq(AllFrames)
      /\ "request" \in LinkStates
  BY Fields, FrameFacts, AppendFacts DEF LinkStates
<1>3. PICK w \in Seq(AllFrames) :
          /\ w = IF gate[l] = "open" THEN Append(wire[l], Hello) ELSE wire[l]
          /\ wire' = [wire EXCEPT ![l] = w]
  BY <1>1, <1>2, SameGate
<1>4. /\ link'[l] = "request" /\ gate'[l] = gate[l] /\ wire'[l] = w
      /\ told' = told /\ posted' = posted /\ posted \in Nat /\ up' = up /\ roster' = roster
      /\ LinkInv(l) /\ Ranges
  BY <1>1, <1>3, Fields, Parts DEF clientVars
<1>5. Entries(l)' = Entries(l)
  BY <1>1, EntriesKept
<1>6. CASE gate[l] = "open"
  <2>1. LinkInv(l)'
    BY <1>1, <1>3, <1>4, <1>5, <1>6, HelloLink
  <2>2. Holds(w, Hello)
    BY <1>2, <1>3, <1>6, HoldsAppend
  <2>3. Greets(l)' /\ Asks(l)'
    <3>1. Holds(wire[l], Hello)'
      BY <1>4, <2>2 DEF Holds, Hello
    <3>2. QED BY <1>4, <3>1 DEF Greets, Asks
  <2>4. \A r \in Links : Asked(l, r)' /\ Asked(r, l)'
    BY <2>3 DEF Asked
  <2>5. Numbers(w) \subseteq Numbers(wire[l])
    <3>1. Hello.type # "public_chat"
      BY FrameFacts
    <3>2. QED BY <1>2, <1>3, <1>6, <3>1, FrameMore
  <2>6. QED BY <1>1, <1>2, <1>3, <2>1, <2>4, <2>5, SameGate, EndStep
<1>7. CASE gate[l] # "open"
  <2>1. ~Up(l)' /\ w = wire[l]
    BY <1>3, <1>4, <1>7 DEF Up
  <2>2. LinkInv(l)'
    BY <1>4, <1>5, <1>7, <2>1, MovedLink
  <2>3. \A r \in Links : Asked(l, r)' /\ Asked(r, l)'
    BY <2>1 DEF Asked
  <2>4. Numbers(w) \subseteq Numbers(wire[l])
    BY <2>1
  <2>5. QED BY <1>1, <1>2, <1>3, <2>2, <2>3, <2>4, SameGate, EndStep
<1>8. QED BY <1>6, <1>7

LEMMA RequestUpdateStep == ASSUME IInv, NEW l \in Links, RequestUpdate(l) PROVE IInv'
<1>1. /\ link[l] = "request"
      /\ link' = [link EXCEPT ![l] = "open"] /\ gate' = [gate EXCEPT ![l] = gate[l]]
      /\ UNCHANGED <<scenario, up, known, told, clientVars>>
      /\ wire' = IF gate[l] = "open" THEN [wire EXCEPT ![l] = Append(wire[l], Request)]
                                     ELSE wire
  BY SameGate DEF RequestUpdate, Writes
<1>2. /\ wire[l] \in Seq(AllFrames) /\ Request \in AllFrames
      /\ Append(wire[l], Request) \in Seq(AllFrames)
      /\ Request # Hello /\ ~IsUpdate(Request) /\ Request.type # "public_chat"
      /\ "open" \in LinkStates
  BY Fields, FrameFacts, AppendFacts DEF LinkStates, IsUpdate
<1>3. PICK w \in Seq(AllFrames) :
          /\ w = IF gate[l] = "open" THEN Append(wire[l], Request) ELSE wire[l]
          /\ wire' = [wire EXCEPT ![l] = w]
  BY <1>1, <1>2, SameGate
<1>4. /\ link'[l] = "open" /\ gate'[l] = gate[l] /\ wire'[l] = w
      /\ told' = told /\ posted' = posted /\ posted \in Nat /\ up' = up /\ roster' = roster
      /\ LinkInv(l) /\ Ranges
  BY <1>1, <1>3, Fields, Parts DEF clientVars
<1>5. Entries(l)' = Entries(l)
  BY <1>1, EntriesKept
<1>6. CASE gate[l] = "open"
  <2>1. LinkInv(l)'
    <3>1. Up(l) /\ wire'[l] = Append(wire[l], Request) /\ posted' \in Nat /\ posted' >= posted
      BY <1>1, <1>3, <1>4, <1>6 DEF Up
    <3>2. QED BY <1>1, <1>2, <1>4, <1>5, <3>1, AppendedLink
  <2>2. Holds(w, Request) /\ (Holds(wire[l], Hello) => Holds(w, Hello))
        /\ (Updates(wire[l]) # {} => Updates(w) # {})
    BY <1>2, <1>3, <1>6, HoldsAppend, FrameMore, FrameFacts
  <2>3. Asks(l)' /\ (Greets(l) => Greets(l)') /\ (Learns(l) => Learns(l)')
    <3>1. Holds(wire[l], Request)' /\ (Holds(w, Hello) => Holds(wire[l], Hello)')
      BY <1>4, <2>2 DEF Holds, Hello, Request
    <3>2. Updates(w) # {} => Updates(wire[l])' # {}
      BY <1>4 DEF Updates, IsUpdate
    <3>3. QED BY <1>1, <1>4, <2>2, <3>1, <3>2 DEF Asks, Greets, Learns
  <2>4. ASSUME NEW r \in Links, Opposite(l, r) PROVE Asked(l, r)' /\ Asked(r, l)'
    <3>1. Asked(r, l)'
      BY <2>3 DEF Asked
    <3>2. r # l /\ link'[r] = link[r] /\ wire'[r] = wire[r] /\ gate'[r] = gate[r]
      <4>1. r # l
        BY <2>4, FromFacts DEF Opposite
      <4>2. link'[r] = link[r] /\ gate'[r] = gate[r]
        BY <1>1, <4>1, Fields
      <4>3. wire'[r] = wire[r]
        BY <1>3, <4>1, Fields
      <4>4. QED BY <4>1, <4>2, <4>3
    <3>3. Asks(r)' <=> Asks(r)
      BY <3>2 DEF Asks, Holds, Request
    <3>4. (Up(r)' <=> Up(r)) /\ Up(l)
      BY <1>1, <1>6, <3>2 DEF Up
    <3>5. Asked(l, r)
      BY <2>4, Parts
    <3>6. Asked(l, r)'
      BY <1>4, <2>3, <3>3, <3>4, <3>5 DEF Asked
    <3>7. QED BY <3>1, <3>6
  <2>5. Numbers(w) \subseteq Numbers(wire[l])
    BY <1>2, <1>3, <1>6, FrameMore
  <2>6. QED BY <1>1, <1>2, <1>3, <2>1, <2>4, <2>5, SameGate, EndStep
<1>7. CASE gate[l] # "open"
  <2>1. ~Up(l)' /\ w = wire[l]
    BY <1>3, <1>4, <1>7 DEF Up
  <2>2. LinkInv(l)'
    BY <1>4, <1>5, <1>7, <2>1, MovedLink
  <2>3. \A r \in Links : Asked(l, r)' /\ Asked(r, l)'
    BY <2>1 DEF Asked
  <2>4. Numbers(w) \subseteq Numbers(wire[l])
    BY <2>1
  <2>5. QED BY <1>1, <1>2, <1>3, <2>2, <2>3, <2>4, SameGate, EndStep
<1>8. QED BY <1>6, <1>7

-----------------------------------------------------------------------------
(* A client hears one chat more.                                           *)
Heards == [from : Clients, n : 1 .. MaxChats, via : Links \cup {Local}]

LEMMA HeardsFacts ==
    /\ \A e \in Heards : e.n \in 1 .. MaxChats
    /\ \A c \in Clients, n \in 1 .. MaxChats, via \in Links \cup {Local} :
           [from |-> c, n |-> n, via |-> via] \in Heards
BY DEF Heards

Entry(chat, via) == [from |-> chat.from, n |-> chat.n, via |-> via]

LEMMA HeardMore ==
    ASSUME TypeOK, NEW c \in Clients, Heard(c),
           NEW e \in Heards,
           heard'[c] = Append(heard[c], e), e \notin ToSet(heard[c]),
           posted' \in Nat, posted' >= posted, e.n <= posted',
           IF Home[e.from] = Home[c] THEN e.via = Local
           ELSE e.via \in Links /\ From(e.via) = Home[e.from],
           \A l \in Links : Numbers(wire'[l]) \subseteq Numbers(wire[l]) \cup {posted + 1},
           \A l \in Links : e.via = l => e.n \notin Numbers(wire'[l])
    PROVE  Heard(c)'
<1>1. heard[c] \in Seq(Heards) /\ posted \in Nat
  <2>1. heard[c] \in Seq(Heards)
    BY DEF TypeOK, Heards
  <2>2. posted \in Nat
    BY FederationAssumption DEF TypeOK
  <2>3. QED BY <2>1, <2>2
<1>2. \A x \in ToSet(heard[c]) : x.n \in 1 .. MaxChats
  <2>1. \A x \in ToSet(heard[c]) : x \in Heards
    BY <1>1, ToSetIn
  <2>2. QED BY <2>1, HeardsFacts
<1>3. ToSet(heard[c])' = ToSet(heard[c]) \cup {e}
  <2>1. ToSet(Append(heard[c], e)) = ToSet(heard[c]) \cup {e}
    BY <1>1, ToSetAppend
  <2>2. ToSet(heard[c])' = ToSet(heard'[c])
    BY DEF ToSet
  <2>3. QED BY <2>1, <2>2
<1>4. IsInjective(heard[c])'
  <2> DEFINE n == Len(heard[c])
             new == Append(heard[c], e)
  <2>1. /\ n \in Nat /\ DOMAIN heard[c] = 1 .. n /\ DOMAIN new = 1 .. n + 1
        /\ \A i \in 1 .. n : new[i] = heard[c][i]
        /\ new[n + 1] = e
        /\ \A i : i \in 1 .. n + 1 <=> i \in 1 .. n \/ i = n + 1
    BY <1>1, AppendFacts
  <2>2. \A i \in 1 .. n : heard[c][i] # e
    BY <2>1 DEF ToSet
  <2>3. \A i, j \in 1 .. n : heard[c][i] = heard[c][j] => i = j
    BY <2>1 DEF Heard, IsInjective
  <2>4. IsInjective(new)
    <3> HIDE DEF n, new
    <3>1. QED BY <2>1, <2>2, <2>3 DEF IsInjective
  <2>5. IsInjective(heard[c])' <=> IsInjective(heard'[c])
    BY DEF IsInjective
  <2>6. QED BY <2>4, <2>5
<1>5. \A l : Numbers(wire[l])' = Numbers(wire'[l])
  BY DEF Numbers
<1>6. ASSUME NEW x \in ToSet(heard[c])
      PROVE  /\ x.n <= posted'
             /\ IF Home[x.from] = Home[c] THEN x.via = Local
                ELSE x.via \in Links /\ From(x.via) = Home[x.from]
             /\ \A l \in Links : x.via = l => x.n \notin Numbers(wire'[l])
  <2>1. x.n <= posted' /\ x.n # posted + 1
    BY <1>1, <1>2 DEF Heard
  <2>2. QED BY <2>1 DEF Heard
<1>7. QED BY <1>3, <1>4, <1>5, <1>6 DEF Heard

(* What Hears does to what one client has heard.                           *)
LEMMA HearsFacts ==
    ASSUME TypeOK, NEW plan, NEW chat, chat.from \in Clients, chat.n \in 1 .. MaxChats,
           NEW via \in Links \cup {Local}, Hears(chat, via, plan)
    PROVE  /\ Entry(chat, via) \in Heards
           /\ Entry(chat, via).from = chat.from
           /\ Entry(chat, via).n = chat.n
           /\ Entry(chat, via).via = via
           /\ \A c \in Clients :
                  \/ heard'[c] = heard[c]
                  \/ c \in Reached(plan) /\ heard'[c] = Append(heard[c], Entry(chat, via))
           /\ heard' \in [Clients -> Seq(Heards)]
<1>1. PICK e : e = Entry(chat, via)
  OBVIOUS
<1>2. e.from = chat.from /\ e.n = chat.n /\ e.via = via
  BY <1>1 DEF Entry
<1>3. e \in Heards
  BY <1>1, HeardsFacts DEF Entry
<1>4. heard' = [c \in Clients |->
          IF c \in Reached(plan) /\ c # chat.from /\ chat.from \in view[c]
          THEN Append(heard[c], e) ELSE heard[c]]
  BY <1>1, Zenon DEF Hears, Entry
<1>5. \A c \in Clients : \/ heard'[c] = heard[c]
                         \/ c \in Reached(plan) /\ heard'[c] = Append(heard[c], e)
  <2> TAKE c \in Clients
  <2>1. heard'[c] = IF c \in Reached(plan) /\ c # chat.from /\ chat.from \in view[c]
                    THEN Append(heard[c], e) ELSE heard[c]
    BY <1>4, Zenon
  <2>2. CASE c \in Reached(plan) /\ c # chat.from /\ chat.from \in view[c]
    BY <2>1, <2>2, Zenon
  <2>3. CASE ~(c \in Reached(plan) /\ c # chat.from /\ chat.from \in view[c])
    BY <2>1, <2>3, Zenon
  <2>4. QED BY <2>2, <2>3
<1>6. \A c \in Clients : heard[c] \in Seq(Heards)
  BY DEF TypeOK, Heards
<1>7. \A c \in Clients : heard'[c] \in Seq(Heards)
  <2>1. \A c \in Clients : Append(heard[c], e) \in Seq(Heards)
    BY <1>3, <1>6, AppendFacts
  <2>2. QED BY <1>5, <1>6, <2>1, Zenon
<1>8. heard' \in [Clients -> Seq(Heards)]
  BY <1>4, <1>7
<1>9. QED BY <1>1, <1>2, <1>3, <1>5, <1>8

LEMMA SeenKept ==
    ASSUME UNCHANGED <<roster, known, view>>, \A g \in Servers : up'[g] => up[g],
           NEW c \in Clients, Seen(c)
    PROVE  Seen(c)'
<1>1. \A g \in Servers : Shown(g)' = Shown(g)
  BY DEF Shown, ToSet
<1>2. \A g \in Servers : ToSet(roster[g])' = ToSet(roster[g])
  BY DEF ToSet
<1>3. QED BY <1>1, <1>2 DEF Seen

LEMMA PostStep == ASSUME IInv, NEW c \in Clients, Post(c) PROVE IInv'
<1>1. PICK h \in Servers : h = Home[c]
  BY FromFacts
<1>2. /\ TypeOK /\ Ranges
      /\ \A l \in Links : LinkInv(l)
      /\ \A l, r \in Links : Opposite(l, r) => Asked(l, r)
      /\ \A d \in Clients : Heard(d)
      /\ \A d \in Clients : Seen(d)
  BY Parts
<1>3. /\ roster[h] \in Seq(Clients) /\ wire \in [Links -> Seq(AllFrames)]
      /\ posted \in Nat /\ up \in [Servers -> BOOLEAN]
  BY Fields
<1>4. PICK plan : plan = roster[h] \o Dials[h]
  OBVIOUS
<1>5. PICK f : f = Chat(c, posted + 1)
  OBVIOUS
<1>6. /\ up[h] /\ conn[c] = "in" /\ posted < scenario.chats /\ posted' = posted + 1
      /\ Run(h, plan) /\ wire' = Written(wire, plan, f) /\ Hears(f, Local, plan)
      /\ scenario' = scenario /\ link' = link /\ gate' = gate /\ known' = known
      /\ told' = told /\ conn' = conn /\ roster' = roster /\ view' = view
  BY <1>1, <1>4, <1>5 DEF Post
<1>7. posted + 1 \in 1 .. MaxChats
  <2>1. scenario.chats \in 0 .. MaxChats /\ MaxChats \in Nat
    BY <1>2, FederationAssumption DEF TypeOK
  <2>2. QED BY <1>3, <1>6, <2>1
<1>8. /\ f \in AllFrames /\ f.type = "public_chat" /\ f.from = c /\ f.n = posted + 1
      /\ f # Hello /\ ~IsUpdate(f)
  BY <1>5, <1>7, FrameFacts DEF IsUpdate
<1>9. /\ plan \in Seq(Links \cup Clients)
      /\ ToSet(plan) = ToSet(roster[h]) \cup ToSet(Dials[h])
  <2>1. Dials[h] \in Seq(Links \cup Clients) /\ roster[h] \in Seq(Links \cup Clients)
    BY <1>3, FromFacts, SeqMonotonic
  <2>2. QED BY <1>4, <2>1, ConcatFacts
<1>10. \A x \in ToSet(roster[h]) : x \in Clients /\ Home[x] = h
  BY <1>2, <1>3, ToSetIn DEF Ranges
<1>11. /\ \A l \in Links : l \in ToSet(plan) => From(l) = h
       /\ \A d \in Clients : d \in ToSet(plan) => Home[d] = h
  BY <1>9, <1>10, FromFacts
<1>12. c \in ToSet(roster[h])
  BY <1>1, <1>2, <1>6 DEF Ranges
<1>13. /\ wire' \in [Links -> Seq(AllFrames)]
       /\ \A l \in Links : wire'[l] =
             IF l \in Reached(plan) /\ Up(l) THEN Append(wire[l], f) ELSE wire[l]
  BY <1>2, <1>3, <1>6, <1>8, <1>9, WrittenFacts
<1>14. \A l : Entries(l)' = Entries(l)
  BY <1>6, EntriesKept
<1>15. posted' \in Nat /\ posted' >= posted /\ posted' \in 0 .. MaxChats
  BY <1>3, <1>6, <1>7, FederationAssumption
<1>16. \A l \in Links : LinkInv(l)'
  BY <1>1, <1>2, <1>6, <1>8, <1>9, <1>11, <1>12, <1>13, <1>14, <1>15, SentLink
<1>17. /\ up' \in [Servers -> BOOLEAN]
       /\ \A g \in Servers : up'[g] => up[g]
  BY <1>3, <1>6, RunFacts
<1>18. \A l, r \in Links : Opposite(l, r)' => Asked(l, r)'
  <2> SUFFICES ASSUME NEW l \in Links, NEW r \in Links, Opposite(l, r) PROVE Asked(l, r)'
    BY DEF Opposite
  <2>1. /\ Asked(l, r)
        /\ wire'[l] \in {wire[l], Append(wire[l], f)}
        /\ wire'[r] \in {wire[r], Append(wire[r], f)}
        /\ up'[From(l)] => up[From(l)]
        /\ up'[To[l]] => up[To[l]]
        /\ link'[l] = link[l] /\ link'[r] = link[r]
        /\ gate'[l] = gate[l] /\ gate'[r] = gate[r]
        /\ (l \in told => l \in told') /\ Ranges
    BY <1>2, <1>6, <1>13, <1>17, FromFacts
  <2>2. QED BY <1>8, <2>1, AskedSent
<1>19. PICK e : e = Entry(f, Local)
  OBVIOUS
<1>20. /\ e \in Heards
       /\ e.from = c /\ e.n = posted + 1 /\ e.via = Local
       /\ \A d \in Clients : \/ heard'[d] = heard[d]
                             \/ d \in Reached(plan) /\ heard'[d] = Append(heard[d], e)
       /\ heard' \in [Clients -> Seq(Heards)]
  <2>1. f.from \in Clients /\ f.n \in 1 .. MaxChats
    BY <1>7, <1>8
  <2>2. TypeOK /\ Local \in Links \cup {Local} /\ Hears(f, Local, plan)
    BY <1>2, <1>6
  <2>3. /\ Entry(f, Local) \in Heards
        /\ Entry(f, Local).from = f.from
        /\ Entry(f, Local).n = f.n
        /\ Entry(f, Local).via = Local
        /\ \A d \in Clients :
               \/ heard'[d] = heard[d]
               \/ d \in Reached(plan) /\ heard'[d] = Append(heard[d], Entry(f, Local))
        /\ heard' \in [Clients -> Seq(Heards)]
    BY <2>1, <2>2, HearsFacts, Zenon
  <2>4. QED BY <1>8, <1>19, <2>3
<1>21. \A l \in Links : Numbers(wire'[l]) \subseteq Numbers(wire[l]) \cup {posted + 1}
  BY <1>3, <1>8, <1>13, FrameMore
<1>22. \A d \in Clients : Heard(d)'
  <2> SUFFICES ASSUME NEW d \in Clients PROVE Heard(d)'
    OBVIOUS
  <2>1. CASE heard'[d] = heard[d]
    BY <1>2, <1>15, <1>21, <2>1, KeptHeard
  <2>2. CASE d \in Reached(plan) /\ heard'[d] = Append(heard[d], e)
    <3>1. Home[d] = h
      BY <1>9, <1>11, <2>2, ReachedFacts
    <3>2. e \notin ToSet(heard[d])
      <4>1. \A x \in ToSet(heard[d]) : x.n <= posted
        BY <1>2 DEF Heard
      <4>2. ~(posted + 1 <= posted)
        BY <1>3
      <4>3. QED BY <1>20, <4>1, <4>2
    <3>3. \A l \in Links : e.via # l
      BY <1>20, FromFacts
    <3>4. e.n <= posted' /\ (IF Home[e.from] = Home[d] THEN e.via = Local
             ELSE e.via \in Links /\ From(e.via) = Home[e.from])
      BY <1>1, <1>3, <1>6, <1>20, <3>1
    <3>5. QED BY <1>2, <1>15, <1>20, <1>21, <2>2, <3>2, <3>3, <3>4, HeardMore
  <2>3. QED BY <1>20, <2>1, <2>2
<1>23. \A d \in Clients : Seen(d)'
  BY <1>2, <1>6, <1>17, SeenKept
<1>24. Ranges'
  BY <1>2, <1>6, <1>13 DEF Ranges, ToSet
<1>25. TypeOK'
  <2>1. \A l \in Links : \A x \in ToSet(wire'[l]) :
            x \in Frames \/ x \in [type : {"client_update"}, clients : Seq(Clients)]
    BY <1>13, WireTyped
  <2>2. \A l : ToSet(wire[l])' = ToSet(wire'[l])
    BY DEF ToSet
  <2>3. QED BY <1>2, <1>6, <1>15, <1>17, <1>20, <2>1, <2>2 DEF TypeOK, Heards
<1>26. QED
  BY <1>16, <1>18, <1>22, <1>23, <1>24, <1>25 DEF IInv

-----------------------------------------------------------------------------
(* What a step does to the parts of Asked, at a link it may append to, and *)
(* at the link it takes a frame from.                                      *)
LEMMA SentParts ==
    ASSUME Ranges, NEW l \in Links, NEW f \in AllFrames,
           wire'[l] \in {wire[l], Append(wire[l], f)},
           link'[l] = link[l], l \in told => l \in told'
    PROVE  /\ Learns(l) => Learns(l)'
           /\ Greets(l) => Greets(l)'
           /\ Asks(l) => Asks(l)'
           /\ wire'[l] = Append(wire[l], f) /\ f = Request => Asks(l)'
           /\ wire'[l] = Append(wire[l], f) /\ IsUpdate(f) => Learns(l)'
<1>1. wire[l] \in Seq(AllFrames)
  BY WireFacts
<1>2. /\ Updates(wire[l])' = Updates(wire'[l])
      /\ Holds(wire[l], Hello)' <=> Holds(wire'[l], Hello)
      /\ Holds(wire[l], Request)' <=> Holds(wire'[l], Request)
  BY DEF Updates, IsUpdate, Holds, Hello, Request
<1>3. /\ Updates(wire[l]) # {} => Updates(wire'[l]) # {}
      /\ wire'[l] = Append(wire[l], f) /\ IsUpdate(f) => Updates(wire'[l]) # {}
  BY <1>1, FrameMore
<1>4. /\ Holds(wire[l], Hello) => Holds(wire'[l], Hello)
      /\ Holds(wire[l], Request) => Holds(wire'[l], Request)
      /\ wire'[l] = Append(wire[l], f) /\ f = Request => Holds(wire'[l], Request)
  <2>1. /\ Holds(wire[l], Hello) => Holds(Append(wire[l], f), Hello)
        /\ Holds(wire[l], Request) => Holds(Append(wire[l], f), Request)
        /\ f = Request => Holds(Append(wire[l], f), Request)
    BY <1>1, HoldsAppend
  <2>2. QED BY <2>1
<1>5. QED BY <1>2, <1>3, <1>4 DEF Learns, Greets, Asks

LEMMA TakenParts ==
    ASSUME Ranges, NEW l \in Links, wire[l] # <<>>, wire'[l] = Tail(wire[l]),
           link'[l] = link[l], l \in told => l \in told'
    PROVE  /\ Learns(l) => Learns(l)' \/ IsUpdate(Head(wire[l]))
           /\ Greets(l) => Greets(l)' \/ Head(wire[l]) = Hello
           /\ Asks(l) => Asks(l)' \/ Head(wire[l]) = Request
<1>1. wire[l] \in Seq(AllFrames)
  BY WireFacts
<1>2. /\ Updates(wire[l])' = Updates(wire'[l])
      /\ Holds(wire[l], Hello)' <=> Holds(wire'[l], Hello)
      /\ Holds(wire[l], Request)' <=> Holds(wire'[l], Request)
  BY DEF Updates, IsUpdate, Holds, Hello, Request
<1>3. Updates(wire[l]) # {} => IsUpdate(Head(wire[l])) \/ Updates(wire'[l]) # {}
  BY <1>1, FrameLess
<1>4. /\ Holds(wire[l], Hello) => Head(wire[l]) = Hello \/ Holds(wire'[l], Hello)
      /\ Holds(wire[l], Request) => Head(wire[l]) = Request \/ Holds(wire'[l], Request)
  BY <1>1, HoldsTail
<1>5. QED BY <1>2, <1>3, <1>4 DEF Learns, Greets, Asks

(* The server a link leads to takes a frame and sends what follows.        *)
LEMMA TakenLinks ==
    ASSUME IInv, NEW l \in Links, NEW h \in Servers, h = To[l], up[h],
           gate[l] = "open", wire[l] # <<>>, NEW f, f = Head(wire[l]),
           NEW plan \in Seq(Links \cup Clients),
           \A m \in Links : m \in ToSet(plan) => From(m) = h,
           NEW g \in AllFrames, g # Hello, g.type # "public_chat",
           IsUpdate(g) => g.clients = roster[h],
           Run(h, plan), wire'[l] = Tail(wire[l]),
           \A m \in Links \ {l} : wire'[m] =
               IF m \in Reached(plan) /\ Up(m) THEN Append(wire[m], g) ELSE wire[m],
           link' = link, gate' = gate, posted' = posted, roster' = roster,
           \A m \in Links \ {l} : Entries(m)' = Entries(m) /\ (m \in told' <=> m \in told),
           f = Hello => Entries(l)' # {} /\ (l \in told' <=> l \in told),
           IsUpdate(f) /\ Entries(l) # {} => Entries(l)' = {f.clients} /\ l \in told',
           f # Hello /\ ~(IsUpdate(f) /\ Entries(l) # {}) =>
               Entries(l)' = Entries(l) /\ (l \in told' <=> l \in told)
    PROVE  \A m \in Links : LinkInv(m)'
<1>1. /\ TypeOK /\ Ranges /\ posted \in Nat /\ posted' \in Nat /\ posted' >= posted
      /\ \A m \in Links : LinkInv(m)
      /\ up \in [Servers -> BOOLEAN]
  BY Parts, Fields
<1>2. \A s \in Servers : up'[s] => up[s]
  BY <1>1, RunFacts
<1>3. LinkInv(l)'
  <2>1. /\ LinkInv(l) /\ Ranges /\ link'[l] = link[l] /\ gate'[l] = gate[l]
        /\ up'[From(l)] => up[From(l)]
        /\ roster'[From(l)] = roster[From(l)]
    BY <1>1, <1>2, FromFacts
  <2>2. QED BY <1>1, <2>1, TakenLink
<1>4. ASSUME NEW m \in Links \ {l} PROVE LinkInv(m)'
  <2>1. /\ LinkInv(m) /\ link'[m] = link[m] /\ gate'[m] = gate[m]
        /\ Entries(m)' = Entries(m) /\ (m \in told' <=> m \in told)
        /\ m \in ToSet(plan) => From(m) = h
        /\ wire'[m] = IF m \in Reached(plan) /\ Up(m) THEN Append(wire[m], g) ELSE wire[m]
    BY <1>1
  <2>2. /\ \A s \in Servers \ {h} : roster'[s] = roster[s]
        /\ IsUpdate(g) => g.clients = roster'[h]
        /\ roster'[h] = roster[h]
    OBVIOUS
  <2>3. QED BY <1>1, <2>1, <2>2, SentLink
<1>5. QED BY <1>3, <1>4

LEMMA AskedTaken ==
    ASSUME IInv, NEW l \in Links, wire[l] # <<>>, NEW f, f = Head(wire[l]),
           wire'[l] = Tail(wire[l]), NEW g \in AllFrames,
           \A m \in Links \ {l} : wire'[m] \in {wire[m], Append(wire[m], g)},
           link' = link, gate' = gate, \A m \in Links : m \in told => m \in told',
           \A s \in Servers : up'[s] => up[s],
           NEW m \in Links, NEW r \in Links, Opposite(m, r),
           m = l /\ IsUpdate(f) => Learns(l)' \/ Greets(l)',
           m = l /\ f = Hello /\ Up(r) /\ up'[To[l]] => Asks(r)',
           r = l /\ f = Request /\ Up(m) /\ up'[To[l]] => Learns(m)'
    PROVE  Asked(m, r)'
<1>1. Ranges /\ Asked(m, r) /\ m # r /\ From(m) = To[r]
  BY Parts, FromFacts DEF Opposite
<1>2. (Up(m)' <=> Up(m)) /\ (Up(r)' <=> Up(r))
  BY DEF Up
<1>3. SUFFICES ASSUME Up(m), Up(r), up'[From(m)], up'[To[m]]
               PROVE  Learns(m)' \/ Greets(m)' \/ Asks(r)'
  BY <1>2 DEF Asked
<1>4. up[From(m)] /\ up[To[m]]
  BY <1>3, FromFacts
<1>5. Learns(m) \/ Greets(m) \/ Asks(r)
  BY <1>1, <1>3, <1>4 DEF Asked
<1>6. Hello # Request /\ ~IsUpdate(Hello) /\ ~IsUpdate(Request)
  BY FrameFacts DEF IsUpdate
<1>7. CASE m = l
  <2>1. /\ Learns(m) => Learns(m)' \/ IsUpdate(f)
        /\ Greets(m) => Greets(m)' \/ f = Hello
    BY <1>1, <1>7, TakenParts
  <2>2. Asks(r) => Asks(r)'
    <3>1. wire'[r] \in {wire[r], Append(wire[r], g)} /\ link'[r] = link[r]
      BY <1>1, <1>7
    <3>2. QED BY <1>1, <3>1, SentParts
  <2>3. QED BY <1>3, <1>5, <1>7, <2>1, <2>2
<1>8. CASE r = l
  <2>1. Asks(r) => Asks(r)' \/ f = Request
    BY <1>1, <1>8, TakenParts
  <2>2. (Learns(m) => Learns(m)') /\ (Greets(m) => Greets(m)')
    <3>1. wire'[m] \in {wire[m], Append(wire[m], g)} /\ link'[m] = link[m]
      BY <1>1, <1>8
    <3>2. QED BY <1>1, <3>1, SentParts
  <2>3. QED BY <1>1, <1>3, <1>5, <1>8, <2>1, <2>2
<1>9. CASE m # l /\ r # l
  <2>1. /\ wire'[m] \in {wire[m], Append(wire[m], g)} /\ link'[m] = link[m]
        /\ wire'[r] \in {wire[r], Append(wire[r], g)} /\ link'[r] = link[r]
    BY <1>9
  <2>2. (Learns(m) => Learns(m)') /\ (Greets(m) => Greets(m)') /\ (Asks(r) => Asks(r)')
    BY <1>1, <2>1, SentParts
  <2>3. QED BY <1>5, <2>2
<1>10. QED BY <1>7, <1>8, <1>9

LEMMA TakenWire ==
    ASSUME IInv, NEW l \in Links, NEW h \in Servers, h = To[l], wire[l] # <<>>,
           NEW plan \in Seq(Links \cup Clients),
           \A m \in Links : m \in ToSet(plan) => From(m) = h,
           NEW g \in AllFrames, wire' = Written(Rest(l), plan, g)
    PROVE  /\ wire' \in [Links -> Seq(AllFrames)]
           /\ wire'[l] = Tail(wire[l])
           /\ \A m \in Links \ {l} : wire'[m] =
                  IF m \in Reached(plan) /\ Up(m) THEN Append(wire[m], g) ELSE wire[m]
           /\ g.type # "public_chat" =>
                  \A m \in Links : Numbers(wire'[m]) \subseteq Numbers(wire[m])
<1>1. TypeOK /\ wire \in [Links -> Seq(AllFrames)]
  BY Parts, Fields
<1>2. PICK w : w = Rest(l)
  OBVIOUS
<1>3. Tail(wire[l]) \in Seq(AllFrames)
  BY <1>1, TailFacts
<1>4. /\ w \in [Links -> Seq(AllFrames)] /\ w[l] = Tail(wire[l])
      /\ \A m \in Links \ {l} : w[m] = wire[m]
  BY <1>1, <1>2, <1>3 DEF Rest
<1>5. /\ wire' \in [Links -> Seq(AllFrames)]
      /\ \A m \in Links : wire'[m] =
             IF m \in Reached(plan) /\ Up(m) THEN Append(w[m], g) ELSE w[m]
  BY <1>1, <1>2, <1>4, WrittenFacts
<1>6. l \notin Reached(plan)
  <2>1. From(l) # h
    BY FromFacts
  <2>2. QED BY <2>1, ReachedFacts
<1>7. /\ wire'[l] = Tail(wire[l])
      /\ \A m \in Links \ {l} : wire'[m] =
             IF m \in Reached(plan) /\ Up(m) THEN Append(wire[m], g) ELSE wire[m]
  BY <1>4, <1>5, <1>6
<1>8. ASSUME g.type # "public_chat", NEW m \in Links
      PROVE  Numbers(wire'[m]) \subseteq Numbers(wire[m])
  <2>1. CASE m = l
    BY <1>1, <1>7, <2>1, FrameLess
  <2>2. CASE m # l
    <3>1. Numbers(Append(wire[m], g)) = Numbers(wire[m])
      BY <1>1, <1>8, FrameMore
    <3>2. QED BY <1>7, <2>2, <3>1
  <2>3. QED BY <2>1, <2>2
<1>9. QED BY <1>5, <1>7, <1>8

(* What a server keeps, as the set of its entries.                         *)
Kept(list, l) == {e.clients : e \in {e \in ToSet(list) : e.link = l}}
Users(list) == UNION {ToSet(e.clients) : e \in ToSet(list)}

LEMMA KeptFacts ==
    /\ \A l : Entries(l) = Kept(known[To[l]], l)
    /\ \A l : Entries(l)' = Kept(known'[To[l]], l)
    /\ \A l : Registered(l) <=> Entries(l) # {}
    /\ \A h : Shown(h) = ToSet(roster[h]) \cup Users(known[h])
    /\ \A h : Shown(h)' = ToSet(roster'[h]) \cup Users(known'[h])
<1>1. \A l : Entries(l) = Kept(known[To[l]], l)
  BY DEF Entries, Place, Kept, ToSet
<1>2. \A l : Entries(l)' = Kept(known'[To[l]], l)
  BY DEF Entries, Place, Kept, ToSet
<1>3. \A l : Registered(l) <=> Entries(l) # {}
  BY DEF Registered, Entries
<1>4. \A h : Shown(h) = ToSet(roster[h]) \cup Users(known[h])
  BY DEF Shown, Users, ToSet
<1>5. \A h : Shown(h)' = ToSet(roster'[h]) \cup Users(known'[h])
  BY DEF Shown, Users, ToSet
<1>6. QED BY <1>1, <1>2, <1>3, <1>4, <1>5

LEMMA TakeHelloStep == ASSUME IInv, NEW l \in Links, TakeHello(l) PROVE IInv'
<1>1. PICK h \in Servers : h = To[l]
  BY FromFacts
<1>2. PICK plan : plan = Dials[h]
  OBVIOUS
<1>3. /\ TypeOK /\ Ranges
      /\ \A c \in Clients : Heard(c)
      /\ \A c \in Clients : Seen(c)
      /\ up \in [Servers -> BOOLEAN] /\ posted \in Nat
      /\ known \in [Servers -> Seq([link : Links, clients : Seq(Clients)])]
  BY Parts, Fields
<1>4. PICK e : e = [link |-> l, clients |-> <<>>]
  OBVIOUS
<1>5. /\ up[h] /\ gate[l] = "open" /\ wire[l] # <<>> /\ Hello = Head(wire[l])
      /\ known' = [known EXCEPT ![h] = Append(known[h], e)]
      /\ Run(h, plan) /\ wire' = Written(Rest(l), plan, Request)
      /\ scenario' = scenario /\ link' = link /\ gate' = gate /\ told' = told
      /\ conn' = conn /\ roster' = roster /\ view' = view /\ heard' = heard
      /\ posted' = posted
  BY <1>1, <1>2, <1>4 DEF TakeHello, Takes, RequestPlan, clientVars
<1>6. /\ plan \in Seq(Links \cup Clients)
      /\ \A m \in Links : m \in ToSet(plan) <=> From(m) = h
  <2>1. Dials[h] \in Seq(Links \cup Clients)
    BY FromFacts, SeqMonotonic
  <2>2. \A m \in Links : m \in ToSet(Dials[h]) <=> From(m) = h
    BY FromFacts
  <2>3. QED BY <1>2, <2>1, <2>2
<1>7. /\ Request \in AllFrames /\ Request # Hello /\ Request.type # "public_chat"
      /\ ~IsUpdate(Request) /\ ~IsUpdate(Hello)
  BY FrameFacts DEF IsUpdate
<1>8. /\ wire' \in [Links -> Seq(AllFrames)]
      /\ wire'[l] = Tail(wire[l])
      /\ \A m \in Links \ {l} : wire'[m] =
             IF m \in Reached(plan) /\ Up(m) THEN Append(wire[m], Request) ELSE wire[m]
      /\ \A m \in Links : Numbers(wire'[m]) \subseteq Numbers(wire[m])
  <2>1. \A m \in Links : m \in ToSet(plan) => From(m) = h
    BY <1>6
  <2>2. wire[l] # <<>> /\ wire' = Written(Rest(l), plan, Request)
    BY <1>5
  <2>3. /\ wire' \in [Links -> Seq(AllFrames)]
        /\ wire'[l] = Tail(wire[l])
        /\ \A m \in Links \ {l} : wire'[m] =
               IF m \in Reached(plan) /\ Up(m) THEN Append(wire[m], Request) ELSE wire[m]
        /\ Request.type # "public_chat" =>
               \A m \in Links : Numbers(wire'[m]) \subseteq Numbers(wire[m])
    BY <1>1, <1>6, <1>7, <2>1, <2>2, TakenWire, Zenon
  <2>4. QED BY <1>7, <2>3
<1>9. /\ e \in [link : Links, clients : Seq(Clients)] /\ e.link = l /\ e.clients = <<>>
      /\ known[h] \in Seq([link : Links, clients : Seq(Clients)])
  <2>1. e.link = l /\ e.clients = <<>>
    BY <1>4
  <2>2. e \in [link : Links, clients : Seq(Clients)]
    <3>1. <<>> \in Seq(Clients)
      OBVIOUS
    <3>2. QED BY <1>4, <3>1
  <2>3. QED BY <1>3, <2>1, <2>2
<1>10. /\ known'[h] = Append(known[h], e) /\ \A g \in Servers \ {h} : known'[g] = known[g]
       /\ Append(known[h], e) \in Seq([link : Links, clients : Seq(Clients)])
       /\ ToSet(Append(known[h], e)) = ToSet(known[h]) \cup {e}
       /\ known' \in [Servers -> Seq([link : Links, clients : Seq(Clients)])]
  <2>1. /\ Append(known[h], e) \in Seq([link : Links, clients : Seq(Clients)])
        /\ ToSet(Append(known[h], e)) = ToSet(known[h]) \cup {e}
    <3>1. PICK T : T = [link : Links, clients : Seq(Clients)]
      OBVIOUS
    <3>2. e \in T /\ known[h] \in Seq(T)
      BY <1>9, <3>1
    <3>3. Append(known[h], e) \in Seq(T) /\ ToSet(Append(known[h], e)) = ToSet(known[h]) \cup {e}
      BY <3>2, AppendFacts, ToSetAppend
    <3>4. QED BY <3>1, <3>3
  <2>2. QED BY <1>3, <1>5, <2>1
<1>11. /\ \A m \in Links \ {l} : Entries(m)' = Entries(m)
       /\ Entries(l)' # {}
  <2>1. \A m \in Links \ {l} : Kept(known'[To[m]], m) = Kept(known[To[m]], m)
    <3> TAKE m \in Links \ {l}
    <3>1. CASE To[m] = h
      BY <1>9, <1>10, <3>1 DEF Kept
    <3>2. CASE To[m] # h
      BY <1>10, <3>2, FromFacts
    <3>3. QED BY <3>1, <3>2
  <2>2. Kept(known'[To[l]], l) # {}
    BY <1>1, <1>9, <1>10 DEF Kept
  <2>3. QED BY <2>1, <2>2, KeptFacts
<1>12. \A m \in Links : LinkInv(m)'
  BY <1>1, <1>5, <1>6, <1>7, <1>8, <1>11, TakenLinks
<1>13. /\ up' \in [Servers -> BOOLEAN]
       /\ \A s \in Servers : up'[s] => up[s]
  BY <1>3, <1>5, RunFacts
<1>14. ASSUME NEW m \in Links, NEW r \in Links, Opposite(m, r) PROVE Asked(m, r)'
  <2>1. m = l /\ Up(r) /\ up'[To[l]] => Asks(r)'
    <3> HAVE m = l /\ Up(r) /\ up'[To[l]]
    <3>1. From(r) = h /\ r # l
      BY <1>1, <1>14, FromFacts DEF Opposite
    <3>2. r \in Reached(plan)
      <4>1. Completes(plan)
        BY <1>1, <1>3, <1>5 DEF Run
      <4>2. QED BY <1>6, <3>1, <4>1, ReachedFacts
    <3>3. wire'[r] = Append(wire[r], Request) /\ link'[r] = link[r]
      BY <1>5, <1>8, <3>1, <3>2
    <3>4. QED BY <1>3, <1>5, <1>7, <3>3, SentParts
  <2>2. \A k \in Links \ {l} : wire'[k] \in {wire[k], Append(wire[k], Request)}
    BY <1>8
  <2>3. \A k \in Links : k \in told => k \in told'
    BY <1>5
  <2>4. QED BY <1>5, <1>7, <1>8, <1>13, <1>14, <2>1, <2>2, <2>3, AskedTaken
<1>15. \A c \in Clients : Heard(c)'
  <2>1. \A m \in Links : Numbers(wire'[m]) \subseteq Numbers(wire[m]) \cup {posted + 1}
    BY <1>8
  <2>2. posted' \in Nat /\ posted' >= posted
    BY <1>3, <1>5
  <2>3. QED BY <1>3, <1>5, <2>1, <2>2, KeptHeard
<1>16. \A c \in Clients : Seen(c)'
  <2>1. \A g \in Servers : Users(known'[g]) = Users(known[g])
    <3>1. Users(known'[h]) = Users(known[h]) \cup ToSet(e.clients)
      BY <1>10 DEF Users
    <3>2. ToSet(e.clients) = {}
      BY <1>9 DEF ToSet
    <3>3. QED BY <1>10, <3>1, <3>2
  <2>2. \A g \in Servers : Shown(g)' = Shown(g) /\ ToSet(roster[g])' = ToSet(roster[g])
    BY <1>5, <2>1, KeptFacts DEF ToSet
  <2>3. QED BY <1>3, <1>5, <1>13, <2>2 DEF Seen
<1>17. Ranges'
  BY <1>3, <1>5, <1>8 DEF Ranges, ToSet
<1>18. TypeOK'
  <2>1. \A m \in Links : \A x \in ToSet(wire'[m]) :
            x \in Frames \/ x \in [type : {"client_update"}, clients : Seq(Clients)]
    BY <1>8, WireTyped
  <2>2. \A m : ToSet(wire[m])' = ToSet(wire'[m])
    BY DEF ToSet
  <2>3. QED BY <1>3, <1>5, <1>10, <1>13, <2>1, <2>2 DEF TypeOK
<1>19. \A m, r \in Links : Opposite(m, r)' => Asked(m, r)'
  BY <1>14 DEF Opposite
<1>20. QED
  BY <1>12, <1>15, <1>16, <1>17, <1>18, <1>19 DEF IInv

LEMMA TakeRequestStep == ASSUME IInv, NEW l \in Links, TakeRequest(l) PROVE IInv'
<1>1. PICK h \in Servers : h = To[l]
  BY FromFacts
<1>2. CASE ~Registered(l)
  <2>1. gate[l] = "open" /\ Shut(l) /\ UNCHANGED <<scenario, up, link, known, told, clientVars>>
    BY <1>2 DEF TakeRequest, Takes
  <2>2. QED BY <2>1, ShutStep
<1>3. CASE Registered(l)
  <2>1. PICK plan : plan = Dials[h]
    OBVIOUS
  <2>2. PICK f : f = Update(roster[h])
    OBVIOUS
  <2>3. /\ TypeOK /\ Ranges
        /\ \A c \in Clients : Heard(c)
        /\ \A c \in Clients : Seen(c)
        /\ up \in [Servers -> BOOLEAN] /\ posted \in Nat /\ roster[h] \in Seq(Clients)
    BY Parts, Fields
  <2>4. /\ up[h] /\ gate[l] = "open" /\ wire[l] # <<>> /\ Request = Head(wire[l])
        /\ Run(h, plan) /\ wire' = Written(Rest(l), plan, f)
        /\ scenario' = scenario /\ link' = link /\ gate' = gate /\ told' = told
        /\ conn' = conn /\ roster' = roster /\ view' = view /\ heard' = heard
        /\ posted' = posted /\ known' = known
    BY <1>1, <1>3, <2>1, <2>2 DEF TakeRequest, Takes, clientVars
  <2>5. /\ plan \in Seq(Links \cup Clients)
        /\ \A m \in Links : m \in ToSet(plan) <=> From(m) = h
    <3>1. Dials[h] \in Seq(Links \cup Clients)
      BY FromFacts, SeqMonotonic
    <3>2. \A m \in Links : m \in ToSet(Dials[h]) <=> From(m) = h
      BY FromFacts
    <3>3. QED BY <2>1, <3>1, <3>2
  <2>6. /\ f \in AllFrames /\ f # Hello /\ f.type # "public_chat"
        /\ IsUpdate(f) /\ f.clients = roster[h]
        /\ ~IsUpdate(Request) /\ Request # Hello
    BY <2>2, <2>3, FrameFacts DEF IsUpdate
  <2>7. /\ wire' \in [Links -> Seq(AllFrames)]
        /\ wire'[l] = Tail(wire[l])
        /\ \A m \in Links \ {l} : wire'[m] =
               IF m \in Reached(plan) /\ Up(m) THEN Append(wire[m], f) ELSE wire[m]
        /\ \A m \in Links : Numbers(wire'[m]) \subseteq Numbers(wire[m])
    BY <1>1, <2>4, <2>5, <2>6, TakenWire
  <2>8. \A m \in Links : Entries(m)' = Entries(m) /\ (m \in told' <=> m \in told)
    BY <2>4, EntriesKept
  <2>9. \A m \in Links : LinkInv(m)'
    BY <1>1, <2>4, <2>5, <2>6, <2>7, <2>8, TakenLinks
  <2>10. /\ up' \in [Servers -> BOOLEAN]
         /\ \A s \in Servers : up'[s] => up[s]
    BY <2>3, <2>4, RunFacts
  <2>11. ASSUME NEW m \in Links, NEW r \in Links, Opposite(m, r) PROVE Asked(m, r)'
    <3>1. r = l /\ Up(m) /\ up'[To[l]] => Learns(m)'
      <4> HAVE r = l /\ Up(m) /\ up'[To[l]]
      <4>1. From(m) = h /\ m # l
        BY <1>1, <2>11, FromFacts DEF Opposite
      <4>2. m \in Reached(plan)
        <5>1. Completes(plan)
          BY <1>1, <2>3, <2>4 DEF Run
        <5>2. QED BY <2>5, <4>1, <5>1, ReachedFacts
      <4>3. wire'[m] = Append(wire[m], f) /\ link'[m] = link[m]
        BY <2>4, <2>7, <4>1, <4>2
      <4>4. QED BY <2>3, <2>4, <2>6, <4>3, SentParts
    <3>2. \A k \in Links \ {l} : wire'[k] \in {wire[k], Append(wire[k], f)}
      BY <2>7
    <3>3. \A k \in Links : k \in told => k \in told'
      BY <2>4
    <3>4. QED BY <2>4, <2>6, <2>7, <2>10, <2>11, <3>1, <3>2, <3>3, AskedTaken
  <2>12. \A c \in Clients : Heard(c)'
    <3>1. \A m \in Links : Numbers(wire'[m]) \subseteq Numbers(wire[m]) \cup {posted + 1}
      BY <2>7
    <3>2. posted' \in Nat /\ posted' >= posted
      BY <2>3, <2>4
    <3>3. QED BY <2>3, <2>4, <3>1, <3>2, KeptHeard
  <2>13. \A c \in Clients : Seen(c)'
    BY <2>3, <2>4, <2>10, SeenKept
  <2>14. Ranges'
    BY <2>3, <2>4, <2>7 DEF Ranges, ToSet
  <2>15. TypeOK'
    <3>1. \A m \in Links : \A x \in ToSet(wire'[m]) :
              x \in Frames \/ x \in [type : {"client_update"}, clients : Seq(Clients)]
      BY <2>7, WireTyped
    <3>2. \A m : ToSet(wire[m])' = ToSet(wire'[m])
      BY DEF ToSet
    <3>3. QED BY <2>3, <2>4, <2>10, <3>1, <3>2 DEF TypeOK
  <2>16. \A m, r \in Links : Opposite(m, r)' => Asked(m, r)'
    BY <2>11 DEF Opposite
  <2>17. QED
    BY <2>9, <2>12, <2>13, <2>14, <2>15, <2>16 DEF IInv
<1>4. QED BY <1>2, <1>3

(* UpdateExternalClientList, as it changes the set of entries.             *)
LEMMA ReplacedFacts ==
    ASSUME NEW h, NEW l \in Links, NEW cl \in Seq(Clients),
           known[h] \in Seq([link : Links, clients : Seq(Clients)])
    PROVE  /\ Replaced(h, l, cl) \in Seq([link : Links, clients : Seq(Clients)])
           /\ \A m : m # l => Kept(Replaced(h, l, cl), m) = Kept(known[h], m)
           /\ Kept(Replaced(h, l, cl), l) = IF Kept(known[h], l) = {} THEN {} ELSE {cl}
<1> DEFINE T == [link : Links, clients : Seq(Clients)]
<1>1. PICK list : list = known[h]
  OBVIOUS
<1>2. PICK new : new = Replaced(h, l, cl)
  OBVIOUS
<1>3. PICK n \in Nat : n = Len(list)
  BY <1>1, LenProperties
<1>4. /\ DOMAIN list = 1 .. n /\ \A i \in 1 .. n : list[i] \in T
  BY <1>1, <1>3, LenProperties, ElementOfSeq
<1>5. /\ DOMAIN new = 1 .. n
      /\ \A i \in 1 .. n : new[i] = IF list[i].link = l
                THEN [list[i] EXCEPT !.clients = cl] ELSE list[i]
  BY <1>1, <1>2, <1>4 DEF Replaced
<1>6. ASSUME NEW i \in 1 .. n
      PROVE  /\ new[i] \in T /\ new[i].link = list[i].link
             /\ new[i].clients = IF list[i].link = l THEN cl ELSE list[i].clients
  <2>1. list[i] \in T
    BY <1>4
  <2>2. CASE list[i].link = l
    BY <1>5, <2>1, <2>2
  <2>3. CASE list[i].link # l
    BY <1>5, <2>1, <2>3
  <2>4. QED BY <2>2, <2>3
<1> HIDE DEF T
<1>7. new \in Seq(T)
  <2>1. new = [i \in 1 .. n |-> new[i]]
    BY <1>1, <1>2, <1>4 DEF Replaced
  <2>2. new \in [1 .. n -> T]
    BY <1>6, <2>1
  <2>3. QED BY <2>2, SeqDef
<1>8. /\ \A m : \A x : x \in Kept(list, m) <=>
                            \E i \in 1 .. n : list[i].link = m /\ x = list[i].clients
      /\ \A m : \A x : x \in Kept(new, m) <=>
                            \E i \in 1 .. n : new[i].link = m /\ x = new[i].clients
  <2>1. /\ \A x : x \in ToSet(list) <=> \E i \in 1 .. n : x = list[i]
        /\ \A x : x \in ToSet(new) <=> \E i \in 1 .. n : x = new[i]
    BY <1>4, <1>5 DEF ToSet
  <2>2. /\ \A m, x : x \in Kept(list, m) <=>
                          \E e \in ToSet(list) : e.link = m /\ x = e.clients
        /\ \A m, x : x \in Kept(new, m) <=>
                          \E e \in ToSet(new) : e.link = m /\ x = e.clients
    BY Zenon DEF Kept
  <2>3. QED BY <2>1, <2>2, SMTT(20)
<1>9. ASSUME NEW m, m # l PROVE Kept(new, m) = Kept(list, m)
  <2>1. \A x : x \in Kept(new, m) <=> x \in Kept(list, m)
    BY <1>6, <1>8, <1>9, SMTT(20)
  <2>2. QED BY <2>1
<1>10. Kept(new, l) = IF Kept(list, l) = {} THEN {} ELSE {cl}
  <2>1. \A i \in 1 .. n : list[i].link = l => new[i].link = l /\ new[i].clients = cl
    BY <1>6
  <2>2. \A i \in 1 .. n : new[i].link = l => list[i].link = l /\ new[i].clients = cl
    BY <1>6
  <2>3. CASE \E i \in 1 .. n : list[i].link = l
    <3>1. PICK i \in 1 .. n : list[i].link = l
      BY <2>3
    <3>2. list[i].clients \in Kept(list, l)
      BY <1>8, <3>1, Zenon
    <3>3. cl \in Kept(new, l)
      <4>1. new[i].link = l /\ cl = new[i].clients
        BY <2>1, <3>1
      <4>2. QED BY <1>8, <4>1, Zenon
    <3>4. \A x \in Kept(new, l) : x = cl
      <4> SUFFICES ASSUME NEW x, x \in Kept(new, l) PROVE x = cl
        OBVIOUS
      <4>1. \A y : y \in Kept(new, l) <=>
                       \E j \in 1 .. n : new[j].link = l /\ y = new[j].clients
        BY <1>8
      <4>2. PICK j \in 1 .. n : new[j].link = l /\ x = new[j].clients
        BY <4>1
      <4>3. QED BY <2>2, <4>2
    <3>5. QED BY <3>2, <3>3, <3>4
  <2>4. CASE ~\E i \in 1 .. n : list[i].link = l
    <3>1. \A x : x \notin Kept(list, l)
      BY <1>8, <2>4, Zenon
    <3>2. \A x : x \notin Kept(new, l)
      BY <1>8, <2>2, <2>4, Zenon
    <3>3. QED BY <3>1, <3>2
  <2>5. QED BY <2>3, <2>4
<1>11. QED BY <1>1, <1>2, <1>7, <1>9, <1>10 DEF T

(* A plan of clients reaches no link.                                      *)
LEMMA RosterPlan ==
    ASSUME IInv, NEW h \in Servers, NEW plan, plan = roster[h]
    PROVE  /\ plan \in Seq(Links \cup Clients)
           /\ \A m \in Links : m \notin ToSet(plan) /\ m \notin Reached(plan)
           /\ \A c \in Clients : c \in ToSet(plan) => Home[c] = h
<1>1. Ranges /\ roster[h] \in Seq(Clients)
  BY Parts, Fields
<1>2. plan \in Seq(Links \cup Clients)
  BY <1>1, SeqMonotonic
<1>3. \A x \in ToSet(plan) : x \in Clients
  BY <1>1, ToSetIn
<1>4. \A m \in Links : m \notin ToSet(plan)
  BY <1>3, FromFacts
<1>5. \A m \in Links : m \notin Reached(plan)
  BY <1>2, <1>4, ReachedFacts
<1>6. QED BY <1>1, <1>2, <1>4, <1>5 DEF Ranges

LEMMA TakeUpdateStep == ASSUME IInv, NEW l \in Links, TakeUpdate(l) PROVE IInv'
<1>1. PICK h \in Servers : h = To[l]
  BY FromFacts
<1>2. PICK plan : plan = roster[h]
  OBVIOUS
<1>3. PICK f : /\ up[h] /\ gate[l] = "open" /\ wire[l] # <<>> /\ f = Head(wire[l])
               /\ IsUpdate(f)
               /\ known' = [known EXCEPT ![h] = Replaced(h, l, f.clients)]
               /\ told' = IF Registered(l) THEN told \cup {l} ELSE told
               /\ Run(h, plan) /\ wire' = Rest(l) /\ SendAllClientLists(h, plan)
               /\ scenario' = scenario /\ link' = link /\ gate' = gate
               /\ conn' = conn /\ roster' = roster /\ heard' = heard /\ posted' = posted
  BY <1>1, <1>2 DEF TakeUpdate, Takes, IsUpdate
<1>4. /\ TypeOK /\ Ranges
      /\ \A m \in Links : LinkInv(m)
      /\ \A c \in Clients : Heard(c)
      /\ \A c \in Clients : Seen(c)
      /\ up \in [Servers -> BOOLEAN] /\ posted \in Nat
      /\ roster \in [Servers -> Seq(Clients)]
      /\ known \in [Servers -> Seq([link : Links, clients : Seq(Clients)])]
      /\ wire \in [Links -> Seq(AllFrames)]
  BY Parts, Fields
<1>5. /\ f \in AllFrames /\ f.clients \in Seq(Clients) /\ f # Hello /\ f # Request
  <2>1. f \in AllFrames
    BY <1>3, <1>4, TailFacts
  <2>2. QED BY <1>3, <2>1, FrameFacts DEF IsUpdate
<1>6. /\ plan \in Seq(Links \cup Clients)
      /\ \A m \in Links : m \notin ToSet(plan) /\ m \notin Reached(plan)
      /\ \A c \in Clients : c \in ToSet(plan) => Home[c] = h
  BY <1>2, RosterPlan
<1>7. /\ wire' \in [Links -> Seq(AllFrames)]
      /\ wire'[l] = Tail(wire[l])
      /\ \A m \in Links \ {l} : wire'[m] = wire[m]
      /\ \A m \in Links : Numbers(wire'[m]) \subseteq Numbers(wire[m])
  <2>1. wire[l] \in Seq(AllFrames)
    BY <1>4
  <2>2. Tail(wire[l]) \in Seq(AllFrames) /\ Numbers(Tail(wire[l])) \subseteq Numbers(wire[l])
    BY <1>3, <2>1, TailFacts, FrameLess
  <2>3. QED BY <1>3, <1>4, <2>2 DEF Rest
<1>8. /\ known'[h] = Replaced(h, l, f.clients)
      /\ \A g \in Servers \ {h} : known'[g] = known[g]
      /\ known' \in [Servers -> Seq([link : Links, clients : Seq(Clients)])]
      /\ \A m : m # l => Kept(known'[h], m) = Kept(known[h], m)
      /\ Kept(known'[h], l) = IF Kept(known[h], l) = {} THEN {} ELSE {f.clients}
  <2>1. known[h] \in Seq([link : Links, clients : Seq(Clients)])
    BY <1>4
  <2>2. /\ Replaced(h, l, f.clients) \in Seq([link : Links, clients : Seq(Clients)])
        /\ \A m : m # l => Kept(Replaced(h, l, f.clients), m) = Kept(known[h], m)
        /\ Kept(Replaced(h, l, f.clients), l) =
               IF Kept(known[h], l) = {} THEN {} ELSE {f.clients}
    BY <1>5, <2>1, ReplacedFacts
  <2>3. QED BY <1>3, <1>4, <2>2
<1>9. /\ \A m \in Links \ {l} : Entries(m)' = Entries(m)
      /\ Entries(l)' = IF Entries(l) = {} THEN {} ELSE {f.clients}
  <2>1. \A m \in Links \ {l} : Kept(known'[To[m]], m) = Kept(known[To[m]], m)
    BY <1>8, FromFacts
  <2>2. QED BY <1>1, <1>8, <2>1, KeptFacts
<1>10. /\ \A m \in Links \ {l} : m \in told' <=> m \in told
       /\ \A m \in Links : m \in told => m \in told'
       /\ Entries(l) # {} => l \in told'
       /\ Entries(l) = {} => (l \in told' <=> l \in told)
  BY <1>3, KeptFacts
<1>11. Request \in AllFrames /\ Request # Hello /\ Request.type # "public_chat"
       /\ ~IsUpdate(Request)
  BY FrameFacts DEF IsUpdate
<1>12. \A m \in Links : LinkInv(m)'
  <2>1. \A m \in Links : m \in ToSet(plan) => From(m) = h
    BY <1>6
  <2>2. \A m \in Links \ {l} : wire'[m] =
            IF m \in Reached(plan) /\ Up(m) THEN Append(wire[m], Request) ELSE wire[m]
    BY <1>6, <1>7
  <2>3. IsUpdate(f) /\ Entries(l) # {} => Entries(l)' = {f.clients} /\ l \in told'
    BY <1>9, <1>10
  <2>4. f # Hello /\ ~(IsUpdate(f) /\ Entries(l) # {}) =>
            Entries(l)' = Entries(l) /\ (l \in told' <=> l \in told)
    BY <1>3, <1>9, <1>10
  <2>5. \A m \in Links \ {l} : Entries(m)' = Entries(m) /\ (m \in told' <=> m \in told)
    BY <1>9, <1>10
  <2>6. QED
    BY <1>1, <1>3, <1>5, <1>6, <1>7, <1>11, <2>1, <2>2, <2>3, <2>4, <2>5, TakenLinks,
       ZenonT(240)
<1>13. /\ up' \in [Servers -> BOOLEAN]
       /\ \A s \in Servers : up'[s] => up[s]
  BY <1>3, <1>4, RunFacts
<1>14. Learns(l)' \/ Greets(l)'
  <2>1. CASE Entries(l) # {}
    BY <1>10, <2>1 DEF Learns
  <2>2. CASE Entries(l) = {}
    <3>1. Greets(l)
      BY <1>3, <1>4, <2>2 DEF LinkInv, Greeted, Greets
    <3>2. link'[l] = link[l] /\ (l \in told => l \in told')
      BY <1>3, <1>10
    <3>3. QED BY <1>3, <1>4, <1>5, <1>7, <3>1, <3>2, TakenParts
  <2>3. QED BY <2>1, <2>2
<1>15. ASSUME NEW m \in Links, NEW r \in Links, Opposite(m, r) PROVE Asked(m, r)'
  <2>1. \A k \in Links \ {l} : wire'[k] \in {wire[k], Append(wire[k], Request)}
    BY <1>7
  <2>2. QED BY <1>3, <1>5, <1>7, <1>10, <1>11, <1>13, <1>14, <1>15, <2>1, AskedTaken
<1>16. \A c \in Clients : Heard(c)'
  <2>1. \A m \in Links : Numbers(wire'[m]) \subseteq Numbers(wire[m]) \cup {posted + 1}
    BY <1>7
  <2>2. posted' \in Nat /\ posted' >= posted
    BY <1>3, <1>4
  <2>3. QED BY <1>3, <1>4, <2>1, <2>2, KeptHeard
<1>17. \A c \in Clients : Seen(c)'
  <2>1. \A g \in Servers \ {h} : roster'[g] = roster[g] /\ Shown(g)' = Shown(g)
    BY <1>3, <1>8, KeptFacts
  <2>2. ToSet(roster'[h]) \subseteq ToSet(plan)
    BY <1>2, <1>3
  <2>3. QED BY <1>3, <1>4, <1>6, <2>1, <2>2, ShownToAll
<1>18. Ranges'
  BY <1>3, <1>4, <1>7 DEF Ranges, ToSet
<1>19. TypeOK'
  <2>1. \A m \in Links : \A x \in ToSet(wire'[m]) :
            x \in Frames \/ x \in [type : {"client_update"}, clients : Seq(Clients)]
    BY <1>7, WireTyped
  <2>2. \A m : ToSet(wire[m])' = ToSet(wire'[m])
    BY DEF ToSet
  <2>3. view' \in [Clients -> SUBSET Clients]
    <3>1. roster' \in [Servers -> Seq(Clients)]
      BY <1>3, <1>4
    <3>2. QED BY <1>3, <1>4, <1>8, <3>1, ViewTyped
  <2>4. told' \subseteq Links
    BY <1>3, <1>4 DEF TypeOK
  <2>5. QED BY <1>3, <1>4, <1>8, <1>13, <2>1, <2>2, <2>3, <2>4 DEF TypeOK
<1>20. \A m, r \in Links : Opposite(m, r)' => Asked(m, r)'
  BY <1>15 DEF Opposite
<1>21. QED
  BY <1>12, <1>16, <1>17, <1>18, <1>19, <1>20 DEF IInv

LEMMA TakeChatStep == ASSUME IInv, NEW l \in Links, TakeChat(l) PROVE IInv'
<1>1. PICK h \in Servers : h = To[l]
  BY FromFacts
<1>2. CASE ~Registered(l)
  <2>1. gate[l] = "open" /\ Shut(l) /\ UNCHANGED <<scenario, up, link, known, told, clientVars>>
    BY <1>2 DEF TakeChat, Takes, clientVars
  <2>2. QED BY <2>1, ShutStep
<1>3. CASE Registered(l)
  <2>1. PICK plan : plan = roster[h]
    OBVIOUS
  <2>2. PICK f : /\ up[h] /\ gate[l] = "open" /\ wire[l] # <<>> /\ f = Head(wire[l])
                 /\ f.type = "public_chat"
                 /\ Run(h, plan) /\ wire' = Written(Rest(l), plan, f) /\ Hears(f, l, plan)
                 /\ scenario' = scenario /\ link' = link /\ gate' = gate
                 /\ known' = known /\ told' = told /\ conn' = conn
                 /\ roster' = roster /\ view' = view /\ posted' = posted
    BY <1>1, <1>3, <2>1 DEF TakeChat, Takes, RelayPlan
  <2>3. /\ TypeOK /\ Ranges
        /\ \A m \in Links : LinkInv(m)
        /\ \A c \in Clients : Heard(c)
        /\ \A c \in Clients : Seen(c)
        /\ up \in [Servers -> BOOLEAN] /\ posted \in Nat
        /\ wire \in [Links -> Seq(AllFrames)]
    BY Parts, Fields
  <2>4. /\ f \in AllFrames /\ f.from \in Clients /\ f.n \in 1 .. MaxChats
        /\ f # Hello /\ f # Request /\ ~IsUpdate(f)
    <3>1. f \in AllFrames
      BY <2>2, <2>3, TailFacts
    <3>2. QED BY <2>2, <3>1, FrameFacts DEF IsUpdate
  <2>5. /\ plan \in Seq(Links \cup Clients)
        /\ \A m \in Links : m \notin ToSet(plan) /\ m \notin Reached(plan)
        /\ \A c \in Clients : c \in ToSet(plan) => Home[c] = h
    BY <2>1, RosterPlan
  <2>6. /\ wire' \in [Links -> Seq(AllFrames)]
        /\ wire'[l] = Tail(wire[l])
        /\ \A m \in Links \ {l} : wire'[m] = wire[m]
    BY <1>1, <2>2, <2>4, <2>5, TakenWire
  <2>7. /\ f.n \notin Numbers(wire'[l]) /\ f.n \in Numbers(wire[l])
        /\ f.n <= posted /\ Home[f.from] = From(l)
        /\ \A m \in Links : Numbers(wire'[m]) \subseteq Numbers(wire[m])
    <3>1. Numbers(wire'[l]) \subseteq Numbers(wire[l])
      BY <2>2, <2>3, <2>6, FrameLess
    <3>2. Numbered(l)
      BY <2>3 DEF LinkInv
    <3>3. QED BY <2>2, <2>3, <2>6, <3>1, <3>2, HeadNumber
  <2>8. Request \in AllFrames /\ Request # Hello /\ Request.type # "public_chat"
        /\ ~IsUpdate(Request)
    BY FrameFacts DEF IsUpdate
  <2>9. \A m \in Links : Entries(m)' = Entries(m) /\ (m \in told' <=> m \in told)
    BY <2>2, EntriesKept
  <2>10. \A m \in Links : LinkInv(m)'
    <3>1. \A m \in Links : m \in ToSet(plan) => From(m) = h
      BY <2>5
    <3>2. \A m \in Links \ {l} : wire'[m] =
              IF m \in Reached(plan) /\ Up(m) THEN Append(wire[m], Request) ELSE wire[m]
      BY <2>5, <2>6
    <3>3. QED
      BY <1>1, <2>2, <2>4, <2>5, <2>6, <2>8, <2>9, <3>1, <3>2, TakenLinks,
       ZenonT(240)
  <2>11. /\ up' \in [Servers -> BOOLEAN]
         /\ \A s \in Servers : up'[s] => up[s]
    BY <2>2, <2>3, RunFacts
  <2>12. ASSUME NEW m \in Links, NEW r \in Links, Opposite(m, r) PROVE Asked(m, r)'
    <3>1. \A k \in Links \ {l} : wire'[k] \in {wire[k], Append(wire[k], Request)}
      BY <2>6
    <3>2. \A k \in Links : k \in told => k \in told'
      BY <2>2
    <3>3. QED BY <2>2, <2>4, <2>6, <2>8, <2>11, <2>12, <3>1, <3>2, AskedTaken
  <2>13. PICK e : e = Entry(f, l)
    OBVIOUS
  <2>14. /\ e \in Heards
         /\ e.from = f.from /\ e.n = f.n /\ e.via = l
         /\ \A d \in Clients : \/ heard'[d] = heard[d]
                               \/ d \in Reached(plan) /\ heard'[d] = Append(heard[d], e)
         /\ heard' \in [Clients -> Seq(Heards)]
    <3>1. /\ TypeOK /\ f.from \in Clients /\ f.n \in 1 .. MaxChats
          /\ l \in Links \cup {Local} /\ Hears(f, l, plan)
      BY <2>2, <2>3, <2>4
    <3>2. /\ Entry(f, l) \in Heards
          /\ Entry(f, l).from = f.from
          /\ Entry(f, l).n = f.n
          /\ Entry(f, l).via = l
          /\ \A d \in Clients :
                 \/ heard'[d] = heard[d]
                 \/ d \in Reached(plan) /\ heard'[d] = Append(heard[d], Entry(f, l))
          /\ heard' \in [Clients -> Seq(Heards)]
      BY <3>1, HearsFacts, Zenon
    <3>3. QED BY <2>13, <3>2
  <2>15. /\ posted' \in Nat /\ posted' >= posted
         /\ \A m \in Links : Numbers(wire'[m]) \subseteq Numbers(wire[m]) \cup {posted + 1}
    BY <2>2, <2>3, <2>7
  <2>16. \A d \in Clients : Heard(d)'
    <3> SUFFICES ASSUME NEW d \in Clients PROVE Heard(d)'
      OBVIOUS
    <3>1. CASE heard'[d] = heard[d]
      BY <2>3, <2>15, <3>1, KeptHeard
    <3>2. CASE d \in Reached(plan) /\ heard'[d] = Append(heard[d], e)
      <4>1. Home[d] = h /\ From(l) # h
        BY <1>1, <2>5, <3>2, FromFacts, ReachedFacts
      <4>2. e \notin ToSet(heard[d])
        BY <2>3, <2>7, <2>14 DEF Heard
      <4>3. \A m \in Links : e.via = m => e.n \notin Numbers(wire'[m])
        BY <2>7, <2>14
      <4>4. e.n <= posted' /\ (IF Home[e.from] = Home[d] THEN e.via = Local
               ELSE e.via \in Links /\ From(e.via) = Home[e.from])
        BY <2>2, <2>7, <2>14, <4>1
      <4>5. QED BY <2>3, <2>14, <2>15, <3>2, <4>2, <4>3, <4>4, HeardMore
    <3>3. QED BY <2>14, <3>1, <3>2
  <2>17. \A c \in Clients : Seen(c)'
    BY <2>2, <2>3, <2>11, SeenKept
  <2>18. Ranges'
    BY <2>2, <2>3, <2>6 DEF Ranges, ToSet
  <2>19. TypeOK'
    <3>1. \A m \in Links : \A x \in ToSet(wire'[m]) :
              x \in Frames \/ x \in [type : {"client_update"}, clients : Seq(Clients)]
      BY <2>6, WireTyped
    <3>2. \A m : ToSet(wire[m])' = ToSet(wire'[m])
      BY DEF ToSet
    <3>3. QED BY <2>2, <2>3, <2>11, <2>14, <3>1, <3>2 DEF TypeOK, Heards
  <2>20. \A m, r \in Links : Opposite(m, r)' => Asked(m, r)'
    BY <2>12 DEF Opposite
  <2>21. QED
    BY <2>10, <2>16, <2>17, <2>18, <2>19, <2>20 DEF IInv
<1>4. QED BY <1>2, <1>3

LEMMA OnCloseGateStep == ASSUME IInv, NEW l \in Links, OnCloseGate(l) PROVE IInv'
<1>1. PICK h \in Servers : h = To[l]
  BY FromFacts
<1>2. PICK plan : plan = IF Registered(l) THEN roster[h] ELSE <<>>
  OBVIOUS
<1>3. /\ TypeOK /\ Ranges
      /\ \A m \in Links : LinkInv(m)
      /\ \A m, r \in Links : Opposite(m, r) => Asked(m, r)
      /\ \A c \in Clients : Heard(c)
      /\ \A c \in Clients : Seen(c)
      /\ up \in [Servers -> BOOLEAN] /\ posted \in Nat
      /\ roster \in [Servers -> Seq(Clients)]
      /\ known \in [Servers -> Seq([link : Links, clients : Seq(Clients)])]
      /\ wire \in [Links -> Seq(AllFrames)]
      /\ gate \in [Links -> GateStates] /\ told \subseteq Links
  BY Parts, Fields
<1>4. /\ up[h] /\ gate[l] = "closing"
      /\ gate' = [gate EXCEPT ![l] = "closed"]
      /\ told' = told \ {l}
      /\ scenario' = scenario /\ link' = link /\ wire' = wire /\ conn' = conn
      /\ roster' = roster /\ heard' = heard /\ posted' = posted
      /\ Run(h, plan) /\ SendAllClientLists(h, plan)
  BY <1>1, <1>2 DEF OnCloseGate, GatePlan
<1>5. /\ known' \in [Servers -> Seq([link : Links, clients : Seq(Clients)])]
      /\ \A g \in Servers \ {h} : known'[g] = known[g]
      /\ Kept(known'[h], l) \subseteq Kept(known[h], l)
      /\ \A m : m # l => Kept(known'[h], m) = Kept(known[h], m)
      /\ ~Registered(l) => known' = known
  <2>1. CASE ~Registered(l)
    BY <1>3, <2>1 DEF OnCloseGate
  <2>2. CASE Registered(l)
    <3>1. PICK i \in DOMAIN known[h] :
              known[h][i].link = l /\ known' = [known EXCEPT ![h] = RemoveAt(known[h], i)]
      BY <1>1, <2>2 DEF OnCloseGate, First, Place
    <3>2. known[h] \in Seq([link : Links, clients : Seq(Clients)]) /\ i \in 1 .. Len(known[h])
      BY <1>3, <3>1, LenProperties
    <3>3. PICK new : new = RemoveAt(known[h], i)
      OBVIOUS
    <3>4. /\ new \in Seq([link : Links, clients : Seq(Clients)])
          /\ \A x \in ToSet(new) : x \in ToSet(known[h])
          /\ \A x \in ToSet(known[h]) : x = known[h][i] \/ x \in ToSet(new)
      BY <3>2, <3>3, RemovedFacts
    <3>5. /\ known' \in [Servers -> Seq([link : Links, clients : Seq(Clients)])]
          /\ known'[h] = new /\ \A g \in Servers \ {h} : known'[g] = known[g]
      BY <1>3, <3>1, <3>3, <3>4
    <3>6. Kept(new, l) \subseteq Kept(known[h], l)
      BY <3>4 DEF Kept
    <3>7. \A m : m # l => Kept(new, m) = Kept(known[h], m)
      BY <3>1, <3>4 DEF Kept
    <3>8. QED BY <2>2, <3>5, <3>6, <3>7
  <2>3. QED BY <2>1, <2>2
<1>6. /\ \A m \in Links \ {l} : Entries(m)' = Entries(m)
      /\ Entries(l)' \subseteq Entries(l)
  <2>1. \A m \in Links \ {l} : Kept(known'[To[m]], m) = Kept(known[To[m]], m)
    BY <1>5, FromFacts
  <2>2. QED BY <1>1, <1>5, <2>1, KeptFacts
<1>7. /\ gate' \in [Links -> GateStates] /\ gate'[l] = "closed"
      /\ \A m \in Links \ {l} : gate'[m] = gate[m] /\ (m \in told' <=> m \in told)
      /\ l \notin told'
  BY <1>3, <1>4 DEF GateStates
<1>8. /\ up' \in [Servers -> BOOLEAN]
      /\ \A s \in Servers : up'[s] => up[s]
  BY <1>3, <1>4, RunFacts
<1>9. posted' \in Nat /\ posted' >= posted
  BY <1>3, <1>4
<1>10. ASSUME NEW m \in Links PROVE LinkInv(m)'
  <2>1. CASE m = l
    <3>1. LinkInv(l) /\ link[l] # "idle" /\ wire'[l] = <<>>
      BY <1>3, <1>4 DEF LinkInv, Greeted
    <3>2. link'[l] = link[l] /\ gate'[l] # "open"
      BY <1>4, <1>7
    <3>3. QED BY <1>6, <1>7, <2>1, <3>1, <3>2, EmptiedLink
  <2>2. CASE m # l
    <3>1. /\ LinkInv(m) /\ wire'[m] = wire[m] /\ link'[m] = link[m] /\ gate'[m] = gate[m]
          /\ Entries(m)' = Entries(m) /\ (m \in told' <=> m \in told)
          /\ up'[From(m)] => up[From(m)]
          /\ roster'[From(m)] = roster[From(m)]
      BY <1>3, <1>4, <1>6, <1>7, <1>8, <2>2, FromFacts
    <3>2. QED BY <1>3, <1>9, <3>1, KeptLink
  <2>3. QED BY <2>1, <2>2
<1>11. ASSUME NEW m \in Links, NEW r \in Links, Opposite(m, r) PROVE Asked(m, r)'
  <2>1. CASE m = l \/ r = l
    <3>1. ~Up(l)'
      BY <1>7 DEF Up
    <3>2. QED BY <2>1, <3>1 DEF Asked
  <2>2. CASE m # l /\ r # l
    <3>1. /\ Asked(m, r) /\ wire'[m] = wire[m] /\ wire'[r] = wire[r]
          /\ link'[m] = link[m] /\ link'[r] = link[r]
          /\ gate'[m] = gate[m] /\ gate'[r] = gate[r]
          /\ (m \in told => m \in told')
          /\ up'[From(m)] => up[From(m)]
          /\ up'[To[m]] => up[To[m]]
      BY <1>3, <1>4, <1>7, <1>8, <1>11, <2>2, FromFacts
    <3>2. QED BY <1>3, <3>1, AskedSent, FrameFacts
  <2>3. QED BY <2>1, <2>2
<1>12. \A c \in Clients : Heard(c)'
  <2>1. \A m \in Links : Numbers(wire'[m]) \subseteq Numbers(wire[m]) \cup {posted + 1}
    BY <1>4
  <2>2. QED BY <1>3, <1>4, <1>9, <2>1, KeptHeard
<1>13. \A c \in Clients : Seen(c)'
  <2>1. CASE Registered(l)
    <3>1. /\ plan \in Seq(Links \cup Clients) /\ plan = roster[h]
          /\ \A c \in Clients : c \in ToSet(plan) => Home[c] = h
      BY <1>2, <2>1, RosterPlan
    <3>2. \A g \in Servers \ {h} : roster'[g] = roster[g] /\ Shown(g)' = Shown(g)
      BY <1>4, <1>5, KeptFacts
    <3>3. ToSet(roster'[h]) \subseteq ToSet(plan)
      BY <1>4, <3>1
    <3>4. QED BY <1>3, <1>4, <3>1, <3>2, <3>3, ShownToAll
  <2>2. CASE ~Registered(l)
    <3>1. plan = <<>> /\ Reached(plan) = {}
      BY <1>2, <2>2 DEF Reached
    <3>2. view' = view
      BY <1>3, <1>4, <3>1 DEF SendAllClientLists, TypeOK
    <3>3. QED BY <1>3, <1>4, <1>5, <1>8, <2>2, <3>2, SeenKept
  <2>3. QED BY <2>1, <2>2
<1>14. Ranges'
  BY <1>3, <1>4 DEF Ranges, ToSet
<1>15. TypeOK'
  <2>1. view' \in [Clients -> SUBSET Clients]
    <3>1. roster' \in [Servers -> Seq(Clients)]
      BY <1>3, <1>4
    <3>2. QED BY <1>3, <1>4, <1>5, <3>1, ViewTyped
  <2>2. told' \subseteq Links
    BY <1>3, <1>4
  <2>3. \A m : ToSet(wire[m])' = ToSet(wire[m])
    BY <1>4 DEF ToSet
  <2>4. QED BY <1>3, <1>4, <1>5, <1>7, <1>8, <2>1, <2>2, <2>3 DEF TypeOK
<1>16. \A m, r \in Links : Opposite(m, r)' => Asked(m, r)'
  BY <1>11 DEF Opposite
<1>17. QED
  BY <1>10, <1>12, <1>13, <1>14, <1>15, <1>16 DEF IInv

-----------------------------------------------------------------------------
LEMMA StutterStep == ASSUME IInv, UNCHANGED vars PROVE IInv'
<1>1. /\ scenario' = scenario /\ up' = up /\ link' = link /\ gate' = gate /\ wire' = wire
      /\ known' = known /\ told' = told /\ conn' = conn /\ roster' = roster
      /\ view' = view /\ heard' = heard /\ posted' = posted
  BY DEF vars, peerVars, clientVars
<1>2. /\ conn' \in [Clients -> ConnStates]
      /\ \A d \in Clients : conn'[d] = "in" => conn[d] = "in"
      /\ link' \in [Links -> LinkStates] /\ gate' \in [Links -> GateStates]
      /\ wire' \in [Links -> Seq(AllFrames)]
  BY <1>1, Fields
<1>3. \A l \in Links : Numbers(wire'[l]) \subseteq Numbers(wire[l]) \cup {posted + 1}
  BY <1>1
<1>4. ASSUME NEW l \in Links PROVE LinkInv(l)'
  <2>1. Entries(l)' = Entries(l)
    BY <1>1, EntriesKept
  <2>2. posted' \in Nat /\ posted' >= posted
    BY <1>1, Fields
  <2>3. QED BY <1>1, <2>1, <2>2, Parts, KeptLink
<1>5. ASSUME NEW l \in Links, NEW r \in Links, Opposite(l, r) PROVE Asked(l, r)'
  BY <1>1, <1>5, Parts, AskedSent, FrameFacts
<1>6. QED BY <1>1, <1>2, <1>3, <1>4, <1>5, LinkStep

LEMMA InitIInv == Init => IInv
<1> SUFFICES ASSUME Init PROVE IInv
  OBVIOUS
<1>1. /\ roster = [h \in Servers |-> <<>>] /\ wire = [l \in Links |-> <<>>]
      /\ known = [h \in Servers |-> <<>>] /\ heard = [c \in Clients |-> <<>>]
      /\ link = [l \in Links |-> "idle"] /\ gate = [l \in Links |-> "none"]
      /\ conn = [c \in Clients |-> "none"] /\ told = {} /\ posted = 0
  BY DEF Init
<1>2. TypeOK
  <2>1. posted \in 0 .. MaxChats
    BY <1>1, FederationAssumption
  <2>2. \A l \in Links : ToSet(wire[l]) = {}
    BY <1>1 DEF ToSet
  <2>3. QED BY <2>1, <2>2 DEF Init, TypeOK, ConnStates, LinkStates, GateStates
<1>3. Ranges
  BY <1>1, FromFacts DEF Ranges, ToSet
<1>4. ASSUME NEW l \in Links PROVE LinkInv(l)
  <2>1. Entries(l) = {}
    BY <1>1, FromFacts, KeptFacts DEF Kept, ToSet
  <2>2. wire[l] = <<>> /\ link[l] = "idle" /\ gate[l] = "none" /\ l \notin told
    BY <1>1
  <2>3. DOMAIN wire[l] = {} /\ ~Holds(wire[l], Hello)
    BY <2>2 DEF Holds
  <2>4. Greeted(l)
    BY <2>1, <2>2, <2>3 DEF Greeted
  <2>5. Forced(l)
    BY <2>2 DEF Forced, Up
  <2>6. Introduced(l) /\ Numbered(l)
    BY <2>3 DEF Introduced, Numbered
  <2>7. QED BY <2>4, <2>5, <2>6 DEF LinkInv
<1>5. \A l, r \in Links : Asked(l, r)
  BY <1>1 DEF Asked, Up
<1>6. \A c \in Clients : Heard(c)
  <2>1. \A c \in Clients : heard[c] = <<>> /\ ToSet(heard[c]) = {}
    BY <1>1 DEF ToSet
  <2>2. QED BY <2>1 DEF Heard, IsInjective
<1>7. \A c \in Clients : Seen(c)
  BY <1>1 DEF Seen, ToSet
<1>8. QED BY <1>2, <1>3, <1>4, <1>5, <1>6, <1>7 DEF IInv

LEMMA StepIInv == IInv /\ [Next]_vars => IInv'
<1> SUFFICES ASSUME IInv, [Next]_vars PROVE IInv'
  OBVIOUS
<1>1. CASE UNCHANGED vars
  BY <1>1, StutterStep
<1>2. ASSUME NEW c \in Clients, ClientStep(c) PROVE IInv'
  BY <1>2, JoinStep, DepartStep, LeaveStep, PostStep DEF ClientStep
<1>3. ASSUME NEW l \in Links, SocketStep(l) PROVE IInv'
  BY <1>3, OpenStep, SayHelloStep, RequestUpdateStep, LoseStep DEF SocketStep
<1>4. ASSUME NEW l \in Links, GateStep(l) PROVE IInv'
  <2>1. CASE GateLost(l)
    <3>1. /\ gate[l] = "open" /\ Shut(l)
          /\ UNCHANGED <<scenario, up, link, known, told, clientVars>>
      BY <2>1 DEF GateLost
    <3>2. QED BY <3>1, ShutStep
  <2>2. CASE OnCloseGate(l)
    BY <2>2, OnCloseGateStep
  <2>3. CASE Take(l)
    BY <2>3, TakeHelloStep, TakeRequestStep, TakeUpdateStep, TakeChatStep DEF Take
  <2>4. QED BY <1>4, <2>1, <2>2, <2>3 DEF GateStep
<1>5. QED BY <1>1, <1>2, <1>3, <1>4 DEF Next

(* The invariant of the argument: what is in force at the end of every     *)
(* wire is the roster of the server that dialled, every chat follows the   *)
(* list that introduces its sender, and of two links that face each other  *)
(* none is forgotten.                                                      *)
THEOREM Inductive == Spec => []IInv
<1>1. Init => IInv
  BY InitIInv
<1>2. IInv /\ [Next]_vars => IInv'
  BY StepIInv
<1>3. QED BY <1>1, <1>2, PTL DEF Spec

(* The servers, the links and what is on them keep their types.            *)
THEOREM TypeCorrect == Spec => []TypeOK
<1>1. IInv => TypeOK
  BY DEF IInv
<1>2. QED BY <1>1, Inductive, PTL

(* Two servers that have links to each other agree on who is there as soon *)
(* as nothing is on its way, in whatever order the links opened and        *)
(* client_update_request and client_update crossed.                        *)
THEOREM ListsStayAgreed == Spec => []ListsAgree
<1>1. IInv => ListsAgree
  <2> SUFFICES ASSUME IInv, Quiet, NEW l \in Links, Working(l),
                      l \in told \/ \E r \in Links : Opposite(l, r) /\ Working(r)
               PROVE  \E i \in Place(l) : known[To[l]][i].clients = roster[From(l)]
    BY DEF ListsAgree
  <2>1. Up(l) /\ up[From(l)] /\ up[To[l]]
    BY DEF Working, Up
  <2>2. \A m \in Links : /\ wire[m] = <<>> /\ link[m] \notin {"hello", "request"}
                         /\ Updates(wire[m]) = {}
                         /\ ~Holds(wire[m], Hello) /\ ~Holds(wire[m], Request)
    BY DEF Quiet, Updates, Holds
  <2>3. l \in told
    <3>1. CASE l \in told
      BY <3>1
    <3>2. CASE \E r \in Links : Opposite(l, r) /\ Working(r)
      <4>1. PICK r \in Links : Opposite(l, r) /\ Working(r)
        BY <3>2
      <4>2. Asked(l, r) /\ Up(r)
        BY <4>1, Parts DEF Working, Up
      <4>3. QED BY <2>1, <2>2, <4>2 DEF Asked, Learns, Greets, Asks
    <3>3. QED BY <3>1, <3>2
  <2>4. Greeted(l) /\ Forced(l)
    BY Parts DEF LinkInv
  <2>5. Entries(l) # {}
    BY <2>3, <2>4 DEF Greeted
  <2>6. Entries(l) \subseteq InForce(l, Len(wire[l]) + 1)
    BY <2>2, <2>3 DEF InForce, Silent
  <2>7. \A list \in Entries(l) : list = roster[From(l)]
    BY <2>1, <2>4, <2>6 DEF Forced
  <2>8. QED BY <2>5, <2>7 DEF Entries
<1>2. QED BY <1>1, Inductive, PTL

(* A client hears a chat once for each link at most, by links of the       *)
(* sender's server only, and by none when that is its own server.          *)
THEOREM HeardOncePerLink == Spec => []OncePerLink
<1>1. IInv => OncePerLink
  BY Parts DEF OncePerLink, Heard
<1>2. QED BY <1>1, Inductive, PTL

(* On a link that has delivered a client_update a chat never overtakes the *)
(* one that introduces its sender (AddClient writes the update to every    *)
(* connected socket before the client can chat).  Of a link that has       *)
(* delivered none it says nothing: the clients that joined before it       *)
(* opened are introduced only if the other server asks.                    *)
THEOREM ChatsFollowIntroductions == Spec => IntroducedFirst
<1>1. ASSUME IInv, NEW l \in Links, TakeChat(l), l \in told,
             NEW c \in Reached(roster[To[l]])
      PROVE  Len(heard'[c]) = Len(heard[c]) + 1
  <2>1. PICK h \in Servers : h = To[l]
    BY FromFacts
  <2>2. /\ TypeOK /\ Ranges /\ Greeted(l) /\ Introduced(l) /\ Numbered(l)
        /\ \A d \in Clients : Seen(d)
        /\ roster[h] \in Seq(Clients) /\ wire[l] \in Seq(AllFrames)
    <3>1. TypeOK /\ Ranges /\ LinkInv(l) /\ \A d \in Clients : Seen(d)
      BY <1>1, Parts
    <3>2. roster[h] \in Seq(Clients) /\ wire[l] \in Seq(AllFrames)
      BY <1>1, Fields
    <3>3. QED BY <3>1, <3>2 DEF LinkInv
  <2>3. Entries(l) # {} /\ Registered(l)
    BY <1>1, <2>2, KeptFacts DEF Greeted
  <2>4. PICK f : /\ up[h] /\ wire[l] # <<>> /\ f = Head(wire[l])
                 /\ f.type = "public_chat" /\ Hears(f, l, roster[h])
    BY <1>1, <2>1, <2>3 DEF TakeChat, Takes, RelayPlan
  <2>5. c \in Clients /\ c \in ToSet(roster[h]) /\ Home[c] = h
    <3>1. c \in ToSet(roster[h]) /\ ToSet(roster[h]) \subseteq Clients
      BY <1>1, <2>1, <2>2, ReachedFacts
    <3>2. QED BY <2>2, <3>1 DEF Ranges
  <2>6. Home[f.from] = From(l) /\ From(l) # h
    BY <2>1, <2>2, <2>4, FromFacts, HeadNumber
  <2>7. 1 \in DOMAIN wire[l] /\ wire[l][1] = f
    BY <2>2, <2>4, TailFacts
  <2>8. PICK list : list \in Entries(l)
    BY <2>3
  <2>9. f.from \in ToSet(list)
    <3>1. Silent(wire[l], 1)
      <4>1. \A k \in DOMAIN wire[l] : 1 <= k
        BY <2>2, LenProperties
      <4>2. QED BY <4>1 DEF Silent, Updates
    <3>2. list \in InForce(l, 1)
      BY <1>1, <2>8, <3>1 DEF InForce
    <3>3. QED BY <2>2, <2>4, <2>7, <3>2 DEF Introduced
  <2>10. f.from \in view[c]
    <3>1. view[c] = Shown(h)
      BY <2>2, <2>4, <2>5 DEF Seen
    <3>2. ToSet(list) \subseteq Users(known[h])
      BY <2>1, <2>8, KeptFacts DEF Kept, Users
    <3>3. QED BY <2>9, <3>1, <3>2, KeptFacts
  <2>11. c \in Reached(roster[h]) /\ c # f.from
    BY <1>1, <2>1, <2>5, <2>6
  <2>12. PICK e : e = Entry(f, l)
    OBVIOUS
  <2>13. heard'[c] = Append(heard[c], e)
    BY <2>4, <2>5, <2>10, <2>11, <2>12 DEF Hears, Entry
  <2>14. e \in Heards
    <3>1. f \in AllFrames
      BY <2>2, <2>4, TailFacts
    <3>2. f.from \in Clients /\ f.n \in 1 .. MaxChats
      BY <2>4, <3>1, FrameFacts
    <3>3. QED BY <2>4, <2>12, <3>2, HeardsFacts DEF Entry
  <2>15. heard[c] \in Seq(Heards)
    BY <2>2, <2>5 DEF TypeOK, Heards
  <2>16. QED BY <2>13, <2>14, <2>15, AppendFacts
<1>2. IInv => [\A l \in Links :
        TakeChat(l) /\ l \in told
            => \A c \in Reached(roster[To[l]]) :
                Len(heard'[c]) = Len(heard[c]) + 1]_vars
  BY <1>1
<1>3. QED BY <1>2, Inductive, PTL DEF IntroducedFirst
=============================================================================
