-------------------------- MODULE ClientRosterProofs --------------------------
(***************************************************************************)
(* Theorems about ClientRoster, for any lists of clients the server may    *)
(* send, any pseudonyms, any keys without a fingerprint and any bounds.    *)
(*                                                                         *)
(* The first part says what the frames hold and what the sort does to a    *)
(* list.  The second follows the list through each step of ParseMessage    *)
(* (Roster), the third a message to the users picked (Round).              *)
(***************************************************************************)
EXTENDS ClientRoster, Loops

(* An entry of a client_list, and of the list of users.                    *)
Servers == Addresses \cup {NoServer}
Listing == [key : Keys, server : Servers]
Listings == UNION {ToSet(Entries(l)) : l \in Lists}
Users == [key : Keys, server : Servers, date : 0 .. MaxDate, marked : BOOLEAN]

Entry(u) == [key |-> u.key, server |-> u.server]

-----------------------------------------------------------------------------
(* The first entry with some property.                                     *)
LEMMA FirstFacts ==
    ASSUME NEW n \in Nat, NEW places \in SUBSET (1 .. n)
    PROVE  /\ First(places) \in 0 .. n
           /\ places = {} => First(places) = 0
           /\ places # {} => First(places) \in places
<1>1. CASE places = {}
  BY <1>1 DEF First
<1>2. CASE places # {}
  <2>1. PICK m \in places : \A k \in places : m <= k
    BY <1>2, LeastExists
  <2>2. ASSUME NEW k \in places, \A j \in places : k <= j PROVE k = m
    <3>1. k <= m /\ m <= k /\ k \in Nat /\ m \in Nat
      BY <2>1, <2>2
    <3>2. QED BY <3>1
  <2>3. First(places) = m
    BY <1>2, <2>1, <2>2 DEF First
  <2>4. QED BY <1>2, <2>3
<1>3. QED BY <1>1, <1>2

LEMMA UsersFacts ==
    ASSUME NEW us \in Seq(Users)
    PROVE  /\ Len(us) \in Nat /\ DOMAIN us = 1 .. Len(us)
           /\ \A i \in 1 .. Len(us) :
                 /\ us[i] \in Users
                 /\ us[i].key \in Keys /\ us[i].server \in Servers
                 /\ us[i].date \in 0 .. MaxDate /\ us[i].marked \in BOOLEAN
<1>1. Len(us) \in Nat /\ DOMAIN us = 1 .. Len(us) /\ \A i \in 1 .. Len(us) : us[i] \in Users
  BY LenProperties, ElementOfSeq
<1>2. QED BY <1>1 DEF Users

(* The entries of a client_list.                                           *)
LEMMA EntriesFacts ==
    ASSUME NEW l \in Lists
    PROVE  /\ Entries(l) \in Seq(Listing)
           /\ \A e \in ToSet(Entries(l)) :
                 /\ e \in Listing /\ e \in Listings /\ e.key \in KeysOf(l)
                 /\ e.server \in Addresses /\ e.server # NoServer
                 /\ e.key \notin {PublicChat, NewChat, Nobody}
<1> DEFINE T == [key : UNION {ToSet(l[i].clients) : i \in DOMAIN l},
                 server : {l[i].address : i \in DOMAIN l}]
           part(i) == [j \in DOMAIN l[i].clients |->
                          [key |-> l[i].clients[j], server |-> l[i].address]]
           ss == [i \in DOMAIN l |-> part(i)]
<1>1. /\ l \in Seq(ToSet(l)) /\ Len(l) \in Nat /\ DOMAIN l = 1 .. Len(l)
      /\ \A i \in DOMAIN l : l[i].clients \in Seq(ToSet(l[i].clients))
  BY ListAssumption, LenProperties
<1>2. ASSUME NEW i \in DOMAIN l PROVE part(i) \in Seq(T)
  <2> DEFINE c == l[i].clients
  <2>1. c \in Seq(ToSet(c)) /\ Len(c) \in Nat /\ DOMAIN c = 1 .. Len(c)
    BY <1>1, LenProperties
  <2>2. ASSUME NEW j \in DOMAIN c
        PROVE  [key |-> c[j], server |-> l[i].address] \in T
    <3>1. c[j] \in ToSet(c)
      BY DEF ToSet
    <3>2. QED BY <3>1
  <2>3. [j \in 1 .. Len(c) |-> [key |-> c[j], server |-> l[i].address]]
           \in [1 .. Len(c) -> T]
    BY <2>1, <2>2
  <2>4. QED BY <2>1, <2>3, SeqDef
<1>3. ss \in Seq(Seq(T))
  <2> HIDE DEF part, T
  <2>1. ss \in [1 .. Len(l) -> Seq(T)]
    BY <1>1, <1>2
  <2>2. QED BY <1>1, <2>1, SeqDef
<1>4. Entries(l) = FlattenSeq(ss)
  BY DEF Entries
<1>5. Entries(l) \in Seq(T)
  <2> HIDE DEF ss, T
  <2>1. QED BY <1>3, <1>4, FlattenProperties
<1>6. Len(Entries(l)) \in Nat /\ DOMAIN Entries(l) = 1 .. Len(Entries(l))
      /\ \A i \in 1 .. Len(Entries(l)) : Entries(l)[i] \in T
  <2> HIDE DEF T
  <2>1. QED BY <1>5, LenProperties, ElementOfSeq
<1>7. ASSUME NEW e \in ToSet(Entries(l))
      PROVE  /\ e \in Listing /\ e \in Listings /\ e.key \in KeysOf(l)
             /\ e.server \in Addresses /\ e.server # NoServer
             /\ e.key \notin {PublicChat, NewChat, Nobody}
  <2>1. e \in T
    <3> HIDE DEF T
    <3>1. QED BY <1>6 DEF ToSet
  <2>2. e.key \in KeysOf(l)
    BY DEF KeysOf
  <2>3. e.server \in {l[i].address : i \in DOMAIN l}
    BY <2>1
  <2>4. e.key \in Keys /\ e.server \in Servers /\ e.server \in Addresses
    BY <2>2, <2>3 DEF Keys, Addresses, Servers
  <2>5. e \in Listing
    BY <2>1, <2>4 DEF Listing
  <2>6. e.server # NoServer /\ e.key \notin {PublicChat, NewChat, Nobody}
    BY <2>2, ListAssumption
  <2>7. QED BY <2>2, <2>4, <2>5, <2>6 DEF Listings
<1>8. Entries(l) \in Seq(Listing)
  <2>1. \A i \in 1 .. Len(Entries(l)) : Entries(l)[i] \in Listing
    BY <1>6, <1>7 DEF ToSet
  <2>2. Entries(l) = [i \in 1 .. Len(Entries(l)) |-> Entries(l)[i]]
    <3> HIDE DEF T
    <3>1. QED BY <1>5, <1>6, SeqDef
  <2>3. Entries(l) \in [1 .. Len(Entries(l)) -> Listing]
    BY <2>1, <2>2
  <2>4. QED BY <1>6, <2>3, SeqDef
<1>9. QED BY <1>7, <1>8

(* Two entries with the same key are one.                                  *)
LEMMA OneListing ==
    ASSUME NEW d \in Listings, NEW e \in Listings, d.key = e.key
    PROVE  d = e
<1>1. PICK l \in Lists, m \in Lists : d \in ToSet(Entries(l)) /\ e \in ToSet(Entries(m))
  BY DEF Listings
<1>2. d \in Listing /\ e \in Listing
  BY <1>1, EntriesFacts
<1>3. d.server = e.server
  BY <1>1, ListAssumption
<1>4. QED BY <1>2, <1>3 DEF Listing

-----------------------------------------------------------------------------
(* The sort of UpdateDate: the entries in another order, the fixed ones in *)
(* their places.                                                           *)
Rearranged(us, vs) ==
    /\ Len(vs) = Len(us)
    /\ \E q \in [1 .. Len(us) -> 1 .. Len(us)] :
          /\ \A i, j \in 1 .. Len(us) : q[i] = q[j] => i = j
          /\ \A m \in 1 .. Len(us) : \E i \in 1 .. Len(us) : q[i] = m
          /\ \A i \in 1 .. Len(us) : i <= 2 <=> q[i] <= 2
          /\ \A i \in 1 .. Len(us) : i <= 2 => q[i] = i
          /\ \A i \in 1 .. Len(us) :
                /\ vs[i].key = us[q[i]].key
                /\ vs[i].server = us[q[i]].server
                /\ vs[i].marked = us[q[i]].marked

LEMMA DateFacts ==
    ASSUME NEW us \in Seq(Users), NEW key, NEW date \in 1 .. MaxDate,
           NEW vs \in Sorted(Dated(us, key, date))
    PROVE  vs \in Seq(Users) /\ Rearranged(us, vs)
<1> DEFINE n == Len(us)
           ws == Dated(us, key, date)
<1>1. n \in Nat /\ DOMAIN us = 1 .. n /\ \A i \in 1 .. n : us[i] \in Users
  BY UsersFacts
<1>2. date \in 0 .. MaxDate
  BY ListAssumption
<1>3. DOMAIN ws = 1 .. n
  BY <1>1 DEF Dated
<1>4. ASSUME NEW i \in 1 .. n
      PROVE  /\ ws[i] \in Users
             /\ ws[i].key = us[i].key /\ ws[i].server = us[i].server
             /\ ws[i].marked = us[i].marked
  <2>1. ws[i] = IF us[i].key = key THEN [us[i] EXCEPT !.date = date] ELSE us[i]
    BY <1>1 DEF Dated
  <2>2. us[i] \in Users
    BY <1>1
  <2>3. QED BY <1>2, <2>1, <2>2 DEF Users
<1>5. ws \in Seq(Users) /\ Len(ws) = n
  <2>1. ws = [i \in 1 .. n |-> ws[i]]
    BY <1>1 DEF Dated
  <2> HIDE DEF ws
  <2>2. ws \in [1 .. n -> Users]
    BY <1>4, <2>1
  <2>3. QED BY <1>1, <1>3, <2>2, SeqDef, LenProperties
<1> HIDE DEF ws
<1>6. PICK p \in Bijection(3 .. n, 3 .. n) :
         vs = [i \in 1 .. n |-> IF i <= 2 THEN ws[i] ELSE ws[p[i]]]
  BY <1>3, <1>5 DEF Sorted, ws
<1>7. /\ p \in [3 .. n -> 3 .. n]
      /\ \A i, j \in 3 .. n : p[i] = p[j] => i = j
      /\ \A m \in 3 .. n : \E i \in 3 .. n : p[i] = m
  BY <1>6 DEF Bijection, Injection, Surjection, IsInjective
<1> DEFINE q == [i \in 1 .. n |-> IF i <= 2 THEN i ELSE p[i]]
<1> HIDE DEF n
<1>8. /\ \A i : i \in 1 .. n /\ ~(i <= 2) <=> i \in 3 .. n
      /\ \A i \in 3 .. n : p[i] \in 3 .. n
  <2>1. n \in Nat
    BY <1>1
  <2>2. \A i : i \in 1 .. n /\ ~(i <= 2) <=> i \in 3 .. n
    BY <2>1
  <2>3. \A i \in 3 .. n : p[i] \in 3 .. n
    BY <1>7
  <2>4. QED BY <2>2, <2>3
<1>9. ASSUME NEW i \in 1 .. n PROVE vs[i] = ws[q[i]]
  <2>1. vs[i] = IF i <= 2 THEN ws[i] ELSE ws[p[i]]
    BY <1>6
  <2>2. q[i] = IF i <= 2 THEN i ELSE p[i]
    OBVIOUS
  <2>3. CASE i <= 2
    BY <2>1, <2>2, <2>3
  <2>4. CASE ~(i <= 2)
    BY <2>1, <2>2, <2>4
  <2>5. QED BY <2>3, <2>4
<1>10. \A i \in 1 .. n :
          IF i <= 2 THEN q[i] = i
          ELSE i \in 3 .. n /\ q[i] = p[i] /\ p[i] \in 3 .. n
  BY <1>8
<1>11. q \in [1 .. n -> 1 .. n]
  BY <1>8
<1> HIDE DEF q
<1>12. ASSUME NEW i \in 1 .. n, NEW j \in 1 .. n, q[i] = q[j] PROVE i = j
  <2>1. CASE i <= 2 /\ j <= 2
    BY <1>10, <1>12, <2>1
  <2>2. CASE ~(i <= 2) /\ ~(j <= 2)
    BY <1>7, <1>10, <1>12, <2>2
  <2>3. CASE i <= 2 /\ ~(j <= 2)
    BY <1>8, <1>10, <1>12, <2>3
  <2>4. CASE ~(i <= 2) /\ j <= 2
    BY <1>8, <1>10, <1>12, <2>4
  <2>5. QED BY <2>1, <2>2, <2>3, <2>4
<1>13. ASSUME NEW m \in 1 .. n PROVE \E i \in 1 .. n : q[i] = m
  <2>1. CASE m <= 2
    BY <1>10, <2>1
  <2>2. CASE ~(m <= 2)
    <3>1. PICK i \in 3 .. n : p[i] = m
      BY <1>7, <1>8, <2>2
    <3>2. i \in 1 .. n /\ q[i] = m
      BY <1>8, <1>10, <3>1
    <3>3. QED BY <3>2
  <2>3. QED BY <2>1, <2>2
<1>14. \A i \in 1 .. n : (i <= 2 <=> q[i] <= 2) /\ (i <= 2 => q[i] = i)
  BY <1>8, <1>10
<1>15. \A i \in 1 .. n : q[i] \in 1 .. n
  BY <1>11
<1>16. \A i \in 1 .. n :
          /\ vs[i] \in Users
          /\ vs[i].key = us[q[i]].key
          /\ vs[i].server = us[q[i]].server
          /\ vs[i].marked = us[q[i]].marked
  BY <1>4, <1>9, <1>15
<1>17. vs \in Seq(Users) /\ Len(vs) = n
  <2>1. vs = [i \in 1 .. n |-> vs[i]]
    BY <1>6
  <2>2. vs \in [1 .. n -> Users]
    BY <1>16, <2>1
  <2>3. QED BY <1>1, <2>1, <2>2, SeqDef, LenProperties
<1>18. Rearranged(us, vs)
  BY <1>11, <1>12, <1>13, <1>14, <1>16, <1>17 DEF Rearranged, n
<1>19. QED BY <1>17, <1>18

-----------------------------------------------------------------------------
(* What the list of users is at each step of ParseMessage.                 *)

(* The keys of the frame that were looked up, and those it brings.         *)
Done == {Entries(list)[i].key : i \in 1 .. entry - 1}
BroughtKeys == (KeysOf(list) \cap Readable) \ {Own}

(* The users that are not marked.                                          *)
Fresh == {i \in Others : ~users[i].marked}

(* No sort disturbs this: the fixed entries stay, and the others are users *)
(* that some frame showed.                                                 *)
Fixed ==
    /\ Len(users) >= 2
    /\ users[1].key = PublicChat /\ users[1].server = NoServer
    /\ users[2].key = NewChat /\ users[2].server = NoServer
    /\ \A i \in Others : Entry(users[i]) \in Listings /\ users[i].key \in Readable

Progress ==
    /\ parse # "idle" => list \in Lists
    /\ parse = "idle" => at = 1
    /\ parse \in {"idle", "mark"} => entry = 1
    /\ parse = "remove" => ~users[1].marked /\ ~users[2].marked

(* Without a sort, everything before the entry the loop is at is marked.   *)
Marking == \A i \in 1 .. at - 1 : users[i].marked

(* The users unmarked or added are those looked up, and the first entry of *)
(* their key.                                                              *)
Looking ==
    /\ \A i \in Fresh : users[i].key \in Done
    /\ \A i \in Fresh, j \in Others : j < i => users[j].key # users[i].key
    /\ \A k \in Done \cap Readable : \E i \in Fresh : users[i].key = k

NotBefore(n) == \A j \in 1 .. n - 1 : users[j].key # Sought

(* After the own key is marked: what is unmarked is what the frame brings, *)
(* each once.                                                              *)
Showing ==
    /\ \A i \in Fresh : users[i].key \in BroughtKeys
    /\ \A i, j \in Fresh : users[i].key = users[j].key => i = j
    /\ \A k \in BroughtKeys : \E i \in Fresh : users[i].key = k

Kept == \A i \in 1 .. at - 1 : ~users[i].marked

Applied == Showing /\ \A i \in DOMAIN users : ~users[i].marked

UsersHeld ==
    /\ parse = "mark" => Marking
    /\ parse \in {"look", "found", "missing"} => Looking
    /\ parse \in {"look", "found"} => NotBefore(at)
    /\ parse = "found" => users[at].key = Sought
    /\ parse = "missing" => NotBefore(Len(users) + 1)
    /\ parse = "remove" => Showing /\ Kept
    /\ parse = "servers" \/ (parse = "idle" /\ list # <<>>) => Applied

ServersUpto(n) == {users[i].server : i \in 1 .. n} \ {NoServer}

ServersHeld ==
    /\ parse = "servers" => ToSet(servers) = ServersUpto(at - 1)
    /\ parse = "idle" => ToSet(servers) = ServersUpto(Len(users))

Roster ==
    /\ Fixed
    /\ Progress
    /\ "users" \notin crossed => UsersHeld
    /\ "servers" \notin crossed => ServersHeld
    /\ IsInjective(servers)

(* The recipients are counted during a round only.                         *)
Each == {"each", "eachSent", "eachPushed"}

Recipients == IF ui \in Each THEN turn # 0 ELSE turn = 0

Inv ==
    /\ TypeOK
    /\ Roster
    /\ Recipients
    /\ RecipientServed
-----------------------------------------------------------------------------
(* What the steps do to the list of users.                                 *)
LEMMA TypeFacts ==
    ASSUME TypeOK
    PROVE  /\ users \in Seq(Users) /\ Len(users) \in Nat /\ DOMAIN users = 1 .. Len(users)
           /\ \A i \in 1 .. Len(users) :
                 /\ users[i] \in Users
                 /\ users[i].key \in Keys /\ users[i].server \in Servers
                 /\ users[i].marked \in BOOLEAN
           /\ at \in 1 .. Len(users)
<1>1. users \in Seq(Users) /\ at \in DOMAIN users
  BY Zenon DEF TypeOK, Users, Servers
<1>2. QED BY <1>1, UsersFacts

LEMMA MarkFacts ==
    ASSUME TypeOK, NEW i \in 1 .. Len(users), NEW marked \in BOOLEAN, Mark(i, marked)
    PROVE  /\ users' \in Seq(Users) /\ Len(users') = Len(users)
           /\ \A j \in 1 .. Len(users) :
                 /\ users'[j].key = users[j].key /\ users'[j].server = users[j].server
                 /\ users'[j].marked = IF j = i THEN marked ELSE users[j].marked
<1> DEFINE n == Len(users)
<1>1. /\ users \in Seq(Users) /\ n \in Nat /\ DOMAIN users = 1 .. n
      /\ \A j \in 1 .. n : users[j] \in Users
  BY TypeFacts
<1>2. users' = [users EXCEPT ![i].marked = marked]
  BY DEF Mark
<1>3. /\ DOMAIN users' = 1 .. n
      /\ \A j \in 1 .. n :
            users'[j] = IF j = i THEN [users[j] EXCEPT !.marked = marked] ELSE users[j]
      /\ users' = [j \in 1 .. n |-> users'[j]]
  BY <1>1, <1>2
<1>4. \A u \in Users : LET v == [u EXCEPT !.marked = marked]
                       IN  /\ v \in Users /\ v.key = u.key /\ v.server = u.server
                           /\ v.marked = marked
  BY DEF Users
<1>5. ASSUME NEW j \in 1 .. n
      PROVE  /\ users'[j] \in Users
             /\ users'[j].key = users[j].key /\ users'[j].server = users[j].server
             /\ users'[j].marked = IF j = i THEN marked ELSE users[j].marked
  <2>1. CASE j = i
    BY <1>1, <1>3, <1>4, <2>1
  <2>2. CASE j # i
    BY <1>1, <1>3, <2>2
  <2>3. QED BY <2>1, <2>2
<1>6. users' \in Seq(Users) /\ Len(users') = n
  BY <1>1, <1>3, <1>5, SeqDef, LenProperties
<1>7. QED BY <1>5, <1>6

(* The others are entries of the old list, at another place.               *)
LEMMA FixedMoved ==
    ASSUME Fixed, Len(users) \in Nat, Len(users') \in Nat, Len(users') >= 2, NEW q,
           \A i \in 1 .. Len(users') :
              /\ q[i] \in 1 .. Len(users)
              /\ i <= 2 => q[i] = i
              /\ i > 2 => q[i] > 2
              /\ users'[i].key = users[q[i]].key /\ users'[i].server = users[q[i]].server
    PROVE  Fixed'
<1>1. 1 \in 1 .. Len(users') /\ 2 \in 1 .. Len(users') /\ 1 <= 2 /\ 2 <= 2
  OBVIOUS
<1>2. /\ users'[1].key = PublicChat /\ users'[1].server = NoServer
      /\ users'[2].key = NewChat /\ users'[2].server = NoServer
  BY <1>1 DEF Fixed
<1>3. ASSUME NEW i \in Others'
      PROVE  Entry(users'[i]) \in Listings /\ users'[i].key \in Readable
  <2>1. i \in 1 .. Len(users') /\ i > 2
    BY DEF Others
  <2>2. q[i] \in Others
    BY <2>1 DEF Others
  <2>3. Entry(users'[i]) = Entry(users[q[i]]) /\ users'[i].key = users[q[i]].key
    BY <2>1 DEF Entry
  <2>4. QED BY <2>2, <2>3 DEF Fixed
<1>4. QED BY <1>2, <1>3 DEF Fixed

(* Nothing about the entries but their marks changes.                      *)
LEMMA FixedMarked ==
    ASSUME Fixed, Len(users) \in Nat, Len(users') = Len(users),
           \A i \in 1 .. Len(users) :
              users'[i].key = users[i].key /\ users'[i].server = users[i].server
    PROVE  Fixed'
<1> DEFINE q == [i \in 1 .. Len(users) |-> i]
<1>1. Len(users') >= 2
  BY DEF Fixed
<1>2. \A i \in 1 .. Len(users') :
         /\ q[i] \in 1 .. Len(users)
         /\ i <= 2 => q[i] = i
         /\ i > 2 => q[i] > 2
         /\ users'[i].key = users[q[i]].key /\ users'[i].server = users[q[i]].server
  OBVIOUS
<1> HIDE DEF q
<1>3. QED BY <1>1, <1>2, FixedMoved

(* The unmarked users are the same, at another place.                      *)
LEMMA ShowingMoved ==
    ASSUME Showing, list' = list, NEW q,
           \A i \in Fresh' : q[i] \in Fresh /\ users'[i].key = users[q[i]].key,
           \A i, j \in Fresh' : q[i] = q[j] => i = j,
           \A m \in Fresh : \E i \in Fresh' : q[i] = m
    PROVE  Showing'
<1>1. BroughtKeys' = BroughtKeys
  BY DEF BroughtKeys
<1>2. \A i \in Fresh' : users'[i].key \in BroughtKeys
  BY DEF Showing
<1>3. \A i, j \in Fresh' : users'[i].key = users'[j].key => i = j
  BY DEF Showing
<1>4. ASSUME NEW k \in BroughtKeys PROVE \E i \in Fresh' : users'[i].key = k
  <2>1. PICK m \in Fresh : users[m].key = k
    BY DEF Showing
  <2>2. PICK i \in Fresh' : q[i] = m
    OBVIOUS
  <2>3. QED BY <2>1, <2>2
<1>5. QED BY <1>1, <1>2, <1>3, <1>4 DEF Showing

(* The entries of the frame being applied.                                 *)
LEMMA FrameFacts ==
    ASSUME list \in Lists
    PROVE  /\ Len(Entries(list)) \in Nat
           /\ DOMAIN Entries(list) = 1 .. Len(Entries(list))
           /\ Entries(list) \in Seq(Listing)
           /\ \A i \in 1 .. Len(Entries(list)) :
                 /\ Entries(list)[i] \in Listings /\ Entries(list)[i] \in Listing
                 /\ Entries(list)[i].key \in KeysOf(list)
                 /\ Entries(list)[i].key \notin {PublicChat, NewChat, Nobody}
           /\ KeysOf(list) = {Entries(list)[i].key : i \in 1 .. Len(Entries(list))}
           /\ Own \in KeysOf(list) /\ Own \in Readable
<1>1. Entries(list) \in Seq(Listing)
  BY EntriesFacts
<1>2. Len(Entries(list)) \in Nat /\ DOMAIN Entries(list) = 1 .. Len(Entries(list))
  BY <1>1, LenProperties
<1>3. ToSet(Entries(list)) = {Entries(list)[i] : i \in 1 .. Len(Entries(list))}
  BY <1>2 DEF ToSet
<1>4. ASSUME NEW i \in 1 .. Len(Entries(list))
      PROVE  /\ Entries(list)[i] \in Listings /\ Entries(list)[i] \in Listing
             /\ Entries(list)[i].key \in KeysOf(list)
             /\ Entries(list)[i].key \notin {PublicChat, NewChat, Nobody}
  <2>1. Entries(list)[i] \in ToSet(Entries(list))
    BY <1>3
  <2>2. QED BY <2>1, EntriesFacts
<1>5. KeysOf(list) = {Entries(list)[i].key : i \in 1 .. Len(Entries(list))}
  BY <1>3 DEF KeysOf
<1>6. Own \in KeysOf(list) /\ Own \in Readable
  BY ListAssumption
<1>7. QED BY <1>1, <1>2, <1>4, <1>5, <1>6

(* The loop of a step goes on, or is over.                                 *)
LEMMA OnToFacts ==
    ASSUME TypeOK, NEW after, OnTo(after)
    PROVE  \/ at = Len(users) /\ parse' = after /\ at' = 1
           \/ at # Len(users) /\ parse' = parse /\ at' = at + 1 /\ at + 1 \in 1 .. Len(users)
<1>1. at \in 1 .. Len(users) /\ Len(users) \in Nat
  BY TypeFacts
<1>2. CASE at = Len(users)
  BY <1>2 DEF OnTo
<1>3. CASE at # Len(users)
  BY <1>1, <1>3 DEF OnTo
<1>4. QED BY <1>2, <1>3

LEMMA AddServerFacts ==
    ASSUME NEW found \in Seq(Addresses), NEW u \in Users, IsInjective(found)
    PROVE  /\ AddServer(found, u) \in Seq(Addresses)
           /\ ToSet(AddServer(found, u)) = ToSet(found) \cup ({u.server} \ {NoServer})
           /\ IsInjective(AddServer(found, u))
<1>1. Contains(found, u.server) <=> u.server \in ToSet(found)
  <2>1. DOMAIN found = 1 .. Len(found)
    BY LenProperties
  <2>2. QED BY <2>1 DEF Contains, ToSet
<1>2. CASE u.server = NoServer \/ Contains(found, u.server)
  BY <1>1, <1>2 DEF AddServer
<1>3. CASE ~(u.server = NoServer \/ Contains(found, u.server))
  <2> DEFINE a == u.server
  <2>1. a \in Addresses /\ a # NoServer /\ a \notin ToSet(found)
    BY <1>1, <1>3 DEF Servers, Users
  <2>2. AddServer(found, u) = Append(found, a)
    BY <1>3 DEF AddServer
  <2> HIDE DEF a
  <2>3. /\ Append(found, a) \in Seq(Addresses)
        /\ ToSet(Append(found, a)) = ToSet(found) \cup {a}
        /\ IsInjective(Append(found, a))
    BY <2>1, AppendOne, AppendSet
  <2>4. QED BY <2>1, <2>2, <2>3 DEF a
<1>4. QED BY <1>2, <1>3
-----------------------------------------------------------------------------
(* The steps of the socket thread.                                         *)
RosterType ==
    /\ users \in Seq(Users)
    /\ servers \in Seq(Addresses)
    /\ parse \in Parses
    /\ list \in Lists \cup {<<>>}
    /\ at \in DOMAIN users
    /\ entry \in 1 .. Len(Entries(list)) + 1
    /\ crossed \subseteq {"users", "servers"}

LEMMA RosterFacts ==
    ASSUME TypeOK, Roster
    PROVE  /\ RosterType /\ Fixed /\ Progress /\ IsInjective(servers)
           /\ users \in Seq(Users) /\ Len(users) \in Nat /\ DOMAIN users = 1 .. Len(users)
           /\ \A i \in 1 .. Len(users) :
                 users[i] \in Users /\ users[i].marked \in BOOLEAN
           /\ at \in 1 .. Len(users)
           /\ Len(users) >= 2
           /\ servers \in Seq(Addresses)
<1>1. RosterType
  BY Zenon DEF TypeOK, RosterType, Users, Servers
<1>2. QED BY <1>1, TypeFacts DEF Roster, RosterType, Fixed

LEMMA ReceiveRoster ==
    ASSUME TypeOK, Roster, NEW l \in Lists, Receive(l)
    PROVE  RosterType' /\ Roster'
<1>1. /\ parse = "idle" /\ parse' = "mark" /\ list' = l /\ crossed' = {}
      /\ users' = users /\ servers' = servers /\ at' = at /\ entry' = entry
  BY DEF Receive, Parse, clientVars
<1>2. at = 1 /\ entry = 1 /\ Fixed /\ RosterType /\ IsInjective(servers)
  BY <1>1, RosterFacts DEF Progress
<1>3. Len(Entries(l)) \in Nat
  BY EntriesFacts, LenProperties
<1>4. RosterType'
  BY <1>1, <1>2, <1>3 DEF RosterType, Parses
<1>5. Fixed'
  BY <1>1, <1>2 DEF Fixed, Others
<1>6. Progress'
  BY <1>1, <1>2 DEF Progress
<1>7. UsersHeld'
  BY <1>1, <1>2 DEF UsersHeld, Marking
<1>8. ServersHeld'
  BY <1>1 DEF ServersHeld
<1>9. QED BY <1>1, <1>2, <1>4, <1>5, <1>6, <1>7, <1>8 DEF Roster

(* A step after which the loop over the entries of the frame goes on, or   *)
(* is at another entry of the list of users.                               *)
LEMMA SearchRoster ==
    ASSUME TypeOK, Roster, parse # "idle",
           parse' \in {"mark", "look", "found", "missing", "remove"},
           UNCHANGED <<servers, list, crossed>>,
           users' \in Seq(Users), Fixed', at' \in 1 .. Len(users'),
           entry' \in 1 .. Len(Entries(list)) + 1,
           parse' = "mark" => entry' = 1,
           parse' = "remove" => ~users'[1].marked /\ ~users'[2].marked,
           "users" \notin crossed => UsersHeld'
    PROVE  RosterType' /\ Roster'
<1>1. RosterType /\ Progress /\ IsInjective(servers)
  BY RosterFacts
<1>2. DOMAIN users' = 1 .. Len(users')
  BY LenProperties
<1>3. RosterType'
  BY <1>1, <1>2 DEF RosterType, Parses
<1>4. Progress'
  BY <1>1 DEF Progress
<1>5. ServersHeld'
  BY DEF ServersHeld
<1>6. QED BY <1>1, <1>3, <1>4, <1>5 DEF Roster

LEMMA MarkNextRoster ==
    ASSUME TypeOK, Roster, MarkNext
    PROVE  RosterType' /\ Roster'
<1> DEFINE n == Len(users)
<1>1. /\ parse = "mark" /\ Mark(at, TRUE) /\ OnTo("look")
      /\ UNCHANGED <<servers, list, entry, crossed>>
  BY DEF MarkNext
<1>2. /\ Fixed /\ n \in Nat /\ at \in 1 .. n /\ entry = 1 /\ list \in Lists
      /\ RosterType /\ Len(users) >= 2
      /\ \A i \in 1 .. n : users[i].marked \in BOOLEAN
  BY <1>1, RosterFacts DEF Progress
<1>3. /\ users' \in Seq(Users) /\ Len(users') = n
      /\ \A j \in 1 .. n :
            /\ users'[j].key = users[j].key /\ users'[j].server = users[j].server
            /\ users'[j].marked = IF j = at THEN TRUE ELSE users[j].marked
  BY <1>1, <1>2, MarkFacts
<1>4. \/ at = n /\ parse' = "look" /\ at' = 1
      \/ at # n /\ parse' = "mark" /\ at' = at + 1 /\ at + 1 \in 1 .. n
  BY <1>1, OnToFacts
<1>5. Fixed'
  BY <1>2, <1>3, FixedMarked
<1>6. ASSUME "users" \notin crossed PROVE UsersHeld'
  <2>1. \A i \in 1 .. at - 1 : users[i].marked
    BY <1>1, <1>6 DEF Roster, UsersHeld, Marking
  <2>2. \A i \in 1 .. at : i = at \/ i \in 1 .. at - 1
    BY <1>2
  <2>3. \A i \in 1 .. at : i \in 1 .. n
    BY <1>2
  <2>4. \A i \in 1 .. at : users'[i].marked
    BY <1>3, <2>1, <2>2, <2>3
  <2>5. CASE at # n
    <3>1. at' - 1 = at
      BY <1>2, <1>4, <2>5
    <3>2. Marking'
      BY <2>4, <3>1 DEF Marking
    <3>3. QED BY <1>4, <2>5, <3>2 DEF UsersHeld
  <2>6. CASE at = n
    <3>1. Others' = 3 .. n
      BY <1>3 DEF Others
    <3>2. \A i \in 3 .. n : i \in 1 .. at
      BY <1>2, <2>6
    <3>3. Fresh' = {}
      BY <2>4, <3>1, <3>2 DEF Fresh
    <3>4. Done' = {}
      BY <1>1, <1>2 DEF Done
    <3>5. Looking'
      BY <3>3, <3>4 DEF Looking
    <3>6. NotBefore(at)'
      BY <1>4, <2>6 DEF NotBefore
    <3>7. QED BY <1>4, <2>6, <3>5, <3>6 DEF UsersHeld
  <2>7. QED BY <2>5, <2>6
<1>7. entry' \in 1 .. Len(Entries(list)) + 1 /\ entry' = 1
  BY <1>1, <1>2 DEF RosterType
<1>8. at' \in 1 .. Len(users')
  BY <1>2, <1>3, <1>4
<1>9. QED BY <1>1, <1>3, <1>4, <1>5, <1>6, <1>7, <1>8, SearchRoster

LEMMA LookRoster ==
    ASSUME TypeOK, Roster, Look
    PROVE  RosterType' /\ Roster'
<1> DEFINE n == Len(users)
<1>1. /\ parse = "look" /\ users' = users
      /\ UNCHANGED <<servers, list, entry, crossed>>
  BY DEF Look, clientVars
<1>2. /\ Fixed /\ n \in Nat /\ at \in 1 .. n /\ RosterType /\ users \in Seq(Users)
  BY RosterFacts
<1>3. /\ Fixed' /\ Sought' = Sought /\ Fresh' = Fresh /\ Done' = Done /\ Others' = Others
  BY <1>1, <1>2 DEF Fixed, Others, Sought, InFrame, Fresh, Done
<1>4. Looking => Looking'
  BY <1>1, <1>3 DEF Looking
<1>5. "users" \notin crossed => Looking /\ NotBefore(at)
  BY <1>1 DEF Roster, UsersHeld
<1>6. CASE users[at].key = Sought
  <2>1. parse' = "found" /\ at' = at
    BY <1>6 DEF Look
  <2>2. NotBefore(at) => NotBefore(at)'
    BY <1>1, <1>3, <2>1 DEF NotBefore
  <2>3. "users" \notin crossed => UsersHeld'
    BY <1>1, <1>3, <1>4, <1>5, <1>6, <2>1, <2>2 DEF UsersHeld
  <2>4. QED BY <1>1, <1>2, <1>3, <2>1, <2>3, SearchRoster DEF RosterType
<1>7. CASE users[at].key # Sought
  <2>1. \/ at = n /\ parse' = "missing" /\ at' = 1
        \/ at # n /\ parse' = "look" /\ at' = at + 1 /\ at + 1 \in 1 .. n
    BY <1>1, <1>7, OnToFacts DEF Look
  <2>2. NotBefore(at) => \A j \in 1 .. at : users[j].key # Sought
    <3>1. \A j \in 1 .. at : j = at \/ j \in 1 .. at - 1
      BY <1>2
    <3>2. QED BY <1>7, <3>1 DEF NotBefore
  <2>3. at' \in 1 .. Len(users')
    BY <1>1, <1>2, <2>1
  <2>4. CASE at = n
    <3>1. parse' = "missing" /\ (n + 1) - 1 = n
      BY <1>2, <2>1, <2>4
    <3>2. NotBefore(at) => NotBefore(Len(users) + 1)'
      BY <1>1, <1>3, <2>2, <2>4, <3>1 DEF NotBefore
    <3>3. "users" \notin crossed => UsersHeld'
      BY <1>4, <1>5, <3>1, <3>2 DEF UsersHeld
    <3>4. QED BY <1>1, <1>2, <1>3, <2>3, <3>1, <3>3, SearchRoster DEF RosterType
  <2>5. CASE at # n
    <3>1. parse' = "look" /\ at' - 1 = at
      BY <1>2, <2>1, <2>5
    <3>2. NotBefore(at) => NotBefore(at)'
      BY <1>1, <1>3, <2>2, <3>1 DEF NotBefore
    <3>3. "users" \notin crossed => UsersHeld'
      BY <1>4, <1>5, <3>1, <3>2 DEF UsersHeld
    <3>4. QED BY <1>1, <1>2, <1>3, <2>3, <3>1, <3>3, SearchRoster DEF RosterType
  <2>6. QED BY <2>4, <2>5
<1>8. QED BY <1>6, <1>7

(* The next entry of the frame: one key more is looked up.                 *)
LEMMA NextEntryFacts ==
    ASSUME TypeOK, Roster, parse # "idle", InFrame, NextEntry
    PROVE  /\ parse' = "look" /\ at' = 1 /\ list' = list /\ list \in Lists
           /\ UNCHANGED <<servers, list, crossed>>
           /\ entry' \in 1 .. Len(Entries(list)) + 1
           /\ entry \in 1 .. Len(Entries(list))
           /\ Sought = Entries(list)[entry].key
           /\ Sought \notin {PublicChat, NewChat}
           /\ Done' = Done \cup {Sought}
           /\ NotBefore(at)'
<1>1. /\ parse' = "look" /\ at' = 1 /\ entry' = entry + 1
      /\ UNCHANGED <<servers, list, crossed>>
  BY DEF NextEntry
<1>2. list \in Lists
  BY RosterFacts DEF Progress
<1>3. entry \in 1 .. Len(Entries(list)) /\ Len(Entries(list)) \in Nat
  BY <1>2, FrameFacts DEF InFrame
<1>4. Sought = Entries(list)[entry].key /\ Sought \notin {PublicChat, NewChat}
  BY <1>2, <1>3, FrameFacts DEF Sought
<1>5. Done' = Done \cup {Sought}
  <2>1. \A i : i \in 1 .. entry' - 1 <=> i \in 1 .. entry - 1 \/ i = entry
    BY <1>1, <1>3
  <2>2. QED BY <1>1, <1>4, <2>1 DEF Done
<1>6. NotBefore(at)'
  BY <1>1 DEF NotBefore
<1>7. QED BY <1>1, <1>2, <1>3, <1>4, <1>5, <1>6

LEMMA UnmarkRoster ==
    ASSUME TypeOK, Roster, Unmark
    PROVE  RosterType' /\ Roster'
<1> DEFINE n == Len(users)
<1>1. /\ parse = "found" /\ InFrame /\ Mark(at, FALSE) /\ NextEntry
  BY DEF Unmark
<1>2. /\ Fixed /\ n \in Nat /\ at \in 1 .. n /\ n >= 2
      /\ \A i \in 1 .. n : users[i].marked \in BOOLEAN
  BY RosterFacts
<1>3. /\ parse' = "look" /\ at' = 1 /\ UNCHANGED <<servers, list, crossed>>
      /\ entry' \in 1 .. Len(Entries(list)) + 1
      /\ Sought \notin {PublicChat, NewChat}
      /\ Done' = Done \cup {Sought}
      /\ NotBefore(at)'
  BY <1>1, NextEntryFacts
<1>4. /\ users' \in Seq(Users) /\ Len(users') = n
      /\ \A j \in 1 .. n :
            /\ users'[j].key = users[j].key /\ users'[j].server = users[j].server
            /\ users'[j].marked = IF j = at THEN FALSE ELSE users[j].marked
  BY <1>1, <1>2, MarkFacts
<1>5. Fixed'
  BY <1>2, <1>4, FixedMarked
<1>6. ASSUME "users" \notin crossed PROVE UsersHeld'
  <2>1. Looking /\ NotBefore(at) /\ users[at].key = Sought
    BY <1>1, <1>6 DEF Roster, UsersHeld
  <2>2. Others = 3 .. n /\ Others' = Others /\ \A i \in Others : i \in 1 .. n
    BY <1>2, <1>4 DEF Others
  <2>3. at \in Others
    <3>1. at # 1 /\ at # 2
      BY <1>2, <1>3, <2>1 DEF Fixed
    <3>2. QED BY <1>2, <2>2, <3>1
  <2>4. Fresh' = Fresh \cup {at}
    BY <1>4, <2>2, <2>3 DEF Fresh
  <2>5. Fresh \subseteq Others
    BY DEF Fresh
  <2>6. \A i \in Fresh' : users'[i].key \in Done'
    BY <1>3, <1>4, <2>1, <2>2, <2>3, <2>4, <2>5 DEF Looking
  <2>7. ASSUME NEW i \in Fresh', NEW j \in Others', j < i
        PROVE  users'[j].key # users'[i].key
    <3>1. i \in 1 .. n /\ j \in 1 .. n
      BY <2>2, <2>3, <2>4, <2>5
    <3>2. CASE i \in Fresh
      BY <1>4, <2>1, <2>2, <2>7, <3>1, <3>2 DEF Looking
    <3>3. CASE i = at
      <4>1. j \in 1 .. at - 1
        BY <1>2, <2>7, <3>1, <3>3
      <4>2. QED BY <1>4, <2>1, <3>1, <3>3, <4>1 DEF NotBefore
    <3>4. QED BY <2>4, <3>2, <3>3
  <2>8. ASSUME NEW k \in Done' \cap Readable PROVE \E i \in Fresh' : users'[i].key = k
    <3>1. CASE k = Sought
      BY <1>2, <1>4, <2>1, <2>4, <3>1
    <3>2. CASE k \in Done
      <4>1. PICK i \in Fresh : users[i].key = k
        BY <2>1, <3>2 DEF Looking
      <4>2. QED BY <1>4, <2>2, <2>4, <2>5, <4>1
    <3>3. QED BY <1>3, <3>1, <3>2
  <2>9. Looking'
    BY <2>6, <2>7, <2>8 DEF Looking
  <2>10. QED BY <1>3, <2>9 DEF UsersHeld
<1>7. at' \in 1 .. Len(users')
  BY <1>2, <1>3, <1>4
<1>8. QED BY <1>1, <1>3, <1>4, <1>5, <1>6, <1>7, SearchRoster

LEMMA PushRoster ==
    ASSUME TypeOK, Roster, Push
    PROVE  RosterType' /\ Roster'
<1> DEFINE n == Len(users)
           e == Entries(list)[entry]
           u == User(e.key, e.server)
<1>1. /\ parse = "missing" /\ InFrame /\ NextEntry
      /\ users' = IF e.key \in Readable THEN Append(users, u) ELSE users
  BY DEF Push
<1>2. /\ Fixed /\ n \in Nat /\ n >= 2 /\ users \in Seq(Users)
      /\ \A i \in 1 .. n : users[i].marked \in BOOLEAN
  BY RosterFacts
<1>3. /\ parse' = "look" /\ at' = 1 /\ UNCHANGED <<servers, list, crossed>>
      /\ entry' \in 1 .. Len(Entries(list)) + 1
      /\ Sought = e.key
      /\ Done' = Done \cup {Sought}
      /\ NotBefore(at)'
      /\ list \in Lists /\ entry \in 1 .. Len(Entries(list))
  BY <1>1, NextEntryFacts
<1>4. e \in Listings /\ e \in Listing
  BY <1>3, FrameFacts
<1>5. "users" \notin crossed => Looking /\ \A j \in 1 .. n : users[j].key # Sought
  <2>1. (n + 1) - 1 = n
    BY <1>2
  <2>2. QED BY <1>1, <2>1 DEF Roster, UsersHeld, NotBefore
<1>6. CASE e.key \notin Readable
  <2>1. users' = users
    BY <1>1, <1>6
  <2>2. Fixed' /\ Fresh' = Fresh /\ Others' = Others
    BY <1>2, <2>1 DEF Fixed, Others, Fresh
  <2>3. Done' \cap Readable = Done \cap Readable
    BY <1>3, <1>6
  <2>4. Looking => Looking'
    BY <1>3, <2>1, <2>2, <2>3 DEF Looking
  <2>5. "users" \notin crossed => UsersHeld'
    BY <1>3, <1>5, <2>4 DEF UsersHeld
  <2>6. at' \in 1 .. Len(users')
    BY <1>2, <1>3, <2>1
  <2>7. QED BY <1>1, <1>2, <1>3, <2>1, <2>2, <2>5, <2>6, SearchRoster
<1>7. CASE e.key \in Readable
  <2>1. users' = Append(users, u)
    BY <1>1, <1>7
  <2>2. u \in Users /\ u.key = e.key /\ u.server = e.server /\ ~u.marked
    <3>1. MaxDate \in Nat
      BY ListAssumption
    <3>2. QED BY <1>4, <3>1 DEF User, Users, Listing
  <2> HIDE DEF u
  <2>3. /\ users' \in Seq(Users) /\ Len(users') = n + 1
        /\ \A j \in 1 .. n : users'[j] = users[j]
        /\ users'[n + 1] = u
    BY <1>2, <2>1, <2>2, AppendOne
  <2>4. /\ Others = 3 .. n /\ Others' = 3 .. n + 1
        /\ n + 1 \in Others' /\ n + 1 \notin Others
        /\ \A i : i \in Others' <=> i \in Others \/ i = n + 1
        /\ \A i \in Others : i \in 1 .. n
    BY <1>2, <2>3 DEF Others
  <2> HIDE DEF n, e
  <2>5. Fixed'
    <3>1. 1 \in 1 .. n /\ 2 \in 1 .. n /\ Len(users') >= 2
      BY <1>2, <2>3
    <3>2. /\ users'[1].key = PublicChat /\ users'[1].server = NoServer
          /\ users'[2].key = NewChat /\ users'[2].server = NoServer
      BY <1>2, <2>3, <3>1 DEF Fixed
    <3>3. Entry(u) \in Listings
      <4>1. Entry(u) = e
        BY <1>4, <2>2 DEF Entry, Listing
      <4>2. QED BY <1>4, <4>1
    <3>4. \A i \in Others' : Entry(users'[i]) \in Listings /\ users'[i].key \in Readable
      BY <1>2, <1>7, <2>2, <2>3, <2>4, <3>3 DEF Fixed
    <3>5. QED BY <3>1, <3>2, <3>4 DEF Fixed
  <2>6. Fresh' = Fresh \cup {n + 1}
    BY <2>2, <2>3, <2>4 DEF Fresh
  <2>7. ASSUME "users" \notin crossed PROVE UsersHeld'
    <3>1. Looking /\ \A j \in 1 .. n : users[j].key # Sought
      BY <1>5, <2>7 DEF n
    <3>2. Fresh \subseteq Others /\ n + 1 \notin Fresh
      BY <2>4 DEF Fresh
    <3>3. users'[n + 1].key = Sought
      BY <1>3, <2>2, <2>3
    <3>4. \A i \in Fresh : users'[i] = users[i]
      BY <2>3, <2>4, <3>2
    <3>5. \A i \in Fresh' : users'[i].key \in Done'
      BY <1>3, <2>6, <3>1, <3>3, <3>4 DEF Looking
    <3>6. ASSUME NEW i \in Fresh', NEW j \in Others', j < i
          PROVE  users'[j].key # users'[i].key
      <4>1. CASE i \in Fresh
        <5>1. i \in 1 .. n
          BY <2>4, <3>2, <4>1
        <5>2. j # n + 1
          BY <1>2, <3>6, <5>1 DEF n
        <5>3. j \in Others /\ users'[j] = users[j]
          BY <2>3, <2>4, <5>2
        <5>4. QED BY <3>1, <3>4, <3>6, <4>1, <5>3 DEF Looking
      <4>2. CASE i = n + 1
        <5>1. j \in 1 .. n
          BY <1>2, <2>4, <3>6, <4>2 DEF n
        <5>2. QED BY <2>3, <3>1, <3>3, <4>2, <5>1
      <4>3. QED BY <2>6, <4>1, <4>2
    <3>7. ASSUME NEW k \in Done' \cap Readable PROVE \E i \in Fresh' : users'[i].key = k
      <4>1. CASE k = Sought
        BY <2>6, <3>3, <4>1
      <4>2. CASE k \in Done
        <5>1. PICK i \in Fresh : users[i].key = k
          BY <3>1, <3>7, <4>2 DEF Looking
        <5>2. QED BY <2>6, <3>4, <5>1
      <4>3. QED BY <1>3, <3>7, <4>1, <4>2
    <3>8. Looking'
      BY <3>5, <3>6, <3>7 DEF Looking
    <3>9. QED BY <1>3, <3>8 DEF UsersHeld
  <2>8. at' \in 1 .. Len(users')
    BY <1>2, <1>3, <2>3 DEF n
  <2>9. QED BY <1>1, <1>3, <2>3, <2>5, <2>7, <2>8, SearchRoster
<1>8. QED BY <1>6, <1>7

LEMMA MarkOwnRoster ==
    ASSUME TypeOK, Roster, MarkOwn
    PROVE  RosterType' /\ Roster'
<1> DEFINE n == Len(users)
           own(i) == parse = "found" /\ i = at
<1>1. /\ parse \in {"found", "missing"} /\ ~InFrame /\ parse' = "remove" /\ at' = 1
      /\ UNCHANGED <<servers, list, entry, crossed>>
      /\ users' = [i \in DOMAIN users |->
                      IF i <= 2 THEN [users[i] EXCEPT !.marked = FALSE]
                      ELSE IF own(i) THEN [users[i] EXCEPT !.marked = TRUE]
                      ELSE users[i]]
  BY Zenon DEF MarkOwn
<1>2. /\ Fixed /\ n \in Nat /\ n >= 2 /\ at \in 1 .. n /\ DOMAIN users = 1 .. n
      /\ \A i \in 1 .. n : users[i] \in Users /\ users[i].marked \in BOOLEAN
      /\ list \in Lists /\ RosterType
  BY <1>1, RosterFacts DEF Progress
<1>3. \A u \in Users, m \in BOOLEAN :
         LET v == [u EXCEPT !.marked = m]
         IN  v \in Users /\ v.key = u.key /\ v.server = u.server /\ v.marked = m
  BY DEF Users
<1> HIDE DEF own
<1>4. ASSUME NEW i \in 1 .. n
      PROVE  /\ users'[i] \in Users
             /\ users'[i].key = users[i].key /\ users'[i].server = users[i].server
             /\ i <= 2 => ~users'[i].marked
             /\ ~(i <= 2) => users'[i].marked = (users[i].marked \/ own(i))
  <2>1. users'[i] = IF i <= 2 THEN [users[i] EXCEPT !.marked = FALSE]
                    ELSE IF own(i) THEN [users[i] EXCEPT !.marked = TRUE]
                    ELSE users[i]
    BY <1>1, <1>2
  <2>2. CASE i <= 2
    BY <1>2, <1>3, <2>1, <2>2
  <2>3. CASE ~(i <= 2) /\ own(i)
    BY <1>2, <1>3, <2>1, <2>3
  <2>4. CASE ~(i <= 2) /\ ~own(i)
    BY <1>2, <2>1, <2>4
  <2>5. QED BY <2>2, <2>3, <2>4
<1>5. users' \in Seq(Users) /\ Len(users') = n
  <2>1. DOMAIN users' = 1 .. n /\ users' = [i \in 1 .. n |-> users'[i]]
    BY <1>1, <1>2
  <2>2. users' \in [1 .. n -> Users]
    BY <1>4, <2>1
  <2>3. QED BY <1>2, <2>1, <2>2, SeqDef, LenProperties
<1>6. Fixed'
  BY <1>2, <1>4, <1>5, FixedMarked
<1>7. ~users'[1].marked /\ ~users'[2].marked
  <2>1. 1 \in 1 .. n /\ 2 \in 1 .. n /\ 1 <= 2 /\ 2 <= 2
    BY <1>2
  <2>2. QED BY <1>4, <2>1
<1>8. ASSUME "users" \notin crossed PROVE UsersHeld'
  <2>1. /\ Looking
        /\ parse = "found" => NotBefore(at) /\ users[at].key = Sought
        /\ parse = "missing" => NotBefore(n + 1)
    BY <1>1, <1>8 DEF Roster, UsersHeld
  <2>2. /\ Len(Entries(list)) \in Nat /\ DOMAIN Entries(list) = 1 .. Len(Entries(list))
        /\ KeysOf(list) = {Entries(list)[i].key : i \in 1 .. Len(Entries(list))}
        /\ Own \in KeysOf(list) /\ Own \in Readable
        /\ \A i \in 1 .. Len(Entries(list)) :
              Entries(list)[i].key \notin {PublicChat, NewChat}
    BY <1>2, FrameFacts
  <2>3. entry = Len(Entries(list)) + 1 /\ entry - 1 = Len(Entries(list))
    BY <1>1, <1>2, <2>2 DEF InFrame, RosterType
  <2>4. Done = KeysOf(list) /\ Sought = Own /\ Own \notin {PublicChat, NewChat}
    BY <1>1, <2>2, <2>3 DEF Done, Sought
  <2>5. /\ Others = 3 .. n /\ Others' = Others /\ Fresh \subseteq Others
        /\ \A i \in Others : i \in 1 .. n /\ ~(i <= 2)
    BY <1>2, <1>5 DEF Others, Fresh
  <2>6. PICK o \in Fresh : users[o].key = Own
    BY <2>1, <2>2, <2>4 DEF Looking
  <2>7. parse = "found"
    <3>1. o \in 1 .. (n + 1) - 1
      BY <1>2, <2>5, <2>6
    <3>2. ~NotBefore(n + 1)
      BY <2>4, <2>6, <3>1 DEF NotBefore
    <3>3. QED BY <1>1, <2>1, <3>2
  <2>8. NotBefore(at) /\ users[at].key = Own
    BY <2>1, <2>4, <2>7
  <2>9. o = at
    <3>1. at \in Others
      <4>1. at # 1 /\ at # 2
        BY <1>2, <2>4, <2>8 DEF Fixed
      <4>2. QED BY <1>2, <2>5, <4>1
    <3>2. ~(at < o)
      BY <2>1, <2>6, <2>8, <3>1 DEF Looking
    <3>3. ~(o < at)
      <4>1. o < at => o \in 1 .. at - 1
        BY <1>2, <2>5, <2>6
      <4>2. QED BY <2>4, <2>6, <2>8, <4>1 DEF NotBefore
    <3>4. o \in Int /\ at \in Int
      BY <1>2, <2>5, <2>6
    <3>5. QED BY <3>2, <3>3, <3>4
  <2>10. Fresh' = Fresh \ {at}
    BY <1>4, <2>5, <2>7 DEF Fresh, own
  <2>11. ASSUME NEW i \in Fresh, NEW j \in Fresh, users[i].key = users[j].key PROVE i = j
    <3>1. i \in Others /\ j \in Others /\ i \in Int /\ j \in Int
      BY <2>5
    <3>2. ~(i < j) /\ ~(j < i)
      BY <2>1, <2>11, <3>1 DEF Looking
    <3>3. QED BY <3>1, <3>2
  <2>12. \A i \in Fresh' : users'[i].key = users[i].key /\ i \in Fresh
    BY <1>4, <2>5, <2>10
  <2>13. BroughtKeys' = BroughtKeys
    BY <1>1 DEF BroughtKeys
  <2>14. ASSUME NEW i \in Fresh' PROVE users'[i].key \in BroughtKeys
    <3>1. users[i].key \in KeysOf(list)
      BY <2>1, <2>4, <2>12 DEF Looking
    <3>2. users[i].key \in Readable
      BY <1>2, <2>5, <2>12 DEF Fixed
    <3>3. users[i].key # Own
      BY <2>6, <2>9, <2>10, <2>11, <2>12
    <3>4. QED BY <2>12, <3>1, <3>2, <3>3 DEF BroughtKeys
  <2>15. \A i, j \in Fresh' : users'[i].key = users'[j].key => i = j
    BY <2>11, <2>12
  <2>16. ASSUME NEW k \in BroughtKeys PROVE \E i \in Fresh' : users'[i].key = k
    <3>1. k \in Done \cap Readable /\ k # Own
      BY <2>4 DEF BroughtKeys
    <3>2. PICK i \in Fresh : users[i].key = k
      BY <2>1, <3>1 DEF Looking
    <3>3. i \in Fresh'
      BY <2>8, <2>10, <3>1, <3>2
    <3>4. QED BY <2>12, <3>2, <3>3
  <2>17. Showing'
    BY <2>13, <2>14, <2>15, <2>16 DEF Showing
  <2>18. Kept'
    BY <1>1 DEF Kept
  <2>19. QED BY <1>1, <2>17, <2>18 DEF UsersHeld
<1>9. at' \in 1 .. Len(users') /\ entry' \in 1 .. Len(Entries(list)) + 1
  BY <1>1, <1>2, <1>5 DEF RosterType
<1>10. QED BY <1>1, <1>5, <1>6, <1>7, <1>8, <1>9, SearchRoster

LEMMA EraseRoster ==
    ASSUME TypeOK, Roster, Erase
    PROVE  RosterType' /\ Roster'
<1> DEFINE n == Len(users)
           q == [i \in 1 .. n - 1 |-> IF i < at THEN i ELSE i + 1]
<1>1. /\ parse = "remove" /\ users[at].marked /\ users' = RemoveAt(users, at) /\ at' = 1
      /\ UNCHANGED <<servers, parse, list, entry, crossed>>
  BY DEF Erase
<1>2. /\ Fixed /\ n \in Nat /\ at \in 1 .. n /\ n >= 2 /\ users \in Seq(Users)
      /\ \A i \in 1 .. n : users[i].marked \in BOOLEAN
      /\ ~users[1].marked /\ ~users[2].marked /\ RosterType
  BY <1>1, RosterFacts DEF Progress
<1>3. at # 1 /\ at # 2
  BY <1>1, <1>2
<1>4. at >= 3 /\ n >= 3
  BY <1>2, <1>3
<1>5. /\ users' \in Seq(Users) /\ Len(users') = n - 1
      /\ \A j \in 1 .. n - 1 : users'[j] = IF j < at THEN users[j] ELSE users[j + 1]
  BY <1>1, <1>2, RemoveAtProperties
<1>6. \A i \in 1 .. n - 1 :
         /\ q[i] \in 1 .. n /\ q[i] # at
         /\ i <= 2 => q[i] = i
         /\ i > 2 => q[i] > 2
  BY <1>2, <1>4
<1>7. \A i \in 1 .. n - 1 : users'[i] = users[q[i]]
  BY <1>5
<1>8. \A i, j \in 1 .. n - 1 : q[i] = q[j] => i = j
  BY <1>2
<1>9. ASSUME NEW m \in 1 .. n, m # at PROVE \E i \in 1 .. n - 1 : q[i] = m
  <2>1. CASE m < at
    <3>1. m \in 1 .. n - 1 /\ q[m] = m
      BY <1>2, <2>1
    <3>2. QED BY <3>1
  <2>2. CASE m > at
    <3>1. m - 1 \in 1 .. n - 1 /\ q[m - 1] = m
      BY <1>2, <2>2
    <3>2. QED BY <3>1
  <2>3. QED BY <1>2, <1>9, <2>1, <2>2
<1> HIDE DEF q
<1>10. Fixed'
  <2>1. Len(users') \in Nat /\ Len(users') >= 2
    BY <1>4, <1>5
  <2>2. QED BY <1>2, <1>5, <1>6, <1>7, <2>1, FixedMoved
<1>11. ~users'[1].marked /\ ~users'[2].marked
  <2>1. 1 \in 1 .. n - 1 /\ 2 \in 1 .. n - 1 /\ 1 <= 2 /\ 2 <= 2
    BY <1>4
  <2>2. users'[1] = users[1] /\ users'[2] = users[2]
    BY <1>6, <1>7, <2>1
  <2>3. QED BY <1>2, <2>2
<1>12. ASSUME "users" \notin crossed PROVE UsersHeld'
  <2>1. Showing
    BY <1>1, <1>12 DEF Roster, UsersHeld
  <2>2. /\ Others = 3 .. n /\ Others' = 3 .. n - 1
        /\ \A i \in 1 .. n - 1 : i \in Others' <=> i > 2
        /\ \A i \in 1 .. n : i \in Others <=> i > 2
        /\ \A i \in Others : i \in 1 .. n
        /\ \A i \in Others' : i \in 1 .. n - 1
    BY <1>2, <1>5 DEF Others
  <2>3. ASSUME NEW i \in Fresh' PROVE q[i] \in Fresh /\ i \in 1 .. n - 1
    <3>1. i \in 1 .. n - 1 /\ i > 2
      BY <2>2 DEF Fresh
    <3>2. ~users'[i].marked
      BY DEF Fresh
    <3>3. q[i] \in Others
      BY <1>6, <2>2, <3>1
    <3>4. ~users[q[i]].marked
      BY <1>7, <3>1, <3>2
    <3>5. QED BY <3>1, <3>3, <3>4 DEF Fresh
  <2>4. ASSUME NEW m \in Fresh PROVE \E i \in Fresh' : q[i] = m
    <3>1. m \in Others /\ m \in 1 .. n /\ m # at /\ m > 2 /\ ~users[m].marked
      BY <1>1, <2>2 DEF Fresh
    <3>2. PICK i \in 1 .. n - 1 : q[i] = m
      BY <1>9, <3>1
    <3>3. i > 2
      <4>1. ~(i <= 2)
        BY <1>6, <3>1, <3>2
      <4>2. QED BY <4>1
    <3>4. i \in Others' /\ ~users'[i].marked
      BY <1>7, <2>2, <3>1, <3>2, <3>3
    <3>5. QED BY <3>2, <3>4 DEF Fresh
  <2>5. \A i \in Fresh' : q[i] \in Fresh /\ users'[i].key = users[q[i]].key
    BY <1>7, <2>3
  <2>6. \A i, j \in Fresh' : q[i] = q[j] => i = j
    BY <1>8, <2>3
  <2>7. Showing'
    BY <1>1, <2>1, <2>4, <2>5, <2>6, ShowingMoved
  <2>8. Kept'
    BY <1>1 DEF Kept
  <2>9. QED BY <1>1, <2>7, <2>8 DEF UsersHeld
<1>13. at' \in 1 .. Len(users') /\ entry' \in 1 .. Len(Entries(list)) + 1
  BY <1>1, <1>2, <1>4, <1>5 DEF RosterType
<1>14. QED BY <1>1, <1>5, <1>10, <1>11, <1>12, <1>13, SearchRoster

(* What the loops over unchanged users rest on stays.                      *)
LEMMA SameUsers ==
    ASSUME users' = users, list' = list
    PROVE  /\ Fixed => Fixed'
           /\ Others' = Others /\ Fresh' = Fresh
           /\ Showing => Showing'
           /\ Applied => Applied'
<1>1. Others' = Others /\ Fresh' = Fresh /\ BroughtKeys' = BroughtKeys
  BY DEF Others, Fresh, BroughtKeys
<1>2. (Fixed => Fixed') /\ (Showing => Showing')
  BY <1>1 DEF Fixed, Showing
<1>3. QED BY <1>1, <1>2 DEF Applied

LEMMA KeepRoster ==
    ASSUME TypeOK, Roster, Keep
    PROVE  RosterType' /\ Roster'
<1> DEFINE n == Len(users)
<1>1. /\ parse = "remove" /\ ~users[at].marked /\ OnTo("servers")
      /\ servers' = IF at = n THEN <<>> ELSE servers
      /\ UNCHANGED <<users, list, entry, crossed>>
  BY DEF Keep
<1>2. /\ Fixed /\ n \in Nat /\ at \in 1 .. n /\ n >= 2 /\ users \in Seq(Users)
      /\ DOMAIN users = 1 .. n
      /\ ~users[1].marked /\ ~users[2].marked /\ RosterType /\ Progress
  BY <1>1, RosterFacts DEF Progress
<1>3. \/ at = n /\ parse' = "servers" /\ at' = 1
      \/ at # n /\ parse' = parse /\ at' = at + 1 /\ at + 1 \in 1 .. n
  BY <1>1, OnToFacts
<1>4. Fixed' /\ (Showing => Showing') /\ Fresh' = Fresh
  BY <1>1, <1>2, SameUsers
<1>5. "users" \notin crossed => Showing /\ \A i \in 1 .. at : ~users[i].marked
  <2>1. \A i \in 1 .. at : i = at \/ i \in 1 .. at - 1
    BY <1>2
  <2>2. QED BY <1>1, <2>1 DEF Roster, UsersHeld, Kept
<1>6. CASE at # n
  <2>1. servers' = servers /\ parse' = "remove" /\ at' - 1 = at
    <3>1. servers' = servers
      BY <1>1, <1>6
    <3>2. parse' = "remove" /\ at' = at + 1
      BY <1>1, <1>3, <1>6
    <3>3. QED BY <1>2, <3>1, <3>2
  <2>2. "users" \notin crossed => UsersHeld'
    BY <1>1, <1>4, <1>5, <2>1 DEF UsersHeld, Kept
  <2>3. at' \in 1 .. Len(users') /\ entry' \in 1 .. Len(Entries(list)) + 1
    BY <1>1, <1>2, <1>3, <1>6 DEF RosterType
  <2>4. QED BY <1>1, <1>2, <1>4, <2>1, <2>2, <2>3, SearchRoster
<1>7. CASE at = n
  <2>1. servers' = <<>> /\ parse' = "servers" /\ at' = 1
    BY <1>1, <1>3, <1>7
  <2>2. <<>> \in Seq(Addresses) /\ ToSet(<<>>) = {} /\ IsInjective(<<>>)
    BY EmptySeq DEF ToSet, IsInjective
  <2>3. RosterType'
    BY <1>1, <1>2, <2>1, <2>2 DEF RosterType, Parses
  <2>4. Progress'
    BY <1>1, <1>2, <2>1 DEF Progress
  <2>5. "users" \notin crossed => UsersHeld'
    BY <1>1, <1>2, <1>4, <1>5, <1>7, <2>1 DEF UsersHeld, Applied
  <2>6. ServersHeld'
    <3>1. ServersUpto(at - 1)' = {}
      BY <2>1 DEF ServersUpto
    <3>2. QED BY <2>1, <2>2, <3>1 DEF ServersHeld
  <2>7. QED BY <1>1, <1>4, <2>1, <2>2, <2>3, <2>4, <2>5, <2>6 DEF Roster
<1>8. QED BY <1>6, <1>7

LEMMA CollectRoster ==
    ASSUME TypeOK, Roster, Collect
    PROVE  RosterType' /\ Roster'
<1> DEFINE n == Len(users)
<1>1. /\ parse = "servers" /\ servers' = AddServer(servers, users[at]) /\ OnTo("idle")
      /\ entry' = IF at = n THEN 1 ELSE entry
      /\ UNCHANGED <<users, list, crossed>>
  BY DEF Collect
<1>2. /\ Fixed /\ n \in Nat /\ at \in 1 .. n /\ DOMAIN users = 1 .. n
      /\ users[at] \in Users /\ servers \in Seq(Addresses) /\ IsInjective(servers)
      /\ RosterType /\ Progress /\ list \in Lists
  BY <1>1, RosterFacts DEF Progress
<1>3. \/ at = n /\ parse' = "idle" /\ at' = 1
      \/ at # n /\ parse' = parse /\ at' = at + 1 /\ at + 1 \in 1 .. n
  BY <1>1, OnToFacts
<1>4. Fixed' /\ (Applied => Applied')
  BY <1>1, <1>2, SameUsers
<1>5. /\ servers' \in Seq(Addresses) /\ IsInjective(servers')
      /\ ToSet(servers') = ToSet(servers) \cup ({users[at].server} \ {NoServer})
  BY <1>1, <1>2, AddServerFacts
<1>6. ServersUpto(at) = ServersUpto(at - 1) \cup ({users[at].server} \ {NoServer})
  <2>1. \A i : i \in 1 .. at <=> i \in 1 .. at - 1 \/ i = at
    BY <1>2
  <2>2. QED BY <2>1 DEF ServersUpto
<1>7. "servers" \notin crossed => ToSet(servers') = ServersUpto(at)
  BY <1>1, <1>5, <1>6 DEF Roster, ServersHeld
<1>8. RosterType'
  <2>1. Len(Entries(list)) \in Nat
    BY <1>2, FrameFacts
  <2>2. at' \in DOMAIN users' /\ parse' \in Parses
    <3>1. at' = 1 \/ at' \in 1 .. n
      BY <1>3
    <3>2. 1 \in 1 .. n /\ DOMAIN users' = 1 .. n
      <4>1. users' = users /\ DOMAIN users = 1 .. n
        BY <1>1, <1>2
      <4>2. n \in Nat /\ at \in 1 .. n
        BY <1>2
      <4>3. QED BY <4>1, <4>2
    <3>3. parse' = "idle" \/ parse' = parse
      BY <1>3
    <3>4. QED BY <1>1, <3>1, <3>2, <3>3 DEF Parses
  <2>3. entry' \in 1 .. Len(Entries(list')) + 1
    <3>1. 1 \in 1 .. Len(Entries(list)) + 1
      BY <2>1
    <3>2. entry \in 1 .. Len(Entries(list)) + 1
      BY <1>2, Zenon DEF RosterType
    <3>3. (entry' = 1 \/ entry' = entry) /\ list' = list
      BY <1>1
    <3>4. QED BY <3>1, <3>2, <3>3
  <2>4. QED BY <1>1, <1>2, <1>5, <2>2, <2>3 DEF RosterType
<1>9. Progress'
  BY <1>1, <1>2, <1>3, Zenon DEF Progress
<1>10. "users" \notin crossed => UsersHeld'
  BY <1>1, <1>3, <1>4 DEF Roster, UsersHeld
<1>11. "servers" \notin crossed => ServersHeld'
  <2>1. CASE at = n
    <3>1. parse' = "idle" /\ ServersUpto(Len(users))' = ServersUpto(at)
      BY <1>1, <1>3, <2>1 DEF ServersUpto
    <3>2. QED BY <1>7, <3>1 DEF ServersHeld
  <2>2. CASE at # n
    <3>1. at' = at + 1 /\ parse' = "servers"
      BY <1>1, <1>3, <2>2
    <3>2. at' - 1 = at
      <4>1. at \in Int
        BY <1>2
      <4>2. QED BY <3>1, <4>1
    <3>3. ServersUpto(at - 1)' = ServersUpto(at)
      BY <1>1, <3>2 DEF ServersUpto
    <3>4. QED BY <1>7, <3>1, <3>3 DEF ServersHeld
  <2>3. QED BY <2>1, <2>2
<1>12. QED BY <1>1, <1>4, <1>5, <1>8, <1>9, <1>10, <1>11 DEF Roster

-----------------------------------------------------------------------------
(* The sort of the window thread.                                          *)
UserKeys == {users[i].key : i \in DOMAIN users}

LEMMA DateUserFacts ==
    ASSUME TypeOK, NEW key, DateUser(key)
    PROVE  users' \in Seq(Users) /\ Rearranged(users, users')
<1>1. users \in Seq(Users)
  BY TypeFacts
<1>2. PICK date \in 1 .. MaxDate : users' \in Sorted(Dated(users, key, date))
  BY DEF DateUser
<1>3. QED BY <1>1, <1>2, DateFacts

LEMMA RosterSorted ==
    ASSUME TypeOK, Roster, NEW key, DateUser(key), UNCHANGED <<servers, parseVars>>
    PROVE  /\ RosterType' /\ Roster'
           /\ UserKeys' = UserKeys
<1> DEFINE n == Len(users)
<1>1. /\ parse' = parse /\ list' = list /\ at' = at /\ entry' = entry /\ servers' = servers
      /\ crossed' = IF parse = "idle" THEN crossed ELSE crossed \cup {CrossedLoop}
  BY DEF parseVars, DateUser
<1>2. /\ Fixed /\ Progress /\ RosterType /\ IsInjective(servers)
      /\ n \in Nat /\ n >= 2 /\ DOMAIN users = 1 .. n /\ at \in 1 .. n
      /\ \A i \in 1 .. n : users[i].marked \in BOOLEAN
  BY RosterFacts
<1>3. users' \in Seq(Users) /\ Rearranged(users, users')
  BY DateUserFacts
<1>4. Len(users') = n /\ DOMAIN users' = 1 .. n
  BY <1>3, LenProperties DEF Rearranged
<1>5. PICK q \in [1 .. n -> 1 .. n] :
         /\ \A i, j \in 1 .. n : q[i] = q[j] => i = j
         /\ \A m \in 1 .. n : \E i \in 1 .. n : q[i] = m
         /\ \A i \in 1 .. n : i <= 2 <=> q[i] <= 2
         /\ \A i \in 1 .. n : i <= 2 => q[i] = i
         /\ \A i \in 1 .. n :
               /\ users'[i].key = users[q[i]].key
               /\ users'[i].server = users[q[i]].server
               /\ users'[i].marked = users[q[i]].marked
  BY <1>3 DEF Rearranged
<1> HIDE DEF n
<1>6. \A i \in 1 .. n : q[i] \in 1 .. n
  BY <1>5
<1>7. Fixed'
  <2>1. \A i \in 1 .. n : i > 2 => q[i] > 2
    BY <1>2, <1>5, <1>6
  <2>2. Len(users') = n /\ Len(users) = n
    BY <1>4 DEF n
  <2>3. \A i \in 1 .. n :
           /\ q[i] \in 1 .. n
           /\ i <= 2 => q[i] = i
           /\ i > 2 => q[i] > 2
           /\ users'[i].key = users[q[i]].key /\ users'[i].server = users[q[i]].server
    BY <1>5, <1>6, <2>1
  <2>4. Fixed /\ n \in Nat /\ n >= 2
    BY <1>2
  <2>5. ASSUME NEW i \in 1 .. Len(users')
        PROVE  /\ q[i] \in 1 .. Len(users)
               /\ i <= 2 => q[i] = i
               /\ i > 2 => q[i] > 2
               /\ users'[i].key = users[q[i]].key /\ users'[i].server = users[q[i]].server
    <3>1. i \in 1 .. n
      BY <2>2, Zenon
    <3>2. QED BY <2>2, <2>3, <3>1, Zenon
  <2>6. Len(users) \in Nat /\ Len(users') \in Nat /\ Len(users') >= 2
    BY <2>2, <2>4
  <2>7. QED BY <2>4, <2>5, <2>6, FixedMoved, Zenon
<1>8. Progress'
  <2>1. 1 \in 1 .. n /\ 2 \in 1 .. n /\ 1 <= 2 /\ 2 <= 2
    BY <1>2
  <2>2. users'[1].marked = users[1].marked /\ users'[2].marked = users[2].marked
    BY <1>5, <2>1
  <2>3. QED BY <1>1, <1>2, <2>2 DEF Progress
<1>9. /\ Others = 3 .. n /\ Others' = 3 .. n
      /\ \A i : i \in 3 .. n <=> i \in 1 .. n /\ ~(i <= 2)
  BY <1>2, <1>4 DEF Others, n
<1>10. ASSUME NEW i \in Fresh'
       PROVE  q[i] \in Fresh /\ users'[i].key = users[q[i]].key /\ i \in 1 .. n
  <2>1. i \in Others' /\ ~users'[i].marked
    BY DEF Fresh
  <2>2. q[i] \in Others /\ i \in 1 .. n
    BY <1>5, <1>6, <1>9, <2>1
  <2>3. QED BY <1>5, <2>1, <2>2 DEF Fresh
<1>11. ASSUME NEW m \in Fresh PROVE \E i \in Fresh' : q[i] = m
  <2>1. m \in Others /\ ~users[m].marked
    BY DEF Fresh
  <2>2. PICK i \in 1 .. n : q[i] = m
    BY <1>5, <1>9, <2>1
  <2>3. i \in Others'
    BY <1>5, <1>9, <2>1, <2>2
  <2>4. ~users'[i].marked
    BY <1>5, <2>1, <2>2
  <2>5. QED BY <2>2, <2>3, <2>4 DEF Fresh
<1>12. Showing => Showing'
  <2>1. \A i \in Fresh' : q[i] \in Fresh /\ users'[i].key = users[q[i]].key
    BY <1>10
  <2>2. \A i, j \in Fresh' : q[i] = q[j] => i = j
    <3>1. \A i \in Fresh' : i \in 1 .. n
      BY <1>10
    <3>2. QED BY <1>5, <3>1
  <2>3. \A m \in Fresh : \E i \in Fresh' : q[i] = m
    BY <1>11
  <2>4. QED BY <1>1, <2>1, <2>2, <2>3, ShowingMoved
<1>13. Applied => Applied'
  <2>1. (\A i \in 1 .. n : ~users[i].marked) => \A i \in 1 .. n : ~users'[i].marked
    BY <1>5, <1>6
  <2>2. QED BY <1>2, <1>4, <1>12, <2>1 DEF Applied
<1>14. "users" \notin crossed' => "users" \notin crossed /\ parse \in {"idle", "servers"}
  BY <1>1 DEF CrossedLoop
<1>15. "servers" \notin crossed' => "servers" \notin crossed /\ parse # "servers"
  BY <1>1 DEF CrossedLoop
<1>16. "users" \notin crossed' => UsersHeld'
  BY <1>1, <1>13, <1>14 DEF Roster, UsersHeld
<1>17. ServersUpto(Len(users))' = ServersUpto(Len(users))
  <2>1. {users'[i].server : i \in 1 .. n} = {users[m].server : m \in 1 .. n}
    <3>1. ASSUME NEW i \in 1 .. n PROVE users'[i].server \in {users[m].server : m \in 1 .. n}
      <4>1. q[i] \in 1 .. n /\ users'[i].server = users[q[i]].server
        BY <1>5, <1>6
      <4>2. QED BY <4>1
    <3>2. ASSUME NEW m \in 1 .. n PROVE users[m].server \in {users'[i].server : i \in 1 .. n}
      <4>1. PICK i \in 1 .. n : q[i] = m
        BY <1>5
      <4>2. users'[i].server = users[m].server
        BY <1>5, <4>1
      <4>3. QED BY <4>2
    <3>3. QED BY <3>1, <3>2
  <2>2. ServersUpto(Len(users))' = {users'[i].server : i \in 1 .. n} \ {NoServer}
    BY <1>4 DEF ServersUpto
  <2>3. ServersUpto(Len(users)) = {users[m].server : m \in 1 .. n} \ {NoServer}
    BY DEF ServersUpto, n
  <2>4. QED BY <2>1, <2>2, <2>3
<1>18. "servers" \notin crossed' => ServersHeld'
  BY <1>1, <1>15, <1>17 DEF Roster, ServersHeld
<1>19. UserKeys' = UserKeys
  <2>1. {users'[i].key : i \in 1 .. n} = {users[m].key : m \in 1 .. n}
    <3>1. ASSUME NEW i \in 1 .. n PROVE users'[i].key \in {users[m].key : m \in 1 .. n}
      <4>1. q[i] \in 1 .. n /\ users'[i].key = users[q[i]].key
        BY <1>5, <1>6
      <4>2. QED BY <4>1
    <3>2. ASSUME NEW m \in 1 .. n PROVE users[m].key \in {users'[i].key : i \in 1 .. n}
      <4>1. PICK i \in 1 .. n : q[i] = m
        BY <1>5
      <4>2. users'[i].key = users[m].key
        BY <1>5, <4>1
      <4>3. QED BY <4>2
    <3>3. QED BY <3>1, <3>2
  <2>2. UserKeys' = {users'[i].key : i \in 1 .. n}
    BY <1>4 DEF UserKeys
  <2>3. UserKeys = {users[m].key : m \in 1 .. n}
    BY <1>2 DEF UserKeys
  <2>4. QED BY <2>1, <2>2, <2>3
<1>20. RosterType'
  <2>1. crossed' \subseteq {"users", "servers"}
    BY <1>1, <1>2 DEF RosterType, CrossedLoop
  <2>2. QED BY <1>1, <1>2, <1>3, <1>4, <2>1 DEF RosterType
<1>21. QED BY <1>1, <1>2, <1>7, <1>8, <1>16, <1>18, <1>19, <1>20 DEF Roster

LEMMA RosterStays ==
    ASSUME TypeOK, Roster, UNCHANGED <<clientVars, parseVars, crossed>>
    PROVE  RosterType' /\ Roster'
<1>1. /\ users' = users /\ servers' = servers /\ parse' = parse /\ list' = list
      /\ at' = at /\ entry' = entry /\ crossed' = crossed
  BY DEF clientVars, parseVars
<1>2. /\ Fixed' <=> Fixed
      /\ Fresh' = Fresh /\ Others' = Others /\ Done' = Done /\ Sought' = Sought
      /\ BroughtKeys' = BroughtKeys
  BY <1>1 DEF Fixed, Others, Fresh, Done, Sought, InFrame, BroughtKeys
<1>3. /\ Progress' <=> Progress
      /\ Marking' <=> Marking
      /\ Looking' <=> Looking
      /\ NotBefore(at)' <=> NotBefore(at)
      /\ NotBefore(Len(users) + 1)' <=> NotBefore(Len(users) + 1)
      /\ Showing' <=> Showing
      /\ Kept' <=> Kept
  BY <1>1, <1>2 DEF Progress, Marking, Looking, NotBefore, Showing, Kept
<1>4. Applied' <=> Applied
  BY <1>1, <1>3 DEF Applied
<1>5. UsersHeld' <=> UsersHeld
  BY <1>1, <1>2, <1>3, <1>4 DEF UsersHeld
<1>6. ServersHeld' <=> ServersHeld
  BY <1>1 DEF ServersHeld, ServersUpto
<1>7. RosterType'
  BY <1>1, RosterFacts DEF RosterType
<1>8. QED BY <1>1, <1>2, <1>3, <1>5, <1>6, <1>7 DEF Roster

-----------------------------------------------------------------------------
(* The steps of the window thread.                                         *)

(* The type of what no step of the socket thread touches.                  *)
UiType ==
    /\ selected \in Nat
    /\ chosen \in Keys
    /\ recipients \in Seq({PseudoName[k] : k \in Keys})
    /\ ui \in {"idle", "sent", "pushed", "each", "eachSent", "eachPushed"}
    /\ turn \in 0 .. Len(recipients)
    /\ message \in [home : Servers, dests : Seq(Addresses), settled : BOOLEAN]
    /\ sent \in Seq(Keys \cup {Nobody})
    /\ logged \in Seq(Keys \cup {Nobody})

LEMMA TypeParts == TypeOK <=> RosterType /\ UiType /\ calm \in BOOLEAN
BY Zenon DEF TypeOK, RosterType, UiType, Users, Servers

(* A step of the socket thread: the window's state stays.                  *)
LEMMA SocketStep ==
    ASSUME Inv, UNCHANGED uiVars, RosterType', Roster', calm' \in BOOLEAN
    PROVE  Inv'
<1>1. TypeOK /\ Recipients /\ RecipientServed
  BY DEF Inv
<1>2. /\ selected' = selected /\ chosen' = chosen /\ recipients' = recipients
      /\ ui' = ui /\ turn' = turn /\ message' = message /\ sent' = sent
      /\ logged' = logged
  BY DEF uiVars, sendVars
<1>3. UiType
  BY <1>1, TypeParts
<1>4. UiType'
  BY <1>2, <1>3 DEF UiType
<1>5. TypeOK'
  <2>1. TypeOK' <=> RosterType' /\ UiType' /\ calm' \in BOOLEAN
    BY Zenon DEF TypeOK, RosterType, UiType, Users, Servers
  <2>2. QED BY <1>4, <2>1
<1>6. Recipients' /\ RecipientServed'
  BY <1>1, <1>2 DEF Recipients, RecipientServed
<1>7. QED BY <1>5, <1>6 DEF Inv

(* A step of the window thread.                                            *)
LEMMA WindowStep ==
    ASSUME Inv, RosterType', Roster',
           UiType', calm' \in BOOLEAN, Recipients', RecipientServed'
    PROVE  Inv'
<1>1. TypeOK' <=> RosterType' /\ UiType' /\ calm' \in BOOLEAN
  BY Zenon DEF TypeOK, RosterType, UiType, Users, Servers
<1>2. QED BY <1>1 DEF Inv

LEMMA InvFacts ==
    ASSUME Inv
    PROVE  /\ TypeOK /\ Roster /\ Recipients /\ RecipientServed
           /\ RosterType /\ UiType /\ calm \in BOOLEAN
           /\ users \in Seq(Users)
           /\ ui \notin Each => turn = 0
<1>1. TypeOK /\ Roster /\ Recipients /\ RecipientServed
  BY DEF Inv
<1>2. QED BY <1>1, TypeParts, TypeFacts DEF Recipients

(* A window step that leaves the list of users alone.                      *)
LEMMA QuietStep ==
    ASSUME Inv, UNCHANGED <<clientVars, parseVars, crossed>>,
           UiType', calm' \in BOOLEAN, Recipients', RecipientServed'
    PROVE  Inv'
BY RosterStays, InvFacts, WindowStep

LEMMA ClickStep ==
    ASSUME Inv, NEW i \in DOMAIN users, Click(i)
    PROVE  Inv'
<1>1. /\ UiType /\ calm \in BOOLEAN /\ TypeOK /\ Recipients /\ RecipientServed
      /\ ui = "idle" /\ turn = 0
  BY InvFacts DEF Click, Each
<1>2. /\ selected' = i - 1 /\ chosen' = users[i].key
      /\ recipients' = recipients \/ recipients' = <<>>
      /\ ui' = ui /\ turn' = turn /\ message' = message /\ sent' = sent
      /\ logged' = logged /\ calm' = calm
      /\ UNCHANGED <<clientVars, parseVars, crossed>>
  BY DEF Click, sendVars
<1>3. i \in 1 .. Len(users) /\ users[i].key \in Keys /\ Len(users) \in Nat
  BY <1>1, TypeFacts
<1>4. /\ recipients' \in Seq({PseudoName[k] : k \in Keys})
      /\ 0 \in 0 .. Len(recipients')
  <2>1. recipients \in Seq({PseudoName[k] : k \in Keys})
    BY <1>1 DEF UiType
  <2>2. /\ <<>> \in Seq({PseudoName[k] : k \in Keys}) /\ Len(<<>>) = 0
    BY EmptySeq
  <2>3. Len(recipients) \in Nat
    BY <2>1, LenProperties
  <2>4. CASE recipients' = recipients
    BY <2>1, <2>3, <2>4
  <2>5. CASE recipients' = <<>>
    BY <2>2, <2>5
  <2>6. QED BY <1>2, <2>4, <2>5
<1>5. UiType'
  BY <1>1, <1>2, <1>3, <1>4 DEF UiType
<1>6. Recipients' /\ RecipientServed'
  BY <1>1, <1>2, <1>4 DEF Recipients, RecipientServed, Each
<1>7. QED BY <1>1, <1>2, <1>5, <1>6, QuietStep

(* A change of the recipients picked.                                      *)
LEMMA PickedStep ==
    ASSUME Inv, ui = "idle", recipients' \in Seq({PseudoName[k] : k \in Keys}),
           UNCHANGED <<clientVars, parseVars, selected, chosen, sendVars, calm, crossed>>
    PROVE  Inv'
<1>1. /\ UiType /\ calm \in BOOLEAN /\ Recipients /\ RecipientServed
      /\ turn = 0
  BY InvFacts DEF Each
<1>2. /\ selected' = selected /\ chosen' = chosen
      /\ ui' = ui /\ turn' = turn /\ message' = message /\ sent' = sent
      /\ logged' = logged /\ calm' = calm
      /\ UNCHANGED <<clientVars, parseVars, crossed>>
  BY DEF sendVars
<1>3. 0 \in 0 .. Len(recipients')
  BY LenProperties
<1>4. UiType'
  BY <1>1, <1>2, <1>3 DEF UiType
<1>5. Recipients' /\ RecipientServed'
  BY <1>1, <1>2 DEF Recipients, RecipientServed, Each
<1>6. QED BY <1>1, <1>2, <1>4, <1>5, QuietStep

LEMMA PickStep ==
    ASSUME Inv, NEW i \in DOMAIN users, Pick(i)
    PROVE  Inv'
<1> DEFINE T == {PseudoName[k] : k \in Keys}
           p == PseudoName[users[i].key]
<1>1. recipients \in Seq(T) /\ TypeOK
  BY InvFacts DEF UiType
<1>2. p \in T
  BY <1>1, TypeFacts
<1>3. recipients' = Append(recipients, p)
  BY DEF Pick
<1> HIDE DEF p, T
<1>4. Append(recipients, p) \in Seq(T)
  BY <1>1, <1>2, AppendOne
<1>5. recipients' \in Seq({PseudoName[k] : k \in Keys})
  BY <1>3, <1>4 DEF T
<1>6. QED BY <1>5, PickedStep DEF Pick

LEMMA UnpickStep ==
    ASSUME Inv, NEW n \in DOMAIN recipients, Unpick(n)
    PROVE  Inv'
<1> DEFINE T == {PseudoName[k] : k \in Keys}
<1>1. recipients \in Seq(T)
  BY InvFacts DEF UiType
<1>2. n \in 1 .. Len(recipients)
  BY <1>1, LenProperties
<1>3. recipients' = RemoveAt(recipients, n)
  BY DEF Unpick
<1> HIDE DEF T
<1>4. recipients' \in Seq(T)
  BY <1>1, <1>2, <1>3, RemoveAtProperties
<1>5. recipients' \in Seq({PseudoName[k] : k \in Keys})
  BY <1>4 DEF T
<1>6. QED BY <1>5, PickedStep DEF Unpick

(* A message, or none.                                                     *)
LEMMA NoMessageFacts ==
    /\ NoMessage \in [home : Servers, dests : Seq(Addresses), settled : BOOLEAN]
    /\ NoMessage.home = NoServer
<1>1. <<>> \in Seq(Addresses)
  BY EmptySeq
<1>2. QED BY <1>1 DEF NoMessage, Servers

LEMMA SendToFacts ==
    ASSUME Inv, NEW i \in 0 .. Len(users), SendTo(i)
    PROVE  /\ message' \in [home : Servers, dests : Seq(Addresses), settled : BOOLEAN]
           /\ RecipientServed'
<1>1. TypeOK /\ Roster
  BY InvFacts
<1>2. servers \in Seq(Addresses) /\ Len(users) \in Nat
  BY <1>1, RosterFacts
<1>3. CASE i = 0
  BY <1>3, NoMessageFacts DEF SendTo, RecipientServed
<1>4. CASE i # 0
  <2>1. i \in 1 .. Len(users) /\ users[i].server \in Servers
    BY <1>1, <1>2, <1>4, TypeFacts
  <2>2. message' = [home |-> users[i].server, dests |-> servers,
                    settled |-> parse = "idle" /\ "servers" \notin crossed]
    BY <1>4 DEF SendTo
  <2>3. message' \in [home : Servers, dests : Seq(Addresses), settled : BOOLEAN]
    BY <1>2, <2>1, <2>2
  <2>4. RecipientServed'
    <3>1. SUFFICES ASSUME message'.settled, message'.home # NoServer
                   PROVE  message'.home \in ToSet(message'.dests)
      BY DEF RecipientServed
    <3>2. /\ parse = "idle" /\ "servers" \notin crossed
          /\ message'.home = users[i].server /\ message'.dests = servers
      BY <2>2, <3>1
    <3>3. users[i].server \in ServersUpto(Len(users))
      BY <2>1, <3>1, <3>2 DEF ServersUpto
    <3>4. QED BY <1>1, <3>2, <3>3 DEF Roster, ServersHeld
  <2>5. QED BY <2>3, <2>4
<1>5. QED BY <1>3, <1>4

LEMMA SendStep ==
    ASSUME Inv, Send
    PROVE  Inv'
<1>1. /\ UiType /\ Recipients /\ TypeOK /\ calm \in BOOLEAN
  BY InvFacts
<1>2. /\ UNCHANGED <<clientVars, parseVars, selected, chosen, recipients, turn, sent, logged,
                     calm, crossed>>
      /\ InRange /\ SendTo(selected + 1) /\ ui = "idle" /\ ui' = "sent"
  BY DEF Send
<1>3. selected + 1 \in 0 .. Len(users)
  <2>1. selected + 1 \in 1 .. Len(users) /\ Len(users) \in Nat
    BY <1>1, <1>2, TypeFacts DEF InRange
  <2>2. QED BY <2>1
<1>4. /\ message' \in [home : Servers, dests : Seq(Addresses), settled : BOOLEAN]
      /\ RecipientServed'
  BY <1>2, <1>3, SendToFacts
<1>5. UiType'
  BY <1>1, <1>2, <1>4 DEF UiType
<1>6. Recipients' /\ calm' \in BOOLEAN
  BY <1>1, <1>2 DEF Recipients, Each
<1>7. UNCHANGED <<clientVars, parseVars, crossed>>
  BY <1>2
<1>8. QED BY <1>4, <1>5, <1>6, <1>7, QuietStep

LEMMA PushMessageStep ==
    ASSUME Inv, PushMessage
    PROVE  Inv'
<1>1. UiType /\ Recipients /\ calm \in BOOLEAN
  BY InvFacts
<1>2. /\ ui = "sent" /\ ui' = "pushed" /\ message' = NoMessage
      /\ UNCHANGED <<clientVars, parseVars, selected, chosen, recipients, turn, sent, logged,
                     calm, crossed>>
  BY DEF PushMessage
<1>3. UiType'
  BY <1>1, <1>2, NoMessageFacts DEF UiType
<1>4. Recipients' /\ RecipientServed'
  BY <1>1, <1>2, NoMessageFacts DEF Recipients, RecipientServed, Each
<1>5. QED BY <1>1, <1>2, <1>3, <1>4, QuietStep

(* The end of a send.                                                      *)
LEMMA SendEndsFacts ==
    ASSUME Inv, SendEnds, recipients' = recipients, chosen' = chosen, message' = message,
           selected' \in Nat
    PROVE  UiType' /\ calm' \in BOOLEAN /\ Recipients' /\ RecipientServed'
<1>1. UiType /\ Recipients /\ RecipientServed
  BY InvFacts
<1>2. ui' = "idle" /\ turn' = 0 /\ sent' = <<>> /\ logged' = <<>> /\ calm' = TRUE
  BY DEF SendEnds
<1>3. <<>> \in Seq(Keys \cup {Nobody})
  BY EmptySeq
<1>4. 0 \in 0 .. Len(recipients)
  BY <1>1, LenProperties DEF UiType
<1>5. UiType'
  BY <1>1, <1>2, <1>3, <1>4 DEF UiType
<1>6. Recipients' /\ RecipientServed'
  BY <1>1, <1>2 DEF Recipients, RecipientServed, Each
<1>7. QED BY <1>2, <1>5, <1>6

(* A date is given and the list sorted.                                    *)
LEMMA DateStep ==
    ASSUME Inv, NEW key, DateUser(key), UNCHANGED <<servers, parseVars>>,
           UiType', calm' \in BOOLEAN, Recipients', RecipientServed'
    PROVE  Inv'
BY InvFacts, RosterSorted, WindowStep

LEMMA UpdateDateStep ==
    ASSUME Inv, UpdateDate
    PROVE  Inv'
<1>1. TypeOK /\ Roster
  BY InvFacts
<1>2. /\ InRange /\ DateUser(SelectedKey) /\ SendEnds
      /\ recipients' = recipients /\ chosen' = chosen /\ message' = message
      /\ UNCHANGED <<servers, parseVars>>
  BY DEF UpdateDate
<1>3. users' \in Seq(Users)
  BY <1>1, <1>2, DateUserFacts
<1>4. selected' \in Nat
  <2>1. PICK i \in DOMAIN users' : selected' = i - 1
    BY DEF UpdateDate
  <2>2. DOMAIN users' = 1 .. Len(users')
    BY <1>3, LenProperties
  <2>3. QED BY <2>1, <2>2
<1>5. UiType' /\ calm' \in BOOLEAN /\ Recipients' /\ RecipientServed'
  BY <1>2, <1>4, SendEndsFacts
<1>6. QED BY <1>2, <1>5, DateStep

LEMMA BeginRoundStep ==
    ASSUME Inv, BeginRound
    PROVE  Inv'
<1>1. UiType /\ Recipients /\ RecipientServed
  BY InvFacts
<1>2. /\ UNCHANGED <<clientVars, parseVars, selected, chosen, recipients, message, sent, logged,
                     crossed>>
      /\ ui' = "each" /\ turn' = 1 /\ calm' = (parse = "idle") /\ recipients # <<>>
  BY DEF BeginRound
<1>3. 1 \in 0 .. Len(recipients)
  <2>1. Len(recipients) \in Nat /\ Len(recipients) # 0
    BY <1>1, <1>2, LenProperties, EmptySeq DEF UiType
  <2>2. QED BY <2>1
<1>4. UiType'
  BY <1>1, <1>2, <1>3 DEF UiType
<1>5. Recipients' /\ RecipientServed' /\ calm' \in BOOLEAN
  BY <1>1, <1>2 DEF Recipients, RecipientServed, Each
<1>6. UNCHANGED <<clientVars, parseVars, crossed>>
  BY <1>2
<1>7. QED BY <1>4, <1>5, <1>6, QuietStep

(* The user whose turn it is.                                              *)
LEMMA RecipientFacts ==
    ASSUME TypeOK
    PROVE  /\ RecipientIndex \in 0 .. Len(users)
           /\ RecipientIndex = 0 =>
                 /\ RecipientKey = Nobody
                 /\ \A i \in 1 .. Len(users) : PseudoName[users[i].key] # recipients[turn]
           /\ RecipientIndex # 0 =>
                 /\ RecipientKey = users[RecipientIndex].key /\ RecipientKey \in Keys
                 /\ PseudoName[RecipientKey] = recipients[turn]
           /\ RecipientKey \in Keys \cup {Nobody}
<1> DEFINE places == {i \in DOMAIN users : PseudoName[users[i].key] = recipients[turn]}
<1>1. /\ Len(users) \in Nat /\ DOMAIN users = 1 .. Len(users)
      /\ \A i \in 1 .. Len(users) : users[i].key \in Keys
  BY TypeFacts
<1>2. places \in SUBSET (1 .. Len(users))
  BY <1>1
<1>3. RecipientIndex = First(places)
  BY DEF RecipientIndex
<1>4. /\ First(places) \in 0 .. Len(users)
      /\ places = {} => First(places) = 0
      /\ places # {} => First(places) \in places
  <2> HIDE DEF places
  <2>1. QED BY <1>1, <1>2, FirstFacts
<1>5. QED BY <1>1, <1>3, <1>4 DEF RecipientKey

LEMMA SendEachStep ==
    ASSUME Inv, SendEach
    PROVE  Inv'
<1>1. /\ UiType /\ Recipients /\ TypeOK /\ calm \in BOOLEAN
  BY InvFacts
<1>2. /\ UNCHANGED <<clientVars, parseVars, selected, chosen, recipients, turn, logged, calm,
                     crossed>>
      /\ SendTo(RecipientIndex) /\ sent' = Append(sent, RecipientKey)
      /\ ui = "each" /\ ui' = "eachSent"
  BY DEF SendEach
<1>3. RecipientIndex \in 0 .. Len(users) /\ RecipientKey \in Keys \cup {Nobody}
  BY <1>1, RecipientFacts
<1>4. /\ message' \in [home : Servers, dests : Seq(Addresses), settled : BOOLEAN]
      /\ RecipientServed'
  BY <1>2, <1>3, SendToFacts
<1>5. sent' \in Seq(Keys \cup {Nobody})
  BY <1>1, <1>2, <1>3, AppendProperties DEF UiType
<1>6. UiType'
  BY <1>1, <1>2, <1>4, <1>5 DEF UiType
<1>7. Recipients' /\ calm' \in BOOLEAN
  BY <1>1, <1>2 DEF Recipients, Each
<1>8. UNCHANGED <<clientVars, parseVars, crossed>>
  BY <1>2
<1>9. QED BY <1>4, <1>6, <1>7, <1>8, QuietStep

LEMMA PushEachStep ==
    ASSUME Inv, PushEach
    PROVE  Inv'
<1>1. UiType /\ Recipients /\ TypeOK /\ calm \in BOOLEAN
  BY InvFacts
<1>2. /\ ui = "eachSent" /\ ui' = "eachPushed" /\ message' = NoMessage
      /\ logged' = Append(logged, RecipientKey)
      /\ UNCHANGED <<clientVars, parseVars, selected, chosen, recipients, turn, sent, calm,
                     crossed>>
  BY DEF PushEach
<1>3. logged' \in Seq(Keys \cup {Nobody})
  BY <1>1, <1>2, RecipientFacts, AppendProperties DEF UiType
<1>4. UiType'
  BY <1>1, <1>2, <1>3, NoMessageFacts DEF UiType
<1>5. Recipients' /\ RecipientServed'
  BY <1>1, <1>2, NoMessageFacts DEF Recipients, RecipientServed, Each
<1>6. QED BY <1>1, <1>2, <1>4, <1>5, QuietStep

LEMMA DateEachStep ==
    ASSUME Inv, DateEach
    PROVE  Inv'
<1>1. /\ UiType /\ Recipients /\ RecipientServed /\ calm \in BOOLEAN
  BY InvFacts
<1>2. /\ ui = "eachPushed" /\ DateUser(RecipientKey)
      /\ UNCHANGED <<servers, parseVars>> /\ message' = message
      /\ selected' = selected /\ chosen' = chosen /\ recipients' = recipients
  BY DEF DateEach
<1>3. CASE turn < Len(recipients)
  <2>1. /\ ui' = "each" /\ turn' = turn + 1
        /\ UNCHANGED <<sent, logged, calm>>
    BY <1>3 DEF DateEach
  <2>2. turn + 1 \in 0 .. Len(recipients) /\ turn + 1 # 0
    BY <1>1, <1>3, LenProperties DEF UiType
  <2>3. UiType'
    BY <1>1, <1>2, <2>1, <2>2 DEF UiType
  <2>4. Recipients' /\ RecipientServed'
    BY <1>1, <1>2, <2>1, <2>2 DEF Recipients, RecipientServed, Each
  <2>5. QED BY <1>1, <1>2, <2>1, <2>3, <2>4, DateStep
<1>4. CASE ~(turn < Len(recipients))
  <2>1. SendEnds
    BY <1>4 DEF DateEach
  <2>2. UiType' /\ calm' \in BOOLEAN /\ Recipients' /\ RecipientServed'
    BY <1>1, <1>2, <2>1, SendEndsFacts DEF UiType
  <2>3. QED BY <1>2, <2>2, DateStep
<1>5. QED BY <1>3, <1>4

-----------------------------------------------------------------------------
LEMMA InitInv == Init => Inv
<1> SUFFICES ASSUME Init PROVE Inv
  OBVIOUS
<1>1. /\ users = <<User(PublicChat, NoServer), User(NewChat, NoServer)>>
      /\ servers = <<>> /\ parse = "idle" /\ list = <<>> /\ at = 1 /\ entry = 1
      /\ selected = 0 /\ chosen = PublicChat /\ recipients = <<>> /\ ui = "idle" /\ turn = 0
      /\ message = NoMessage /\ sent = <<>> /\ logged = <<>> /\ calm = TRUE /\ crossed = {}
  BY DEF Init
<1>2. MaxDate \in Nat
  BY ListAssumption
<1>3. PublicChat \in Keys /\ NewChat \in Keys /\ NoServer \in Servers
  BY DEF Keys, Servers
<1>4. User(PublicChat, NoServer) \in Users /\ User(NewChat, NoServer) \in Users
  BY <1>2, <1>3 DEF User, Users
<1>5. /\ users \in Seq(Users) /\ Len(users) = 2
      /\ users[1] = User(PublicChat, NoServer) /\ users[2] = User(NewChat, NoServer)
  BY <1>1, <1>4
<1>6. DOMAIN users = 1 .. 2
  BY <1>5, LenProperties
<1>7. /\ <<>> \in Seq(Addresses) /\ <<>> \in Seq(Keys \cup {Nobody})
      /\ <<>> \in Seq({PseudoName[k] : k \in Keys})
      /\ Len(<<>>) = 0 /\ ToSet(<<>>) = {} /\ IsInjective(<<>>)
  BY EmptySeq DEF ToSet, IsInjective
<1>8. Len(Entries(list)) \in Nat
  <2> DEFINE part(i) == [j \in DOMAIN <<>>[i].clients |->
                            [key |-> <<>>[i].clients[j], server |-> <<>>[i].address]]
             ss == [i \in DOMAIN <<>> |-> part(i)]
  <2>1. Entries(<<>>) = FlattenSeq(ss)
    BY DEF Entries
  <2> HIDE DEF part
  <2>2. ss = <<>>
    <3>1. DOMAIN <<>> = {}
      OBVIOUS
    <3>2. QED BY <3>1
  <2>3. <<>> \in Seq(Seq(Keys))
    BY EmptySeq
  <2>4. FlattenSeq(ss) \in Seq(Keys)
    BY <2>2, <2>3, FlattenProperties
  <2>5. QED BY <1>1, <2>1, <2>4, LenProperties
<1>9. TypeOK
  <2>1. RosterType
    BY <1>1, <1>5, <1>6, <1>7, <1>8 DEF RosterType, Parses
  <2>2. UiType
    BY <1>1, <1>3, <1>7, NoMessageFacts DEF UiType
  <2>3. QED BY <1>1, <2>1, <2>2, TypeParts
<1>10. \A i : i \in 1 .. 2 <=> i = 1 \/ i = 2
  OBVIOUS
<1>11. Roster
  <2>1. users[1].key = PublicChat /\ users[2].key = NewChat
        /\ users[1].server = NoServer /\ users[2].server = NoServer
    BY <1>5 DEF User
  <2>2. Others = {}
    BY <1>5 DEF Others
  <2>3. Fixed
    BY <1>5, <2>1, <2>2 DEF Fixed
  <2>4. ServersUpto(Len(users)) = {}
    BY <1>5, <1>10, <2>1 DEF ServersUpto
  <2>5. Progress /\ UsersHeld
    BY <1>1 DEF Progress, UsersHeld
  <2>6. ServersHeld
    BY <1>1, <1>7, <2>4 DEF ServersHeld
  <2>7. QED BY <1>1, <1>7, <2>3, <2>5, <2>6 DEF Roster
<1>12. Recipients /\ RecipientServed
  BY <1>1, NoMessageFacts DEF Recipients, Each, RecipientServed
<1>13. QED BY <1>9, <1>11, <1>12 DEF Inv

LEMMA ReceiveStep ==
    ASSUME Inv, NEW l \in Lists, Receive(l)
    PROVE  Inv'
<1>1. RosterType' /\ Roster'
  BY InvFacts, ReceiveRoster
<1>2. calm' \in BOOLEAN /\ UNCHANGED uiVars
  BY DEF Receive
<1>3. QED BY <1>1, <1>2, SocketStep

LEMMA ParseStep ==
    ASSUME Inv, MarkNext \/ Look \/ Unmark \/ Push \/ MarkOwn \/ Erase \/ Keep \/ Collect
    PROVE  Inv'
<1>1. TypeOK /\ Roster /\ calm \in BOOLEAN
  BY InvFacts
<1>2. RosterType' /\ Roster'
  BY <1>1, MarkNextRoster, LookRoster, UnmarkRoster, PushRoster, MarkOwnRoster,
     EraseRoster, KeepRoster, CollectRoster
<1>3. UNCHANGED <<uiVars, calm>>
  BY DEF MarkNext, Look, Unmark, Push, NextEntry, MarkOwn, Erase, Keep, Collect
<1>4. calm' \in BOOLEAN /\ UNCHANGED uiVars
  BY <1>1, <1>3
<1>5. QED BY <1>2, <1>4, SocketStep

(* Whatever the two threads do between each other's steps, every loop of   *)
(* ParseMessage over the vector keeps to what it is for, up to the entry   *)
(* it is at, unless a sort falls into it; the fixed entries and the origin *)
(* of the others survive even that (ClientSocket::ParseMessage of a        *)
(* client_list, Client::UpdateDate).                                       *)
THEOREM Inductive == Inv /\ [Next]_vars => Inv'
<1> SUFFICES ASSUME Inv, [Next]_vars PROVE Inv'
  OBVIOUS
<1>1. CASE \E l \in Lists : Receive(l)
  BY <1>1, ReceiveStep
<1>2. CASE MarkNext \/ Look \/ Unmark \/ Push \/ MarkOwn \/ Erase \/ Keep \/ Collect
  BY <1>2, ParseStep
<1>3. CASE \E i \in DOMAIN users : Click(i)
  BY <1>3, ClickStep
<1>4. CASE \E i \in DOMAIN users : Pick(i)
  BY <1>4, PickStep
<1>5. CASE \E n \in DOMAIN recipients : Unpick(n)
  BY <1>5, UnpickStep
<1>6. CASE Send
  BY <1>6, SendStep
<1>7. CASE PushMessage
  BY <1>7, PushMessageStep
<1>8. CASE UpdateDate
  BY <1>8, UpdateDateStep
<1>9. CASE BeginRound
  BY <1>9, BeginRoundStep
<1>10. CASE SendEach
  BY <1>10, SendEachStep
<1>11. CASE PushEach
  BY <1>11, PushEachStep
<1>12. CASE DateEach
  BY <1>12, DateEachStep
<1>13. CASE UNCHANGED vars
  <2>1. UNCHANGED <<clientVars, parseVars, crossed>> /\ UNCHANGED uiVars /\ calm' = calm
    BY <1>13 DEF vars
  <2>2. Roster' /\ RosterType' /\ calm' \in BOOLEAN
    BY <2>1, InvFacts, RosterStays
  <2>3. QED BY <2>1, <2>2, SocketStep
<1>14. QED
  BY <1>1, <1>2, <1>3, <1>4, <1>5, <1>6, <1>7, <1>8, <1>9, <1>10, <1>11, <1>12, <1>13
     DEF Next

LEMMA Invariant == Spec => []Inv
<1>1. QED BY InitInv, Inductive, PTL DEF Spec

(* Types of the client's list of users, its copy of the frame and the      *)
(* state of the window's sends (Client.h, ClientSocket.cpp 567-618,        *)
(* ChatApplication.cpp 612-655); the loops of ParseMessage stay within the *)
(* vector wherever a sort falls.                                           *)
THEOREM TypeCorrect == Spec => []TypeOK
<1>1. Inv => TypeOK
  BY DEF Inv
<1>2. QED BY <1>1, Invariant, PTL

(* A client_list that has been applied, and that no sort of the window     *)
(* crossed, leaves exactly the users it brings, each once with its server, *)
(* none marked, and uniqueServerList names exactly their servers, whatever *)
(* the lists before left behind; one whose loop over the servers a sort    *)
(* crossed still has the first, and the other way round                    *)
(* (ClientSocket.cpp 567-618).                                             *)
THEOREM RosterStaysApplied == Spec => []RosterApplied
<1>1. ASSUME Inv PROVE RosterApplied
  <2>1. SUFFICES ASSUME parse = "idle", list # <<>> PROVE RosterApplied
    BY DEF RosterApplied
  <2>2. /\ Fixed /\ IsInjective(servers) /\ list \in Lists
        /\ "users" \notin crossed => Applied
        /\ "servers" \notin crossed => ToSet(servers) = ServersUpto(Len(users))
        /\ Len(users) \in Nat /\ DOMAIN users = 1 .. Len(users)
    BY <1>1, <2>1, InvFacts, TypeFacts DEF Roster, UsersHeld, ServersHeld, RosterType
  <2>3. ServersUpto(Len(users)) = {users[i].server : i \in Others}
    <3>1. ASSUME NEW i \in Others PROVE users[i].server \in ServersUpto(Len(users))
      <4>1. PICK l \in Lists : Entry(users[i]) \in ToSet(Entries(l))
        BY <2>2 DEF Listings, Fixed
      <4>2. Entry(users[i]).server # NoServer
        BY <4>1, ListAssumption
      <4>3. i \in 1 .. Len(users)
        BY <2>2 DEF Others
      <4>4. QED BY <4>2, <4>3 DEF ServersUpto, Entry
    <3>2. ASSUME NEW i \in 1 .. Len(users), users[i].server # NoServer PROVE i \in Others
      BY <2>2, <3>2 DEF Fixed, Others
    <3>3. QED BY <3>1, <3>2 DEF ServersUpto
  <2>4. ASSUME "users" \notin crossed
        PROVE  /\ {Entry(users[i]) : i \in Others} = Brought
               /\ \A i, j \in Others : users[i].key = users[j].key => i = j
               /\ \A i \in DOMAIN users : ~users[i].marked
    <3>1. Showing /\ \A i \in DOMAIN users : ~users[i].marked
      BY <2>2, <2>4 DEF Applied
    <3>2. Fresh = Others
      BY <2>2, <3>1 DEF Fresh, Others
    <3>3. ASSUME NEW i \in Others PROVE Entry(users[i]) \in Brought
      <4>1. users[i].key \in BroughtKeys /\ Entry(users[i]) \in Listings
        BY <2>2, <3>1, <3>2 DEF Showing, Fixed
      <4>2. PICK e \in ToSet(Entries(list)) : e.key = users[i].key
        BY <4>1 DEF BroughtKeys, KeysOf
      <4>3. e \in Listings /\ Entry(users[i]).key = e.key
        BY <2>2, <4>2 DEF Listings, Entry
      <4>4. Entry(users[i]) = e
        BY <4>1, <4>3, OneListing
      <4>5. e.key \in Readable \ {Own}
        BY <4>1, <4>2 DEF BroughtKeys
      <4>6. QED BY <4>2, <4>4, <4>5 DEF Brought
    <3>4. ASSUME NEW e \in Brought PROVE \E i \in Others : Entry(users[i]) = e
      <4>1. e \in ToSet(Entries(list)) /\ e.key \in Readable \ {Own}
        BY DEF Brought
      <4>2. e.key \in BroughtKeys /\ e \in Listings
        BY <2>2, <4>1 DEF BroughtKeys, KeysOf, Listings
      <4>3. PICK i \in Others : users[i].key = e.key
        BY <3>1, <3>2, <4>2 DEF Showing
      <4>4. Entry(users[i]) \in Listings /\ Entry(users[i]).key = e.key
        BY <2>2, <4>3 DEF Fixed, Entry
      <4>5. QED BY <4>2, <4>3, <4>4, OneListing
    <3>5. {Entry(users[i]) : i \in Others} = Brought
      BY <3>3, <3>4
    <3>6. QED BY <3>1, <3>2, <3>5 DEF Showing
  <2>5. users[1].key = PublicChat /\ users[2].key = NewChat
    BY <2>2 DEF Fixed
  <2>6. QED BY <2>2, <2>3, <2>4, <2>5 DEF RosterApplied, Entry
<1>2. QED BY <1>1, Invariant, PTL

(* A message sent while no client_list is being applied, and after one     *)
(* whose loop over the servers no sort crossed, is addressed to the server *)
(* of its recipient (ClientSocket::SendChatMessage takes                   *)
(* destination_servers from uniqueServerList).                             *)
THEOREM RecipientsServed == Spec => []RecipientServed
<1>1. Inv => RecipientServed
  BY DEF Inv
<1>2. QED BY <1>1, Invariant, PTL

-----------------------------------------------------------------------------
(* The round over the recipients: of one that no list disturbs, each       *)
(* message whose recipient's turn is over went to a user with that         *)
(* pseudonym, and is written to the same user.                             *)
Over == IF ui = "each" THEN turn - 1 ELSE turn

Reaches(us, key, pseudo) ==
    IF NamedIn(us, pseudo) = {} THEN key = Nobody ELSE key \in NamedIn(us, pseudo)

Reached ==
    /\ parse = "idle"
    /\ Len(sent) = Over
    /\ \A n \in 1 .. Over : Reaches(users, sent[n], recipients[n])
    /\ IF ui = "eachSent" THEN sent = Append(logged, RecipientKey) ELSE logged = sent

Round ==
    /\ ui \notin Each => sent = <<>> /\ logged = <<>>
    /\ calm /\ ui \in Each => Reached

LEMMA NamedByKeys ==
    ASSUME NEW us, NEW pseudo
    PROVE  NamedIn(us, pseudo) =
              {k \in {us[i].key : i \in DOMAIN us} : PseudoName[k] = pseudo}
BY DEF NamedIn, ToSet

(* A sort leaves everyone with a pseudonym in the list.                    *)
LEMMA NamedSorted ==
    ASSUME UserKeys' = UserKeys, NEW pseudo
    PROVE  NamedIn(users', pseudo) = NamedIn(users, pseudo)
<1>1. {users'[i].key : i \in DOMAIN users'} = {users[i].key : i \in DOMAIN users}
  BY DEF UserKeys
<1>2. /\ NamedIn(users', pseudo) =
           {k \in {users'[i].key : i \in DOMAIN users'} : PseudoName[k] = pseudo}
      /\ NamedIn(users, pseudo) =
           {k \in {users[i].key : i \in DOMAIN users} : PseudoName[k] = pseudo}
  BY NamedByKeys, Zenon
<1>3. QED BY <1>1, <1>2

LEMMA RecipientReached ==
    ASSUME TypeOK
    PROVE  Reaches(users, RecipientKey, recipients[turn])
<1> DEFINE named == NamedIn(users, recipients[turn])
<1>1. /\ DOMAIN users = 1 .. Len(users) /\ Len(users) \in Nat
      /\ named = {k \in {users[i].key : i \in DOMAIN users} : PseudoName[k] = recipients[turn]}
  BY TypeFacts, NamedByKeys
<1> HIDE DEF named
<1>2. CASE RecipientIndex = 0
  <2>1. RecipientKey = Nobody /\ named = {}
    BY <1>1, <1>2, RecipientFacts
  <2>2. QED BY <2>1 DEF Reaches, named
<1>3. CASE RecipientIndex # 0
  <2>1. RecipientIndex \in DOMAIN users
    BY <1>1, <1>3, RecipientFacts
  <2>2. RecipientKey \in named
    BY <1>1, <1>3, <2>1, RecipientFacts
  <2>3. QED BY <2>2 DEF Reaches, named
<1>4. QED BY <1>2, <1>3

LEMMA RoundBegin ==
    ASSUME Round, BeginRound
    PROVE  Round'
<1>1. /\ ui = "idle" /\ ui' = "each" /\ turn' = 1 /\ calm' = (parse = "idle")
      /\ parse' = parse /\ sent' = sent /\ logged' = logged
  BY DEF BeginRound, parseVars
<1>2. sent' = <<>> /\ logged' = <<>>
  BY <1>1 DEF Round, Each
<1>3. Over' = 0 /\ Len(sent') = 0 /\ 1 .. 0 = {}
  BY <1>1, <1>2 DEF Over
<1>4. calm' => Reached'
  BY <1>1, <1>2, <1>3 DEF Reached
<1>5. QED BY <1>1, <1>4 DEF Round, Each

LEMMA RoundSend ==
    ASSUME Inv, Round, SendEach
    PROVE  Round'
<1>1. /\ UNCHANGED <<users, parse, recipients, turn, logged, calm>>
      /\ sent' = Append(sent, RecipientKey) /\ ui = "each" /\ ui' = "eachSent"
  BY DEF SendEach, clientVars, parseVars
<1>2. SUFFICES ASSUME calm PROVE Reached'
  BY <1>1 DEF Round, Each
<1>3. TypeOK /\ turn \in Nat /\ sent \in Seq(Keys \cup {Nobody})
  BY InvFacts, LenProperties DEF UiType
<1>4. /\ parse = "idle" /\ Len(sent) = turn - 1 /\ logged = sent
      /\ \A n \in 1 .. turn - 1 : Reaches(users, sent[n], recipients[n])
  BY <1>1, <1>2 DEF Round, Reached, Each, Over
<1>5. RecipientKey' = RecipientKey
  BY <1>1 DEF RecipientKey, RecipientIndex
<1>6. /\ Len(sent') = turn
      /\ \A n \in 1 .. turn - 1 : sent'[n] = sent[n]
      /\ sent'[turn] = RecipientKey
  <2>1. RecipientKey \in Keys \cup {Nobody}
    BY <1>3, RecipientFacts
  <2>2. /\ Len(sent') = Len(sent) + 1
        /\ \A n \in 1 .. Len(sent) : sent'[n] = sent[n]
        /\ sent'[Len(sent) + 1] = RecipientKey
    BY <1>1, <1>3, <2>1, AppendProperties
  <2>3. Len(sent) + 1 = turn
    BY <1>3, <1>4
  <2>4. QED BY <1>4, <2>2, <2>3
<1>7. ASSUME NEW n \in 1 .. turn PROVE Reaches(users, sent'[n], recipients[n])
  <2>1. CASE n = turn
    BY <1>3, <1>6, <2>1, RecipientReached
  <2>2. CASE n # turn
    <3>1. n \in 1 .. turn - 1
      BY <1>3, <2>2
    <3>2. QED BY <1>4, <1>6, <3>1
  <2>3. QED BY <2>1, <2>2
<1>8. Over' = turn
  BY <1>1 DEF Over
<1>9. QED BY <1>1, <1>4, <1>5, <1>6, <1>7, <1>8 DEF Reached

LEMMA RoundPush ==
    ASSUME Round, PushEach
    PROVE  Round'
<1>1. /\ UNCHANGED <<users, parse, recipients, turn, sent, calm>>
      /\ logged' = Append(logged, RecipientKey)
      /\ ui = "eachSent" /\ ui' = "eachPushed"
  BY DEF PushEach, clientVars, parseVars
<1>2. Over' = Over
  BY <1>1 DEF Over
<1>3. Reached => Reached'
  BY <1>1, <1>2 DEF Reached
<1>4. QED BY <1>1, <1>3 DEF Round, Each

LEMMA RoundDate ==
    ASSUME Inv, Round, DateEach
    PROVE  Round'
<1>1. /\ ui = "eachPushed" /\ DateUser(RecipientKey)
      /\ UNCHANGED <<servers, parseVars>> /\ parse' = parse /\ recipients' = recipients
  BY DEF DateEach, parseVars
<1>2. CASE turn < Len(recipients)
  <2>1. ui' = "each" /\ turn' = turn + 1 /\ UNCHANGED <<sent, logged, calm>>
    BY <1>2 DEF DateEach
  <2>2. TypeOK /\ Roster /\ turn \in Int
    BY InvFacts DEF UiType
  <2>3. \A p : NamedIn(users', p) = NamedIn(users, p)
    BY <1>1, <2>2, RosterSorted, NamedSorted
  <2>4. \A k, p : Reaches(users', k, p) <=> Reaches(users, k, p)
    BY <2>3 DEF Reaches
  <2>5. Over' = Over
    BY <1>1, <2>1, <2>2 DEF Over
  <2>6. Reached => Reached'
    BY <1>1, <2>1, <2>4, <2>5 DEF Reached
  <2>7. QED BY <1>1, <2>1, <2>6 DEF Round, Each
<1>3. CASE ~(turn < Len(recipients))
  <2>1. ui' = "idle" /\ sent' = <<>> /\ logged' = <<>>
    BY <1>3 DEF DateEach, SendEnds
  <2>2. QED BY <2>1 DEF Round, Each
<1>4. QED BY <1>2, <1>3

LEMMA RoundInductive ==
    ASSUME Inv, Round, [Next]_vars
    PROVE  Round'
<1>1. CASE \E l \in Lists : Receive(l)
  <2>1. /\ ui' = ui /\ sent' = sent /\ logged' = logged /\ calm' = (turn = 0)
        /\ ui \in Each => turn # 0
    BY <1>1, InvFacts DEF Receive, uiVars, sendVars, Recipients
  <2>2. QED BY <2>1 DEF Round
<1>2. CASE MarkNext \/ Look \/ Unmark \/ Push \/ MarkOwn \/ Erase \/ Keep \/ Collect
  <2>1. parse # "idle"
    BY <1>2 DEF MarkNext, Look, Unmark, Push, MarkOwn, Erase, Keep, Collect
  <2>2. UNCHANGED <<uiVars, calm>>
    BY <1>2 DEF MarkNext, Look, Unmark, Push, NextEntry, MarkOwn, Erase, Keep, Collect
  <2>3. ui' = ui /\ sent' = sent /\ logged' = logged /\ calm' = calm /\ ~Reached
    BY <2>1, <2>2 DEF uiVars, sendVars, Reached
  <2>4. QED BY <2>3 DEF Round
<1>3. CASE \/ \E i \in DOMAIN users : Click(i) \/ Pick(i)
           \/ \E n \in DOMAIN recipients : Unpick(n)
  <2>1. ui = "idle" /\ ui' = ui /\ sent' = sent /\ logged' = logged
    BY <1>3 DEF Click, Pick, Unpick, sendVars
  <2>2. QED BY <2>1 DEF Round, Each
<1>4. CASE Send
  BY <1>4 DEF Send, Round, Each
<1>5. CASE PushMessage
  BY <1>5 DEF PushMessage, Round, Each
<1>6. CASE UpdateDate
  BY <1>6 DEF UpdateDate, SendEnds, Round, Each
<1>7. CASE BeginRound
  BY <1>7, RoundBegin
<1>8. CASE SendEach
  BY <1>8, RoundSend
<1>9. CASE PushEach
  BY <1>9, RoundPush
<1>10. CASE DateEach
  BY <1>10, RoundDate
<1>11. CASE UNCHANGED vars
  <2>1. UNCHANGED <<users, parse, recipients, ui, turn, sent, logged, calm>>
    BY <1>11 DEF vars, clientVars, parseVars, uiVars, sendVars
  <2>2. RecipientKey' = RecipientKey /\ Over' = Over
    BY <2>1 DEF RecipientKey, RecipientIndex, Over
  <2>3. Reached => Reached'
    BY <2>1, <2>2 DEF Reached
  <2>4. QED BY <2>1, <2>3 DEF Round
<1>12. QED
  BY <1>1, <1>2, <1>3, <1>4, <1>5, <1>6, <1>7, <1>8, <1>9, <1>10, <1>11 DEF Next

(* A message of the New Chat page that no client_list disturbs goes once   *)
(* for every pseudonym picked to a user of the list who has it, or to      *)
(* nobody if none has it, and is written to the conversation of the user   *)
(* it went to, whether or not pseudonyms are shared (the loop over the     *)
(* recipients, ChatApplication.cpp 625-640, with a look up of the key at   *)
(* each of three steps and a sort after each recipient).                   *)
THEOREM RoundsReachPicked == Spec => RoundReachesPicked
<1> DEFINE A == DateEach /\ turn = Len(recipients) /\ calm =>
                   /\ Len(sent) = Len(recipients)
                   /\ logged = sent
                   /\ \A n \in DOMAIN recipients :
                         LET named == NamedIn(users, recipients[n])
                         IN  IF named = {} THEN sent[n] = Nobody ELSE sent[n] \in named
<1>1. Init => Round
  BY DEF Init, Round, Each
<1>2. Inv /\ Round /\ [Next]_vars => Round'
  BY RoundInductive
<1>3. ASSUME Inv, Round, DateEach, turn = Len(recipients), calm
      PROVE  /\ Len(sent) = Len(recipients)
             /\ logged = sent
             /\ \A n \in DOMAIN recipients :
                   LET named == NamedIn(users, recipients[n])
                   IN  IF named = {} THEN sent[n] = Nobody ELSE sent[n] \in named
  <2>1. ui = "eachPushed"
    BY <1>3 DEF DateEach
  <2>2. Reached
    BY <1>3, <2>1 DEF Round, Each
  <2>3. Over = turn
    BY <2>1 DEF Over
  <2>4. DOMAIN recipients = 1 .. turn
    BY <1>3, InvFacts, LenProperties DEF UiType
  <2>5. \A n \in 1 .. turn : Reaches(users, sent[n], recipients[n])
    BY <2>2, <2>3 DEF Reached
  <2>6. Len(sent) = Len(recipients) /\ logged = sent
    BY <1>3, <2>1, <2>2, <2>3 DEF Reached
  <2>7. QED BY <2>4, <2>5, <2>6 DEF Reaches
<1>4. Inv /\ Round => A
  BY <1>3
<1>5. Inv /\ Round => [A]_vars
  BY <1>4
<1>6. Spec => []Round
  BY <1>1, <1>2, Invariant, PTL DEF Spec
<1>7. Spec => [][A]_vars
  BY <1>5, <1>6, Invariant, PTL
<1>8. QED BY <1>7, PTL DEF RoundReachesPicked
=============================================================================
