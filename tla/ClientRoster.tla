---------------------------- MODULE ClientRoster ----------------------------
(***************************************************************************)
(* The chat client's list of users, and what the window does with it.      *)
(*                                                                         *)
(* Two threads use Client::activeUsers without a lock.  The socket thread  *)
(* applies each client_list frame in ClientSocket::ParseMessage: it marks  *)
(* every entry, unmarks or adds the users of the frame, removes what is    *)
(* still marked and rebuilds uniqueServerList, in loops that go over the   *)
(* vector by index.  The window thread keeps the selected conversation as  *)
(* an index into the same vector, and sends a message in three steps, each *)
(* of which reads the vector at that index; the third sorts it.  On the    *)
(* New Chat page it keeps the pseudonyms of the users picked, and takes    *)
(* the three steps for each of them, looking the key up every time.        *)
(*                                                                         *)
(* Every access of ParseMessage to an entry is an action of its own, and   *)
(* so is each of the three steps of a send; the sort is one step.  What an *)
(* erase, an append and a sort make of the vector while the other thread   *)
(* is in the middle of one of them is not modelled.                        *)
(***************************************************************************)
EXTENDS Integers, Sequences, SequencesExt

CONSTANTS
    Own,            \* this client's public key
    PublicChat,     \* the "public keys" of the two fixed entries
    NewChat,
    NoServer,       \* the empty serverOfOrigin of the fixed entries
    Nobody,         \* the empty key
    PseudoName,     \* [public keys -> pseudonyms], drawn from the key
    Readable,       \* the keys CreateFingerprint can make a fingerprint of
    Lists,          \* the "servers" arrays a client_list frame may carry
    MaxDate,        \* bound on the dates, ordered as the strings compare
    MaxUsers,       \* bound on the entries
    MaxRecipients   \* bound on the recipients of a new chat

Entries(list) ==
    FlattenSeq([i \in DOMAIN list |->
        [j \in DOMAIN list[i].clients |->
            [key |-> list[i].clients[j], server |-> list[i].address]]])

KeysOf(list) == {e.key : e \in ToSet(Entries(list))}

(* A client_list holds the receiver's key (ServerHost!OwnKeyShown): without*)
(* it MarkClient would be called with index -1.  A key is one connection's,*)
(* hence of one server, whose address has at least the colon.              *)
ASSUME ListAssumption ==
    /\ \A list \in Lists : Own \in KeysOf(list)
    /\ \A list \in Lists : {PublicChat, NewChat} \cap KeysOf(list) = {}
    /\ \A l, m \in Lists : \A d \in ToSet(Entries(l)), e \in ToSet(Entries(m)) :
            d.key = e.key => d.server = e.server
    /\ \A list \in Lists : Nobody \notin KeysOf(list)
    /\ \A list \in Lists : \A e \in ToSet(Entries(list)) : e.server # NoServer
    /\ \A list \in Lists : /\ list \in Seq(ToSet(list))
                           /\ \A i \in DOMAIN list :
                                 list[i].clients \in Seq(ToSet(list[i].clients))
    /\ PublicChat # NewChat /\ Nobody \notin {PublicChat, NewChat}
    /\ Own \in Readable
    /\ {MaxDate, MaxUsers, MaxRecipients} \subseteq Nat

VARIABLES
    users,          \* activeUsers
    servers,        \* uniqueServerList
    parse,          \* where ParseMessage is
    list,           \* the frame it applies, or applied last
    at,             \* the entry of activeUsers its loop is at
    entry,          \* the user of the frame it is at
    selected,       \* selectedUser, an index from 0
    chosen,         \* the key of the entry clicked last
    recipients,     \* multipleRecipientsPseudoName
    ui,             \* where the send of a message is
    turn,           \* the recipient it is at, on the New Chat page
    message,        \* history: the message just sent
    sent, logged,   \* history: whom the messages of a new chat went to, and
                    \* the conversations they were written to
    calm,           \* history: no list was being applied meanwhile
    crossed         \* history: the loops of ParseMessage a sort fell into

clientVars == <<users, servers>>
parseVars == <<parse, list, at, entry>>
sendVars == <<ui, turn, message, sent, logged>>
uiVars == <<selected, chosen, recipients, sendVars>>
vars == <<clientVars, parseVars, uiVars, calm, crossed>>

Parses == {"idle", "mark", "look", "found", "missing", "remove", "servers"}

User(key, server) == [key |-> key, server |-> server, date |-> 0, marked |-> FALSE]

(* A message on its way: the recipient's server, the destination_servers,  *)
(* and whether no list was being applied and no sort fell into the loop    *)
(* that made those servers out.                                            *)
NoMessage == [home |-> NoServer, dests |-> <<>>, settled |-> TRUE]

Init ==
    /\ users = <<User(PublicChat, NoServer), User(NewChat, NoServer)>>
    /\ servers = <<>>
    /\ parse = "idle"
    /\ list = <<>>
    /\ at = 1
    /\ entry = 1
    /\ selected = 0
    /\ chosen = PublicChat
    /\ recipients = <<>>
    /\ ui = "idle"
    /\ turn = 0
    /\ message = NoMessage
    /\ sent = <<>>
    /\ logged = <<>>
    /\ calm = TRUE
    /\ crossed = {}

-----------------------------------------------------------------------------
(* The socket thread: ParseMessage of a client_list.                       *)

Parse(from, to) == parse = from /\ parse' = to

Mark(i, marked) == users' = [users EXCEPT ![i].marked = marked]

(* A frame arrives; the loop that marks every entry begins.                *)
Receive(l) ==
    /\ Parse("idle", "mark")
    /\ list' = l
    /\ crossed' = {}
    /\ calm' = (turn = 0)
    /\ UNCHANGED <<clientVars, at, entry, uiVars>>

(* The loop goes to the next entry, or after the last to another loop.     *)
OnTo(after) ==
    IF at = Len(users) THEN parse' = after /\ at' = 1
    ELSE at' = at + 1 /\ UNCHANGED parse

MarkNext ==
    /\ parse = "mark"
    /\ Mark(at, TRUE)
    /\ OnTo("look")
    /\ UNCHANGED <<servers, list, entry, uiVars, calm, crossed>>

(* The loop over the users of the frame looks each up with GetClientIndex, *)
(* and after them the own key is looked up.                                *)
InFrame == entry \in DOMAIN Entries(list)

Sought == IF InFrame THEN Entries(list)[entry].key ELSE Own

Look ==
    /\ parse = "look"
    /\ IF users[at].key = Sought
       THEN parse' = "found" /\ UNCHANGED at
       ELSE OnTo("missing")
    /\ UNCHANGED <<clientVars, list, entry, uiVars, calm, crossed>>

NextEntry ==
    /\ parse' = "look"
    /\ at' = 1
    /\ entry' = entry + 1
    /\ UNCHANGED <<servers, list, uiVars, calm, crossed>>

(* Faulty: an entry that is known stays marked.                            *)
UnmarkNone ==
    /\ parse = "found"
    /\ InFrame
    /\ NextEntry
    /\ UNCHANGED users

(* A user of the frame that is known is unmarked, at the index it had.     *)
Unmark ==
    /\ parse = "found"
    /\ InFrame
    /\ Mark(at, FALSE)
    /\ NextEntry

(* PushActiveUser of one that is not, which returns without a fingerprint. *)
Push ==
    /\ parse = "missing"
    /\ InFrame
    /\ LET e == Entries(list)[entry]
       IN  IF e.key \in Readable
           THEN Len(users) < MaxUsers /\ users' = Append(users, User(e.key, e.server))
           ELSE UNCHANGED users
    /\ NextEntry

(* The own key is marked and the fixed entries, which no sort moves, are   *)
(* unmarked.  Without the own key activeUsers[-1] is written: undefined,   *)
(* and a write to no entry where the program goes on.                      *)
MarkOwn ==
    /\ parse \in {"found", "missing"}
    /\ ~InFrame
    /\ users' = [i \in DOMAIN users |->
                    IF i <= 2 THEN [users[i] EXCEPT !.marked = FALSE]
                    ELSE IF parse = "found" /\ i = at THEN [users[i] EXCEPT !.marked = TRUE]
                    ELSE users[i]]
    /\ parse' = "remove"
    /\ at' = 1
    /\ UNCHANGED <<servers, list, entry, uiVars, calm, crossed>>

(* RemoveMarkedClients: the first marked entry is erased and the loop      *)
(* begins again, until it meets none.                                      *)
Erase ==
    /\ parse = "remove"
    /\ users[at].marked
    /\ users' = RemoveAt(users, at)
    /\ at' = 1
    /\ UNCHANGED <<servers, parse, list, entry, uiVars, calm, crossed>>

Keep ==
    /\ parse = "remove"
    /\ ~users[at].marked
    /\ OnTo("servers")
    /\ servers' = IF at = Len(users) THEN <<>> ELSE servers
    /\ UNCHANGED <<users, list, entry, uiVars, calm, crossed>>

(* Faulty: does not leave out the dummy server of the fixed entries.       *)
AddServerOfAnyone(found, u) ==
    IF Contains(found, u.server) THEN found ELSE Append(found, u.server)

(* The servers of the users, each once.                                    *)
AddServer(found, u) ==
    IF u.server = NoServer \/ Contains(found, u.server) THEN found
    ELSE Append(found, u.server)

(* Faulty: the loop over the users ends one short.                         *)
CollectShort ==
    /\ parse = "servers"
    /\ servers' = IF at = Len(users) THEN servers ELSE AddServer(servers, users[at])
    /\ OnTo("idle")
    /\ entry' = IF at = Len(users) THEN 1 ELSE entry
    /\ UNCHANGED <<users, list, uiVars, calm, crossed>>

(* The loop that rebuilds uniqueServerList.                                *)
Collect ==
    /\ parse = "servers"
    /\ servers' = AddServer(servers, users[at])
    /\ OnTo("idle")
    /\ entry' = IF at = Len(users) THEN 1 ELSE entry
    /\ UNCHANGED <<users, list, uiVars, calm, crossed>>

-----------------------------------------------------------------------------
(* The window thread.                                                      *)

(* The first of some places of a list, 0 here for "none".                  *)
First(places) ==
    IF places = {} THEN 0 ELSE CHOOSE i \in places : \A j \in places : i <= j

(* GetClientIndex: the first entry with that key.                          *)
ClientIndex(us, key) == First({i \in DOMAIN us : us[i].key = key})

(* An entry of the list is clicked; the own one has no button.  Any page   *)
(* but New Chat forgets the recipients.                                    *)
Click(i) ==
    /\ ui = "idle"
    /\ users[i].key # Own
    /\ selected' = i - 1
    /\ chosen' = users[i].key
    /\ recipients' = IF i = 2 THEN recipients ELSE <<>>
    /\ UNCHANGED <<clientVars, parseVars, sendVars, calm, crossed>>

(* activeUsers[selectedUser].  Past the end the behaviour is undefined,    *)
(* and these runs stop there.                                              *)
InRange == selected + 1 \in DOMAIN users
SelectedKey == users[selected + 1].key

OnNewChat == selected = 1

(* The pseudonym of an entry joins the recipients unless it is there.  The *)
(* entry is the one clicked, or for Enter the first match an earlier frame *)
(* showed, an index that may mean any entry by now.                        *)
Pick(i) ==
    /\ ui = "idle"
    /\ OnNewChat
    /\ Len(recipients) < MaxRecipients
    /\ i > 2
    /\ ~Contains(recipients, PseudoName[users[i].key])
    /\ recipients' = Append(recipients, PseudoName[users[i].key])
    /\ UNCHANGED <<clientVars, parseVars, selected, chosen, sendVars, calm, crossed>>

Unpick(n) ==
    /\ ui = "idle"
    /\ OnNewChat
    /\ recipients' = RemoveAt(recipients, n)
    /\ UNCHANGED <<clientVars, parseVars, selected, chosen, sendVars, calm, crossed>>

(* SendChatMessage to the entry at i: 0 is nobody, whose empty key does    *)
(* not encrypt, and nothing is sent.                                       *)
SendTo(i) ==
    message' = IF i = 0 THEN NoMessage
               ELSE [home |-> users[i].server, dests |-> servers,
                     settled |-> parse = "idle" /\ "servers" \notin crossed]

Send ==
    /\ ui = "idle"
    /\ ~OnNewChat
    /\ InRange
    /\ SendTo(selected + 1)
    /\ ui' = "sent"
    /\ UNCHANGED <<clientVars, parseVars, selected, chosen, recipients, turn, sent, logged, calm,
                   crossed>>

PushMessage ==
    /\ ui = "sent"
    /\ InRange
    /\ message' = NoMessage
    /\ ui' = "pushed"
    /\ UNCHANGED <<clientVars, parseVars, selected, chosen, recipients, turn, sent, logged, calm,
                   crossed>>

(* UpdateDate: the user gets a new date, everything from the third entry   *)
(* on is sorted by date, latest first (std::sort leaves entries of equal   *)
(* date in any order), and the last index of the user is taken.            *)
Dated(us, key, date) ==
    [i \in DOMAIN us |-> IF us[i].key = key THEN [us[i] EXCEPT !.date = date] ELSE us[i]]

Sorted(us) ==
    {[i \in DOMAIN us |-> IF i <= 2 THEN us[i] ELSE us[p[i]]] :
        p \in {q \in Bijection(3 .. Len(us), 3 .. Len(us)) :
                  \A i, j \in 3 .. Len(us) : i < j => us[q[i]].date >= us[q[j]].date}}

LastIndex(us, key, i) ==
    /\ i \in DOMAIN us
    /\ us[i].key = key
    /\ \A j \in DOMAIN us : us[j].key = key => j <= i

CrossedLoop == IF parse = "servers" THEN "servers" ELSE "users"

DateUser(key) ==
    /\ \E date \in 1 .. MaxDate : users' \in Sorted(Dated(users, key, date))
    /\ crossed' = IF parse = "idle" THEN crossed ELSE crossed \cup {CrossedLoop}

(* The send is over, and what was kept of it is let go.                    *)
SendEnds ==
    /\ ui' = "idle"
    /\ turn' = 0
    /\ sent' = <<>>
    /\ logged' = <<>>
    /\ calm' = TRUE

UpdateDate ==
    /\ ui = "pushed"
    /\ InRange
    /\ DateUser(SelectedKey)
    /\ \E i \in DOMAIN users' : LastIndex(users', SelectedKey, i) /\ selected' = i - 1
    /\ SendEnds
    /\ UNCHANGED <<servers, parseVars, chosen, recipients, message>>

(* The loop over the recipients.                                           *)
BeginRound ==
    /\ ui = "idle"
    /\ OnNewChat
    /\ recipients # <<>>
    /\ ui' = "each"
    /\ turn' = 1
    /\ calm' = (parse = "idle")
    /\ UNCHANGED <<clientVars, parseVars, selected, chosen, recipients, message, sent, logged,
                   crossed>>

(* Faulty: takes the users in the order of the list.                       *)
RecipientIndexByTurn == IF turn + 2 \in DOMAIN users THEN turn + 2 ELSE 0

(* GetKeyFromPseudoName of the recipient whose turn it is: the first entry *)
(* with that pseudonym, 0 for none.                                        *)
RecipientIndex ==
    First({i \in DOMAIN users : PseudoName[users[i].key] = recipients[turn]})

RecipientKey == IF RecipientIndex = 0 THEN Nobody ELSE users[RecipientIndex].key

SendEach ==
    /\ ui = "each"
    /\ SendTo(RecipientIndex)
    /\ sent' = Append(sent, RecipientKey)
    /\ ui' = "eachSent"
    /\ UNCHANGED <<clientVars, parseVars, selected, chosen, recipients, turn, logged, calm, crossed>>

PushEach ==
    /\ ui = "eachSent"
    /\ logged' = Append(logged, RecipientKey)
    /\ message' = NoMessage
    /\ ui' = "eachPushed"
    /\ UNCHANGED <<clientVars, parseVars, selected, chosen, recipients, turn, sent, calm, crossed>>

(* The index UpdateDate returns is not used here, so the page stays.       *)
DateEach ==
    /\ ui = "eachPushed"
    /\ DateUser(RecipientKey)
    /\ IF turn < Len(recipients)
       THEN ui' = "each" /\ turn' = turn + 1 /\ UNCHANGED <<sent, logged, calm>>
       ELSE SendEnds
    /\ UNCHANGED <<servers, parseVars, selected, chosen, recipients, message>>

-----------------------------------------------------------------------------
Next ==
    \/ \E l \in Lists : Receive(l)
    \/ MarkNext \/ Look \/ Unmark \/ Push \/ MarkOwn \/ Erase \/ Keep \/ Collect
    \/ \E i \in DOMAIN users : Click(i)
    \/ \E i \in DOMAIN users : Pick(i)
    \/ \E n \in DOMAIN recipients : Unpick(n)
    \/ Send \/ PushMessage \/ UpdateDate
    \/ BeginRound \/ SendEach \/ PushEach \/ DateEach

Spec == Init /\ [][Next]_vars

-----------------------------------------------------------------------------
Keys == {PublicChat, NewChat} \cup UNION {KeysOf(l) : l \in Lists}
Addresses == UNION {{l[i].address : i \in DOMAIN l} : l \in Lists}

TypeOK ==
    /\ users \in Seq([key : Keys, server : Addresses \cup {NoServer},
                      date : 0 .. MaxDate, marked : BOOLEAN])
    /\ servers \in Seq(Addresses)
    /\ parse \in Parses
    /\ list \in Lists \cup {<<>>}
    /\ at \in DOMAIN users
    /\ entry \in 1 .. Len(Entries(list)) + 1
    /\ selected \in Nat
    /\ chosen \in Keys
    /\ recipients \in Seq({PseudoName[k] : k \in Keys})
    /\ ui \in {"idle", "sent", "pushed", "each", "eachSent", "eachPushed"}
    /\ turn \in 0 .. Len(recipients)
    /\ message \in [home : Addresses \cup {NoServer}, dests : Seq(Addresses),
                    settled : BOOLEAN]
    /\ sent \in Seq(Keys \cup {Nobody})
    /\ logged \in Seq(Keys \cup {Nobody})
    /\ calm \in BOOLEAN
    /\ crossed \subseteq {"users", "servers"}

Others == 3 .. Len(users)

(* The users a frame brings: the readable ones but the client itself.      *)
Brought == {e \in ToSet(Entries(list)) : e.key \in Readable \ {Own}}

(* A client_list that has been applied leaves exactly its users in the     *)
(* list, each once with its server, none marked, and uniqueServerList      *)
(* names exactly their servers, wherever the window's clicks, sends and    *)
(* sorts fell, and whatever earlier frames left behind, unless a sort fell *)
(* into the loops that do it.  One that a sort spoilt is thus repaired by  *)
(* the next: duplicates, users that left and the own key go.               *)
RosterApplied ==
    parse = "idle" /\ list # <<>> =>
        /\ users[1].key = PublicChat /\ users[2].key = NewChat
        /\ "users" \notin crossed =>
            /\ {[key |-> users[i].key, server |-> users[i].server] : i \in Others} = Brought
            /\ \A i, j \in Others : users[i].key = users[j].key => i = j
            /\ \A i \in DOMAIN users : ~users[i].marked
        /\ "servers" \notin crossed =>
            /\ ToSet(servers) = {users[i].server : i \in Others}
            /\ IsInjective(servers)

(* A message sent while no client_list is being applied names the server   *)
(* of its recipient among its destinations, so that it is relayed there,   *)
(* unless a sort fell into the loop over the servers of the last list.     *)
RecipientServed ==
    message.settled /\ message.home # NoServer
        => message.home \in ToSet(message.dests)

(* The recipients are looked up by pseudonym at each of three steps, while *)
(* the list is sorted after every recipient.  When no client_list is being *)
(* applied meanwhile, there is one message for every pseudonym picked, to  *)
(* a user of the list who has it, or to nobody if none has it any more,    *)
(* and it is written to the conversation of the user it went to.           *)
NamedIn(us, pseudo) == {u.key : u \in {v \in ToSet(us) : PseudoName[v.key] = pseudo}}

RoundReachesPicked ==
    [][DateEach /\ turn = Len(recipients) /\ calm =>
          /\ Len(sent) = Len(recipients)
          /\ logged = sent
          /\ \A n \in DOMAIN recipients :
                LET named == NamedIn(users, recipients[n])
                IN  IF named = {} THEN sent[n] = Nobody ELSE sent[n] \in named]_vars

(* ChatApplication.cpp:618, "Add the new message to the selected user's    *)
(* message list": a message goes to the conversation that was selected,    *)
(* for as long as its user is in the list.                                 *)
SelectionKept ==
    parse = "idle" /\ ClientIndex(users, chosen) # 0
        => InRange /\ SelectedKey = chosen
=============================================================================
