--------------------------- MODULE MCClientRoster ---------------------------
(* The client's list of users on small instances: other users, some of     *)
(* them on another server, who come and go.                                *)
EXTENDS ClientRoster

CONSTANTS Alice, Carol, Eve, Near, Far

(* A pseudonym for each key; Alice has drawn the one of this client, whose *)
(* entry a sort may leave in the list.                                     *)
MCPseudoName ==
    [k \in {PublicChat, NewChat, Own, Alice, Carol, Eve} |-> IF k = Own THEN Alice ELSE k]

(* Eve said hello with a text that is no key.                              *)
MCReadable == {Own, Alice, Carol}

Clients(address, clients) == [address |-> address, clients |-> clients]

(* Alice and, on the other server, Carol come and go, and so does Eve.     *)
MCLists == {
    <<Clients(Near, <<Eve, Own>>)>>,
    <<Clients(Near, <<Own, Alice>>), Clients(Far, <<Carol>>)>>}

(* What tells states apart.  Nothing reads the date of the public chat,    *)
(* the servers of the last list once the next one is being applied (a      *)
(* message sent then is not settled, and so its servers), or whom the      *)
(* messages of a new chat went to that a list disturbed.  The entry clicked*)
(* last is for SelectionKept, whose run has no view.                       *)
MCView ==
    <<[users EXCEPT ![1].date = 0], parseVars, selected, recipients, ui, turn, calm, crossed,
      IF parse \in {"idle", "servers"} THEN servers ELSE <<>>,
      IF message.settled THEN message ELSE <<>>,
      IF calm THEN <<sent, logged>> ELSE <<>>>>
=============================================================================
