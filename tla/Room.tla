-------------------------------- MODULE Room --------------------------------
(***************************************************************************)
(* What one server promises the chat clients connected to it: a room.      *)
(* Clients enter and leave; a message posted while the room is open is     *)
(* heard by every client that is in, once, in the order of posting.  The   *)
(* one thing the room does not promise is to stay open: the post or the    *)
(* entry during which it shuts may be heard by some only.                  *)
(***************************************************************************)
EXTENDS Sequences, SequencesExt

CONSTANTS Guests, Messages

VARIABLES open, inside, heard

roomVars == <<open, inside, heard>>

Init ==
    /\ open = TRUE
    /\ inside = {}
    /\ heard = [g \in Guests |-> <<>>]

(* Nobody enters a room twice, or with something heard before.             *)
Enter(g) ==
    /\ open
    /\ g \notin inside
    /\ heard[g] = <<>>
    /\ inside' = inside \cup {g}
    /\ open' \in BOOLEAN
    /\ UNCHANGED heard

Leave(g) ==
    /\ open
    /\ g \in inside
    /\ inside' = inside \ {g}
    /\ UNCHANGED <<open, heard>>

Hears(g, m) == Append(heard[g], m)

Post(m) ==
    /\ open
    /\ \A g \in Guests : ~Contains(heard[g], m)
    /\ heard' = [g \in Guests |-> IF g \in inside THEN Hears(g, m) ELSE heard[g]]
    /\ UNCHANGED <<open, inside>>

(* The room shuts, perhaps in the middle of a post.                        *)
Shut ==
    /\ open
    /\ open' = FALSE
    /\ \/ UNCHANGED heard
       \/ \E m \in Messages, some \in SUBSET inside :
            /\ \A g \in Guests : ~Contains(heard[g], m)
            /\ heard' = [g \in Guests |-> IF g \in some THEN Hears(g, m) ELSE heard[g]]
    /\ UNCHANGED inside

Next ==
    \/ \E g \in Guests : Enter(g) \/ Leave(g)
    \/ \E m \in Messages : Post(m)
    \/ Shut

Spec == Init /\ [][Next]_roomVars
=============================================================================
