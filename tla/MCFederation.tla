---------------------------- MODULE MCFederation ----------------------------
(* Two servers, a client each, and links in both directions.               *)
EXTENDS Federation

CONSTANTS A, B, a, b, ab, ab2, ba

MCHome == [c \in Clients |-> IF c = b THEN B ELSE A]

MCDials == [h \in Servers |-> IF h = A THEN <<ab, ab2>> ELSE <<ba>>]

MCTo == [l \in Links |-> IF l = ba THEN A ELSE B]
Scenario(dialled, fragile, chats) ==
    [dialled |-> dialled, fragile |-> fragile, chats |-> chats]

(* Links both ways that may fail, with a roster that changes; links        *)
(* both ways and a chat; two links one way, one of which fails, and a chat.*)
MCScenarios == {
    Scenario({ab, ba}, {ab, ba}, 0),
    Scenario({ab, ba}, {}, 1),
    Scenario({ab, ab2}, {ab}, 1)}
=============================================================================
