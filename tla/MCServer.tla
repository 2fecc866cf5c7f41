------------------------------ MODULE MCServer ------------------------------
(* A server of one or two addresses, two key pairs, and the whitelist of   *)
(* the server it connects to.                                              *)
EXTENDS Server

CONSTANTS ip1, port1, port2, k1, k2, note

(* A first empty line is replaced by the ip that follows it.               *)
MCPropertyFiles == {Absent, <<>>, <<Blank, ip1>>}

MCListFiles == {Absent, <<>>, <<<<ip1, port1>>, <<ip1, port2>>>>, <<<<ip1, port2>>, Blank>>}

MCCommands == {<<"connect">>, <<"connect", <<ip1, port1>>>>}
=============================================================================
