---------------------------- MODULE MCServerHost ----------------------------
(***************************************************************************)
(* ServerHost on small instances.  Addresses and keys are values built     *)
(* from the connections, so that permuting clients or sockets is sound.    *)
(***************************************************************************)
EXTENDS ServerHost

CONSTANTS Near, Far     \* addresses: of this server, of another one

MCKeyOf == [c \in Clients |-> <<"key", c>>]

MCAddrOf == [p \in Peers |-> Far]

MCDstOf == [s \in Sockets |-> Far]

(* uniqueServerList of a client: without other local clients it lacks the  *)
(* own server, and its order is that of the client's list of users.        *)
MCDestLists == {<<Near>>, <<Far>>, <<Near, Far>>, <<Far, Near>>}

MCNearOnly == {<<Near>>}

MCRemoteLists == {<<>>, << <<"key", Far>> >>}

MCNoLists == {<<>>}

HostSymmetry == Permutations(Clients) \cup Permutations(Sockets)
=============================================================================
