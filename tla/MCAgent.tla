------------------------------- MODULE MCAgent -------------------------------
(* Two protocols; a proposal of two chunks, one of a single chunk, and a forum *)
(* topic in each protocol.                                                     *)
EXTENDS Agent

MCProtocols  == {"aave", "ens"}
MCChunks     == 1..5
MCProtocolOf == <<"aave", "aave", "aave", "ens", "ens">>
MCSourceOf   == <<"proposal", "proposal", "forum", "proposal", "forum">>
MCDocumentOf == <<"p1", "p1", "aave:1", "p2", "ens:1">>
MCProposals  == {"p1", "p2"}
=============================================================================
