---------------------------- MODULE MCDashboard ----------------------------
(* Three proposals of two protocols, one of them published meanwhile; pages  *)
(* of one row.                                                               *)
EXTENDS Dashboard

CONSTANTS p1, p2, p3, aave, ens, all, active, closed

MCProtocolOf == [p \in {p1, p2, p3} |-> IF p = p2 THEN ens ELSE aave]
MCCreated    == [p \in {p1, p2, p3} |-> CASE p = p1 -> 1 [] p = p2 -> 2 [] p = p3 -> 3]
MCStates     == <<active, closed>>
MCFilters    == {[protocol |-> ens, state |-> all]}
=============================================================================
