------------------------------ MODULE MCBronze ------------------------------
(* A harvest of a Snapshot space with one proposal, beside a harvest of the  *)
(* same space and of a forum with one topic, again and again: a daily run    *)
(* and a backfill.  The proposal is edited once at most, the topic may be    *)
(* edited back and forth.                                                    *)
EXTENDS Bronze, TLC

CONSTANTS proposal, topic, a, b, snapshot, forum, h1, h2, x, y

MCEntities == {proposal, topic}
MCUnitOf   == proposal :> snapshot @@ topic :> forum
MCOriginal == [e \in MCEntities |-> a]
MCVersions == proposal :> {b} @@ topic :> {a, b}
MCPlan     == h1 :> <<snapshot>> @@ h2 :> <<snapshot, forum>>
MCReach    == h1 :> {proposal} @@ h2 :> {proposal, topic}
=============================================================================
