----------------------------- MODULE MCPipeline -----------------------------
(* Two protocols and three items; the daily window is one item, a backfill *)
(* reaches further.                                                        *)
EXTENDS Pipeline

MCProtocols == {"aave", "ens"}
MCDags      == {"daily", "backfill"}
MCWindow    == [d \in MCDags |-> IF d = "daily" THEN 1 ELSE 2]
MCRetries   == [d \in MCDags |-> IF d = "daily" THEN 0 ELSE 1]
MCMaxItems  == [p \in MCProtocols |-> IF p = "aave" THEN 2 ELSE 1]
=============================================================================
