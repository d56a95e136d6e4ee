----------------------------- MODULE MCPipeline -----------------------------
(* The pipeline on small instances: MISP event 1 cites the CVE that KEV event *)
(* 9 is about. Its alert has one key as first published and unboosted, and    *)
(* another once it is edited or boosted.                                      *)
EXTENDS Pipeline, TLC

CONSTANTS plain, changed

MCHash     == {plain, changed}
MCEventOf  == (plain :> 1) @@ (changed :> 1)
MCCveOf    == [e \in Event |-> KevId]
MCDedupKey == [k \in Relevant \X Stamp \X BOOLEAN |->
                  IF k[2] > 0 \/ k[3] THEN changed ELSE plain]
=============================================================================
