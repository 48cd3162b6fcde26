------------------------------- MODULE MCErpCdc -------------------------------
(* ErpCdc with a seeded and a new work order, one run and one state.       *)
EXTENDS ErpCdc

MCOrders == {"wo1", "wo2"}
MCSeeds  == {"wo1"}
MCRuns   == {"run1"}
MCStates == {"state1"}
===============================================================================
