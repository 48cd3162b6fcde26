------------------------------ MODULE MCPipeline ------------------------------
(* Pipeline for one machine that runs at full power.                       *)
EXTENDS Pipeline

MCOnePower == {3}
===============================================================================
