----------------------------- MODULE MCEdgeStream -----------------------------
(* EdgeStream for one machine, with at most MaxFaults restarts of either   *)
(* process and settings of the clock in all.                               *)
EXTENDS EdgeStream

CONSTANT MaxFaults

MCPowers == {0, 3}

FewFaults == boot + gateway + Times(clock) <= 2 + MaxFaults
===============================================================================
