--------------------------- MODULE MCWarehouseBuild ---------------------------
(* WarehouseBuild on two machines and two work orders.                     *)
EXTENDS WarehouseBuild

MCMachines == {"press", "lathe"}
MCOrders   == {"wo1", "wo2"}
===============================================================================
