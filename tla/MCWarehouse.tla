------------------------------ MODULE MCWarehouse ------------------------------
(* Two tables, one content besides absence, and two run slots that are used  *)
(* again.                                                                    *)
EXTENDS Warehouse

CONSTANTS t1, t2, a, r1, r2
================================================================================
