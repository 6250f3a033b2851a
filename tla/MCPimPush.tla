------------------------------ MODULE MCPimPush ------------------------------
(* One product with one variant beside ten other rows of the mirror.         *)
EXTENDS PimPush
==============================================================================
