---------------------------- MODULE MCCategoryRuns ----------------------------
(* Instances of CategoryRuns: a run over two blogs and, where MCRuns has it, *)
(* a second run over one of them.                                            *)
EXTENDS CategoryRuns

CONSTANTS r1, r2, b1, b2

MCTargets == [r \in Runs |-> IF r = r1 THEN <<b1, b2>> ELSE <<b1>>]
MCStopModes == [r \in Runs |-> {r = r1}]
=============================================================================
