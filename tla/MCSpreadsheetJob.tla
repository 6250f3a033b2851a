--------------------------- MODULE MCSpreadsheetJob --------------------------
(* Two uploads of one user, one of two chunks and one of a single chunk      *)
(* whose rows are all rejected; two tabs that confirm.                       *)
EXTENDS SpreadsheetJob, TLC

CONSTANTS u1, u2, ann, c1, c2

OneOwner == [u \in Uploads |-> ann]
TwoChunks == [u \in Uploads |-> IF u = u1 THEN 2 ELSE 1]
OpenTabs == [c \in Confirmers |-> IF c = c1 THEN Uploads ELSE {u1}]
RowsAccepted == [u \in Uploads |-> IF u = u1 THEN {1, 2} ELSE {}]
==============================================================================
