------------------------------ MODULE MCLogoFeed ------------------------------
(* Two keys, one design with two values, two interchangeable writers.        *)
EXTENDS LogoFeed, TLC

CONSTANTS k1, k2, d1, x, y, w1, w2

Do(op, k, v) == <<[op |-> op, key |-> k, design |-> d1, own |-> v]>>

(* Inserts, updates, deletes and re-inserts; edits of the shared value.      *)
AllScripts ==
    {Do("save", k1, None), Do("save", k2, y), Do("delete", k1, None),
     Do("delete", k1, None) \o Do("save", k1, None), Do("edit", k1, y)}
(* No statement makes a row borrow the shared value: rows do from the start. *)
RowScripts ==
    {Do("save", k1, y), Do("update", k2, y), Do("edit", k1, y), Do("delete", k1, None),
     Do("delete", k1, None) \o Do("save", k1, x)}
WriterSymmetry == Permutations(Writers)
==============================================================================
