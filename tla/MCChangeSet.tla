----------------------------- MODULE MCChangeSet -----------------------------
(* Small instances of ChangeSet.  Store x has two logo.assignment rows.      *)
EXTENDS ChangeSet, TLC

CONSTANTS a1, a2, p1, x, v1, v2, assignment, price, c1, c2, k1, k2, s1, s2

MCRows    == {a1, a2}
MCTables  == {assignment}
MCTableOf == [r \in MCRows |-> assignment]
MCStoreOf == [r \in MCRows |-> x]

Cmd(kind, row, src, val) == [kind |-> kind, row |-> row, src |-> src, val |-> val]

(* Run MCChangeSetEdit: hard deletes and whole-store writes against editors, *)
(* beside the clearing of p1, a row of another table, which needs no         *)
(* acknowledgement.                                                          *)
EditRows     == MCRows \cup {p1}
EditTables   == {assignment, price}
EditTableOf  == [r \in EditRows |-> IF r = p1 THEN price ELSE assignment]
EditCommands == {Cmd("delete", a1, a1, v1), Cmd("clear", p1, p1, v1), Cmd("fill", a1, a1, v2)}
EditEdits    == {Cmd("set", a1, a1, v1)}
EditStart    == {[r \in EditRows |-> v1]}

(* Run MCChangeSetTwo: a set and a copy of its row, in two change sets,      *)
(* applied and undone in any order beside an import of that row.             *)
TwoCommands == {Cmd("set", a1, a1, v2), Cmd("copy", a2, a1, v1)}
TwoLoads    == {Cmd("set", a1, a1, v1)}
TwoStart    == {[r \in MCRows |-> IF r = a1 THEN Absent ELSE v2]}

Symm == Permutations({c1, c2}) \cup Permutations({k1, k2})
SymmTwo == Permutations({c1, c2}) \cup Permutations({s1, s2})
==============================================================================
