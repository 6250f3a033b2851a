---------------------------- MODULE MCCategoryPlan ----------------------------
(* Two stores: one with a category under another, one with a single term.    *)
EXTENDS CategoryPlan, TLC

CONSTANTS b1, b2, a, b, c, p, e

MCTerm(slug, parent) == [slug |-> slug, parent |-> parent, parked |-> FALSE]
MCStores == [x \in Blogs |->
    IF x = b1 THEN [term |-> (1 :> MCTerm(a, 0) @@ 2 :> MCTerm(b, 1)),
                    member |-> [q \in Products |-> {2}]]
    ELSE [term |-> (1 :> MCTerm(b, 0)), member |-> [q \in Products |-> {1}]]]
=============================================================================
