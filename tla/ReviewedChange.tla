--------------------------- MODULE ReviewedChange ---------------------------
(* What a reviewed change set promises, whatever happens underneath: only    *)
(* contents, no stamps, versions, locks, transactions or retries.            *)
(*                                                                           *)
(* A set offers a plan: for some rows, the content it expects and the        *)
(* content it will leave.  Applying it changes exactly the rows of the plan  *)
(* last offered, each from the expected content to the planned one, in one   *)
(* step; undoing it is the same step backwards.  A set that is refused       *)
(* changes nothing.                                                          *)
EXTENDS Naturals

CONSTANTS Rows, Vals, Sets, None

VARIABLES data, phase, plan

vars == <<data, phase, plan>>

Plans == [Rows -> (Vals \X Vals) \cup {None}]
Planned(s) == {r \in Rows : plan[s][r] # None}

(* The step that takes the planned rows from their from-th to their to-th    *)
(* content and leaves every other row alone.                                 *)
Move(s, from, to) ==
    /\ \A r \in Planned(s) : data[r] = plan[s][r][from]
    /\ data' = [r \in Rows |-> IF r \in Planned(s) THEN plan[s][r][to] ELSE data[r]]

Init ==
    /\ data \in [Rows -> Vals]
    /\ phase = [s \in Sets |-> "none"]
    /\ plan = [s \in Sets |-> None]

Create(s) ==
    /\ phase[s] = "none"
    /\ phase' = [phase EXCEPT ![s] = "pending"]
    /\ UNCHANGED <<data, plan>>

Offer(s) ==
    /\ phase[s] = "pending"
    /\ plan'[s] \in Plans
    /\ plan' = [plan EXCEPT ![s] = plan'[s]]
    /\ UNCHANGED <<data, phase>>

Apply(s) ==
    /\ phase[s] = "pending" /\ plan[s] # None
    /\ phase' = [phase EXCEPT ![s] = "applied"]
    /\ Move(s, 1, 2)
    /\ UNCHANGED plan

Undo(s) ==
    /\ phase[s] = "applied"
    /\ phase' = [phase EXCEPT ![s] = "undone"]
    /\ Move(s, 2, 1)
    /\ UNCHANGED plan

Discard(s) ==
    /\ phase[s] = "pending"
    /\ phase' = [phase EXCEPT ![s] = "discarded"]
    /\ UNCHANGED <<data, plan>>

(* Somebody else writes.                                                     *)
Outside ==
    /\ data' \in [Rows -> Vals]
    /\ UNCHANGED <<phase, plan>>

Next ==
    \/ \E s \in Sets : Create(s) \/ Offer(s) \/ Apply(s) \/ Undo(s) \/ Discard(s)
    \/ Outside

Spec == Init /\ [][Next]_vars
==============================================================================
