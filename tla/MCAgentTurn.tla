----------------------------- MODULE MCAgentTurn -----------------------------
(* Two turns of one session.  The caps admit one request of one token at a   *)
(* time, and refuse every request of three.                                  *)
EXTENDS AgentTurn, TLC

MCResv == Turns \X (1..MaxCalls)
OneSession == [t \in Turns |-> "session"]
OneUser == [t \in Turns |-> CHOOSE u \in Users : TRUE]
Alike == Permutations(Turns)
==============================================================================
