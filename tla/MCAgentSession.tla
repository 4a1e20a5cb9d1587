--------------------------- MODULE MCAgentSession ---------------------------
(***************************************************************************)
(* Model checking of AgentSession: an agent with four instances in two     *)
(* subtrees and two MIB modules on disk, one of which covers the other.    *)
(***************************************************************************)
EXTENDS AgentSession

MCMib == <<<<1, 1>>, <<1, 2>>, <<1, 3>>, <<2, 1>>>>
MCRoot == {<<1>>, <<2>>}
\* A smaller agent and one choice in the tree, for the larger runs.
MCSmallMib == <<<<1, 1>>, <<1, 2>>, <<2, 1>>>>
MCOneRoot == {<<1>>}

MCMatches == [m \in Module |-> IF m = "wide" THEN Instance ELSE {<<1, 2>>}]
MCSize == [m \in Module |-> IF m = "wide" THEN 0 ELSE 2]
=============================================================================
