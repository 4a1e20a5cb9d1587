--------------------------- MODULE MCAgentProfiles ---------------------------
(***************************************************************************)
(* Model checking of AgentProfiles: one stored profile or two of different *)
(* protocols, room for three, and one or two USM users.                    *)
(***************************************************************************)
EXTENDS AgentProfiles

MCStored == {<<[name |-> "a", sup |-> {2, 3}, sec |-> "u"]>>,
             <<[name |-> "a", sup |-> {2}, sec |-> "u"],
               [name |-> "b", sup |-> {3}, sec |-> "u"]>>}
MCChoices == {[profile |-> "a", proto |-> 3]}
MCUserLists == {<<"u">>, <<"w", "u">>}
=============================================================================
