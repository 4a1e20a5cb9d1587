---------------------------- MODULE MCDiscovery -----------------------------
(***************************************************************************)
(* Model checking of Discovery: one agent on each transport, which support *)
(* different versions.                                                     *)
(***************************************************************************)
EXTENDS Discovery

MCTabs == {[protos |-> {1, 2}, mode |-> "local", wait |-> 1],
           [protos |-> {3}, mode |-> "range", wait |-> 2],
           [protos |-> {1}, mode |-> "refused", wait |-> 1],
           [protos |-> {}, mode |-> "local", wait |-> 1]}

MCAgent == {"four", "six"}
MCSide == [a \in Agent |-> IF a = "four" THEN 0 ELSE 1]
MCSupports == [a \in Agent |-> IF a = "four" THEN {1, 2} ELSE {3}]
=============================================================================
