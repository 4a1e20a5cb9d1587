------------------------------ MODULE MCSettings ------------------------------
(***************************************************************************)
(* Model checking of Settings: two directories and one that does not       *)
(* exist; a MIB that imports another, one that stands alone, and a default *)
(* module that is wanted by a name other than its file's.                  *)
(***************************************************************************)
EXTENDS Settings

MCFinds == [n \in Wantable |-> IF n = "IF" THEN "IF.txt" ELSE n]
MCHolds == [std |-> {"IF.txt", "TC"}, own |-> {"MY"}, none |-> {}]
MCImports == [f \in File |-> CASE f = "IF.txt" -> {"TC"} [] f = "MY" -> {"TC"} [] OTHER -> {}]
=============================================================================
