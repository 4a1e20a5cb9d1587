--------------------------- MODULE MCNotifications ---------------------------
(***************************************************************************)
(* Model checking of Notifications: an inform over each transport, a trap  *)
(* and a message that is not listed.                                       *)
(***************************************************************************)
EXTENDS Notifications

MCKind == [i4 |-> "inform", t6 |-> "trap", i6 |-> "inform", e4 |-> "error"]
MCSide == [i4 |-> 4, t6 |-> 6, i6 |-> 6, e4 |-> 4]
MCNotif == DOMAIN MCKind
=============================================================================
