--------------------------- MODULE NotificationLog ---------------------------
(***************************************************************************)
(* What SnmpB promises the agents that send it notifications: what is      *)
(* listed was sent, and an inform is acknowledged only when it is in the   *)
(* list, so its sender may forget it.  A notification may be listed more   *)
(* than once.                                                              *)
(***************************************************************************)
EXTENDS Naturals

CONSTANT Notif      \* the notifications

VARIABLES sent,     \* the notifications that were sent
          rows,     \* [Notif -> Nat]: how often each is listed
          acked     \* the informs whose senders know they are listed

vars == <<sent, rows, acked>>

Init == sent = {} /\ rows = [n \in Notif |-> 0] /\ acked = {}

Send(n) == sent' = sent \cup {n} /\ UNCHANGED <<rows, acked>>

List(n) == /\ n \in sent
           /\ rows' = [rows EXCEPT ![n] = @ + 1]
           /\ UNCHANGED <<sent, acked>>

Acknowledge(n) == /\ rows[n] > 0
                  /\ acked' = acked \cup {n}
                  /\ UNCHANGED <<sent, rows>>

Next == \E n \in Notif : Send(n) \/ List(n) \/ Acknowledge(n)

Spec == Init /\ [][Next]_vars
=============================================================================
