--------------------------- MODULE RequestService ---------------------------
(***************************************************************************)
(* What the SNMP++ session promises the rest of SnmpB: a request that was  *)
(* issued is answered once, with its response, with a timeout or with a    *)
(* send error, and with nothing else.  Everything that Agent keeps across  *)
(* the answer (the walk flag, the timer rate, the stop button) rests on    *)
(* this promise.                                                           *)
(***************************************************************************)
EXTENDS Integers, Sequences

CONSTANT Req        \* the requests the application issues

VARIABLES issued,   \* [Req -> BOOLEAN]: the request was handed to the session
          told      \* [Req -> Seq(Outcome)]: what its issuer was told, in order

vars == <<issued, told>>

Outcome == {"response", "timeout", "error"}

Init == /\ issued = [r \in Req |-> FALSE]
        /\ told = [r \in Req |-> <<>>]

Issue(r) == /\ ~issued[r]
            /\ issued' = [issued EXCEPT ![r] = TRUE]
            /\ UNCHANGED told

\* The send failed: the issuing call itself reports the error.
Refuse(r) == /\ ~issued[r]
             /\ issued' = [issued EXCEPT ![r] = TRUE]
             /\ told' = [told EXCEPT ![r] = <<"error">>]

Complete(r) == /\ issued[r]
               /\ told[r] = <<>>
               /\ \E o \in Outcome : told' = [told EXCEPT ![r] = <<o>>]
               /\ UNCHANGED issued

Next == \E r \in Req : Issue(r) \/ Refuse(r) \/ Complete(r)

Spec == Init /\ [][Next]_vars
=============================================================================
