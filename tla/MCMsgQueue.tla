----------------------------- MODULE MCMsgQueue -----------------------------
(***************************************************************************)
(* Model checking of MsgQueue: an SNMPv2 request, an SNMPv3 request and a  *)
(* blocking call, all in flight together.                                  *)
(***************************************************************************)
EXTENDS MsgQueue
=============================================================================
