--------------------------- MODULE MCAddressRange ---------------------------
(***************************************************************************)
(* Model checking of AddressRange for every pair of addresses of small     *)
(* words.                                                                  *)
(***************************************************************************)
EXTENDS AddressRange
=============================================================================
