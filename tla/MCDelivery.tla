----------------------------- MODULE MCDelivery -----------------------------
(***************************************************************************)
(* Delivery for TLC: one file of each kind the write loop tells apart.     *)
(***************************************************************************)
EXTENDS Delivery

MCKind == <<"kept", "large", "deleted">>
=============================================================================
