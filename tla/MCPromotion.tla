---------------------------- MODULE MCPromotion -----------------------------
(* One path of each kind, two user interventions, two crashes and an error.*)
EXTENDS Promotion
MCModified == {"m"}
MCAdded    == {"a"}
MCDeleted  == {"d"}
=============================================================================
