----------------------------- MODULE MCDelivery -----------------------------
(* Delivery with its constants given in the configurations.                *)
EXTENDS Delivery
=============================================================================
