------------------------- MODULE MCDeliveryProgress -------------------------
(* DeliveryProgress with the policies of MCDelivery. *)
EXTENDS DeliveryProgress, MCDelivery
=============================================================================
