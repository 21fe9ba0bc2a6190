----------------------------- MODULE MCDelivery -----------------------------
(* Delivery to one session; the configurations choose QoS levels, number of  *)
(* connections and limits.                                                   *)
EXTENDS Delivery
=============================================================================
