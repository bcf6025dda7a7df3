--------------------------- MODULE MCGrantDelivery ---------------------------
(* Instances of GrantDelivery for TLC.  The bounds are in the .cfg files.  *)
EXTENDS GrantDelivery
=============================================================================
