--------------------------- MODULE MCProvisioning ---------------------------
(* Two devices of one product.                                             *)
EXTENDS Provisioning

MCProduct(d) == "p"
=============================================================================
