--------------------------- MODULE MCProjectLoad ---------------------------
(* ProjectLoad on small instances. *)
EXTENDS ProjectLoad
=============================================================================
