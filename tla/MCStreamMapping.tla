--------------------------- MODULE MCStreamMapping --------------------------
(* Every offer of three sensors by the local and three remote gateways, in  *)
(* every order of the link graph.                                          *)
EXTENDS StreamMapping

CONSTANTS s1, s2, s3, g0, g1, g2, g3
=============================================================================
