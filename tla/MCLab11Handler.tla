--------------------------- MODULE MCLab11Handler ---------------------------
(* Three devices, two of which share a parser.                             *)
EXTENDS Lab11Handler, TLC

CONSTANTS d, e, f, u, v

MCUrlOf == (d :> u) @@ (e :> v) @@ (f :> u)
=============================================================================
