--------------------------- MODULE MCAppManager ----------------------------
(* Two apps whose packages have the same name, hence the same log file.    *)
EXTENDS AppManager, TLC

CONSTANTS a, b, app

MCNameOf == (a :> app) @@ (b :> app)
=============================================================================
