--------------------------- MODULE MCBleController --------------------------
(* A peer gateway, a smart socket and a light share the radio.             *)
EXTENDS BleController, TLC

CONSTANTS gw, socket, light, scanner, oort, leviton

MCHandler == (gw :> scanner) @@ (socket :> oort) @@ (light :> leviton)
=============================================================================
