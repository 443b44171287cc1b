-------------------------- MODULE MCDeviceCommands --------------------------
(* d1 is a beacon two handlers understand and deliver, h2 being one that    *)
(* can be commanded; d2 belongs to one handler, which registers and         *)
(* delivers it, and is also in the database of the peer.                    *)
EXTENDS DeviceCommands, TLC

CONSTANTS d1, d2, h1, h2, c1, g1

MCRegistrars == (d1 :> {}) @@ (d2 :> {h1})
MCDeliverers == (d1 :> {h1, h2}) @@ (d2 :> {h1})
MCTarget == (c1 :> d2)
MCHosted == (g1 :> {d2})
=============================================================================
