---------------------------- MODULE MCPlatformApi ----------------------------
(* Four gateways in a ring with a chord that may come and go.  Three of     *)
(* them have the device that the app names twice.                          *)
EXTENDS PlatformApi, TLC

CONSTANTS a, b, c, d, x, y

MCLinks == (a :> {b, d}) @@ (b :> {a, c}) @@ (c :> {b, d}) @@ (d :> {a})
MCSightings == {<<b, d>>, <<d, c>>}
MCHosted == (a :> {y}) @@ (b :> {x}) @@ (c :> {x, y}) @@ (d :> {x})
MCDeviceIds == <<x, x>>
MCUsages == {[mem |-> 1, cpu |-> 5], [mem |-> 2, cpu |-> 1],
             [mem |-> 2, cpu |-> 2], [mem |-> 3, cpu |-> 1]}
=============================================================================
