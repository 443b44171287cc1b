------------------------ MODULE MCSensorStreamManager -----------------------
(* Instances of SensorStreamManager for TLC.                               *)
EXTENDS SensorStreamManager, TLC

CONSTANTS t1, s1, s2, g0, g1, g2

MCWanted == (t1 :> {s1, s2})

(* g1 can stream both sensors, g2 one of them; the other may come in range *)
(* of g2, and the first one in range of the local gateway.                 *)
MCHosts == (g0 :> {}) @@ (g1 :> {s1, s2}) @@ (g2 :> {s1})
MCHearable == {<<g0, s1>>, <<g2, s2>>}

(* Each provider has one of the sensors: mappings ask one or both.         *)
MCHosts1 == (g0 :> {}) @@ (g1 :> {s1}) @@ (g2 :> {s2})
=============================================================================
