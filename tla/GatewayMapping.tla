--------------------------- MODULE GatewayMapping ---------------------------
(***************************************************************************)
(* Which gateway streams which sensor: the dictionaries gateway -> sensors *)
(* of sensor-stream-manager.js.  They are total functions here, {} standing *)
(* for an absent key: the code never stores an empty list (getHostGateways) *)
(* and deletes those it ends with (getOptimalGatewayDeviceMapping).        *)
(***************************************************************************)
EXTENDS Naturals, FiniteSets

CONSTANTS
  Devices,   \* sensor ids
  Gateways,  \* gateway addresses
  Local      \* the gateway that runs this sensor stream manager

ASSUME MappingAssumption ==
  IsFiniteSet(Devices) /\ IsFiniteSet(Gateways) /\ Local \in Gateways

Mapping == [Gateways -> SUBSET Devices]
Nothing == [g \in Gateways |-> {}]

(* getHostGateways(): of the sensors wanted, those each gateway of the link *)
(* graph lists among its devices.                                          *)
getHostGateways(ids, devicesAt) == [g \in Gateways |-> ids \intersect devicesAt[g]]

(* The devices of a remote gateway that the local one cannot offer.        *)
Exclusive(offered, g) ==
  IF g = Local THEN {} ELSE offered[g] \ offered[Local]

(* A mapping asks for every sensor some gateway offers, from one gateway   *)
(* only, the local one whenever it can.                                    *)
Offering(m, offered) == \A g \in Gateways : m[g] \subseteq offered[g]
LocalFirst(m, offered) == m[Local] = offered[Local]
Covering(m, offered) ==
  \A d \in Devices :
    (\E g \in Gateways : d \in offered[g]) => \E g \in Gateways : d \in m[g]
OneSource(m) ==
  \A g, h \in Gateways : g # h => m[g] \intersect m[h] = {}

ValidMapping(m, offered) ==
  /\ m \in Mapping
  /\ Offering(m, offered)
  /\ LocalFirst(m, offered)
  /\ Covering(m, offered)
  /\ OneSource(m)
=============================================================================
