---------------------------- MODULE StreamMapping ---------------------------
(***************************************************************************)
(* getOptimalGatewayDeviceMapping() of sensor-stream-manager.js, one step  *)
(* per iteration of its pairwise loop.  SensorStreamManager uses only what *)
(* is proved here of its result (ValidMapping).                            *)
(***************************************************************************)
EXTENDS GatewayMapping, Sequences

VARIABLES
  pc,                          \* "exclude", "pairwise" or "done"
  gatewayDeviceMapping,        \* the argument
  remoteGatewayDeviceMapping,  \* what each remote gateway is left with
  remoteGateways,              \* the keys of the former, in insertion order
  i, j,                        \* loop counters, from 1
  optimalGatewayDeviceMapping  \* the result

vars == <<pc, gatewayDeviceMapping, remoteGatewayDeviceMapping,
          remoteGateways, i, j, optimalGatewayDeviceMapping>>

Init ==
  /\ pc = "exclude"
  /\ gatewayDeviceMapping \in Mapping
  /\ remoteGatewayDeviceMapping = Nothing
  /\ remoteGateways = <<>>
  /\ i = 1 /\ j = 2
  /\ optimalGatewayDeviceMapping = Nothing

(* The keys of an object come in the order the link graph named them.      *)
Orders(S) ==
  {s \in [1..Cardinality(S) -> S] :
     /\ \A a, b \in 1..Cardinality(S) : s[a] = s[b] => a = b
     /\ \A g \in S : \E a \in 1..Cardinality(S) : s[a] = g}

(* Mutant: devices the local gateway has are left in.                      *)
Offered(offered) == [g \in Gateways |-> IF g = Local THEN {} ELSE offered[g]]

ExclusiveDevices(offered) == [g \in Gateways |-> Exclusive(offered, g)]

(* Leave out what the local gateway offers, and gateways left with nothing. *)
Exclude ==
  /\ pc = "exclude"
  /\ LET remote == ExclusiveDevices(gatewayDeviceMapping) IN
       /\ remoteGatewayDeviceMapping' = remote
       /\ remoteGateways' \in Orders({g \in Gateways : remote[g] # {}})
  /\ pc' = "pairwise"
  /\ UNCHANGED <<gatewayDeviceMapping, i, j, optimalGatewayDeviceMapping>>

(* Mutants: larger minus smaller; both lose what they share.               *)
LargerReduced(m, a, b) ==
  IF Cardinality(m[a]) > Cardinality(m[b])
    THEN [m EXCEPT ![a] = @ \ m[b]]
    ELSE [m EXCEPT ![b] = @ \ m[a]]

(* difference(): the smaller list loses what the larger one has.           *)
Reduced(m, a, b) ==
  IF Cardinality(m[a]) <= Cardinality(m[b])
    THEN [m EXCEPT ![a] = @ \ m[b]]
    ELSE [m EXCEPT ![b] = @ \ m[a]]

Compare ==
  /\ pc = "pairwise"
  /\ j <= Len(remoteGateways)
  /\ remoteGatewayDeviceMapping' =
       Reduced(remoteGatewayDeviceMapping, remoteGateways[i], remoteGateways[j])
  /\ j' = j + 1
  /\ UNCHANGED <<pc, gatewayDeviceMapping, remoteGateways, i,
                 optimalGatewayDeviceMapping>>

(* Mutant: the inner loop starts one gateway too far.                      *)
NextRowSkipping ==
  /\ pc = "pairwise"
  /\ j > Len(remoteGateways) /\ i < Len(remoteGateways)
  /\ i' = i + 1 /\ j' = i + 3
  /\ UNCHANGED <<pc, gatewayDeviceMapping, remoteGatewayDeviceMapping,
                 remoteGateways, optimalGatewayDeviceMapping>>

NextRow ==
  /\ pc = "pairwise"
  /\ j > Len(remoteGateways) /\ i < Len(remoteGateways)
  /\ i' = i + 1 /\ j' = i + 2
  /\ UNCHANGED <<pc, gatewayDeviceMapping, remoteGatewayDeviceMapping,
                 remoteGateways, optimalGatewayDeviceMapping>>

Combine ==
  /\ pc = "pairwise"
  /\ j > Len(remoteGateways) /\ i >= Len(remoteGateways)
  /\ optimalGatewayDeviceMapping' =
       [remoteGatewayDeviceMapping EXCEPT ![Local] = gatewayDeviceMapping[Local]]
  /\ pc' = "done"
  /\ UNCHANGED <<gatewayDeviceMapping, remoteGatewayDeviceMapping,
                 remoteGateways, i, j>>

Next == Exclude \/ Compare \/ NextRow \/ Combine

Spec == Init /\ [][Next]_vars

-----------------------------------------------------------------------------
TypeOK ==
  /\ pc \in {"exclude", "pairwise", "done"}
  /\ gatewayDeviceMapping \in Mapping
  /\ remoteGatewayDeviceMapping \in Mapping
  /\ remoteGateways \in Seq(Gateways)
  /\ i \in Nat \ {0} /\ j \in Nat /\ i < j
  /\ optimalGatewayDeviceMapping \in Mapping

(* The result is a valid mapping: nothing offered is lost, nothing comes   *)
(* twice, nothing comes from afar that is at hand.                         *)
ResultValid ==
  pc = "done" => ValidMapping(optimalGatewayDeviceMapping, gatewayDeviceMapping)

(* "Tries to maximize number of devices on each gateway": a gateway that   *)
(* offers more than every other remote gateway keeps all it offers.        *)
Dominates(g) ==
  \A h \in Gateways \ {g} :
    Cardinality(Exclusive(gatewayDeviceMapping, h))
      < Cardinality(Exclusive(gatewayDeviceMapping, g))

LargestKept ==
  pc = "done" => \A g \in Gateways \ {Local} :
    Dominates(g) =>
      optimalGatewayDeviceMapping[g] = Exclusive(gatewayDeviceMapping, g)

(* The loop invariant: the list has every remote gateway with devices, no  *)
(* device is lost, and the pairs already compared share nothing.           *)
Listed ==
  /\ \A a, b \in DOMAIN remoteGateways :
       remoteGateways[a] = remoteGateways[b] => a = b
  /\ \A g \in Gateways : remoteGatewayDeviceMapping[g] # {} =>
       \E a \in DOMAIN remoteGateways : remoteGateways[a] = g

Shrinking ==
  \A g \in Gateways :
    remoteGatewayDeviceMapping[g] \subseteq Exclusive(gatewayDeviceMapping, g)

NothingLost ==
  \A d \in Devices :
    (\E g \in Gateways : d \in Exclusive(gatewayDeviceMapping, g)) =>
      \E g \in Gateways : d \in remoteGatewayDeviceMapping[g]

Compared(a, b) == a < i \/ (a = i /\ b < j)

PairsDisjoint ==
  \A a, b \in DOMAIN remoteGateways :
    a < b /\ Compared(a, b) =>
      remoteGatewayDeviceMapping[remoteGateways[a]]
        \intersect remoteGatewayDeviceMapping[remoteGateways[b]] = {}

LargestIntact ==
  \A g \in Gateways \ {Local} :
    Dominates(g) =>
      remoteGatewayDeviceMapping[g] = Exclusive(gatewayDeviceMapping, g)

Combined ==
  /\ i >= Len(remoteGateways) /\ j > Len(remoteGateways)
  /\ optimalGatewayDeviceMapping =
       [remoteGatewayDeviceMapping EXCEPT ![Local] = gatewayDeviceMapping[Local]]

Looping ==
  /\ Listed
  /\ Shrinking
  /\ NothingLost
  /\ PairsDisjoint
  /\ LargestIntact

LoopInvariant ==
  /\ TypeOK
  /\ pc = "exclude" => i = 1 /\ j = 2
  /\ pc # "exclude" => Looping
  /\ pc = "done" => Combined
=============================================================================
