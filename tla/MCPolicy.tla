------------------------------ MODULE MCPolicy ------------------------------
(* Two sensors and an application; a policy has at most two entries.       *)
EXTENDS Policy, FiniteSets, TLC

CONSTANTS s1, s2, a1

MCSchedules == {{1, 2}, {2, 4}}

Used(f) == Cardinality({x \in DOMAIN f : f[x] # {}})

MCPolicies ==
  {p \in PolicyType :
     Used(p.sensorSpecific) + Used(p.appSpecific)
       + Cardinality({s \in Sensors : p.appSensor[s][a1] # {}}) <= 2}
=============================================================================
