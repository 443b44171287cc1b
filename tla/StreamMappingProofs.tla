------------------------- MODULE StreamMappingProofs ------------------------
(***************************************************************************)
(* getOptimalGatewayDeviceMapping() returns a valid mapping, whatever the  *)
(* devices, the gateways, what they offer and the order of the link graph. *)
(***************************************************************************)
EXTENDS StreamMapping, FiniteSetTheorems, TLAPS

(* Every set of devices is finite, and a subset of it is not larger.       *)
LEMMA Smaller ==
  ASSUME NEW S \in SUBSET Devices, NEW T \in SUBSET S
  PROVE  /\ Cardinality(T) \in Nat /\ Cardinality(S) \in Nat
         /\ Cardinality(T) <= Cardinality(S)
<1>1. IsFiniteSet(S)
  BY MappingAssumption, FS_Subset
<1>2. IsFiniteSet(T)
  BY <1>1, FS_Subset
<1> QED
  BY <1>1, <1>2, FS_Subset, FS_CardinalityType

(* An order of the remote gateways is a list of them without repetitions.  *)
LEMMA OrdersFacts ==
  ASSUME NEW S \in SUBSET Gateways, NEW s \in Orders(S)
  PROVE  /\ s \in Seq(Gateways)
         /\ \A a, b \in DOMAIN s : s[a] = s[b] => a = b
         /\ \A g \in S : \E a \in DOMAIN s : s[a] = g
<1> DEFINE n == Cardinality(S)
<1>0. n \in Nat
  BY MappingAssumption, FS_Subset, FS_CardinalityType
<1>1. s \in [1..n -> S] /\ n \in Nat
  BY <1>0 DEF Orders
<1>2. s \in Seq(Gateways)
  BY <1>1
<1>3. DOMAIN s = 1..n
  BY <1>1
<1> QED
  BY <1>2, <1>3 DEF Orders

(* One comparison: lists only shrink, no device is lost, the two gateways  *)
(* share nothing afterwards, and the larger list stays as it is.           *)
Comparison(m, a, b, r) ==
  /\ r \in Mapping
  /\ \A g \in Gateways : r[g] \subseteq m[g]
  /\ \A d \in Devices : (\E g \in Gateways : d \in m[g]) =>
       \E g \in Gateways : d \in r[g]
  /\ r[a] \intersect r[b] = {}
  /\ \A g \in Gateways \ {a, b} : r[g] = m[g]
  /\ IF Cardinality(m[a]) <= Cardinality(m[b])
       THEN r[b] = m[b] ELSE r[a] = m[a]

LEMMA ReducedFacts ==
  ASSUME NEW m \in Mapping, NEW a \in Gateways, NEW b \in Gateways, a # b
  PROVE  Comparison(m, a, b, Reduced(m, a, b))
<1> DEFINE r == Reduced(m, a, b)
<1> SUFFICES Comparison(m, a, b, r)
  OBVIOUS
<1>1. CASE Cardinality(m[a]) <= Cardinality(m[b])
  <2>1. r = [m EXCEPT ![a] = m[a] \ m[b]]
    BY <1>1 DEF Reduced
  <2>2. r \in Mapping /\ r[a] = m[a] \ m[b] /\ r[b] = m[b]
        /\ \A g \in Gateways \ {a, b} : r[g] = m[g]
    BY <2>1 DEF Mapping
  <2> HIDE DEF r
  <2>3. \A d \in Devices : (\E g \in Gateways : d \in m[g]) =>
              \E g \in Gateways : d \in r[g]
    BY <2>2
  <2> QED
    BY <1>1, <2>2, <2>3 DEF Comparison
<1>2. CASE ~(Cardinality(m[a]) <= Cardinality(m[b]))
  <2>1. r = [m EXCEPT ![b] = m[b] \ m[a]]
    BY <1>2 DEF Reduced
  <2>2. r \in Mapping /\ r[b] = m[b] \ m[a] /\ r[a] = m[a]
        /\ \A g \in Gateways \ {a, b} : r[g] = m[g]
    BY <2>1 DEF Mapping
  <2> HIDE DEF r
  <2>3. \A d \in Devices : (\E g \in Gateways : d \in m[g]) =>
              \E g \in Gateways : d \in r[g]
    BY <2>2
  <2> QED
    BY <1>2, <2>2, <2>3 DEF Comparison
<1> QED
  BY <1>1, <1>2 DEF r

LEMMA ExclusiveFacts ==
  ASSUME NEW offered \in Mapping, NEW g \in Gateways
  PROVE  Exclusive(offered, g) \in SUBSET Devices
BY MappingAssumption DEF Exclusive, Mapping

(* Leaving out the local devices starts the loop with its invariant true.  *)
LEMMA ExcludeStep == TypeOK /\ pc = "exclude" /\ i = 1 /\ j = 2 /\ Exclude
                       => TypeOK' /\ Looping' /\ pc' = "pairwise"
<1> SUFFICES ASSUME TypeOK, pc = "exclude", i = 1, j = 2, Exclude
             PROVE  TypeOK' /\ Looping' /\ pc' = "pairwise"
  OBVIOUS
<1> DEFINE gdm == gatewayDeviceMapping
           remote == ExclusiveDevices(gdm)
           S == {g \in Gateways : remote[g] # {}}
<1>1. remoteGatewayDeviceMapping' = remote /\ remoteGateways' \in Orders(S)
      /\ pc' = "pairwise" /\ i' = 1 /\ j' = 2 /\ gatewayDeviceMapping' = gdm
      /\ optimalGatewayDeviceMapping' = optimalGatewayDeviceMapping
  BY DEF Exclude
<1>2. gdm \in Mapping
  BY DEF TypeOK
<1>3. remote \in Mapping /\ \A g \in Gateways : remote[g] = Exclusive(gdm, g)
  BY <1>2, ExclusiveFacts DEF ExclusiveDevices, Mapping
<1> HIDE DEF gdm, remote
<1>4. /\ remoteGateways' \in Seq(Gateways)
      /\ \A a, b \in DOMAIN remoteGateways' :
           remoteGateways'[a] = remoteGateways'[b] => a = b
      /\ \A g \in S : \E a \in DOMAIN remoteGateways' : remoteGateways'[a] = g
  BY <1>1, OrdersFacts
<1>5. TypeOK'
  BY <1>1, <1>2, <1>3, <1>4 DEF TypeOK, gdm
<1>6. Listed'
  BY <1>1, <1>4 DEF Listed
<1>7. Shrinking' /\ NothingLost' /\ LargestIntact'
  BY <1>1, <1>3 DEF Shrinking, NothingLost, LargestIntact
<1>8. PairsDisjoint'
  <2>1. \A a, b \in DOMAIN remoteGateways' : a < b => ~(Compared(a, b))'
    BY <1>1, <1>4 DEF Compared
  <2> QED
    BY <2>1 DEF PairsDisjoint
<1> QED
  BY <1>1, <1>5, <1>6, <1>7, <1>8 DEF Looping

(* One iteration of the inner loop.                                        *)
LEMMA CompareStep == TypeOK /\ pc = "pairwise" /\ Looping /\ Compare
                       => TypeOK' /\ Looping'
<1> SUFFICES ASSUME TypeOK, pc = "pairwise", Looping, Compare
             PROVE  TypeOK' /\ Looping'
  OBVIOUS
<1> DEFINE m == remoteGatewayDeviceMapping
           list == remoteGateways
           gdm == gatewayDeviceMapping
           r == remoteGatewayDeviceMapping'
<1>1. r = Reduced(m, list[i], list[j]) /\ list' = list /\ gdm' = gdm
      /\ i' = i /\ j' = j + 1 /\ pc' = pc /\ j <= Len(list)
      /\ optimalGatewayDeviceMapping' = optimalGatewayDeviceMapping
  BY DEF Compare
<1>2. m \in Mapping /\ gdm \in Mapping /\ list \in Seq(Gateways)
      /\ i \in Nat \ {0} /\ j \in Nat /\ i < j
  BY DEF TypeOK
<1>3. i \in DOMAIN list /\ j \in DOMAIN list
  BY <1>1, <1>2
<1>4. \A a, b \in DOMAIN list : list[a] = list[b] => a = b
  BY DEF Looping, Listed
<1>5. list[i] \in Gateways /\ list[j] \in Gateways /\ list[i] # list[j]
  BY <1>2, <1>3, <1>4
<1> HIDE DEF m, list, gdm, r
<1>6. Comparison(m, list[i], list[j], r)
  BY <1>1, <1>2, <1>5, ReducedFacts
<1>7. TypeOK'
  <2>1. r \in Mapping /\ i' \in Nat \ {0} /\ j' \in Nat /\ i' < j'
    BY <1>1, <1>2, <1>6 DEF Comparison
  <2> QED
    BY <2>1, <1>1, <1>2 DEF TypeOK, r, list, gdm
<1>8. Listed'
  <2>1. \A g \in Gateways : m[g] # {} => \E a \in DOMAIN list : list[a] = g
    BY DEF Looping, Listed, m, list
  <2>2. \A g \in Gateways : r[g] # {} => \E a \in DOMAIN list : list[a] = g
    BY <2>1, <1>6 DEF Comparison
  <2> QED
    BY <2>2, <1>1, <1>4 DEF Listed, r, list
<1>9. Shrinking'
  <2>1. \A g \in Gateways : m[g] \subseteq Exclusive(gdm, g)
    BY DEF Looping, Shrinking, m, gdm
  <2>2. \A g \in Gateways : r[g] \subseteq Exclusive(gdm, g)
    BY <2>1, <1>6 DEF Comparison
  <2> QED
    BY <2>2, <1>1 DEF Shrinking, r, gdm
<1>10. NothingLost'
  <2>1. \A d \in Devices : (\E g \in Gateways : d \in Exclusive(gdm, g)) =>
          \E g \in Gateways : d \in m[g]
    BY DEF Looping, NothingLost, m, gdm
  <2>2. \A d \in Devices : (\E g \in Gateways : d \in Exclusive(gdm, g)) =>
          \E g \in Gateways : d \in r[g]
    BY <2>1, <1>6 DEF Comparison
  <2> QED
    BY <2>2, <1>1 DEF NothingLost, r, gdm
<1>11. PairsDisjoint'
  <2> SUFFICES ASSUME NEW a \in DOMAIN list, NEW b \in DOMAIN list, a < b,
                      a < i \/ (a = i /\ b < j + 1)
               PROVE  r[list[a]] \intersect r[list[b]] = {}
    BY <1>1 DEF PairsDisjoint, Compared, r, list
  <2>1. list[a] \in Gateways /\ list[b] \in Gateways /\ a \in Nat /\ b \in Nat
    BY <1>2
  <2>2. CASE a = i /\ b = j
    BY <2>2, <1>6 DEF Comparison
  <2>3. CASE ~(a = i /\ b = j)
    <3>1. a < i \/ (a = i /\ b < j)
      BY <2>1, <2>3, <1>2
    <3>2. m[list[a]] \intersect m[list[b]] = {}
      BY <3>1 DEF Looping, PairsDisjoint, Compared, m, list
    <3> QED
      BY <3>2, <2>1, <1>6 DEF Comparison
  <2> QED
    BY <2>2, <2>3
<1>12. LargestIntact'
  <2> SUFFICES ASSUME NEW g \in Gateways \ {Local}, Dominates(g)
               PROVE  r[g] = Exclusive(gdm, g)
    BY <1>1 DEF LargestIntact, Dominates, r, gdm
  <2>1. m[g] = Exclusive(gdm, g)
    BY DEF Looping, LargestIntact, m, gdm
  <2>2. \A h \in Gateways \ {g} : Cardinality(m[h]) < Cardinality(m[g])
    <3> TAKE h \in Gateways \ {g}
    <3>1. Cardinality(Exclusive(gdm, h)) < Cardinality(Exclusive(gdm, g))
      BY DEF Dominates, gdm
    <3>2. m[h] \in SUBSET Exclusive(gdm, h)
      BY DEF Looping, Shrinking, m, gdm
    <3>3. Exclusive(gdm, h) \in SUBSET Devices /\ Exclusive(gdm, g) \in SUBSET Devices
      BY <1>2, ExclusiveFacts
    <3>4. /\ Cardinality(m[h]) \in Nat /\ Cardinality(Exclusive(gdm, h)) \in Nat
          /\ Cardinality(m[h]) <= Cardinality(Exclusive(gdm, h))
      BY <3>2, <3>3, Smaller
    <3>5. Cardinality(Exclusive(gdm, g)) \in Nat
      BY <3>3, Smaller
    <3> QED
      BY <3>1, <3>4, <3>5, <2>1
  <2>3. \A h \in Gateways : Cardinality(m[h]) \in Nat
    BY <1>2, Smaller DEF Mapping
  <2>4. CASE g = list[i]
    <3>1. ~(Cardinality(m[list[i]]) <= Cardinality(m[list[j]]))
      BY <2>4, <2>2, <2>3, <1>5
    <3> QED
      BY <3>1, <2>4, <2>1, <1>6 DEF Comparison
  <2>5. CASE g = list[j]
    <3>1. Cardinality(m[list[i]]) <= Cardinality(m[list[j]])
      BY <2>5, <2>2, <2>3, <1>5
    <3> QED
      BY <3>1, <2>5, <2>1, <1>6 DEF Comparison
  <2>6. CASE g # list[i] /\ g # list[j]
    BY <2>6, <2>1, <1>6 DEF Comparison
  <2> QED
    BY <2>4, <2>5, <2>6
<1> QED
  BY <1>7, <1>8, <1>9, <1>10, <1>11, <1>12 DEF Looping

(* The next round of the outer loop: all pairs of the last one are done.   *)
LEMMA NextRowStep == TypeOK /\ pc = "pairwise" /\ Looping /\ NextRow
                       => TypeOK' /\ Looping'
<1> SUFFICES ASSUME TypeOK, pc = "pairwise", Looping, NextRow
             PROVE  TypeOK' /\ Looping'
  OBVIOUS
<1> DEFINE n == Len(remoteGateways)
<1>1. /\ j > n /\ i' = i + 1 /\ j' = i + 2
      /\ UNCHANGED <<pc, gatewayDeviceMapping, remoteGatewayDeviceMapping,
                     remoteGateways, optimalGatewayDeviceMapping>>
  BY DEF NextRow
<1>2. i \in Nat \ {0} /\ j \in Nat /\ n \in Nat /\ DOMAIN remoteGateways = 1..n
  BY DEF TypeOK
<1> HIDE DEF n
<1>3. TypeOK'
  <2>1. i' \in Nat \ {0} /\ j' \in Nat /\ i' < j'
    BY <1>1, <1>2
  <2> QED
    BY <2>1, <1>1 DEF TypeOK
<1>4. Listed' /\ Shrinking' /\ NothingLost' /\ LargestIntact'
  BY <1>1 DEF Looping, Listed, Shrinking, NothingLost, LargestIntact, Dominates
<1>5. PairsDisjoint'
  <2> SUFFICES ASSUME NEW a \in 1..n, NEW b \in 1..n, a < b,
                      a < i + 1 \/ (a = i + 1 /\ b < i + 2)
               PROVE  remoteGatewayDeviceMapping[remoteGateways[a]]
                        \intersect remoteGatewayDeviceMapping[remoteGateways[b]] = {}
    BY <1>1, <1>2 DEF PairsDisjoint, Compared
  <2>1. a < i \/ (a = i /\ b < j)
    BY <1>1, <1>2
  <2> QED
    BY <2>1, <1>2 DEF Looping, PairsDisjoint, Compared
<1> QED
  BY <1>3, <1>4, <1>5 DEF Looping

(* Adding the local devices to what is left ends the algorithm.            *)
LEMMA CombineStep == TypeOK /\ pc = "pairwise" /\ Looping /\ Combine
                       => TypeOK' /\ Looping' /\ Combined' /\ pc' = "done"
<1> SUFFICES ASSUME TypeOK, pc = "pairwise", Looping, Combine
             PROVE  TypeOK' /\ Looping' /\ Combined' /\ pc' = "done"
  OBVIOUS
<1>1. Looping' /\ Combined' /\ pc' = "done"
  BY DEF Combine, Combined, Looping, Listed, Shrinking, NothingLost,
         PairsDisjoint, LargestIntact, Dominates, Compared
<1>2. [remoteGatewayDeviceMapping EXCEPT ![Local] = gatewayDeviceMapping[Local]]
        \in Mapping
  BY MappingAssumption DEF TypeOK, Mapping
<1>3. TypeOK'
  BY <1>2 DEF TypeOK, Combine
<1> QED
  BY <1>1, <1>3

(* The loop keeps its invariant: what the result is made of is a partition *)
(* of the exclusive devices as far as the pairs have been compared.        *)
THEOREM LoopInvariantHolds == Spec => []LoopInvariant
<1>1. Init => LoopInvariant
  <2> SUFFICES ASSUME Init PROVE LoopInvariant
    OBVIOUS
  <2>1. Nothing \in Mapping
    BY DEF Nothing, Mapping
  <2>2. <<>> \in Seq(Gateways)
    OBVIOUS
  <2> QED
    BY <2>1, <2>2 DEF Init, LoopInvariant, TypeOK
<1>2. LoopInvariant /\ [Next]_vars => LoopInvariant'
  <2> SUFFICES ASSUME LoopInvariant, [Next]_vars PROVE LoopInvariant'
    OBVIOUS
  <2>1. CASE Exclude
    <3>1. pc = "exclude" /\ TypeOK /\ i = 1 /\ j = 2
      BY <2>1 DEF Exclude, LoopInvariant
    <3> QED
      BY <3>1, <2>1, ExcludeStep DEF LoopInvariant
  <2>2. CASE Compare
    <3>1. pc = "pairwise" /\ TypeOK /\ Looping /\ pc' = "pairwise"
      BY <2>2 DEF Compare, LoopInvariant
    <3> QED
      BY <3>1, <2>2, CompareStep DEF LoopInvariant
  <2>3. CASE NextRow
    <3>1. pc = "pairwise" /\ TypeOK /\ Looping /\ pc' = "pairwise"
      BY <2>3 DEF NextRow, LoopInvariant
    <3> QED
      BY <3>1, <2>3, NextRowStep DEF LoopInvariant
  <2>4. CASE Combine
    <3>1. pc = "pairwise" /\ TypeOK /\ Looping
      BY <2>4 DEF Combine, LoopInvariant
    <3> QED
      BY <3>1, <2>4, CombineStep DEF LoopInvariant
  <2>5. CASE UNCHANGED vars
    BY <2>5 DEF vars, LoopInvariant, TypeOK, Looping, Listed, Shrinking,
                NothingLost, PairsDisjoint, LargestIntact, Dominates, Compared,
                Combined
  <2> QED
    BY <2>1, <2>2, <2>3, <2>4, <2>5 DEF Next
<1> QED
  BY <1>1, <1>2, PTL DEF Spec

(* What the loop invariant says when the last pair has been compared.      *)
LEMMA EndFacts ==
  ASSUME LoopInvariant, pc = "done"
  PROVE  /\ ValidMapping(optimalGatewayDeviceMapping, gatewayDeviceMapping)
         /\ \A g \in Gateways \ {Local} : Dominates(g) =>
              optimalGatewayDeviceMapping[g] = Exclusive(gatewayDeviceMapping, g)
<1> DEFINE gdm == gatewayDeviceMapping
           m == remoteGatewayDeviceMapping
           list == remoteGateways
           opt == optimalGatewayDeviceMapping
<1>1. /\ i >= Len(list) /\ j > Len(list)
      /\ opt = [m EXCEPT ![Local] = gdm[Local]]
  BY DEF LoopInvariant, Combined
<1>2. TypeOK /\ Listed /\ Shrinking /\ NothingLost /\ PairsDisjoint /\ LargestIntact
  BY DEF LoopInvariant, Looping
<1>3. m \in Mapping /\ gdm \in Mapping /\ opt \in Mapping /\ list \in Seq(Gateways)
      /\ i \in Nat \ {0} /\ j \in Nat
  BY <1>2 DEF TypeOK
<1>4. opt[Local] = gdm[Local] /\ \A g \in Gateways \ {Local} : opt[g] = m[g]
  BY <1>1, <1>3, MappingAssumption DEF Mapping
<1>5. \A g \in Gateways : m[g] \subseteq Exclusive(gdm, g)
  BY <1>2 DEF Shrinking
<1>6. \A g \in Gateways \ {Local} : m[g] \subseteq gdm[g] \ gdm[Local]
  BY <1>5 DEF Exclusive
<1>7. \A g, h \in Gateways : g # h => m[g] \intersect m[h] = {}
  <2> SUFFICES ASSUME NEW g \in Gateways, NEW h \in Gateways, g # h,
                      m[g] # {}, m[h] # {}
               PROVE  m[g] \intersect m[h] = {}
    OBVIOUS
  <2>1. PICK a \in DOMAIN list : list[a] = g
    BY <1>2 DEF Listed
  <2>2. PICK b \in DOMAIN list : list[b] = h
    BY <1>2 DEF Listed
  <2>3. a # b /\ a \in 1..Len(list) /\ b \in 1..Len(list) /\ Len(list) \in Nat
    BY <2>1, <2>2, <1>3
  <2>4. CASE a < b
    <3>1. Compared(a, b)
      BY <2>3, <2>4, <1>1, <1>3 DEF Compared
    <3> QED
      BY <3>1, <2>4, <2>1, <2>2, <1>2 DEF PairsDisjoint
  <2>5. CASE b < a
    <3>1. Compared(b, a)
      BY <2>3, <2>5, <1>1, <1>3 DEF Compared
    <3>2. m[h] \intersect m[g] = {}
      BY <3>1, <2>5, <2>1, <2>2, <1>2 DEF PairsDisjoint
    <3> QED
      BY <3>2
  <2> QED
    BY <2>3, <2>4, <2>5
<1> HIDE DEF gdm, m, list, opt
<1>8. Offering(opt, gdm) /\ LocalFirst(opt, gdm)
  BY <1>4, <1>6 DEF Offering, LocalFirst
<1>9. Covering(opt, gdm)
  <2> SUFFICES ASSUME NEW d \in Devices, NEW g \in Gateways, d \in gdm[g]
               PROVE  \E h \in Gateways : d \in opt[h]
    BY DEF Covering
  <2>1. CASE d \in gdm[Local]
    BY <2>1, <1>4, MappingAssumption
  <2>2. CASE d \notin gdm[Local]
    <3>1. d \in Exclusive(gdm, g)
      BY <2>2 DEF Exclusive
    <3>2. PICK h \in Gateways : d \in m[h]
      BY <3>1, <1>2 DEF NothingLost, gdm, m
    <3>3. h # Local
      BY <3>2, <1>5, MappingAssumption DEF Exclusive
    <3> QED
      BY <3>2, <3>3, <1>4
  <2> QED
    BY <2>1, <2>2
<1>10. OneSource(opt)
  <2> SUFFICES ASSUME NEW g \in Gateways, NEW h \in Gateways, g # h
               PROVE  opt[g] \intersect opt[h] = {}
    BY DEF OneSource
  <2>1. CASE g = Local
    BY <2>1, <1>4, <1>6
  <2>2. CASE h = Local
    BY <2>2, <1>4, <1>6
  <2>3. CASE g # Local /\ h # Local
    BY <2>3, <1>4, <1>7
  <2> QED
    BY <2>1, <2>2, <2>3
<1>11. ValidMapping(opt, gdm)
  BY <1>3, <1>8, <1>9, <1>10 DEF ValidMapping
<1>12. \A g \in Gateways \ {Local} : Dominates(g) => opt[g] = Exclusive(gdm, g)
  BY <1>2, <1>4 DEF LargestIntact, m, gdm
<1> QED
  BY <1>11, <1>12 DEF opt, gdm

(* The mapping returned asks for every sensor offered, from one gateway,   *)
(* from the local one whenever it has it.                                  *)
THEOREM ResultIsValid == Spec => []ResultValid
<1>1. LoopInvariant => ResultValid
  BY EndFacts DEF ResultValid
<1> QED
  BY <1>1, LoopInvariantHolds, PTL

(* A gateway that offers strictly more than every other one loses nothing. *)
THEOREM LargestIsKept == Spec => []LargestKept
<1>1. LoopInvariant => LargestKept
  BY EndFacts DEF LargestKept
<1> QED
  BY <1>1, LoopInvariantHolds, PTL
=============================================================================
