---------------------------- MODULE PolicyProofs ----------------------------
(***************************************************************************)
(* The compiled rule agrees with the policy whenever no timer is due, for  *)
(* any sensors, applications, schedules and sequence of updates.           *)
(***************************************************************************)
EXTENDS Policy, WellFoundedInduction, TLAPS

(* A set of times has a least element.                                     *)
LEMMA LeastFacts ==
  ASSUME NEW S \in SUBSET Nat, S # {}
  PROVE  Least(S) \in S /\ \A v \in S : Least(S) <= v
<1>1. PICK u \in S : \A v \in S : ~ (<<v, u>> \in OpToRel(<, Nat))
  BY NatLessThanWellFounded, WFMin
<1>2. \A v \in S : ~ (v < u)
  BY <1>1 DEF OpToRel
<1>3. \A v \in S : u <= v
  BY <1>2
<1> QED
  BY <1>3 DEF Least

(* Until its next change, an entry stays in effect or out of it.           *)
LEMMA NoChangeBefore ==
  ASSUME NEW e \in Entries, NEW t \in Times, NEW u \in Times,
         t <= u, u < getNextScheduleChangeTime(e, t)
  PROVE  InEffect(e, u) <=> InEffect(e, t)
<1>0. Changes(e, t) \subseteq Nat
  BY PolicyAssumption DEF Changes, Times
<1>1. u \notin Changes(e, t)
  <2>1. CASE Changes(e, t) = {}
    BY <2>1
  <2>2. CASE Changes(e, t) # {}
    <3>1. \A v \in Changes(e, t) : Least(Changes(e, t)) <= v
      BY <1>0, <2>2, LeastFacts
    <3>2. u < Least(Changes(e, t))
      BY <2>2 DEF getNextScheduleChangeTime
    <3>3. Least(Changes(e, t)) \in Nat
      BY <1>0, <2>2, LeastFacts
    <3> QED
      BY <3>1, <3>2, <3>3, PolicyAssumption DEF Times
  <2> QED
    BY <2>1, <2>2
<1>2. (u \in e.schedule) = (t \in e.schedule)
  BY <1>1, PolicyAssumption DEF Changes, Times
<1> QED
  BY <1>2 DEF InEffect

(* The next change of an entry is a later time.                            *)
LEMMA NextChangeFacts ==
  ASSUME NEW e \in Entries, NEW t \in Times
  PROVE  getNextScheduleChangeTime(e, t) \in 0..(MaxTime + 1)
<1>1. Changes(e, t) \subseteq Times /\ Changes(e, t) \subseteq Nat
  BY PolicyAssumption DEF Changes, Times
<1>2. CASE Changes(e, t) = {}
  BY <1>2, PolicyAssumption DEF getNextScheduleChangeTime, Times
<1>3. CASE Changes(e, t) # {}
  <2>1. Least(Changes(e, t)) \in Changes(e, t)
    BY <1>1, <1>3, LeastFacts
  <2> QED
    BY <1>1, <1>3, <2>1, PolicyAssumption DEF getNextScheduleChangeTime, Times
<1> QED
  BY <1>2, <1>3

(* What the policy has for its targets are entries.                        *)
LEMMA PolicyEntries ==
  ASSUME NEW p \in PolicyType
  PROVE  /\ \A s \in Sensors : p.sensorSpecific[s] \subseteq Entries
         /\ \A a \in Apps : p.appSpecific[a] \subseteq Entries
         /\ \A s \in Sensors, a \in Apps : p.appSensor[s][a] \subseteq Entries
<1>1. \A E \in Optional : E \subseteq Entries
  BY DEF Optional
<1>2. /\ p.sensorSpecific \in [Sensors -> Optional]
      /\ p.appSpecific \in [Apps -> Optional]
      /\ p.appSensor \in [Sensors -> [Apps -> Optional]]
  BY DEF PolicyType
<1> QED
  BY <1>1, <1>2

LEMMA AskedFacts ==
  ASSUME NEW p \in PolicyType, NEW t
  PROVE  /\ Asked(p, t) \subseteq Entries
         /\ \A s \in Sensors : p.sensorSpecific[s] \subseteq Asked(p, t)
         /\ \A a \in Apps : p.appSpecific[a] \subseteq Asked(p, t)
         /\ \A s \in Sensors, a \in Apps :
              <<s, a>> \in Visited(p, t) => p.appSensor[s][a] \subseteq Asked(p, t)
<1>1. ASSUME NEW s \in Sensors, NEW a \in Apps, <<s, a>> \in Visited(p, t),
             NEW e \in p.appSensor[s][a]
      PROVE  e \in Asked(p, t)
  <2>1. \E sa \in Visited(p, t) : e \in p.appSensor[sa[1]][sa[2]]
    BY <1>1
  <2>2. e \in Entries
    BY PolicyEntries
  <2> QED
    BY <2>1, <2>2 DEF Asked
<1> QED
  BY <1>1, PolicyEntries DEF Asked

(* The next update is a time, at the latest that of any entry asked.       *)
LEMMA NextUpdateFacts ==
  ASSUME NEW p \in PolicyType, NEW t \in Times
  PROVE  /\ nextUpdateTime(p, t) \in {{}} \union {{d} : d \in 0..(MaxTime + 1)}
         /\ nextUpdateTime(p, t) = {} => Asked(p, t) = {}
         /\ \A d \in nextUpdateTime(p, t) : \A e \in Asked(p, t) :
              d <= getNextScheduleChangeTime(e, t)
<1> DEFINE C == ChangeTimes(p, t)
<1>1. C \subseteq 0..(MaxTime + 1)
  BY AskedFacts, NextChangeFacts DEF ChangeTimes
<1>2. C \subseteq Nat
  BY <1>1
<1>3. C = {} => Asked(p, t) = {}
  BY DEF ChangeTimes
<1>4. \A e \in Asked(p, t) : getNextScheduleChangeTime(e, t) \in C
  BY DEF ChangeTimes
<1>5. CASE C = {}
  BY <1>3, <1>5 DEF nextUpdateTime
<1>6. CASE C # {}
  <2>1. nextUpdateTime(p, t) = {Least(C)}
    BY <1>6 DEF nextUpdateTime
  <2>2. Least(C) \in C /\ \A v \in C : Least(C) <= v
    BY <1>2, <1>6, LeastFacts
  <2> HIDE DEF C
  <2> QED
    BY <1>1, <1>4, <2>1, <2>2
<1> QED
  BY <1>5, <1>6

(* The reference and the code read an entry alike.                         *)
LEMMA BlocksIsInEffect ==
  ASSUME NEW e \in Entries, NEW t
  PROVE  Blocks(e, t) <=> InEffect(e, t)
<1>1. e.block \in BOOLEAN
  BY DEF Entries
<1> QED
  BY <1>1 DEF Blocks, InEffect

LEMMA BlockedFacts ==
  ASSUME NEW p \in PolicyType, NEW s \in Sensors, NEW a \in Apps, NEW t
  PROVE  Blocked(p, s, a, t) <=>
           \/ s \in sensorBlocked(p, t)
           \/ a \in appBlocked(p, t)
           \/ \E e \in p.appSensor[s][a] : InEffect(e, t)
BY PolicyEntries, BlocksIsInEffect DEF Blocked, sensorBlocked, appBlocked

(* What the lists compiled at t say of a sensor and an application.         *)
RuleBlocks(p, s, a, t) ==
  \/ s \in RuleOf(p, t).sensorSpecific
  \/ a \in RuleOf(p, t).appSpecific
  \/ <<s, a>> \in RuleOf(p, t).appSensor

(* The lists compiled at t are right at every later time before the next   *)
(* update: what was skipped belongs to a target that stays blocked.        *)
LEMMA RuleStaysRight ==
  ASSUME NEW p \in PolicyType, NEW t \in Times, NEW u \in Times, t <= u,
         \A d \in nextUpdateTime(p, t) : u < d,
         NEW s \in Sensors, NEW a \in Apps
  PROVE  RuleBlocks(p, s, a, t) <=> Blocked(p, s, a, u)
<1>1. \A e \in Asked(p, t) : InEffect(e, u) <=> InEffect(e, t)
  <2>1. SUFFICES ASSUME NEW e \in Asked(p, t)
                 PROVE  InEffect(e, u) <=> InEffect(e, t)
    OBVIOUS
  <2>2. PICK d \in nextUpdateTime(p, t) : TRUE
    BY NextUpdateFacts
  <2>3. d \in Nat /\ d <= getNextScheduleChangeTime(e, t) /\ u < d
    BY NextUpdateFacts
  <2>4. e \in Entries
    BY AskedFacts
  <2>5. getNextScheduleChangeTime(e, t) \in Nat /\ u \in Nat
    BY <2>4, NextChangeFacts DEF Times
  <2>6. u < getNextScheduleChangeTime(e, t)
    BY <2>3, <2>5
  <2> QED
    BY <2>4, <2>6, NoChangeBefore
<1>2. sensorBlocked(p, u) = sensorBlocked(p, t)
  BY <1>1, AskedFacts DEF sensorBlocked
<1>3. appBlocked(p, u) = appBlocked(p, t)
  BY <1>1, AskedFacts DEF appBlocked
<1>4. Blocked(p, s, a, u) <=>
        \/ s \in sensorBlocked(p, t)
        \/ a \in appBlocked(p, t)
        \/ \E e \in p.appSensor[s][a] : InEffect(e, u)
  BY <1>2, <1>3, BlockedFacts
<1>5. RuleBlocks(p, s, a, t) <=>
        \/ s \in sensorBlocked(p, t)
        \/ a \in appBlocked(p, t)
        \/ <<s, a>> \in pairBlocked(p, t)
  BY DEF RuleBlocks, RuleOf
<1>6. CASE s \in sensorBlocked(p, t) \/ a \in appBlocked(p, t)
  BY <1>4, <1>5, <1>6
<1>7. CASE s \notin sensorBlocked(p, t) /\ a \notin appBlocked(p, t)
  <2>1. <<s, a>> \in Visited(p, t)
    BY <1>7 DEF Visited
  <2>2. p.appSensor[s][a] \subseteq Asked(p, t)
    BY <2>1, AskedFacts
  <2>3. <<s, a>> \in pairBlocked(p, t) <=>
          \E e \in p.appSensor[s][a] : InEffect(e, t)
    BY <2>1 DEF pairBlocked
  <2> QED
    BY <1>1, <1>4, <1>5, <1>7, <2>2, <2>3
<1> QED
  BY <1>6, <1>7

LEMMA InitPolicy == Init => PolicyInv
<1> SUFFICES ASSUME Init PROVE PolicyInv
  OBVIOUS
<1>1. NoPolicy \in PolicyType
  BY DEF NoPolicy, PolicyType, Optional
<1>2. TypeOK
  BY <1>1, PolicyAssumption DEF Init, TypeOK, RuleType, Times
<1>3. \A s \in Sensors, a \in Apps, t \in Times :
        ~ isBlocked(s, a) /\ ~ Blocked(policy, s, a, t)
  BY DEF Init, NoPolicy, isBlocked, Blocked
<1> QED
  BY <1>2, <1>3 DEF PolicyInv, RightUntilTimer, Agrees

LEMMA RuleOfType ==
  ASSUME NEW p, NEW t
  PROVE  RuleOf(p, t) \in RuleType
BY DEF RuleOf, RuleType, sensorBlocked, appBlocked, pairBlocked, Visited

(* Enforcing a policy establishes the invariant, whatever timer ran.        *)
LEMMA EnforceKeeps ==
  ASSUME TypeOK, NEW p \in PolicyType,
         NEW running \in {{}} \union {{d} : d \in 0..(MaxTime + 1)},
         policy' = p, enforcePolicy(p, running), now' = now,
         updates' \in 0..MaxUpdates
  PROVE  PolicyInv'
<1>1. now \in Times
  BY DEF TypeOK
<1>2. rule' = RuleOf(p, now) /\ timer' = TimerOf(p, running)
  BY DEF enforcePolicy
<1>3. timer' \in {{}} \union {{d} : d \in 0..(MaxTime + 1)}
  BY <1>1, <1>2, NextUpdateFacts DEF TimerOf
<1>4. TypeOK'
  BY <1>1, <1>2, <1>3, RuleOfType DEF TypeOK
<1>5. \A d \in nextUpdateTime(p, now) : d \in timer'
  BY <1>2 DEF TimerOf
<1>6. ASSUME NEW t \in Times, t >= now, \A d \in timer' : t < d,
             NEW s \in Sensors, NEW a \in Apps
      PROVE  isBlocked(s, a)' <=> Blocked(p, s, a, t)
  <2>1. now <= t
    BY <1>1, <1>6 DEF Times
  <2>2. RuleBlocks(p, s, a, now) <=> Blocked(p, s, a, t)
    BY <1>1, <1>5, <1>6, <2>1, RuleStaysRight
  <2> QED
    BY <1>2, <2>2 DEF isBlocked, RuleBlocks
<1>7. RightUntilTimer'
  BY <1>6 DEF RightUntilTimer, Agrees
<1> QED
  BY <1>4, <1>7 DEF PolicyInv

LEMMA UpdateKeeps ==
  ASSUME PolicyInv, NEW p \in Policies, update(p)
  PROVE  PolicyInv'
<1>1. p \in PolicyType
  BY PolicyAssumption
<1>2. TypeOK /\ timer \in {{}} \union {{d} : d \in 0..(MaxTime + 1)}
  BY DEF PolicyInv, TypeOK
<1>3. policy' = p /\ enforcePolicy(p, timer) /\ now' = now
  BY DEF update
<1>4. updates' \in 0..MaxUpdates
  BY <1>2, PolicyAssumption DEF update, TypeOK
<1> QED
  BY <1>1, <1>2, <1>3, <1>4, EnforceKeeps

LEMMA FireKeeps ==
  ASSUME PolicyInv, fire
  PROVE  PolicyInv'
<1>1. TypeOK /\ policy \in PolicyType /\ updates \in 0..MaxUpdates
  BY DEF PolicyInv, TypeOK
<1>2. policy' = policy /\ enforcePolicy(policy, {}) /\ now' = now
      /\ updates' = updates
  BY DEF fire
<1> QED
  BY <1>1, <1>2, EnforceKeeps

(* A restarted process has no policy, and nothing to block.                *)
LEMMA RestartKeeps ==
  ASSUME PolicyInv, restart
  PROVE  PolicyInv'
<1>1. NoPolicy \in PolicyType
  BY DEF NoPolicy, PolicyType, Optional
<1>2. TypeOK /\ now \in Times /\ updates \in 0..MaxUpdates
  BY DEF PolicyInv, TypeOK
<1>3. Asked(NoPolicy, now) = {}
  BY DEF Asked, NoPolicy, Visited
<1>4. nextUpdateTime(NoPolicy, now) = {}
  BY <1>3 DEF nextUpdateTime, ChangeTimes
<1>5. enforcePolicy(NoPolicy, {})
  BY <1>4 DEF restart, enforcePolicy, TimerOf
<1> QED
  BY <1>1, <1>2, <1>5, EnforceKeeps DEF restart

LEMMA TickKeeps ==
  ASSUME PolicyInv, Tick
  PROVE  PolicyInv'
<1>1. now \in Times /\ now' = now + 1 /\ now' \in Times
      /\ UNCHANGED <<policy, rule, timer, updates>>
  BY PolicyAssumption DEF PolicyInv, TypeOK, Tick, Times
<1>2. TypeOK'
  BY <1>1 DEF PolicyInv, TypeOK
<1>3. \A t \in Times : Agrees(t)' <=> Agrees(t)
  BY <1>1 DEF Agrees, isBlocked
<1>4. \A t \in Times : t >= now' => t >= now
  BY <1>1 DEF Times
<1>5. RightUntilTimer'
  BY <1>1, <1>3, <1>4 DEF PolicyInv, RightUntilTimer
<1> QED
  BY <1>2, <1>5 DEF PolicyInv

(* The lists stay right until the timer fires, which is never too late.    *)
THEOREM PolicyInvariant == Spec => []PolicyInv
<1>1. PolicyInv /\ [Next]_vars => PolicyInv'
  <2> SUFFICES ASSUME PolicyInv, [Next]_vars PROVE PolicyInv'
    OBVIOUS
  <2>1. CASE UNCHANGED vars
    <3>1. TypeOK'
      BY <2>1 DEF vars, PolicyInv, TypeOK
    <3>2. RightUntilTimer'
      BY <2>1 DEF vars, PolicyInv, RightUntilTimer, Agrees, isBlocked
    <3> QED
      BY <3>1, <3>2 DEF PolicyInv
  <2> QED
    BY <2>1, UpdateKeeps, FireKeeps, RestartKeeps, TickKeeps DEF Next
<1> QED
  BY InitPolicy, <1>1, PTL DEF Spec

(* No reading is routed against the policy, and none it allows is held     *)
(* back, while no timer is due.                                            *)
THEOREM RuleFollowsPolicy == Spec => []RuleIsCurrent
<1>1. PolicyInv => RuleIsCurrent
  <2> SUFFICES ASSUME PolicyInv, ~Due PROVE Agrees(now)
    BY DEF RuleIsCurrent
  <2>1. now \in Times /\ now >= now
    BY DEF PolicyInv, TypeOK, Times
  <2>2. \A d \in timer : d \in Nat
    BY DEF PolicyInv, TypeOK
  <2>3. \A d \in timer : now < d
    BY <2>1, <2>2 DEF Due, Times
  <2> QED
    BY <2>1, <2>3 DEF PolicyInv, RightUntilTimer
<1> QED
  BY PolicyInvariant, <1>1, PTL

(* Policy, lists, timer and time keep their types.                         *)
THEOREM TypeInvariant == Spec => []TypeOK
<1>1. PolicyInv => TypeOK
  BY DEF PolicyInv
<1> QED
  BY PolicyInvariant, <1>1, PTL
=============================================================================
