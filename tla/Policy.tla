------------------------------- MODULE Policy -------------------------------
(***************************************************************************)
(* The privacy policy of a gateway (policy.js): entries block or allow a   *)
(* sensor, an application, or a sensor for an application on a schedule.   *)
(* PolicyEnforcer compiles them into lists of what is blocked at present   *)
(* and sets a timer for the time the lists may change; the sensor stream   *)
(* manager asks isBlocked() for every reading it routes.                   *)
(***************************************************************************)
EXTENDS Naturals

CONSTANTS
  Sensors, Apps,  \* sensor ids; applications, each a gateway and a topic
  Schedules,      \* schedules, each the set of the minutes it covers
  Policies,       \* the policies update() may get
  MaxTime,        \* bound: minutes
  MaxUpdates      \* bound: calls of update()

Times == 0..MaxTime
Entries == [block : BOOLEAN, schedule : Schedules]

(* What a policy has for a target: nothing, or one entry.                  *)
Optional == {{}} \union {{e} : e \in Entries}

PolicyType ==
  [sensorSpecific : [Sensors -> Optional],
   appSpecific : [Apps -> Optional],
   appSensor : [Sensors -> [Apps -> Optional]]]

NoPolicy ==
  [sensorSpecific |-> [s \in Sensors |-> {}],
   appSpecific |-> [a \in Apps |-> {}],
   appSensor |-> [s \in Sensors |-> [a \in Apps |-> {}]]]

ASSUME PolicyAssumption ==
  /\ MaxTime \in Nat /\ MaxUpdates \in Nat
  /\ \A S \in Schedules : S \subseteq Times
  /\ Policies \subseteq PolicyType

VARIABLES
  policy,   \* the entries of the last update
  rule,     \* the lists compiled from it
  timer,    \* {} or {the time it fires}
  now, updates

vars == <<policy, rule, timer, now, updates>>

(* Mutant: an entry that allows blocks nothing outside its schedule.       *)
BlocksOnly(e, t) == e.block /\ t \in e.schedule

(* The target of an entry is blocked in the schedule of an entry that      *)
(* blocks, and outside that of an entry that allows.                       *)
InEffect(e, t) == (t \in e.schedule) = e.block

Changes(e, t) == {u \in Times : u > t /\ ((u \in e.schedule) # (t \in e.schedule))}

Least(S) == CHOOSE u \in S : \A v \in S : u <= v

(* The next time a schedule begins or ends; one that never does is         *)
(* looked at again a minute later.                                         *)
getNextScheduleChangeTime(e, t) ==
  IF Changes(e, t) = {} THEN t + 1 ELSE Least(Changes(e, t))

sensorBlocked(p, t) ==
  {s \in Sensors : \E e \in p.sensorSpecific[s] : InEffect(e, t)}

appBlocked(p, t) == {a \in Apps : \E e \in p.appSpecific[a] : InEffect(e, t)}

(* An entry for a sensor and an application is skipped when one of them    *)
(* is blocked as it is.                                                    *)
Visited(p, t) ==
  {sa \in Sensors \X Apps :
     sa[1] \notin sensorBlocked(p, t) /\ sa[2] \notin appBlocked(p, t)}

pairBlocked(p, t) ==
  {sa \in Visited(p, t) : \E e \in p.appSensor[sa[1]][sa[2]] : InEffect(e, t)}

RuleOf(p, t) ==
  [sensorSpecific |-> sensorBlocked(p, t),
   appSpecific |-> appBlocked(p, t),
   appSensor |-> pairBlocked(p, t)]

(* Mutant: the entries that block now are not asked for their next change. *)
AskedUnlessBlocked(p, t) ==
  {e \in Entries :
     \/ \E s \in Sensors \ sensorBlocked(p, t) : e \in p.sensorSpecific[s]
     \/ \E a \in Apps \ appBlocked(p, t) : e \in p.appSpecific[a]
     \/ \E sa \in Visited(p, t) : e \in p.appSensor[sa[1]][sa[2]]}

(* The entries whose schedule is asked for its next change.                *)
Asked(p, t) ==
  {e \in Entries :
     \/ \E s \in Sensors : e \in p.sensorSpecific[s]
     \/ \E a \in Apps : e \in p.appSpecific[a]
     \/ \E sa \in Visited(p, t) : e \in p.appSensor[sa[1]][sa[2]]}

ChangeTimes(p, t) == {getNextScheduleChangeTime(e, t) : e \in Asked(p, t)}

(* Mutant: the time of the last entry looked at, not the earliest.         *)
LastTime(p, t) ==
  IF ChangeTimes(p, t) = {} THEN {}
  ELSE {CHOOSE u \in ChangeTimes(p, t) : \A v \in ChangeTimes(p, t) : u >= v}

nextUpdateTime(p, t) ==
  IF ChangeTimes(p, t) = {} THEN {} ELSE {Least(ChangeTimes(p, t))}

(* _updateTimer(): without a next time the running timer is left alone.    *)
TimerOf(p, running) ==
  IF nextUpdateTime(p, now) = {} THEN running ELSE nextUpdateTime(p, now)

enforcePolicy(p, running) ==
  /\ rule' = RuleOf(p, now)
  /\ timer' = TimerOf(p, running)

Init ==
  /\ policy = NoPolicy
  /\ rule = [sensorSpecific |-> {}, appSpecific |-> {}, appSensor |-> {}]
  /\ timer = {}
  /\ now = 0
  /\ updates = 0

(* "update-policy" reaches the sensor stream manager.                      *)
update(p) ==
  /\ updates < MaxUpdates
  /\ updates' = updates + 1
  /\ policy' = p
  /\ enforcePolicy(p, timer)
  /\ UNCHANGED now

Due == \E t \in timer : t <= now

fire ==
  /\ Due
  /\ enforcePolicy(policy, {})
  /\ UNCHANGED <<policy, now, updates>>

(* The process ends and starts again; it keeps the policy in memory only.  *)
restart ==
  /\ policy' = NoPolicy
  /\ rule' = RuleOf(NoPolicy, now)
  /\ timer' = {}
  /\ UNCHANGED <<now, updates>>

Tick ==
  /\ now < MaxTime
  /\ now' = now + 1
  /\ UNCHANGED <<policy, rule, timer, updates>>

Next == (\E p \in Policies : update(p)) \/ fire \/ restart \/ Tick

Spec == Init /\ [][Next]_vars

(* The event loop runs a timer that is due.                                *)
FairSpec == Spec /\ WF_vars(fire)

-----------------------------------------------------------------------------
(* isBlocked(): the question routeSensorStreamsToApps() asks.              *)
isBlocked(s, a) ==
  \/ s \in rule.sensorSpecific
  \/ a \in rule.appSpecific
  \/ <<s, a>> \in rule.appSensor

(* What a policy means: a reading is blocked if the entry of its sensor,   *)
(* of the application, or of the two together blocks.                      *)
Blocks(e, t) == IF e.block THEN t \in e.schedule ELSE t \notin e.schedule

Blocked(p, s, a, t) ==
  \E e \in p.sensorSpecific[s] \union p.appSpecific[a] \union p.appSensor[s][a] :
    Blocks(e, t)

Agrees(t) ==
  \A s \in Sensors, a \in Apps : isBlocked(s, a) <=> Blocked(policy, s, a, t)

RuleType ==
  [sensorSpecific : SUBSET Sensors, appSpecific : SUBSET Apps,
   appSensor : SUBSET (Sensors \X Apps)]

TypeOK ==
  /\ policy \in PolicyType
  /\ rule \in RuleType
  /\ timer \in {{}} \union {{t} : t \in 0..(MaxTime + 1)}
  /\ now \in Times
  /\ updates \in 0..MaxUpdates

(* A reading is routed to an application exactly when the policy allows it *)
(* at that time, unless the timer of the change is just about to run: no   *)
(* entry skipped and no change of any schedule is missed, however often    *)
(* the policy is replaced while a timer runs.                              *)
RuleIsCurrent == ~Due => Agrees(now)

(* The strengthening: the lists stay right until the timer fires.          *)
RightUntilTimer ==
  \A t \in Times : t >= now /\ (\A d \in timer : t < d) => Agrees(t)

PolicyInv == TypeOK /\ RightUntilTimer

(* A reading the policy lets through from some time on is let through      *)
(* from some time on, and one it blocks is blocked, whatever the lists     *)
(* said before.                                                            *)
RuleCatchesUp ==
  \A s \in Sensors, a \in Apps :
    []<>(isBlocked(s, a) <=> Blocked(policy, s, a, now))
=============================================================================
