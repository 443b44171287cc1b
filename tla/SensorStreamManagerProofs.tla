---------------------- MODULE SensorStreamManagerProofs ---------------------
(***************************************************************************)
(* The diagnostic timers of sensor-stream-manager.js watch what they       *)
(* should, for any topics, gateways, sensors and any number of crashes.    *)
(***************************************************************************)
EXTENDS SensorStreamManager, FiniteSetTheorems, TLAPS

(* What the operators of the two managers return.                          *)
LEMMA RouteType ==
  ASSUME TypeOK, NEW g \in Gateways, NEW t \in Topics, NEW S \in SUBSET Devices
  PROVE  registerToLocalGateway(g, t, S)
           \in [Gateways -> [Topics -> [Devices -> Nat]]]
<1>1. routes \in [Gateways -> [Topics -> [Devices -> Nat]]]
  BY DEF TypeOK
<1> DEFINE row == [d \in Devices |-> routes[g][t][d] + IF d \in S THEN 1 ELSE 0]
<1>2. row \in [Devices -> Nat]
  BY <1>1
<1>3. registerToLocalGateway(g, t, S) = [routes EXCEPT ![g][t] = row]
  BY DEF registerToLocalGateway
<1> HIDE DEF row
<1> QED
  BY <1>1, <1>2, <1>3

LEMMA RequestsType ==
  ASSUME NEW t \in Topics, NEW m \in Mapping, NEW w \in Nat
  PROVE  registerToRemoteGateway(t, m, w) \subseteq CallType
BY DEF registerToRemoteGateway, Call, CallType, Mapping, Providers

LEMMA OptimalType ==
  ASSUME NEW t \in Topics, NEW named, NEW m \in optimalGatewayDeviceMapping(t, named)
  PROVE  m \in Mapping
BY DEF optimalGatewayDeviceMapping

LEMMA NothingType == Nothing \in Mapping /\ Unrouted \in [Topics -> [Devices -> Nat]]
BY DEF Nothing, Mapping, Unrouted

LEMMA LocalIsGateway == Local \in Gateways /\ Providers \subseteq Gateways
BY MappingAssumption DEF Providers

(* Type correctness: the actions of Local on a topic, its timers, its      *)
(* crash; the requests; the providers.                                     *)
LEMMA TypeTopic ==
  ASSUME TypeOK, NEW t \in Topics, requestStreams(t) \/ recover(t)
  PROVE  TypeOK'
<1>1. CASE requestStreams(t)
  <2>1. PICK named \in SUBSET Alive : \E m \in optimalGatewayDeviceMapping(t, named) :
          /\ mapping' = [mapping EXCEPT ![t] = m]
          /\ routes' = registerToLocalGateway(Local, t, m[Local])
          /\ calls' = calls \union registerToRemoteGateway(t, m, waves[t] + 1)
    BY <1>1 DEF requestStreams
  <2>2. PICK m \in optimalGatewayDeviceMapping(t, named) :
          /\ mapping' = [mapping EXCEPT ![t] = m]
          /\ routes' = registerToLocalGateway(Local, t, m[Local])
          /\ calls' = calls \union registerToRemoteGateway(t, m, waves[t] + 1)
    BY <2>1
  <2>3. m \in Mapping /\ m[Local] \in SUBSET Devices /\ waves[t] + 1 \in Nat
    BY OptimalType, LocalIsGateway DEF Mapping, TypeOK
  <2>4. routes' \in [Gateways -> [Topics -> [Devices -> Nat]]]
    BY <2>2, <2>3, RouteType, LocalIsGateway
  <2>5. calls' \subseteq CallType
    BY <2>2, <2>3, RequestsType DEF TypeOK
  <2>6. mapping' \in [Topics -> Mapping]
    BY <2>2, <2>3 DEF TypeOK
  <2>7. waves' \in [Topics -> Nat] /\ requested' \in [Topics -> BOOLEAN]
    BY <1>1, <2>3 DEF requestStreams, TypeOK
  <2> QED
    BY <1>1, <2>4, <2>5, <2>6, <2>7 DEF requestStreams, TypeOK, provider
<1>2. CASE recover(t)
  <2>1. PICK named \in SUBSET Alive : \E m \in optimalGatewayDeviceMapping(t, named) :
          /\ mapping' = [mapping EXCEPT ![t] = m]
          /\ calls' = calls \union registerToRemoteGateway(t, m, waves[t] + 1)
    BY <1>2 DEF recover
  <2>2. PICK m \in optimalGatewayDeviceMapping(t, named) :
          /\ mapping' = [mapping EXCEPT ![t] = m]
          /\ calls' = calls \union registerToRemoteGateway(t, m, waves[t] + 1)
    BY <2>1
  <2>3. m \in Mapping /\ waves[t] + 1 \in Nat
    BY OptimalType DEF TypeOK
  <2>4. calls' \subseteq CallType
    BY <2>2, <2>3, RequestsType DEF TypeOK
  <2>5. mapping' \in [Topics -> Mapping]
    BY <2>2, <2>3 DEF TypeOK
  <2>6. recovering' \in [Topics -> Nat]
    BY <1>2 DEF recover, TypeOK
  <2>7. waves' \in [Topics -> Nat] /\ unregistered' \in [Topics -> SUBSET Providers]
    BY <1>2, <2>3 DEF recover, TypeOK
  <2> QED
    BY <1>2, <2>4, <2>5, <2>6, <2>7 DEF recover, TypeOK, provider
<1> QED
  BY <1>1, <1>2

LEMMA TypeTimer ==
  ASSUME TypeOK, NEW t \in Topics, NEW g \in Providers,
         \/ Elapse(t, g)
         \/ handleHeartbeatMessage(t, g)
         \/ handleRemoteGatewayFailure(t, g)
  PROVE  TypeOK'
<1>1. CASE Elapse(t, g)
  BY <1>1 DEF Elapse, TypeOK, provider
<1>2. CASE handleHeartbeatMessage(t, g)
  BY <1>2 DEF handleHeartbeatMessage, TypeOK, provider
<1>3. CASE handleRemoteGatewayFailure(t, g)
  <2>1. calls' \subseteq CallType
    <3>1. \A h \in Remote(t) : Call("deregister", t, h, mapping[t][h], waves[t]) \in CallType
      BY LocalIsGateway DEF Remote, Call, CallType, TypeOK, Mapping
    <3> QED
      BY <1>3, <3>1 DEF handleRemoteGatewayFailure, requestRemoteGatewayToDeregister,
                        TypeOK
  <2>2. TimersCleared(t, g) \in [Providers -> {"none", "armed", "late", "fired"}]
    BY DEF TimersCleared, Fired, TypeOK
  <2>3. timer' \in [Topics -> [Providers -> {"none", "armed", "late", "fired"}]]
    BY <1>3, <2>2 DEF handleRemoteGatewayFailure, TypeOK
  <2>4. orphans' \in [Topics -> [Providers -> Nat]]
    BY <1>3 DEF handleRemoteGatewayFailure, TypeOK
  <2>5. recovering' \in [Topics -> Nat]
    BY <1>3 DEF handleRemoteGatewayFailure, TypeOK
  <2> QED
    BY <1>3, <2>1, <2>3, <2>4, <2>5 DEF handleRemoteGatewayFailure, TypeOK, provider
<1> QED
  BY <1>1, <1>2, <1>3

LEMMA TypeHomeCrash ==
  ASSUME TypeOK, HomeCrash
  PROVE  TypeOK'
<1>1. calls' \subseteq CallType
  <2>1. \A c \in calls : Orphaned(c) \in CallType
    BY DEF Orphaned, CallType, TypeOK
  <2> QED
    BY <2>1 DEF HomeCrash
<1>2. routes' \in [Gateways -> [Topics -> [Devices -> Nat]]]
  BY NothingType, LocalIsGateway DEF HomeCrash, TypeOK
<1>3. mapping' \in [Topics -> Mapping]
  BY NothingType DEF HomeCrash
<1> QED
  BY <1>1, <1>2, <1>3 DEF HomeCrash, TypeOK, provider

LEMMA TypeCalls ==
  ASSUME TypeOK, NEW c \in calls,
         registered(c) \/ registrationFailed(c) \/ Arrive(c) \/ Lose(c)
  PROVE  TypeOK'
<1> DEFINE t == c.topic
           g == c.gw
<1>1. c \in CallType /\ t \in Topics /\ g \in Providers
  BY DEF TypeOK, CallType
<1>2. \A s \in {"sent", "served", "abandoned"} : [c EXCEPT !.stage = s] \in CallType
  BY <1>1 DEF CallType
<1>3. CASE registered(c)
  <2>1. timer' \in [Topics -> [Providers -> {"none", "armed", "late", "fired"}]]
    BY <1>1, <1>3 DEF registered, TypeOK
  <2>2. orphans' \in [Topics -> [Providers -> Nat]]
    BY <1>1, <1>3 DEF registered, TypeOK
  <2> QED
    BY <1>3, <2>1, <2>2 DEF registered, TypeOK, provider
<1>4. CASE registrationFailed(c)
  <2>1. calls' \subseteq CallType
    BY <1>2, <1>4 DEF registrationFailed, TypeOK
  <2>2. unregistered' \in [Topics -> SUBSET Providers]
    BY <1>1, <1>4 DEF registrationFailed, TypeOK
  <2> QED
    BY <1>4, <2>1, <2>2 DEF registrationFailed, TypeOK, provider
<1>5. CASE Arrive(c)
  <2>1. calls' \subseteq CallType
    BY <1>2, <1>5 DEF Arrive, TypeOK
  <2>2. ipc' \in [Providers -> Seq(CallType)]
    <3>1. Append(ipc[g], c) \in Seq(CallType)
      BY <1>1 DEF TypeOK
    <3> QED
      BY <1>1, <1>5, <3>1 DEF Arrive, TypeOK
  <2> QED
    BY <1>5, <2>1, <2>2 DEF Arrive, TypeOK, home
<1>6. CASE Lose(c)
  BY <1>6 DEF Lose, TypeOK, home, provider
<1> QED
  BY <1>3, <1>4, <1>5, <1>6

LEMMA HeadTail ==
  ASSUME NEW S, NEW q \in Seq(S), q # <<>>
  PROVE  Head(q) \in S /\ Tail(q) \in Seq(S)
OBVIOUS

LEMMA TypeProvider ==
  ASSUME TypeOK, CurrentRuns, NEW g \in Providers,
         \/ registerTopic(g)
         \/ deregisterTopic(g)
         \/ ProviderCrash(g)
         \/ ProviderStart(g)
         \/ ProviderReady(g)
  PROVE  TypeOK'
<1> DEFINE c == Head(ipc[g])
<1>1. ASSUME ipc[g] # <<>>
      PROVE  /\ c \in CallType /\ c.topic \in Topics /\ c.sensors \in SUBSET Devices
             /\ [ipc EXCEPT ![g] = Tail(@)] \in [Providers -> Seq(CallType)]
  <2>1. ipc[g] \in Seq(CallType)
    BY DEF TypeOK
  <2>2. c \in CallType /\ Tail(ipc[g]) \in Seq(CallType)
    BY <1>1, <2>1, HeadTail
  <2> HIDE DEF c
  <2> QED
    BY <2>2 DEF CallType, TypeOK
<1> HIDE DEF c
<1>2. CASE registerTopic(g)
  <2>1. ipc[g] # <<>> /\ routes' = registerToLocalGateway(g, c.topic, c.sensors)
        /\ intervals' = [intervals EXCEPT ![g][c.topic] = @ + 1]
        /\ current' = [current EXCEPT ![g][c.topic] = TRUE]
        /\ ipc' = [ipc EXCEPT ![g] = Tail(@)]
    BY <1>2 DEF registerTopic, c
  <2>2. routes' \in [Gateways -> [Topics -> [Devices -> Nat]]]
    BY <1>1, <2>1, RouteType, LocalIsGateway
  <2>3. intervals' \in [Providers -> [Topics -> Nat]]
    BY <1>1, <2>1 DEF TypeOK
  <2>4. current' \in [Providers -> [Topics -> BOOLEAN]]
    BY <1>1, <2>1 DEF TypeOK
  <2> QED
    BY <1>1, <1>2, <2>1, <2>2, <2>3, <2>4 DEF registerTopic, TypeOK, home
<1>3. CASE deregisterTopic(g)
  <2>1. ipc[g] # <<>> /\ routes' = routes
        /\ intervals' = [intervals EXCEPT ![g][c.topic] = Cleared(g, c.topic)]
        /\ current' = [current EXCEPT ![g][c.topic] = FALSE]
        /\ ipc' = [ipc EXCEPT ![g] = Tail(@)]
    BY <1>3 DEF deregisterTopic, deregisterFromLocalGateway, c
  <2>2. Cleared(g, c.topic) \in Nat
    BY <1>1, <2>1 DEF Cleared, CurrentRuns, TypeOK
  <2>3. intervals' \in [Providers -> [Topics -> Nat]]
    BY <1>1, <2>1, <2>2 DEF TypeOK
  <2>4. current' \in [Providers -> [Topics -> BOOLEAN]]
    BY <1>1, <2>1 DEF TypeOK
  <2> QED
    BY <1>1, <1>3, <2>1, <2>3, <2>4 DEF deregisterTopic, TypeOK, home
<1>4. CASE ProviderCrash(g)
  <2>1. unregistered' \in [Topics -> SUBSET Providers]
    BY <1>4 DEF ProviderCrash, TypeOK
  <2>2. calls' \subseteq CallType
    BY <1>4 DEF ProviderCrash, TypeOK
  <2>3. routes' \in [Gateways -> [Topics -> [Devices -> Nat]]]
    BY <1>4, NothingType, LocalIsGateway DEF ProviderCrash, TypeOK
  <2>4. /\ intervals' \in [Providers -> [Topics -> Nat]]
        /\ current' \in [Providers -> [Topics -> BOOLEAN]]
        /\ ipc' \in [Providers -> Seq(CallType)]
    BY <1>4 DEF ProviderCrash, TypeOK
  <2> QED
    BY <1>4, <2>1, <2>2, <2>3, <2>4 DEF ProviderCrash, TypeOK
<1>5. CASE ProviderStart(g)
  BY <1>5 DEF ProviderStart, TypeOK, home
<1>6. CASE ProviderReady(g)
  BY <1>6 DEF ProviderReady, TypeOK, home
<1> QED
  BY <1>2, <1>3, <1>4, <1>5, <1>6

(* An interval is cleared with its entry, and an entry is set with its     *)
(* interval; only the provider changes either.                             *)
LEMMA CurrentStep ==
  ASSUME TypeOK, CurrentRuns, Next
  PROVE  CurrentRuns'
<1>1. ASSUME NEW g \in Providers, registerTopic(g)
      PROVE  CurrentRuns'
  <2> DEFINE u == Head(ipc[g]).topic
  <2>1. ipc[g] # <<>> /\ ipc[g] \in Seq(CallType)
    BY <1>1 DEF registerTopic, TypeOK
  <2>2. Head(ipc[g]) \in CallType
    BY <2>1, HeadTail
  <2>3. u \in Topics
    BY <2>2 DEF CallType
  <2>4. /\ intervals' = [intervals EXCEPT ![g][u] = @ + 1]
        /\ current' = [current EXCEPT ![g][u] = TRUE]
    BY <1>1 DEF registerTopic
  <2> HIDE DEF u
  <2> QED
    BY <2>3, <2>4 DEF CurrentRuns, TypeOK
<1>2. ASSUME NEW g \in Providers, deregisterTopic(g)
      PROVE  CurrentRuns'
  <2> DEFINE u == Head(ipc[g]).topic
             n == Cleared(g, u)
  <2>1. ipc[g] # <<>> /\ ipc[g] \in Seq(CallType)
    BY <1>2 DEF deregisterTopic, TypeOK
  <2>2. Head(ipc[g]) \in CallType
    BY <2>1, HeadTail
  <2>3. u \in Topics
    BY <2>2 DEF CallType
  <2>4. /\ intervals' = [intervals EXCEPT ![g][u] = n]
        /\ current' = [current EXCEPT ![g][u] = FALSE]
    BY <1>2 DEF deregisterTopic
  <2> HIDE DEF u, n
  <2> QED
    BY <2>3, <2>4 DEF CurrentRuns, TypeOK
<1>3. ASSUME NEW g \in Providers, ProviderCrash(g)
      PROVE  CurrentRuns'
  BY <1>3 DEF ProviderCrash, CurrentRuns, TypeOK
<1>4. ASSUME UNCHANGED <<intervals, current>>
      PROVE  CurrentRuns'
  BY <1>4 DEF CurrentRuns
<1>5. CASE \E t \in Topics : requestStreams(t) \/ recover(t)
  BY <1>4, <1>5 DEF requestStreams, recover, provider
<1>6. CASE \E t \in Topics, g \in Providers :
             Elapse(t, g) \/ handleHeartbeatMessage(t, g) \/ handleRemoteGatewayFailure(t, g)
  BY <1>4, <1>6 DEF Elapse, handleHeartbeatMessage, handleRemoteGatewayFailure, provider
<1>7. CASE \E c \in calls : registered(c) \/ registrationFailed(c) \/ Arrive(c) \/ Lose(c)
  BY <1>4, <1>7 DEF registered, registrationFailed, Arrive, Lose, provider
<1>8. CASE \E g \in Providers : ProviderStart(g) \/ ProviderReady(g)
  BY <1>4, <1>8 DEF ProviderStart, ProviderReady
<1>9. CASE HomeCrash \/ \E g \in Gateways, d \in Devices : DeviceHeard(g, d)
  BY <1>4, <1>9 DEF HomeCrash, DeviceHeard, provider
<1> QED
  BY <1>1, <1>2, <1>3, <1>5, <1>6, <1>7, <1>8, <1>9 DEF Next

LEMMA TypeStep ==
  ASSUME TypeOK, CurrentRuns, Next
  PROVE  TypeOK'
<1>1. ASSUME NEW g \in Gateways, NEW d \in Devices, DeviceHeard(g, d)
      PROVE  TypeOK'
  <2>1. hosts' \in Mapping
    BY <1>1 DEF DeviceHeard, TypeOK, Mapping
  <2> QED
    BY <1>1, <2>1 DEF DeviceHeard, TypeOK, home, provider
<1> QED
  BY <1>1, TypeTopic, TypeTimer, TypeHomeCrash, TypeCalls, TypeProvider DEF Next

LEMMA TypeInit == Init => TypeOK /\ CurrentRuns
<1> SUFFICES ASSUME Init PROVE TypeOK /\ CurrentRuns
  OBVIOUS
<1>1. hosts \in Mapping
  BY StreamsAssumption DEF Init
<1>2. mapping \in [Topics -> Mapping] /\ routes \in [Gateways -> [Topics -> [Devices -> Nat]]]
  BY NothingType DEF Init
<1>3. ipc \in [Providers -> Seq(CallType)]
  BY DEF Init
<1> QED
  BY <1>1, <1>2, <1>3 DEF Init, TypeOK, CurrentRuns

(* Every variable keeps its type, and no heartbeat interval is cleared     *)
(* that does not run.                                                      *)
THEOREM TypeInvariant == Spec => [](TypeOK /\ CurrentRuns)
<1>1. TypeOK /\ CurrentRuns /\ [Next]_vars => TypeOK' /\ CurrentRuns'
  <2> SUFFICES ASSUME TypeOK, CurrentRuns, [Next]_vars
               PROVE  TypeOK' /\ CurrentRuns'
    OBVIOUS
  <2>1. CASE Next
    BY <2>1, TypeStep, CurrentStep
  <2>2. CASE UNCHANGED vars
    BY <2>2 DEF vars, TypeOK, CurrentRuns
  <2> QED
    BY <2>1, <2>2
<1> QED
  BY <1>1, TypeInit, PTL DEF Spec

-----------------------------------------------------------------------------
(* What StreamInv says besides the types: the timers of Local, and the     *)
(* registrations they will be set by.                                      *)
Watch ==
  /\ WatchesMapping
  /\ OneTimerEach
  /\ AwaitedIsCurrent
  /\ AwaitedOnce
  /\ ServedIsAwaited
  /\ LateIsQuiet
  /\ UnaskedIsIdle

timing == <<requested, mapping, recovering, timer, orphans>>

(* Requests that end, or change stage, disturb nothing.                    *)
LEMMA FewerCalls ==
  ASSUME Watch, UNCHANGED timing, calls' \subseteq calls
  PROVE  Watch'
<1>1. WatchesMapping' /\ OneTimerEach' /\ UnaskedIsIdle'
  BY DEF Watch, WatchesMapping, OneTimerEach, UnaskedIsIdle, timing
<1>2. AwaitedIsCurrent' /\ AwaitedOnce' /\ ServedIsAwaited'
  BY DEF Watch, AwaitedIsCurrent, AwaitedOnce, ServedIsAwaited, Awaited, timing
<1>3. LateIsQuiet'
  BY DEF Watch, LateIsQuiet, Quiet, timing
<1> QED
  BY <1>1, <1>2, <1>3 DEF Watch

LEMMA ChangedCall ==
  ASSUME Watch, UNCHANGED timing, NEW c \in calls, NEW s \in {"served", "abandoned"},
         calls \subseteq CallType, c.kind = "register", c.stage = "sent",
         calls' = (calls \ {c}) \union {[c EXCEPT !.stage = s]}
  PROVE  Watch'
<1> DEFINE e == [c EXCEPT !.stage = s]
<1>1. c \in CallType
  OBVIOUS
<1>2. e.kind = c.kind /\ e.topic = c.topic /\ e.gw = c.gw /\ e.stage = s
  BY <1>1 DEF CallType
<1>3. calls' = (calls \ {c}) \union {e}
  OBVIOUS
<1> HIDE DEF e
<1>4. Awaited(c)
  BY DEF Awaited
<1>5. WatchesMapping' /\ OneTimerEach' /\ UnaskedIsIdle'
  BY DEF Watch, WatchesMapping, OneTimerEach, UnaskedIsIdle, timing
<1>6. AwaitedIsCurrent'
  BY <1>2, <1>3, <1>4 DEF Watch, AwaitedIsCurrent, Awaited, timing
<1>7. AwaitedOnce'
  BY <1>2, <1>3, <1>4 DEF Watch, AwaitedOnce, Awaited
<1>8. ServedIsAwaited'
  BY <1>2, <1>3 DEF Watch, ServedIsAwaited
<1>9. LateIsQuiet'
  BY <1>2, <1>3 DEF Watch, LateIsQuiet, Quiet, timing
<1> QED
  BY <1>5, <1>6, <1>7, <1>8, <1>9 DEF Watch

LEMMA WatchCalls ==
  ASSUME TypeOK, Watch, NEW c \in calls,
         registered(c) \/ registrationFailed(c) \/ Arrive(c) \/ Lose(c)
  PROVE  Watch'
<1>1. calls \subseteq CallType /\ c.topic \in Topics /\ c.gw \in Providers
  BY DEF TypeOK, CallType
<1>2. CASE registered(c)
  <2> DEFINE t == c.topic
             g == c.gw
  <2>1. Awaited(c)
    BY <1>2 DEF registered, Watch, ServedIsAwaited, Awaited
  <2>2. requested[t] /\ mapping[t][g] # {} /\ recovering[t] = 0 /\ timer[t][g] = "none"
    BY <2>1 DEF Watch, AwaitedIsCurrent
  <2>3. /\ calls' = calls \ {c} /\ orphans' = orphans
        /\ timer' = [timer EXCEPT ![t][g] = "armed"]
        /\ requested' = requested /\ mapping' = mapping /\ recovering' = recovering
    BY <1>2, <2>2 DEF registered, Armed
  <2>4. timer \in [Topics -> [Providers -> {"none", "armed", "late", "fired"}]]
    BY DEF TypeOK
  <2>5. timer'[t][g] = "armed" /\ \A u \in Topics, h \in Providers :
          u # t \/ h # g => timer'[u][h] = timer[u][h]
    BY <1>1, <2>3, <2>4
  <2>6. \A e \in calls' : ~(Awaited(e) /\ e.topic = t /\ e.gw = g)
    BY <2>1, <2>3 DEF Watch, AwaitedOnce
  <2>7. WatchesMapping'
    BY <2>2, <2>3, <2>5 DEF Watch, WatchesMapping
  <2>8. OneTimerEach' /\ UnaskedIsIdle'
    BY <2>3 DEF Watch, OneTimerEach, UnaskedIsIdle
  <2>9. AwaitedIsCurrent'
    <3> SUFFICES ASSUME NEW e \in calls', Awaited(e)
                 PROVE  /\ recovering[e.topic] = 0 /\ requested[e.topic]
                        /\ mapping[e.topic][e.gw] # {}
                        /\ timer'[e.topic][e.gw] = "none"
      BY <2>3 DEF AwaitedIsCurrent, Awaited
    <3>1. e \in calls /\ e.topic \in Topics /\ e.gw \in Providers
      BY <1>1, <2>3 DEF CallType
    <3> QED
      BY <3>1, <2>5, <2>6 DEF Watch, AwaitedIsCurrent
  <2>10. AwaitedOnce' /\ ServedIsAwaited'
    BY <2>3 DEF Watch, AwaitedOnce, ServedIsAwaited, Awaited
  <2>11. LateIsQuiet'
    BY <2>3, <2>5 DEF Watch, LateIsQuiet, Quiet
  <2> QED
    BY <2>7, <2>8, <2>9, <2>10, <2>11 DEF Watch
<1>3. CASE registrationFailed(c)
  <2>1. UNCHANGED timing /\ c.kind = "register" /\ c.stage \in {"sent", "served"}
    BY <1>3 DEF registrationFailed, timing
  <2>2. CASE c.stage = "sent"
    BY <1>1, <1>3, <2>1, <2>2, ChangedCall DEF registrationFailed
  <2>3. CASE c.stage = "served"
    BY <1>3, <2>1, <2>3, FewerCalls DEF registrationFailed
  <2> QED
    BY <2>1, <2>2, <2>3
<1>4. CASE Arrive(c)
  <2>1. UNCHANGED timing
    BY <1>4 DEF Arrive, timing, home
  <2>2. CASE c.kind = "register" /\ c.stage = "sent"
    BY <1>1, <1>4, <2>1, <2>2, ChangedCall DEF Arrive
  <2>3. CASE ~(c.kind = "register" /\ c.stage = "sent")
    BY <1>4, <2>1, <2>3, FewerCalls DEF Arrive
  <2> QED
    BY <2>2, <2>3
<1>5. CASE Lose(c)
  BY <1>5, FewerCalls DEF Lose, timing, home
<1> QED
  BY <1>2, <1>3, <1>4, <1>5

(* A timer runs, is set again, or reports a failure: the last drops every  *)
(* timer of the topic, because all of them watch its mapping.              *)
LEMMA WatchTimers ==
  ASSUME TypeOK, Watch, NEW t \in Topics, NEW g \in Providers,
         \/ Elapse(t, g)
         \/ handleHeartbeatMessage(t, g)
         \/ handleRemoteGatewayFailure(t, g)
  PROVE  Watch'
<1>1. /\ timer \in [Topics -> [Providers -> {"none", "armed", "late", "fired"}]]
      /\ recovering \in [Topics -> Nat]
      /\ orphans \in [Topics -> [Providers -> Nat]]
      /\ \A c \in calls : c.topic \in Topics /\ c.gw \in Providers
  BY DEF TypeOK, CallType
<1>2. CASE Elapse(t, g)
  <2>1. /\ timer[t][g] = "armed" /\ Quiet(t)
        /\ timer' = [timer EXCEPT ![t][g] = "late"]
        /\ UNCHANGED <<requested, mapping, recovering, orphans, calls>>
    BY <1>2 DEF Elapse
  <2>2. timer'[t][g] = "late" /\ \A u \in Topics, h \in Providers :
          u # t \/ h # g => timer'[u][h] = timer[u][h]
    BY <1>1, <2>1
  <2>3. WatchesMapping' /\ OneTimerEach' /\ UnaskedIsIdle'
    BY <2>1, <2>2 DEF Watch, WatchesMapping, OneTimerEach, UnaskedIsIdle
  <2>4. AwaitedIsCurrent' /\ AwaitedOnce' /\ ServedIsAwaited'
    BY <1>1, <2>1, <2>2
       DEF Watch, AwaitedIsCurrent, AwaitedOnce, ServedIsAwaited, Awaited, Quiet
  <2>5. LateIsQuiet'
    BY <2>1, <2>2 DEF Watch, LateIsQuiet, Quiet
  <2> QED
    BY <2>3, <2>4, <2>5 DEF Watch
<1>3. CASE handleHeartbeatMessage(t, g)
  <2>1. /\ timer[t][g] # "none"
        /\ timer' = [timer EXCEPT ![t][g] = "armed"]
        /\ UNCHANGED <<requested, mapping, recovering, orphans, calls>>
    BY <1>3 DEF handleHeartbeatMessage
  <2>2. timer'[t][g] = "armed" /\ \A u \in Topics, h \in Providers :
          u # t \/ h # g => timer'[u][h] = timer[u][h]
    BY <1>1, <2>1
  <2>3. WatchesMapping' /\ OneTimerEach' /\ UnaskedIsIdle'
    BY <2>1, <2>2 DEF Watch, WatchesMapping, OneTimerEach, UnaskedIsIdle
  <2>4. AwaitedIsCurrent' /\ AwaitedOnce' /\ ServedIsAwaited'
    BY <1>1, <2>1, <2>2
       DEF Watch, AwaitedIsCurrent, AwaitedOnce, ServedIsAwaited, Awaited
  <2>5. LateIsQuiet'
    BY <2>1, <2>2 DEF Watch, LateIsQuiet, Quiet
  <2> QED
    BY <2>3, <2>4, <2>5 DEF Watch
<1>4. CASE handleRemoteGatewayFailure(t, g)
  <2> DEFINE stops ==
        requestRemoteGatewayToDeregister(t, Remote(t) \ {g})
  <2>1. /\ timer[t][g] = "late" \/ orphans[t][g] > 0
        /\ calls' = calls \union stops
        /\ timer' = [timer EXCEPT ![t] = TimersCleared(t, g)]
        /\ orphans' = [orphans EXCEPT ![t][g] = IF @ > 0 THEN @ - 1 ELSE 0]
        /\ recovering' = [recovering EXCEPT ![t] = @ + 1]
        /\ requested' = requested /\ mapping' = mapping
    BY <1>4 DEF handleRemoteGatewayFailure
  <2>2. orphans[t][g] = 0 /\ timer[t][g] = "late"
    BY <1>1, <2>1 DEF Watch, OneTimerEach
  <2>3. requested[t] /\ mapping[t][g] # {} /\ recovering[t] = 0 /\ Quiet(t)
    BY <2>2 DEF Watch, WatchesMapping, LateIsQuiet
  <2>4. \A h \in Providers : TimersCleared(t, g)[h] = "none"
    <3> TAKE h \in Providers
    <3>1. CASE h \in Remote(t)
      BY <3>1 DEF TimersCleared
    <3>2. CASE h \notin Remote(t)
      <4>1. mapping[t][h] = {} /\ h # g
        BY <3>2, <2>3 DEF Remote
      <4>2. timer[t][h] = "none"
        BY <4>1 DEF Watch, WatchesMapping
      <4>3. TimersCleared(t, g)[h] = Fired(t, g)[h]
        BY <3>2 DEF TimersCleared
      <4>4. Fired(t, g) = [timer[t] EXCEPT ![g] = "fired"]
        BY <2>2 DEF Fired
      <4> QED
        BY <1>1, <4>1, <4>2, <4>3, <4>4
    <3> QED
      BY <3>1, <3>2
  <2>5. \A u \in Topics, h \in Providers :
          timer'[u][h] = IF u = t THEN "none" ELSE timer[u][h]
    BY <1>1, <2>1, <2>4
  <2>6. orphans' = orphans
    BY <1>1, <2>1, <2>2
  <2>7. recovering'[t] = 1 /\ \A u \in Topics : u # t => recovering'[u] = recovering[u]
    BY <1>1, <2>1, <2>3
  <2>8. \A c \in stops : c.topic = t /\ c.kind = "deregister" /\ c.stage = "sent"
    BY DEF requestRemoteGatewayToDeregister, Call
  <2> HIDE DEF stops
  <2>9. WatchesMapping' /\ OneTimerEach' /\ UnaskedIsIdle'
    BY <2>1, <2>3, <2>5, <2>6, <2>7
       DEF Watch, WatchesMapping, OneTimerEach, UnaskedIsIdle
  <2>10. \A c \in calls' : Awaited(c) => c \in calls /\ c.topic # t
    BY <2>1, <2>3, <2>8 DEF Awaited, Quiet
  <2>11. AwaitedIsCurrent'
    BY <1>1, <2>1, <2>5, <2>7, <2>10 DEF Watch, AwaitedIsCurrent, Awaited
  <2>12. AwaitedOnce'
    BY <2>10 DEF Watch, AwaitedOnce, Awaited
  <2>13. ServedIsAwaited'
    BY <2>1, <2>8 DEF Watch, ServedIsAwaited
  <2>14. LateIsQuiet'
    BY <2>1, <2>5, <2>8 DEF Watch, LateIsQuiet, Quiet
  <2> QED
    BY <2>9, <2>11, <2>12, <2>13, <2>14 DEF Watch
<1> QED
  BY <1>2, <1>3, <1>4

(* The requests of a new mapping: one per provider, all awaited.           *)
LEMMA RequestsFacts ==
  ASSUME NEW t, NEW m, NEW w
  PROVE  /\ \A c \in registerToRemoteGateway(t, m, w) :
              /\ c.kind = "register" /\ c.topic = t /\ c.stage = "sent"
              /\ c.gw \in Providers /\ m[c.gw] # {}
         /\ \A c, e \in registerToRemoteGateway(t, m, w) : c.gw = e.gw => c = e
BY DEF registerToRemoteGateway, Call

(* A new mapping replaces the old one when no timer and no registration of *)
(* the topic is left.                                                      *)
LEMMA NewMapping ==
  ASSUME TypeOK, Watch, NEW t \in Topics, NEW m \in Mapping, NEW w,
         \A h \in Providers : timer[t][h] = "none",
         \A c \in calls : c.topic = t => ~Awaited(c),
         mapping' = [mapping EXCEPT ![t] = m],
         calls' = calls \union registerToRemoteGateway(t, m, w),
         requested'[t], recovering'[t] = 0,
         \A u \in Topics : u # t => requested'[u] = requested[u]
                                    /\ recovering'[u] = recovering[u],
         UNCHANGED <<timer, orphans>>
  PROVE  Watch'
<1> DEFINE new == registerToRemoteGateway(t, m, w)
<1>1. /\ \A c \in new : /\ c.kind = "register" /\ c.topic = t /\ c.stage = "sent"
                        /\ c.gw \in Providers /\ m[c.gw] # {}
      /\ \A c, e \in new : c.gw = e.gw => c = e
  BY RequestsFacts
<1>2. calls' = calls \union new
  OBVIOUS
<1> HIDE DEF new
<1>3. mapping'[t] = m /\ \A u \in Topics : u # t => mapping'[u] = mapping[u]
  BY DEF TypeOK
<1>4. \A c \in calls : c.topic \in Topics /\ c.gw \in Providers
  BY DEF TypeOK, CallType
<1>5. WatchesMapping'
  BY <1>3 DEF Watch, WatchesMapping
<1>6. OneTimerEach' /\ UnaskedIsIdle'
  BY DEF Watch, OneTimerEach, UnaskedIsIdle
<1>7. AwaitedIsCurrent'
  <2> SUFFICES ASSUME NEW c \in calls', Awaited(c)
               PROVE  /\ recovering'[c.topic] = 0 /\ requested'[c.topic]
                      /\ mapping'[c.topic][c.gw] # {}
                      /\ timer[c.topic][c.gw] = "none"
    BY DEF AwaitedIsCurrent, Awaited
  <2>1. CASE c \in new
    BY <2>1, <1>1, <1>3
  <2>2. CASE c \in calls
    <3>1. c.topic # t /\ c.topic \in Topics
      BY <2>2, <1>4
    <3> QED
      BY <2>2, <3>1, <1>3 DEF Watch, AwaitedIsCurrent
  <2> QED
    BY <2>1, <2>2, <1>2
<1>8. AwaitedOnce'
  <2> SUFFICES ASSUME NEW c \in calls', NEW e \in calls', Awaited(c), Awaited(e),
                      c.topic = e.topic, c.gw = e.gw
               PROVE  c = e
    BY DEF AwaitedOnce, Awaited
  <2>1. CASE c.topic = t
    <3>1. c \in new /\ e \in new
      BY <2>1, <1>2
    <3> QED
      BY <3>1, <1>1
  <2>2. CASE c.topic # t
    <3>1. c \in calls /\ e \in calls
      BY <2>2, <1>1, <1>2
    <3> QED
      BY <3>1 DEF Watch, AwaitedOnce
  <2> QED
    BY <2>1, <2>2
<1>9. ServedIsAwaited'
  BY <1>1, <1>2 DEF Watch, ServedIsAwaited
<1>10. LateIsQuiet'
  <2> SUFFICES ASSUME NEW u \in Topics, NEW h \in Providers,
                      timer[u][h] \in {"late", "fired"}
               PROVE  timer[u][h] = "late" /\ \A c \in calls' : c.topic # u
    BY DEF LateIsQuiet, Quiet
  <2>1. u # t
    OBVIOUS
  <2> QED
    BY <2>1, <1>1, <1>2 DEF Watch, LateIsQuiet, Quiet
<1> QED
  BY <1>5, <1>6, <1>7, <1>8, <1>9, <1>10 DEF Watch

LEMMA WatchTopic ==
  ASSUME TypeOK, Watch, NEW t \in Topics, requestStreams(t) \/ recover(t)
  PROVE  Watch'
<1>1. CASE requestStreams(t)
  <2>1. PICK named \in SUBSET Alive : \E m \in optimalGatewayDeviceMapping(t, named) :
          /\ mapping' = [mapping EXCEPT ![t] = m]
          /\ calls' = calls \union registerToRemoteGateway(t, m, waves[t] + 1)
    BY <1>1 DEF requestStreams
  <2>2. PICK m \in optimalGatewayDeviceMapping(t, named) :
          /\ mapping' = [mapping EXCEPT ![t] = m]
          /\ calls' = calls \union registerToRemoteGateway(t, m, waves[t] + 1)
    BY <2>1
  <2>3. /\ ~requested[t] /\ Quiet(t) /\ requested' = [requested EXCEPT ![t] = TRUE]
        /\ UNCHANGED <<recovering, timer, orphans>>
    BY <1>1 DEF requestStreams
  <2>4. recovering[t] = 0 /\ \A h \in Providers : timer[t][h] = "none"
    BY <2>3 DEF Watch, UnaskedIsIdle, WatchesMapping
  <2>5. requested'[t] /\ \A u \in Topics : u # t => requested'[u] = requested[u]
    BY <2>3 DEF TypeOK
  <2>6. \A c \in calls : c.topic = t => ~Awaited(c)
    BY <2>3 DEF Quiet
  <2>7. m \in Mapping
    BY OptimalType
  <2> QED
    BY <2>2, <2>3, <2>4, <2>5, <2>6, <2>7, NewMapping
<1>2. CASE recover(t)
  <2>1. PICK named \in SUBSET Alive : \E m \in optimalGatewayDeviceMapping(t, named) :
          /\ mapping' = [mapping EXCEPT ![t] = m]
          /\ calls' = calls \union registerToRemoteGateway(t, m, waves[t] + 1)
    BY <1>2 DEF recover
  <2>2. PICK m \in optimalGatewayDeviceMapping(t, named) :
          /\ mapping' = [mapping EXCEPT ![t] = m]
          /\ calls' = calls \union registerToRemoteGateway(t, m, waves[t] + 1)
    BY <2>1
  <2>3. /\ recovering[t] > 0 /\ recovering' = [recovering EXCEPT ![t] = @ - 1]
        /\ UNCHANGED <<requested, timer, orphans>>
    BY <1>2 DEF recover
  <2>4. recovering[t] = 1 /\ recovering'[t] = 0
        /\ \A u \in Topics : u # t => recovering'[u] = recovering[u]
    BY <2>3 DEF Watch, OneTimerEach, TypeOK
  <2>5. requested[t] /\ \A h \in Providers : timer[t][h] = "none"
    BY <2>4 DEF Watch, UnaskedIsIdle, WatchesMapping
  <2>6. \A c \in calls : c.topic = t => ~Awaited(c)
    BY <2>4 DEF Watch, AwaitedIsCurrent
  <2>7. m \in Mapping
    BY OptimalType
  <2> QED
    BY <2>2, <2>3, <2>4, <2>5, <2>6, <2>7, NewMapping
<1> QED
  BY <1>1, <1>2

LEMMA WatchHomeCrash ==
  ASSUME TypeOK, Watch, HomeCrash
  PROVE  Watch'
<1>1. calls' = {Orphaned(c) : c \in {e \in calls : e.stage # "served"}}
  BY DEF HomeCrash
<1>2. \A c \in calls : c.stage # "served" =>
        /\ ~Awaited(Orphaned(c)) /\ Orphaned(c).stage # "served"
  BY DEF Orphaned, Awaited, TypeOK, CallType
<1>3. \A c \in calls' : ~Awaited(c) /\ c.stage # "served"
  BY <1>1, <1>2
<1>4. AwaitedIsCurrent' /\ AwaitedOnce' /\ ServedIsAwaited'
  BY <1>3 DEF AwaitedIsCurrent, AwaitedOnce, ServedIsAwaited, Awaited
<1>5. WatchesMapping' /\ OneTimerEach' /\ UnaskedIsIdle' /\ LateIsQuiet'
  BY DEF HomeCrash, WatchesMapping, OneTimerEach, UnaskedIsIdle, LateIsQuiet
<1> QED
  BY <1>4, <1>5 DEF Watch

LEMMA WatchProvider ==
  ASSUME Watch, NEW g \in Providers,
         \/ registerTopic(g)
         \/ deregisterTopic(g)
         \/ ProviderCrash(g)
         \/ ProviderStart(g)
         \/ ProviderReady(g)
  PROVE  Watch'
BY FewerCalls DEF registerTopic, deregisterTopic, ProviderCrash, ProviderStart,
                  ProviderReady, timing, home

LEMMA WatchDevice ==
  ASSUME Watch, NEW g \in Gateways, NEW d \in Devices, DeviceHeard(g, d)
  PROVE  Watch'
BY FewerCalls DEF DeviceHeard, timing, home

LEMMA StreamInvParts == StreamInv <=> TypeOK /\ CurrentRuns /\ Watch
BY DEF StreamInv, Watch

(* The diagnostic timers are kept right in every reachable state.          *)
THEOREM StreamInvariant == Spec => []StreamInv
<1>1. Init => StreamInv
  <2> SUFFICES ASSUME Init PROVE Watch
    BY TypeInit, StreamInvParts
  <2> QED
    BY DEF Init, Watch, WatchesMapping, OneTimerEach, AwaitedIsCurrent, AwaitedOnce,
           ServedIsAwaited, LateIsQuiet, UnaskedIsIdle
<1>2. StreamInv /\ [Next]_vars => StreamInv'
  <2> SUFFICES ASSUME TypeOK, CurrentRuns, Watch, [Next]_vars
               PROVE  TypeOK' /\ CurrentRuns' /\ Watch'
    BY DEF StreamInv, Watch
  <2>1. CASE Next
    <3>1. Watch'
      BY <2>1, WatchTopic, WatchTimers, WatchCalls, WatchHomeCrash, WatchProvider,
         WatchDevice DEF Next
    <3> QED
      BY <2>1, <3>1, TypeStep, CurrentStep
  <2>2. CASE UNCHANGED vars
    <3>1. Watch'
      BY <2>2, FewerCalls DEF vars, timing
    <3> QED
      BY <2>2, <3>1 DEF vars, TypeOK, CurrentRuns
  <2> QED
    BY <2>1, <2>2
<1> QED
  BY <1>1, <1>2, PTL DEF Spec

(* A diagnostic timer watches a provider of the current mapping, and none  *)
(* runs during a recovery.                                                 *)
THEOREM TimersWatchMapping == Spec => []WatchesMapping
<1>1. StreamInv => WatchesMapping
  BY DEF StreamInv
<1> QED
  BY <1>1, StreamInvariant, PTL

(* No armed timer is ever overwritten, and no two recoveries of one topic  *)
(* overlap.                                                                *)
THEOREM NoTimerIsLost == Spec => []OneTimerEach
<1>1. StreamInv => OneTimerEach
  BY DEF StreamInv
<1> QED
  BY <1>1, StreamInvariant, PTL

-----------------------------------------------------------------------------
(* Providers are monitored.  No step but a failure stops a timer, and no   *)
(* awaited registration ends but by a timer or an entry that it failed.    *)
Accounted(c) ==
  \/ timer[c.topic][c.gw] # "none"
  \/ c.gw \in unregistered[c.topic]
  \/ \E e \in calls : e.topic = c.topic /\ e.gw = c.gw /\ Awaited(e)

LEMMA StillMonitored ==
  ASSUME Monitored, UNCHANGED <<requested, mapping, recovering>>,
         \A t \in Topics, g \in Providers : timer[t][g] # "none" => timer'[t][g] # "none",
         \A t \in Topics : unregistered[t] \subseteq unregistered'[t],
         \A c \in calls : Awaited(c) => Accounted(c)'
  PROVE  Monitored'
<1> SUFFICES ASSUME NEW t \in Topics, requested[t], recovering[t] = 0,
                    NEW g \in Providers, mapping[t][g] # {}
             PROVE  \/ timer'[t][g] # "none"
                    \/ g \in unregistered'[t]
                    \/ \E c \in calls' : c.topic = t /\ c.gw = g /\ Awaited(c)
  BY DEF Monitored, Remote, Awaited
<1>1. \/ timer[t][g] # "none"
      \/ g \in unregistered[t]
      \/ \E c \in calls : c.topic = t /\ c.gw = g /\ Awaited(c)
  BY DEF Monitored, Remote
<1>2. ASSUME NEW c \in calls, c.topic = t, c.gw = g, Awaited(c)
      PROVE  \/ timer'[t][g] # "none"
             \/ g \in unregistered'[t]
             \/ \E e \in calls' : e.topic = t /\ e.gw = g /\ Awaited(e)
  BY <1>2 DEF Accounted, Awaited
<1> QED
  BY <1>1, <1>2

LEMMA MonitoredCalls ==
  ASSUME TypeOK, Monitored, NEW c \in calls,
         registered(c) \/ registrationFailed(c) \/ Arrive(c) \/ Lose(c)
  PROVE  Monitored'
<1>1. /\ c \in CallType /\ c.topic \in Topics /\ c.gw \in Providers
      /\ timer \in [Topics -> [Providers -> {"none", "armed", "late", "fired"}]]
      /\ unregistered \in [Topics -> SUBSET Providers]
  BY DEF TypeOK, CallType
<1>2. UNCHANGED <<requested, mapping, recovering>>
  BY DEF registered, registrationFailed, Arrive, Lose, home
<1>3. ASSUME calls \ {c} \subseteq calls', Awaited(c) => Accounted(c)',
             \A t \in Topics, g \in Providers : timer[t][g] # "none" => timer'[t][g] # "none",
             \A t \in Topics : unregistered[t] \subseteq unregistered'[t]
      PROVE  Monitored'
  <2>1. \A e \in calls : Awaited(e) => Accounted(e)'
    BY <1>3 DEF Accounted, Awaited
  <2> QED
    BY <1>2, <1>3, <2>1, StillMonitored
<1>4. CASE registered(c)
  <2>1. /\ timer' = [timer EXCEPT ![c.topic][c.gw] = "armed"]
        /\ calls' = calls \ {c} /\ unregistered' = unregistered
    BY <1>4 DEF registered
  <2>2. timer'[c.topic][c.gw] = "armed" /\ \A t \in Topics, g \in Providers :
          timer[t][g] # "none" => timer'[t][g] # "none"
    BY <1>1, <2>1
  <2> QED
    BY <1>3, <2>1, <2>2 DEF Accounted
<1>5. CASE registrationFailed(c)
  <2>1. /\ timer' = timer /\ calls \ {c} \subseteq calls'
        /\ unregistered' = [unregistered EXCEPT ![c.topic] = @ \union {c.gw}]
    BY <1>5 DEF registrationFailed
  <2>2. c.gw \in unregistered'[c.topic]
        /\ \A t \in Topics : unregistered[t] \subseteq unregistered'[t]
    BY <1>1, <2>1
  <2> QED
    BY <1>3, <2>1, <2>2 DEF Accounted
<1>6. CASE Arrive(c)
  <2>1. /\ timer' = timer /\ unregistered' = unregistered
        /\ calls \ {c} \subseteq calls' /\ c.stage # "served"
    BY <1>6 DEF Arrive, home
  <2>2. ASSUME Awaited(c) PROVE Accounted(c)'
    <3> DEFINE e == [c EXCEPT !.stage = "served"]
    <3>1. c.kind = "register" /\ c.stage = "sent"
      BY <2>1, <2>2 DEF Awaited
    <3>2. e \in calls'
      BY <1>6, <3>1 DEF Arrive
    <3>3. e.topic = c.topic /\ e.gw = c.gw /\ e.kind = "register" /\ e.stage = "served"
      BY <1>1, <3>1 DEF CallType
    <3> QED
      BY <3>2, <3>3 DEF Accounted, Awaited
  <2> QED
    BY <1>3, <2>1, <2>2
<1>7. CASE Lose(c)
  <2>1. UNCHANGED <<timer, unregistered>> /\ calls' = calls \ {c} /\ ~Awaited(c)
    BY <1>7 DEF Lose, home, Awaited
  <2> QED
    BY <1>3, <2>1
<1> QED
  BY <1>4, <1>5, <1>6, <1>7

LEMMA MonitoredTopic ==
  ASSUME TypeOK, Monitored, NEW t \in Topics, requestStreams(t) \/ recover(t)
  PROVE  Monitored'
<1>1. PICK named \in SUBSET Alive : \E m \in optimalGatewayDeviceMapping(t, named) :
        /\ mapping' = [mapping EXCEPT ![t] = m]
        /\ calls' = calls \union registerToRemoteGateway(t, m, waves[t] + 1)
  BY DEF requestStreams, recover
<1>2. PICK m \in optimalGatewayDeviceMapping(t, named) :
        /\ mapping' = [mapping EXCEPT ![t] = m]
        /\ calls' = calls \union registerToRemoteGateway(t, m, waves[t] + 1)
  BY <1>1
<1>3. /\ timer' = timer
      /\ \A u \in Topics \ {t} : /\ requested'[u] = requested[u]
                                 /\ recovering'[u] = recovering[u]
                                 /\ unregistered'[u] = unregistered[u]
  BY DEF requestStreams, recover, TypeOK
<1>4. mapping'[t] = m /\ \A u \in Topics \ {t} : mapping'[u] = mapping[u]
  BY <1>2 DEF TypeOK
<1> SUFFICES ASSUME NEW u \in Topics, requested'[u], recovering'[u] = 0,
                    NEW g \in Providers, mapping'[u][g] # {}
             PROVE  \/ timer'[u][g] # "none"
                    \/ g \in unregistered'[u]
                    \/ \E c \in calls' : c.topic = u /\ c.gw = g /\ Awaited(c)
  BY DEF Monitored, Remote, Awaited
<1>5. CASE u = t
  <2> DEFINE c == Call("register", t, g, m[g], waves[t] + 1)
  <2>1. c \in registerToRemoteGateway(t, m, waves[t] + 1)
    BY <1>4, <1>5 DEF registerToRemoteGateway
  <2>2. c.topic = t /\ c.gw = g /\ Awaited(c)
    BY DEF Call, Awaited
  <2> QED
    BY <1>2, <1>5, <2>1, <2>2
<1>6. CASE u # t
  <2>1. \/ timer[u][g] # "none"
        \/ g \in unregistered[u]
        \/ \E c \in calls : c.topic = u /\ c.gw = g /\ Awaited(c)
    BY <1>3, <1>4, <1>6 DEF Monitored, Remote
  <2> QED
    BY <1>2, <1>3, <1>6, <2>1
<1> QED
  BY <1>5, <1>6

LEMMA MonitoredTimers ==
  ASSUME TypeOK, Monitored, NEW t \in Topics, NEW g \in Providers,
         \/ Elapse(t, g)
         \/ handleHeartbeatMessage(t, g)
         \/ handleRemoteGatewayFailure(t, g)
  PROVE  Monitored'
<1>1. /\ timer \in [Topics -> [Providers -> {"none", "armed", "late", "fired"}]]
      /\ recovering \in [Topics -> Nat]
  BY DEF TypeOK
<1>2. CASE Elapse(t, g) \/ handleHeartbeatMessage(t, g)
  <2>1. /\ \/ timer' = [timer EXCEPT ![t][g] = "late"]
           \/ timer' = [timer EXCEPT ![t][g] = "armed"]
        /\ UNCHANGED <<requested, mapping, recovering, unregistered, calls>>
    BY <1>2 DEF Elapse, handleHeartbeatMessage
  <2>2. \A u \in Topics, h \in Providers : timer[u][h] # "none" => timer'[u][h] # "none"
    BY <1>1, <2>1
  <2>3. \A c \in calls : Awaited(c) => Accounted(c)'
    BY <2>1 DEF Accounted, Awaited
  <2> QED
    BY <2>1, <2>2, <2>3, StillMonitored
<1>3. CASE handleRemoteGatewayFailure(t, g)
  <2>1. /\ calls \subseteq calls'
        /\ timer' = [timer EXCEPT ![t] = TimersCleared(t, g)]
        /\ recovering' = [recovering EXCEPT ![t] = @ + 1]
        /\ UNCHANGED <<requested, mapping, unregistered>>
    BY <1>3 DEF handleRemoteGatewayFailure
  <2>2. recovering'[t] # 0 /\ \A u \in Topics \ {t} :
          recovering'[u] = recovering[u] /\ timer'[u] = timer[u]
    BY <1>1, <2>1
  <2>3. ASSUME NEW u \in Topics \ {t}, requested[u], recovering[u] = 0,
               NEW h \in Providers, mapping[u][h] # {}
        PROVE  \/ timer[u][h] # "none"
               \/ h \in unregistered[u]
               \/ \E c \in calls' : c.topic = u /\ c.gw = h /\ Awaited(c)
    <3>1. \/ timer[u][h] # "none"
          \/ h \in unregistered[u]
          \/ \E c \in calls : c.topic = u /\ c.gw = h /\ Awaited(c)
      BY <2>3 DEF Monitored, Remote
    <3> QED
      BY <2>1, <3>1
  <2> QED
    BY <2>1, <2>2, <2>3 DEF Monitored, Remote, Awaited
<1> QED
  BY <1>2, <1>3

LEMMA MonitoredProvider ==
  ASSUME TypeOK, Monitored, NEW g \in Providers,
         \/ registerTopic(g)
         \/ deregisterTopic(g)
         \/ ProviderCrash(g)
         \/ ProviderStart(g)
         \/ ProviderReady(g)
  PROVE  Monitored'
<1>1. CASE ProviderCrash(g)
  <2>1. /\ calls' = calls \ Cut(g)
        /\ unregistered' = [t \in Topics |->
             unregistered[t] \union IF FailedBy(g, t) THEN {g} ELSE {}]
        /\ UNCHANGED <<requested, mapping, recovering, timer>>
    BY <1>1 DEF ProviderCrash
  <2>2. \A t \in Topics : /\ unregistered[t] \subseteq unregistered'[t]
                          /\ FailedBy(g, t) => g \in unregistered'[t]
    BY <2>1
  <2>3. ASSUME NEW c \in calls, Awaited(c) PROVE Accounted(c)'
    <3>1. CASE c \in Cut(g)
      <4>1. c.gw = g /\ c.topic \in Topics /\ FailedBy(g, c.topic)
        BY <2>3, <3>1 DEF Cut, FailedBy, Awaited, TypeOK, CallType
      <4> QED
        BY <2>2, <4>1 DEF Accounted
    <3>2. CASE c \notin Cut(g)
      BY <2>1, <2>3, <3>2 DEF Accounted, Awaited
    <3> QED
      BY <3>1, <3>2
  <2> QED
    BY <2>1, <2>2, <2>3, StillMonitored
<1>2. CASE registerTopic(g) \/ deregisterTopic(g) \/ ProviderStart(g) \/ ProviderReady(g)
  <2>1. UNCHANGED <<requested, mapping, recovering, timer, unregistered, calls>>
    BY <1>2 DEF registerTopic, deregisterTopic, ProviderStart, ProviderReady, home
  <2> QED
    BY <2>1 DEF Monitored, Remote, Awaited
<1> QED
  BY <1>1, <1>2

(* A success is never unwatched: while no recovery of its topic runs, each *)
(* provider of the mapping has a timer, is being asked, or is known to     *)
(* have failed to answer.                                                  *)
THEOREM ProvidersMonitored == Spec => []Monitored
<1>1. Init => Monitored
  BY DEF Init, Monitored
<1>2. TypeOK /\ Monitored /\ [Next]_vars => Monitored'
  <2> SUFFICES ASSUME TypeOK, Monitored, [Next]_vars PROVE Monitored'
    OBVIOUS
  <2>1. CASE HomeCrash
    BY <2>1 DEF HomeCrash, Monitored
  <2>2. CASE \E g \in Gateways, d \in Devices : DeviceHeard(g, d)
    BY <2>2 DEF DeviceHeard, Monitored, Remote, Awaited, home
  <2>3. CASE UNCHANGED vars
    BY <2>3 DEF vars, Monitored, Remote, Awaited
  <2> QED
    BY <2>1, <2>2, <2>3, MonitoredTopic, MonitoredTimers, MonitoredCalls,
       MonitoredProvider DEF Next
<1> QED
  BY <1>1, <1>2, TypeInvariant, PTL DEF Spec

-----------------------------------------------------------------------------
(* Heartbeats.  A registration is the only one of its topic under way to a *)
(* provider, none is while a timer or a recovery runs, and one that is     *)
(* awaited asks for what the mapping says.  A provider that is not up has  *)
(* nothing queued and sends no heartbeats.  One that answered routes the   *)
(* sensors, has the request for them in its queue, or is silent.           *)
Registers(c, t, g) == c.kind = "register" /\ c.topic = t /\ c.gw = g

AskedOnce ==
  \A t \in Topics, g \in Providers : \A c, e \in calls :
    Registers(c, t, g) /\ Registers(e, t, g) => c = e

AskedAlone ==
  \A t \in Topics, g \in Providers : \A c \in calls :
    Registers(c, t, g) => timer[t][g] = "none" /\ recovering[t] = 0

AskedForMapping ==
  \A c \in calls : Awaited(c) => c.sensors = mapping[c.topic][c.gw]

DownIsIdle ==
  \A g \in Providers : status[g] # "up" =>
    ipc[g] = <<>> /\ \A t \in Topics : intervals[g][t] = 0

Routed(t, g) == \A d \in mapping[t][g] : routes[g][t][d] > 0

Routing(t, g) ==
  \E k \in DOMAIN ipc[g] :
    Registers(ipc[g][k], t, g) /\ ipc[g][k].sensors = mapping[t][g]

Silent(t, g) == intervals[g][t] = 0 /\ ~RegisterQueued(g, t)

Answered(t, g) ==
  \/ timer[t][g] # "none"
  \/ \E c \in calls : Registers(c, t, g) /\ c.stage = "served"

Told ==
  \A t \in Topics, g \in Providers :
    Answered(t, g) => Routed(t, g) \/ Routing(t, g) \/ Silent(t, g)

Truth ==
  /\ AskedOnce
  /\ AskedAlone
  /\ AskedForMapping
  /\ DownIsIdle
  /\ Told

LEMMA AnswersKept ==
  ASSUME Truth, UNCHANGED <<mapping, recovering, timer, status, ipc, intervals, routes>>,
         \A c \in calls' : c \in calls \/ c.kind # "register"
  PROVE  Truth'
<1>1. AskedOnce' /\ AskedAlone' /\ AskedForMapping'
  BY DEF Truth, AskedOnce, AskedAlone, AskedForMapping, Registers, Awaited
<1>2. DownIsIdle'
  BY DEF Truth, DownIsIdle
<1>3. \A t \in Topics, g \in Providers :
        /\ Answered(t, g)' => Answered(t, g)
        /\ Routed(t, g)' <=> Routed(t, g)
        /\ Routing(t, g)' <=> Routing(t, g)
        /\ Silent(t, g)' <=> Silent(t, g)
  BY DEF Answered, Routed, Routing, Silent, RegisterQueued, Registers
<1>4. Told'
  BY <1>3 DEF Truth, Told
<1> QED
  BY <1>1, <1>2, <1>4 DEF Truth

(* A registration that is answered, fails or is answered late.             *)
LEMMA TruthRegistered ==
  ASSUME TypeOK, Watch, Truth, NEW c \in calls, registered(c)
  PROVE  Truth'
<1> DEFINE t == c.topic
           g == c.gw
<1>1. /\ t \in Topics /\ g \in Providers /\ c.kind = "register" /\ c.stage = "served"
      /\ timer \in [Topics -> [Providers -> {"none", "armed", "late", "fired"}]]
  BY DEF TypeOK, CallType, registered, Watch, ServedIsAwaited
<1>2. /\ timer' = [timer EXCEPT ![t][g] = "armed"] /\ calls' = calls \ {c}
      /\ UNCHANGED <<mapping, recovering, status, ipc, intervals, routes>>
  BY DEF registered, provider
<1>3. timer'[t][g] = "armed" /\ \A u \in Topics, h \in Providers :
        u # t \/ h # g => timer'[u][h] = timer[u][h]
  BY <1>1, <1>2
<1> HIDE DEF t, g
<1>4. Registers(c, t, g)
  BY <1>1 DEF Registers, t, g
<1>5. AskedOnce' /\ AskedForMapping' /\ DownIsIdle'
  BY <1>2 DEF Truth, AskedOnce, AskedForMapping, DownIsIdle, Awaited, Registers
<1>6. AskedAlone'
  <2> SUFFICES ASSUME NEW u \in Topics, NEW h \in Providers, NEW e \in calls',
                      Registers(e, u, h)
               PROVE  timer'[u][h] = "none" /\ recovering[u] = 0
    BY <1>2 DEF AskedAlone, Registers
  <2>1. e \in calls /\ e # c
    BY <1>2
  <2>2. u # t \/ h # g
    BY <1>1, <1>4, <2>1 DEF Truth, AskedOnce
  <2> QED
    BY <1>3, <2>1, <2>2 DEF Truth, AskedAlone
<1>7. \A u \in Topics, h \in Providers :
        /\ Answered(u, h)' => Answered(u, h)
        /\ Routed(u, h)' <=> Routed(u, h)
        /\ Routing(u, h)' <=> Routing(u, h)
        /\ Silent(u, h)' <=> Silent(u, h)
  <2>1. \A u \in Topics, h \in Providers :
          /\ Routed(u, h)' <=> Routed(u, h)
          /\ Routing(u, h)' <=> Routing(u, h)
          /\ Silent(u, h)' <=> Silent(u, h)
    BY <1>2 DEF Routed, Routing, Silent, RegisterQueued, Registers
  <2>2. Answered(t, g)
    BY <1>1, <1>4 DEF Answered
  <2>3. \A u \in Topics, h \in Providers :
          (u # t \/ h # g) /\ Answered(u, h)' => Answered(u, h)
    BY <1>2, <1>3 DEF Answered, Registers
  <2> QED
    BY <2>1, <2>2, <2>3
<1>8. Told'
  BY <1>7 DEF Truth, Told
<1> QED
  BY <1>5, <1>6, <1>8 DEF Truth

LEMMA TruthFailed ==
  ASSUME TypeOK, Truth, NEW c \in calls, registrationFailed(c)
  PROVE  Truth'
<1> DEFINE e == [c EXCEPT !.stage = "abandoned"]
<1>1. /\ c \in CallType /\ c.kind = "register"
      /\ UNCHANGED <<mapping, recovering, timer, status, ipc, intervals, routes>>
      /\ \A d \in calls' : d \in calls \ {c} \/ d = e
  BY DEF TypeOK, registrationFailed, provider
<1>2. /\ e.kind = c.kind /\ e.topic = c.topic /\ e.gw = c.gw
      /\ e.sensors = c.sensors /\ e.stage = "abandoned"
  BY <1>1 DEF CallType
<1> HIDE DEF e
<1>3. \A t, g : Registers(e, t, g) <=> Registers(c, t, g)
  BY <1>2 DEF Registers
<1>4. AskedOnce' /\ AskedAlone' /\ DownIsIdle'
  <2>1. AskedOnce'
    BY <1>1, <1>3 DEF Truth, AskedOnce, Registers
  <2>2. AskedAlone'
    BY <1>1, <1>3 DEF Truth, AskedAlone, Registers
  <2> QED
    BY <1>1, <2>1, <2>2 DEF Truth, DownIsIdle
<1>5. AskedForMapping'
  BY <1>1, <1>2 DEF Truth, AskedForMapping, Awaited
<1>6. \A t \in Topics, g \in Providers :
        /\ Answered(t, g)' => Answered(t, g)
        /\ Routed(t, g)' <=> Routed(t, g)
        /\ Routing(t, g)' <=> Routing(t, g)
        /\ Silent(t, g)' <=> Silent(t, g)
  BY <1>1, <1>2 DEF Answered, Routed, Routing, Silent, RegisterQueued, Registers
<1>7. Told'
  BY <1>6 DEF Truth, Told
<1> QED
  BY <1>4, <1>5, <1>7 DEF Truth

(* The API server passes a request on, or loses it with the stream manager *)
(* that is not there; a registration is answered either way.               *)
LEMMA TruthArrive ==
  ASSUME TypeOK, Truth, NEW c \in calls, Arrive(c)
  PROVE  Truth'
<1> DEFINE e == [c EXCEPT !.stage = "served"]
           t == c.topic
           g == c.gw
           q == ipc[g]
<1>1. /\ c \in CallType /\ t \in Topics /\ g \in Providers /\ c.stage # "served"
      /\ ipc \in [Providers -> Seq(CallType)] /\ q \in Seq(CallType)
      /\ UNCHANGED <<mapping, recovering, timer, status, intervals, routes>>
  BY DEF TypeOK, CallType, Arrive, home
<1>2. /\ e.kind = c.kind /\ e.topic = c.topic /\ e.gw = c.gw
      /\ e.sensors = c.sensors /\ e.stage = "served"
  BY <1>1 DEF CallType
<1>3. \/ c.kind = "register" /\ c.stage = "sent" /\ calls' = (calls \ {c}) \union {e}
      \/ ~(c.kind = "register" /\ c.stage = "sent") /\ calls' = calls \ {c}
  BY DEF Arrive
<1>4. IF status[g] = "up"
        THEN ipc'[g] = Append(q, c) /\ \A h \in Providers \ {g} : ipc'[h] = ipc[h]
        ELSE ipc' = ipc
  BY <1>1 DEF Arrive
<1> HIDE DEF e
<1>5. \A u, h : Registers(e, u, h) <=> Registers(c, u, h)
  BY <1>2 DEF Registers
<1>6. \A d \in calls' : d \in calls \ {c} \/ (d = e /\ Awaited(c))
  BY <1>3 DEF Awaited
<1>7. AskedOnce' /\ AskedAlone'
  <2>1. AskedOnce'
    BY <1>5, <1>6 DEF Truth, AskedOnce, Registers
  <2>2. AskedAlone'
    <3> SUFFICES ASSUME NEW u \in Topics, NEW h \in Providers, NEW d \in calls',
                        Registers(d, u, h)
                 PROVE  timer[u][h] = "none" /\ recovering[u] = 0
      BY <1>1 DEF AskedAlone, Registers
    <3>1. \E b \in calls : Registers(b, u, h)
      BY <1>5, <1>6
    <3> QED
      BY <3>1 DEF Truth, AskedAlone
  <2> QED
    BY <2>1, <2>2
<1>8. AskedForMapping'
  BY <1>1, <1>2, <1>6 DEF Truth, AskedForMapping, Awaited
<1>9. DownIsIdle'
  BY <1>1, <1>4 DEF Truth, DownIsIdle
<1>10. /\ Len(q) + 1 \in DOMAIN Append(q, c) /\ Append(q, c)[Len(q) + 1] = c
       /\ \A k \in DOMAIN q : k \in DOMAIN Append(q, c) /\ Append(q, c)[k] = q[k]
       /\ \A k \in DOMAIN Append(q, c) : k \in DOMAIN q \/ k = Len(q) + 1
  BY <1>1
<1> HIDE DEF q
<1>11. \A h \in Providers :
         /\ \A k \in DOMAIN ipc[h] : k \in DOMAIN ipc'[h] /\ ipc'[h][k] = ipc[h][k]
         /\ \A k \in DOMAIN ipc'[h] :
              \/ k \in DOMAIN ipc[h] /\ ipc'[h][k] = ipc[h][k]
              \/ h = g /\ ipc'[h][k] = c
  BY <1>4, <1>10 DEF q
<1>12. ASSUME NEW u \in Topics, NEW h \in Providers
       PROVE  /\ Routed(u, h)' <=> Routed(u, h)
              /\ Routing(u, h) => Routing(u, h)'
              /\ ~Registers(c, u, h) /\ Silent(u, h) => Silent(u, h)'
  <2>1. Routed(u, h)' <=> Routed(u, h)
    BY <1>1 DEF Routed
  <2>2. Routing(u, h) => Routing(u, h)'
    BY <1>1, <1>11 DEF Routing, Registers
  <2>3. ~Registers(c, u, h) /\ Silent(u, h) => Silent(u, h)'
    BY <1>1, <1>11 DEF Silent, RegisterQueued, Registers
  <2> QED
    BY <2>1, <2>2, <2>3
<1>13. ASSUME NEW u \in Topics, NEW h \in Providers, Answered(u, h)'
       PROVE  Routed(u, h)' \/ Routing(u, h)' \/ Silent(u, h)'
  <2>1. CASE ~Registers(c, u, h)
    <3>1. Answered(u, h)
      BY <1>1, <1>5, <1>6, <1>13, <2>1 DEF Answered, Registers
    <3> QED
      BY <1>12, <2>1, <3>1 DEF Truth, Told
  <2>2. CASE Registers(c, u, h)
    <3>1. c.kind = "register" /\ u = t /\ h = g
      BY <2>2 DEF Registers
    <3>2. timer[u][h] = "none"
      BY <2>2 DEF Truth, AskedAlone
    <3>3. PICK d \in calls' : Registers(d, u, h) /\ d.stage = "served"
      BY <1>1, <1>13, <3>2 DEF Answered, Registers
    <3>4. Awaited(c)
      <4>1. CASE d \in calls \ {c}
        BY <2>2, <3>3, <4>1 DEF Truth, AskedOnce
      <4> QED
        BY <1>6, <4>1
    <3>5. c.sensors = mapping[t][g]
      BY <3>4 DEF Truth, AskedForMapping
    <3>6. CASE status[g] = "up"
      <4>1. Len(q) + 1 \in DOMAIN ipc'[g] /\ ipc'[g][Len(q) + 1] = c
        BY <1>4, <1>10, <3>6
      <4> QED
        BY <1>1, <2>2, <3>1, <3>5, <4>1 DEF Routing, Registers
    <3>7. CASE status[g] # "up"
      <4>1. ipc'[g] = <<>> /\ intervals'[g][t] = 0
        BY <1>1, <1>4, <3>7 DEF Truth, DownIsIdle
      <4> QED
        BY <3>1, <4>1 DEF Silent, RegisterQueued
    <3> QED
      BY <3>6, <3>7
  <2> QED
    BY <2>1, <2>2
<1>14. Told'
  BY <1>13 DEF Told
<1> QED
  BY <1>7, <1>8, <1>9, <1>14 DEF Truth

(* A provider's stream manager takes a request: a registration routes its  *)
(* sensors and starts heartbeats, a deregistration stops some.             *)
LEMMA QueueTail ==
  ASSUME NEW S, NEW q \in Seq(S), q # <<>>
  PROVE  /\ Head(q) \in S /\ Tail(q) \in Seq(S)
         /\ \A k \in DOMAIN q :
              q[k] = Head(q) \/ (k - 1 \in DOMAIN Tail(q) /\ Tail(q)[k - 1] = q[k])
         /\ \A k \in DOMAIN Tail(q) : k + 1 \in DOMAIN q /\ q[k + 1] = Tail(q)[k]
         /\ 1 \in DOMAIN q /\ q[1] = Head(q)
<1>1. /\ Head(q) \in S /\ Tail(q) \in Seq(S) /\ q[1] = Head(q)
      /\ Len(q) \in Nat /\ Len(q) > 0 /\ Len(Tail(q)) = Len(q) - 1
      /\ DOMAIN q = 1 .. Len(q) /\ DOMAIN Tail(q) = 1 .. Len(Tail(q))
  OBVIOUS
<1>2. \A k \in 1 .. Len(Tail(q)) : Tail(q)[k] = q[k + 1]
  OBVIOUS
<1> DEFINE n == Len(q)
           t == Tail(q)
<1>3. n \in Nat /\ n > 0 /\ DOMAIN q = 1 .. n /\ DOMAIN t = 1 .. n - 1
      /\ \A k \in 1 .. n - 1 : t[k] = q[k + 1]
  BY <1>1, <1>2
<1> HIDE DEF n, t
<1>4. \A k \in 1 .. n : k = 1 \/ (k - 1 \in 1 .. n - 1 /\ (k - 1) + 1 = k)
  BY <1>3
<1>5. ASSUME NEW k \in 1 .. n, k # 1
      PROVE  k - 1 \in DOMAIN t /\ t[k - 1] = q[k]
  <2>1. k - 1 \in 1 .. n - 1 /\ (k - 1) + 1 = k
    BY <1>4, <1>5
  <2>2. t[k - 1] = q[(k - 1) + 1]
    BY <1>3, <2>1
  <2> QED
    BY <1>3, <2>1, <2>2
<1>6. \A k \in DOMAIN t : k + 1 \in DOMAIN q /\ q[k + 1] = t[k]
  BY <1>3
<1>7. 1 \in DOMAIN q
  BY <1>3
<1>8. \A k \in DOMAIN q : q[k] = Head(q) \/ (k - 1 \in DOMAIN t /\ t[k - 1] = q[k])
  BY <1>1, <1>3, <1>5
<1> QED
  BY <1>1, <1>6, <1>7, <1>8 DEF t

LEMMA TruthTopics ==
  ASSUME TypeOK, CurrentRuns, Truth, NEW g \in Providers,
         registerTopic(g) \/ deregisterTopic(g)
  PROVE  Truth'
<1> DEFINE q == ipc[g]
           c == Head(q)
<1>1. /\ q \in Seq(CallType) /\ q # <<>>
      /\ ipc'[g] = Tail(q) /\ \A h \in Providers \ {g} : ipc'[h] = ipc[h]
      /\ UNCHANGED <<calls, mapping, recovering, timer, status>>
  BY DEF TypeOK, registerTopic, deregisterTopic, home
<1>2. /\ c \in CallType /\ Tail(q) \in Seq(CallType)
      /\ \A k \in DOMAIN q :
           q[k] = c \/ (k - 1 \in DOMAIN Tail(q) /\ Tail(q)[k - 1] = q[k])
      /\ \A k \in DOMAIN Tail(q) : k + 1 \in DOMAIN q /\ q[k + 1] = Tail(q)[k]
      /\ 1 \in DOMAIN q /\ q[1] = c
  BY <1>1, QueueTail
<1>3. c.topic \in Topics /\ c.sensors \in SUBSET Devices
  BY <1>2 DEF CallType
<1>4. AskedOnce' /\ AskedAlone' /\ AskedForMapping'
  BY <1>1 DEF Truth, AskedOnce, AskedAlone, AskedForMapping, Registers, Awaited
<1>5. /\ routes \in [Gateways -> [Topics -> [Devices -> Nat]]] /\ g \in Gateways
      /\ intervals \in [Providers -> [Topics -> Nat]]
      /\ mapping \in [Topics -> Mapping]
  BY LocalIsGateway DEF TypeOK
<1>6. \A u \in Topics, h \in Providers : mapping[u][h] \subseteq Devices
  BY <1>5, LocalIsGateway DEF Mapping
<1> HIDE DEF c
<1>7. /\ \A u \in Topics, h \in Providers, d \in Devices :
           routes[h][u][d] > 0 => routes'[h][u][d] > 0
      /\ c.kind = "register" => \A d \in c.sensors : routes'[g][c.topic][d] > 0
  <2>1. CASE registerTopic(g)
    <3> DEFINE row == [d \in Devices |-> routes[g][c.topic][d]
                                           + IF d \in c.sensors THEN 1 ELSE 0]
    <3>1. routes' = [routes EXCEPT ![g][c.topic] = row]
      BY <2>1 DEF registerTopic, registerToLocalGateway, c
    <3>2. /\ routes'[g][c.topic] = row
          /\ \A u \in Topics, h \in Providers :
               u # c.topic \/ h # g => routes'[h][u] = routes[h][u]
      BY <1>3, <1>5, <3>1, LocalIsGateway
    <3>3. \A d \in Devices : /\ routes[g][c.topic][d] > 0 => row[d] > 0
                             /\ d \in c.sensors => row[d] > 0
      BY <1>3, <1>5
    <3> HIDE DEF row
    <3> QED
      BY <1>3, <3>2, <3>3
  <2>2. CASE deregisterTopic(g)
    BY <2>2 DEF deregisterTopic, deregisterFromLocalGateway, c
  <2> QED
    BY <2>1, <2>2
<1>8. \A u \in Topics, h \in Providers :
        intervals[h][u] = 0 => \/ intervals'[h][u] = 0
                               \/ h = g /\ u = c.topic /\ c.kind = "register"
  <2>1. CASE registerTopic(g)
    BY <1>3, <1>5, <2>1 DEF registerTopic, c
  <2>2. CASE deregisterTopic(g)
    <3>1. intervals' = [intervals EXCEPT ![g][c.topic] = Cleared(g, c.topic)]
      BY <2>2 DEF deregisterTopic, c
    <3>2. intervals[g][c.topic] = 0 => Cleared(g, c.topic) = 0
      BY <1>3 DEF Cleared, CurrentRuns
    <3> QED
      BY <1>3, <1>5, <3>1, <3>2
  <2> QED
    BY <2>1, <2>2
<1>9. status[g] = "up"
  BY <1>1 DEF Truth, DownIsIdle
<1> HIDE DEF q
<1>10. DownIsIdle'
  BY <1>1, <1>8, <1>9 DEF Truth, DownIsIdle
<1>11. ASSUME NEW u \in Topics, NEW h \in Providers, Answered(u, h)'
       PROVE  Routed(u, h)' \/ Routing(u, h)' \/ Silent(u, h)'
  <2>1. Answered(u, h)
    BY <1>1, <1>11 DEF Answered, Registers
  <2>2. CASE Routed(u, h)
    BY <1>1, <1>6, <1>7, <2>2 DEF Routed
  <2>3. CASE Routing(u, h)
    <3>1. PICK k \in DOMAIN ipc[h] :
            Registers(ipc[h][k], u, h) /\ ipc[h][k].sensors = mapping[u][h]
      BY <2>3 DEF Routing
    <3>2. CASE h # g
      BY <1>1, <3>1, <3>2 DEF Routing, Registers
    <3>3. CASE h = g /\ ipc[h][k] = c
      <4>1. c.kind = "register" /\ c.topic = u /\ c.sensors = mapping[u][g]
        BY <3>1, <3>3 DEF Registers
      <4> QED
        BY <1>1, <1>7, <3>3, <4>1 DEF Routed
    <3>4. CASE h = g /\ k - 1 \in DOMAIN Tail(q) /\ Tail(q)[k - 1] = ipc[h][k]
      BY <1>1, <3>1, <3>4 DEF Routing, Registers
    <3> QED
      BY <1>2, <3>1, <3>2, <3>3, <3>4 DEF q
  <2>4. CASE Silent(u, h)
    <3>1. CASE h # g
      BY <1>1, <1>8, <2>4, <3>1 DEF Silent, RegisterQueued
    <3>2. CASE h = g
      <4>1. ~(c.kind = "register" /\ c.topic = u)
        BY <1>2, <2>4, <3>2 DEF Silent, RegisterQueued, q
      <4>2. intervals'[h][u] = 0
        BY <1>8, <2>4, <4>1 DEF Silent
      <4>3. \A k \in DOMAIN ipc'[g] : ~(ipc'[g][k].kind = "register" /\ ipc'[g][k].topic = u)
        BY <1>1, <1>2, <2>4, <3>2 DEF Silent, RegisterQueued, q
      <4> QED
        BY <3>2, <4>2, <4>3 DEF Silent, RegisterQueued
    <3> QED
      BY <3>1, <3>2
  <2> QED
    BY <2>1, <2>2, <2>3, <2>4 DEF Truth, Told
<1>12. Told'
  BY <1>11 DEF Told
<1> QED
  BY <1>4, <1>10, <1>12 DEF Truth

(* A provider dies, and is silent; it starts, and is silent still.         *)
LEMMA TruthCrash ==
  ASSUME TypeOK, Truth, NEW g \in Providers, ProviderCrash(g)
  PROVE  Truth'
<1>1. /\ calls' \subseteq calls
      /\ UNCHANGED <<mapping, recovering, timer>>
      /\ status' = [status EXCEPT ![g] = "down"]
      /\ ipc' = [ipc EXCEPT ![g] = <<>>]
      /\ routes' = [routes EXCEPT ![g] = Unrouted]
      /\ intervals' = [intervals EXCEPT ![g] = [t \in Topics |-> 0]]
  BY DEF ProviderCrash
<1>2. /\ ipc'[g] = <<>> /\ \A t \in Topics : intervals'[g][t] = 0
      /\ \A h \in Providers \ {g} :
           /\ status'[h] = status[h] /\ ipc'[h] = ipc[h]
           /\ routes'[h] = routes[h] /\ intervals'[h] = intervals[h]
  BY <1>1, LocalIsGateway DEF TypeOK
<1>3. AskedOnce' /\ AskedAlone' /\ AskedForMapping'
  BY <1>1 DEF Truth, AskedOnce, AskedAlone, AskedForMapping, Registers, Awaited
<1>4. DownIsIdle'
  BY <1>2 DEF Truth, DownIsIdle
<1>5. ASSUME NEW t \in Topics, NEW h \in Providers, Answered(t, h)'
      PROVE  Routed(t, h)' \/ Routing(t, h)' \/ Silent(t, h)'
  <2>1. CASE h = g
    BY <1>2, <2>1 DEF Silent, RegisterQueued
  <2>2. CASE h # g
    <3>1. Answered(t, h)
      BY <1>1, <1>5 DEF Answered, Registers
    <3>2. /\ Routed(t, h)' <=> Routed(t, h)
          /\ Routing(t, h)' <=> Routing(t, h)
          /\ Silent(t, h)' <=> Silent(t, h)
      BY <1>1, <1>2, <2>2 DEF Routed, Routing, Silent, RegisterQueued, Registers
    <3> QED
      BY <3>1, <3>2 DEF Truth, Told
  <2> QED
    BY <2>1, <2>2
<1>6. Told'
  BY <1>5 DEF Told
<1> QED
  BY <1>3, <1>4, <1>6 DEF Truth

LEMMA TruthStart ==
  ASSUME TypeOK, Truth, NEW g \in Providers, ProviderStart(g) \/ ProviderReady(g)
  PROVE  Truth'
<1>1. UNCHANGED <<calls, mapping, recovering, timer, ipc, intervals, routes>>
  BY DEF ProviderStart, ProviderReady, home
<1>2. \A h \in Providers : status'[h] # "up" => status[h] # "up"
  BY DEF ProviderStart, ProviderReady, TypeOK
<1>3. AskedOnce' /\ AskedAlone' /\ AskedForMapping'
  BY <1>1 DEF Truth, AskedOnce, AskedAlone, AskedForMapping, Registers, Awaited
<1>4. DownIsIdle'
  BY <1>1, <1>2 DEF Truth, DownIsIdle
<1>5. Told'
  BY <1>1 DEF Truth, Told, Answered, Routed, Routing, Silent, RegisterQueued, Registers
<1> QED
  BY <1>3, <1>4, <1>5 DEF Truth

(* Local dies: it has no timers, and nothing is served.                    *)
LEMMA TruthHomeCrash ==
  ASSUME TypeOK, Truth, HomeCrash
  PROVE  Truth'
<1>1. /\ calls' = {Orphaned(c) : c \in {e \in calls : e.stage # "served"}}
      /\ UNCHANGED <<status, ipc, intervals>>
      /\ \A t \in Topics : recovering'[t] = 0
                           /\ \A g \in Providers : timer'[t][g] = "none"
  BY DEF HomeCrash, provider
<1>2. \A c \in calls : /\ Orphaned(c).kind = c.kind /\ Orphaned(c).topic = c.topic
                       /\ Orphaned(c).gw = c.gw
                       /\ c.kind = "register" => Orphaned(c).stage = "abandoned"
  BY DEF Orphaned, TypeOK, CallType
<1>3. \A c \in calls' : \E e \in calls :
        /\ c = Orphaned(e) /\ c.kind = e.kind /\ c.topic = e.topic /\ c.gw = e.gw
        /\ c.kind = "register" => c.stage = "abandoned"
  BY <1>1, <1>2
<1>4. AskedOnce'
  BY <1>3 DEF Truth, AskedOnce, Registers
<1>5. AskedAlone' /\ AskedForMapping'
  BY <1>1, <1>3 DEF AskedAlone, AskedForMapping, Awaited
<1>6. DownIsIdle'
  BY <1>1 DEF Truth, DownIsIdle
<1>7. Told'
  BY <1>1, <1>3 DEF Told, Answered, Registers
<1> QED
  BY <1>4, <1>5, <1>6, <1>7 DEF Truth

LEMMA TruthTimers ==
  ASSUME TypeOK, Watch, Truth, NEW t \in Topics, NEW g \in Providers,
         \/ Elapse(t, g)
         \/ handleHeartbeatMessage(t, g)
         \/ handleRemoteGatewayFailure(t, g)
  PROVE  Truth'
<1>1. /\ timer \in [Topics -> [Providers -> {"none", "armed", "late", "fired"}]]
      /\ recovering \in [Topics -> Nat]
      /\ orphans \in [Topics -> [Providers -> Nat]]
  BY DEF TypeOK
<1>2. UNCHANGED <<mapping, status, ipc, intervals, routes>>
  BY DEF Elapse, handleHeartbeatMessage, handleRemoteGatewayFailure, provider
<1>3. \A c \in calls' : c \in calls \/ c.kind = "deregister"
  BY DEF Elapse, handleHeartbeatMessage, handleRemoteGatewayFailure,
         requestRemoteGatewayToDeregister, Call
<1>4. /\ \A u \in Topics, h \in Providers : timer'[u][h] # "none" => timer[u][h] # "none"
      /\ \A u \in Topics : recovering'[u] # recovering[u] => Quiet(u)
  <2>1. CASE Elapse(t, g)
    BY <1>1, <2>1 DEF Elapse
  <2>2. CASE handleHeartbeatMessage(t, g)
    BY <1>1, <2>2 DEF handleHeartbeatMessage
  <2>3. CASE handleRemoteGatewayFailure(t, g)
    <3>1. timer[t][g] = "late" /\ orphans[t][g] = 0 /\ Quiet(t)
      BY <1>1, <2>3 DEF handleRemoteGatewayFailure, Watch, OneTimerEach, LateIsQuiet
    <3>2. /\ timer' = [timer EXCEPT ![t] = TimersCleared(t, g)]
          /\ recovering' = [recovering EXCEPT ![t] = @ + 1]
      BY <2>3 DEF handleRemoteGatewayFailure
    <3>3. \A h \in Providers : TimersCleared(t, g)[h] # "none" => timer[t][h] # "none"
      BY <1>1, <3>1 DEF TimersCleared, Fired
    <3> QED
      BY <1>1, <3>1, <3>2, <3>3
  <2> QED
    BY <2>1, <2>2, <2>3
<1>5. AskedOnce' /\ AskedForMapping' /\ DownIsIdle'
  BY <1>2, <1>3 DEF Truth, AskedOnce, AskedForMapping, DownIsIdle, Registers, Awaited
<1>6. AskedAlone'
  <2> SUFFICES ASSUME NEW u \in Topics, NEW h \in Providers, NEW c \in calls',
                      Registers(c, u, h)
               PROVE  timer'[u][h] = "none" /\ recovering'[u] = 0
    BY DEF AskedAlone, Registers
  <2>1. c \in calls /\ c.topic = u
    BY <1>3 DEF Registers
  <2>2. timer[u][h] = "none" /\ recovering[u] = 0
    BY <2>1 DEF Truth, AskedAlone
  <2> QED
    BY <1>4, <2>1, <2>2 DEF Quiet
<1>7. \A u \in Topics, h \in Providers :
        /\ Answered(u, h)' => Answered(u, h)
        /\ Routed(u, h)' <=> Routed(u, h)
        /\ Routing(u, h)' <=> Routing(u, h)
        /\ Silent(u, h)' <=> Silent(u, h)
  BY <1>2, <1>3, <1>4 DEF Answered, Routed, Routing, Silent, RegisterQueued, Registers
<1>8. Told'
  BY <1>7 DEF Truth, Told
<1> QED
  BY <1>5, <1>6, <1>8 DEF Truth

(* A new mapping is asked for when nothing of the old one is answered.     *)
LEMMA TruthTopic ==
  ASSUME TypeOK, Watch, Truth, NEW t \in Topics, requestStreams(t) \/ recover(t)
  PROVE  Truth'
<1>1. PICK named \in SUBSET Alive : \E m \in optimalGatewayDeviceMapping(t, named) :
        /\ mapping' = [mapping EXCEPT ![t] = m]
        /\ routes' = routes \/ routes' = registerToLocalGateway(Local, t, m[Local])
        /\ calls' = calls \union registerToRemoteGateway(t, m, waves[t] + 1)
  BY DEF requestStreams, recover
<1>2. PICK m \in optimalGatewayDeviceMapping(t, named) :
        /\ mapping' = [mapping EXCEPT ![t] = m]
        /\ routes' = routes \/ routes' = registerToLocalGateway(Local, t, m[Local])
        /\ calls' = calls \union registerToRemoteGateway(t, m, waves[t] + 1)
  BY <1>1
<1> DEFINE new == registerToRemoteGateway(t, m, waves[t] + 1)
<1>3. /\ \A c \in new : /\ c.kind = "register" /\ c.topic = t /\ c.stage = "sent"
                        /\ c.gw \in Providers /\ c.sensors = m[c.gw]
      /\ \A c, e \in new : c.gw = e.gw => c = e
  BY DEF registerToRemoteGateway, Call
<1>4. calls' = calls \union new
  BY <1>2
<1> HIDE DEF new
<1>5. mapping'[t] = m /\ \A u \in Topics : u # t => mapping'[u] = mapping[u]
  BY <1>2 DEF TypeOK
<1>6. \A h \in Providers : routes'[h] = routes[h]
  BY <1>2 DEF registerToLocalGateway, Providers, TypeOK
<1>7. UNCHANGED <<timer, status, ipc, intervals>>
  BY DEF requestStreams, recover, provider
<1>8. /\ \A c \in calls : c.topic = t => c.kind # "register"
      /\ recovering'[t] = 0 /\ \A u \in Topics : u # t => recovering'[u] = recovering[u]
      /\ \A h \in Providers : timer[t][h] = "none"
  <2>1. CASE requestStreams(t)
    BY <2>1 DEF requestStreams, Quiet, Watch, UnaskedIsIdle, WatchesMapping
  <2>2. CASE recover(t)
    <3>1. recovering[t] = 1
      BY <2>2 DEF recover, Watch, OneTimerEach, TypeOK
    <3>2. recovering' = [recovering EXCEPT ![t] = @ - 1]
      BY <2>2 DEF recover
    <3>3. \A c \in calls : c.topic = t => c.kind # "register"
      <4> SUFFICES ASSUME NEW c \in calls, c.topic = t, c.kind = "register"
                   PROVE  FALSE
        OBVIOUS
      <4>1. c.gw \in Providers /\ Registers(c, t, c.gw)
        BY DEF Registers, TypeOK, CallType
      <4> QED
        BY <3>1, <4>1 DEF Truth, AskedAlone
    <3> QED
      BY <3>1, <3>2, <3>3 DEF Watch, WatchesMapping, TypeOK
  <2> QED
    BY <2>1, <2>2
<1>9. AskedOnce'
  <2> SUFFICES ASSUME NEW u \in Topics, NEW h \in Providers, NEW c \in calls',
                      NEW e \in calls', Registers(c, u, h), Registers(e, u, h)
               PROVE  c = e
    BY DEF AskedOnce, Registers
  <2>1. CASE u = t
    BY <1>3, <1>4, <1>8, <2>1 DEF Registers
  <2>2. CASE u # t
    BY <1>3, <1>4, <2>2 DEF Registers, Truth, AskedOnce
  <2> QED
    BY <2>1, <2>2
<1>10. AskedAlone'
  <2> SUFFICES ASSUME NEW u \in Topics, NEW h \in Providers, NEW c \in calls',
                      Registers(c, u, h)
               PROVE  timer[u][h] = "none" /\ recovering'[u] = 0
    BY <1>7 DEF AskedAlone, Registers
  <2>1. CASE u = t
    BY <1>8, <2>1
  <2>2. CASE u # t
    BY <1>3, <1>4, <1>8, <2>2 DEF Registers, Truth, AskedAlone
  <2> QED
    BY <2>1, <2>2
<1>11. AskedForMapping'
  <2> SUFFICES ASSUME NEW c \in calls', Awaited(c)
               PROVE  c.sensors = mapping'[c.topic][c.gw]
    BY DEF AskedForMapping, Awaited
  <2>1. CASE c \in new
    BY <1>3, <1>5, <2>1
  <2>2. CASE c \in calls
    <3>1. c.topic \in Topics /\ c.topic # t
      BY <1>8, <2>2 DEF Awaited, TypeOK, CallType
    <3> QED
      BY <1>5, <2>2, <3>1 DEF Truth, AskedForMapping
  <2> QED
    BY <1>4, <2>1, <2>2
<1>12. DownIsIdle'
  BY <1>7 DEF Truth, DownIsIdle
<1>13. ASSUME NEW u \in Topics, NEW h \in Providers, Answered(u, h)'
       PROVE  Routed(u, h)' \/ Routing(u, h)' \/ Silent(u, h)'
  <2>1. Answered(u, h) /\ u # t
    BY <1>3, <1>4, <1>7, <1>8, <1>13 DEF Answered, Registers
  <2>2. /\ Routed(u, h)' <=> Routed(u, h)
        /\ Routing(u, h)' <=> Routing(u, h)
        /\ Silent(u, h)' <=> Silent(u, h)
    BY <1>5, <1>6, <1>7, <2>1 DEF Routed, Routing, Silent, RegisterQueued, Registers
  <2> QED
    BY <2>1, <2>2 DEF Truth, Told
<1>14. Told'
  BY <1>13 DEF Told
<1> QED
  BY <1>9, <1>10, <1>11, <1>12, <1>14 DEF Truth

(* A heartbeat tells the truth: while the provider watched sends them, it  *)
(* routes every sensor the mapping asks of it, or is about to, though      *)
(* heartbeats of older mappings, restarts of either gateway and lost or    *)
(* late requests are mixed up.                                             *)
THEOREM HeartbeatsTellTheTruth == Spec => []HeartbeatMeansStreaming
<1>1. Init => Truth
  BY DEF Init, Truth, AskedOnce, AskedAlone, AskedForMapping, DownIsIdle, Told, Answered
<1>2. StreamInv /\ Truth /\ [Next]_vars => Truth'
  <2> SUFFICES ASSUME TypeOK, CurrentRuns, Watch, Truth, [Next]_vars PROVE Truth'
    BY StreamInvParts
  <2>1. ASSUME NEW c \in calls, Lose(c) PROVE Truth'
    BY <2>1, AnswersKept DEF Lose, home, provider
  <2>2. ASSUME NEW g \in Gateways, NEW d \in Devices, DeviceHeard(g, d) PROVE Truth'
    BY <2>2, AnswersKept DEF DeviceHeard, home, provider
  <2>3. CASE UNCHANGED vars
    BY <2>3, AnswersKept DEF vars
  <2> QED
    BY <2>1, <2>2, <2>3, TruthTopic, TruthTimers, TruthRegistered, TruthFailed,
       TruthArrive, TruthTopics, TruthCrash, TruthStart, TruthHomeCrash DEF Next
<1>3. Truth => HeartbeatMeansStreaming
  <2> SUFFICES ASSUME Truth, NEW t \in Topics, NEW g \in Providers,
                      timer[t][g] # "none", intervals[g][t] > 0, ~RegisterQueued(g, t)
               PROVE  Routed(t, g)
    BY DEF HeartbeatMeansStreaming, Routed
  <2>1. Routed(t, g) \/ Routing(t, g) \/ Silent(t, g)
    BY DEF Truth, Told, Answered
  <2>2. ~Silent(t, g)
    BY DEF Silent
  <2>3. ~Routing(t, g)
    BY DEF Routing, RegisterQueued, Registers
  <2> QED
    BY <2>1, <2>2, <2>3
<1> QED
  BY <1>1, <1>2, <1>3, StreamInvariant, PTL DEF Spec
=============================================================================
