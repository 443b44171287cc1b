------------------------- MODULE SensorStreamManager ------------------------
(***************************************************************************)
(* sensor-stream-manager.js: how the gateway `Local` gets the sensors of   *)
(* its applications streamed by other gateways, and how it replaces one    *)
(* whose heartbeats stop.                                                  *)
(*                                                                         *)
(* Local asks a provider over HTTP to forward sensors to an application's  *)
(* topic ("register") or to stop ("deregister").  The provider's API       *)
(* server answers 200 at once and passes the request to its sensor stream  *)
(* manager over IPC.  From then on the provider publishes a heartbeat      *)
(* every 60 s; Local keeps a 65 s timer per topic and provider.            *)
(*                                                                         *)
(* Requests of one mapping form a wave (1 for request-streams, then one    *)
(* per recovery); the number only tells the requests of two waves apart.   *)
(***************************************************************************)
EXTENDS GatewayMapping, Sequences

CONSTANTS
  Topics,        \* applications, by topic
  Wanted,        \* topic -> sensors its metadata asks for
  InitialHosts,  \* gateway -> sensors it has registered at first
  Hearable,      \* <<gateway, sensor>> pairs that may come in range later
  MaxWaves,      \* bound: mappings per topic
  MaxCrashes     \* bound: crashes of gateways

Providers == Gateways \ {Local}

ASSUME StreamsAssumption ==
  /\ Wanted \in [Topics -> SUBSET Devices]
  /\ InitialHosts \in Mapping
  /\ Hearable \subseteq Gateways \X Devices
  /\ MaxWaves \in Nat /\ MaxCrashes \in Nat

VARIABLES
  hosts,         \* gateway -> sensors in its device manager's database
  requested,     \* topics that are keys of sensorStreamRequests
  mapping,       \* topic -> its optimalGatewayDeviceMapping
  recovering,    \* topic -> recoveries waiting for the link graph
  timer,         \* topic -> provider -> state of heartbeatDiagnosticTimers' entry
  orphans,       \* topic -> provider -> armed timers no entry refers to
  calls,         \* HTTP requests not yet over
  unregistered,  \* history: topic -> providers whose registration failed in this wave
  status,        \* provider -> "up", "starting" (API server only) or "down"
  ipc,           \* provider -> requests on their way to its stream manager
  routes,        \* gateway -> topic -> sensor -> times the route table lists it
  intervals,     \* provider -> topic -> heartbeat intervals running
  current,       \* provider -> topic -> heartbeatPublishTimers has an entry
  waves, crashes \* counters for the bounds

home == <<requested, mapping, recovering, timer, orphans, unregistered>>
provider == <<status, ipc, intervals, current>>
vars == <<hosts, requested, mapping, recovering, timer, orphans, calls,
          unregistered, status, ipc, routes, intervals, current, waves, crashes>>

Call(kind, t, g, sensors, wave) ==
  [kind |-> kind, topic |-> t, gw |-> g, sensors |-> sensors, wave |-> wave,
   stage |-> "sent"]

Unrouted == [t \in Topics |-> [d \in Devices |-> 0]]

Init ==
  /\ hosts = InitialHosts
  /\ requested = [t \in Topics |-> FALSE]
  /\ mapping = [t \in Topics |-> Nothing]
  /\ recovering = [t \in Topics |-> 0]
  /\ timer = [t \in Topics |-> [g \in Providers |-> "none"]]
  /\ orphans = [t \in Topics |-> [g \in Providers |-> 0]]
  /\ calls = {}
  /\ unregistered = [t \in Topics |-> {}]
  /\ status = [g \in Providers |-> "up"]
  /\ ipc = [g \in Providers |-> <<>>]
  /\ routes = [g \in Gateways |-> Unrouted]
  /\ intervals = [g \in Providers |-> [t \in Topics |-> 0]]
  /\ current = [g \in Providers |-> [t \in Topics |-> FALSE]]
  /\ waves = [t \in Topics |-> 0]
  /\ crashes = 0

-----------------------------------------------------------------------------
(* The link graph names Local and any of the providers that answer at that *)
(* moment (a request that fails drops its gateway), with their devices.    *)
Offers(t, named) ==
  getHostGateways(Wanted[t],
    [g \in Gateways |-> IF g = Local \/ g \in named THEN hosts[g] ELSE {}])

Alive == {g \in Providers : status[g] # "down"}

(* getOptimalGatewayDeviceMapping(): any valid mapping (StreamMapping).    *)
optimalGatewayDeviceMapping(t, named) ==
  {m \in Mapping : ValidMapping(m, Offers(t, named))}

(* registerToRemoteGateway() for every remote gateway of a mapping.        *)
registerToRemoteGateway(t, m, wave) ==
  {Call("register", t, g, m[g], wave) : g \in {h \in Providers : m[h] # {}}}

(* requestRemoteGatewayToDeregister(), for each of the providers given.    *)
requestRemoteGatewayToDeregister(t, gs) ==
  {Call("deregister", t, g, mapping[t][g], waves[t]) : g \in gs}

(* sensorStreamRouteTable[id][ip].push(topic), for each of the sensors.    *)
registerToLocalGateway(g, t, sensors) ==
  [routes EXCEPT ![g][t] = [d \in Devices |-> @[d] + IF d \in sensors THEN 1 ELSE 0]]

(* push(topic), then removal of the first occurrence: the number of        *)
(* occurrences stays as it was.                                            *)
deregisterFromLocalGateway(g, t, sensors) == routes

Quiet(t) == \A c \in calls : c.topic # t

(* "request-streams", sent once per application and start of the gateway.  *)
(* A restart takes longer than the requests of the process that died last. *)
requestStreams(t) ==
  /\ ~requested[t]
  /\ Quiet(t)
  /\ waves[t] < MaxWaves
  /\ \E named \in SUBSET Alive : \E m \in optimalGatewayDeviceMapping(t, named) :
       /\ mapping' = [mapping EXCEPT ![t] = m]
       /\ routes' = registerToLocalGateway(Local, t, m[Local])
       /\ calls' = calls \union registerToRemoteGateway(t, m, waves[t] + 1)
  /\ requested' = [requested EXCEPT ![t] = TRUE]
  /\ waves' = [waves EXCEPT ![t] = @ + 1]
  /\ UNCHANGED <<hosts, recovering, timer, orphans, unregistered, provider, crashes>>

(* Status 200: watch the provider.  The timer the entry held, if any, is   *)
(* not cleared.                                                            *)
Armed == {"armed", "late"}
registered(c) ==
  /\ c \in calls /\ c.stage = "served"
  /\ calls' = calls \ {c}
  /\ timer' = [timer EXCEPT ![c.topic][c.gw] = "armed"]
  /\ orphans' = IF timer[c.topic][c.gw] \in Armed
                  THEN [orphans EXCEPT ![c.topic][c.gw] = @ + 1]
                  ELSE orphans
  /\ UNCHANGED <<hosts, requested, mapping, recovering, unregistered, provider,
                 routes, waves, crashes>>

(* A registration fails or takes more than 5 s: it is logged.  The request *)
(* may still reach the provider.                                           *)
registrationFailed(c) ==
  /\ c \in calls /\ c.kind = "register" /\ c.stage \in {"sent", "served"}
  /\ calls' = (calls \ {c}) \union
       IF c.stage = "sent" THEN {[c EXCEPT !.stage = "abandoned"]} ELSE {}
  /\ unregistered' = [unregistered EXCEPT ![c.topic] = @ \union {c.gw}]
  /\ UNCHANGED <<hosts, requested, mapping, recovering, timer, orphans, provider,
                 routes, waves, crashes>>

(* Sixty of the timer's 65 s pass without a heartbeat.  No request lives   *)
(* that long: each is over 5 s after it was sent.                          *)
Elapse(t, g) ==
  /\ timer[t][g] = "armed"
  /\ Quiet(t)
  /\ timer' = [timer EXCEPT ![t][g] = "late"]
  /\ UNCHANGED <<hosts, requested, mapping, recovering, orphans, calls,
                 unregistered, provider, routes, waves, crashes>>

(* Mutants: a heartbeat sets a timer whether or not there was an entry; it *)
(* clears the timer and deletes the entry.                                 *)
HeartbeatArms(t, g) ==
  /\ status[g] = "up" /\ intervals[g][t] > 0
  /\ timer' = [timer EXCEPT ![t][g] = "armed"]
  /\ UNCHANGED <<hosts, requested, mapping, recovering, orphans, calls,
                 unregistered, provider, routes, waves, crashes>>

HeartbeatClears(t, g) ==
  /\ status[g] = "up" /\ intervals[g][t] > 0
  /\ timer' = [timer EXCEPT ![t][g] = "none"]
  /\ UNCHANGED <<hosts, requested, mapping, recovering, orphans, calls,
                 unregistered, provider, routes, waves, crashes>>

(* A heartbeat of the provider: clear the timer and set it again.          *)
handleHeartbeatMessage(t, g) ==
  /\ status[g] = "up" /\ intervals[g][t] > 0
  /\ timer[t][g] # "none"
  /\ timer' = [timer EXCEPT ![t][g] = "armed"]
  /\ UNCHANGED <<hosts, requested, mapping, recovering, orphans, calls,
                 unregistered, provider, routes, waves, crashes>>

Remote(t) == {g \in Providers : mapping[t][g] # {}}

(* Of two timers for one provider the older one, without entry, is first.  *)
Fired(t, g) ==
  IF orphans[t][g] > 0 THEN timer[t] ELSE [timer[t] EXCEPT ![g] = "fired"]

(* Mutant: only the timer that fired is deleted.                           *)
OwnTimerCleared(t, g) == [timer[t] EXCEPT ![g] = "none"]
TimersCleared(t, g) ==
  [h \in Providers |-> IF h \in Remote(t) THEN "none" ELSE Fired(t, g)[h]]

(* A timer expires: ask the other providers of the topic to stop, drop the *)
(* timers of the mapping, ask for the link graph.                          *)
handleRemoteGatewayFailure(t, g) ==
  /\ timer[t][g] = "late" \/ orphans[t][g] > 0
  /\ waves[t] < MaxWaves
  /\ calls' = calls \union
       requestRemoteGatewayToDeregister(t, Remote(t) \ {g})
  /\ timer' = [timer EXCEPT ![t] = TimersCleared(t, g)]
  /\ orphans' = [orphans EXCEPT ![t][g] = IF @ > 0 THEN @ - 1 ELSE 0]
  /\ recovering' = [recovering EXCEPT ![t] = @ + 1]
  /\ UNCHANGED <<hosts, requested, mapping, unregistered, provider, routes,
                 waves, crashes>>

(* Mutant: the mapping stored is not replaced.                             *)
RecoverForgets(t) ==
  /\ recovering[t] > 0
  /\ recovering' = [recovering EXCEPT ![t] = @ - 1]
  /\ \E named \in SUBSET Alive : \E m \in optimalGatewayDeviceMapping(t, named) :
       calls' = calls \union registerToRemoteGateway(t, m, waves[t] + 1)
  /\ unregistered' = [unregistered EXCEPT ![t] = {}]
  /\ waves' = [waves EXCEPT ![t] = @ + 1]
  /\ UNCHANGED <<hosts, requested, mapping, timer, orphans, provider, routes, crashes>>

(* The link graph arrives: a new mapping, and requests to its providers.   *)
(* Sensors that are now local are not registered.                          *)
recover(t) ==
  /\ recovering[t] > 0
  /\ recovering' = [recovering EXCEPT ![t] = @ - 1]
  /\ \E named \in SUBSET Alive : \E m \in optimalGatewayDeviceMapping(t, named) :
       /\ mapping' = [mapping EXCEPT ![t] = m]
       /\ calls' = calls \union registerToRemoteGateway(t, m, waves[t] + 1)
  /\ unregistered' = [unregistered EXCEPT ![t] = {}]
  /\ waves' = [waves EXCEPT ![t] = @ + 1]
  /\ UNCHANGED <<hosts, requested, timer, orphans, provider, routes, crashes>>

-----------------------------------------------------------------------------
(* The provider's API server forwards the request over IPC and answers 200. *)
(* While the stream manager has not connected its socket, the platform     *)
(* manager loses what is sent to it.                                       *)
Arrive(c) ==
  /\ c \in calls /\ c.stage # "served"
  /\ status[c.gw] # "down"
  /\ ipc' = IF status[c.gw] = "up" THEN [ipc EXCEPT ![c.gw] = Append(@, c)] ELSE ipc
  /\ calls' = (calls \ {c}) \union
       IF c.kind = "register" /\ c.stage = "sent"
         THEN {[c EXCEPT !.stage = "served"]} ELSE {}
  /\ UNCHANGED <<hosts, home, status, routes, intervals, current, waves, crashes>>

(* A request nobody waits for any more does not get there.                 *)
Lose(c) ==
  /\ c \in calls
  /\ c.kind = "deregister" \/ c.stage = "abandoned"
  /\ calls' = calls \ {c}
  /\ UNCHANGED <<hosts, home, provider, routes, waves, crashes>>

(* Mutant: the heartbeats start, the routes are forgotten.                 *)
HeartbeatOnly(g) ==
  /\ ipc[g] # <<>>
  /\ Head(ipc[g]).kind = "register"
  /\ ipc' = [ipc EXCEPT ![g] = Tail(@)]
  /\ intervals' = [intervals EXCEPT ![g][Head(ipc[g]).topic] = @ + 1]
  /\ current' = [current EXCEPT ![g][Head(ipc[g]).topic] = TRUE]
  /\ UNCHANGED <<hosts, home, calls, status, routes, waves, crashes>>

(* "register-topic": route the sensors and start the heartbeats.  The      *)
(* interval the entry held, if any, keeps running.                         *)
registerTopic(g) ==
  /\ ipc[g] # <<>>
  /\ LET c == Head(ipc[g]) IN
       /\ c.kind = "register"
       /\ routes' = registerToLocalGateway(g, c.topic, c.sensors)
       /\ intervals' = [intervals EXCEPT ![g][c.topic] = @ + 1]
       /\ current' = [current EXCEPT ![g][c.topic] = TRUE]
  /\ ipc' = [ipc EXCEPT ![g] = Tail(@)]
  /\ UNCHANGED <<hosts, home, calls, status, waves, crashes>>

Cleared(g, t) == IF current[g][t] THEN intervals[g][t] - 1 ELSE intervals[g][t]

(* "deregister-topic": stop the heartbeats of the last registration.       *)
deregisterTopic(g) ==
  /\ ipc[g] # <<>>
  /\ LET c == Head(ipc[g]) IN
       /\ c.kind = "deregister"
       /\ routes' = deregisterFromLocalGateway(g, c.topic, c.sensors)
       /\ intervals' = [intervals EXCEPT ![g][c.topic] = Cleared(g, c.topic)]
       /\ current' = [current EXCEPT ![g][c.topic] = FALSE]
  /\ ipc' = [ipc EXCEPT ![g] = Tail(@)]
  /\ UNCHANGED <<hosts, home, calls, status, waves, crashes>>

(* A provider dies, with its connections: Local sees the requests it had   *)
(* not answered fail.  An answer already sent arrives.                     *)
Cut(g) == {c \in calls : c.gw = g /\ c.stage # "served"}
FailedBy(g, t) ==
  \E c \in Cut(g) : c.kind = "register" /\ c.stage = "sent" /\ c.topic = t

ProviderCrash(g) ==
  /\ status[g] # "down"
  /\ crashes < MaxCrashes
  /\ crashes' = crashes + 1
  /\ status' = [status EXCEPT ![g] = "down"]
  /\ ipc' = [ipc EXCEPT ![g] = <<>>]
  /\ routes' = [routes EXCEPT ![g] = Unrouted]
  /\ intervals' = [intervals EXCEPT ![g] = [t \in Topics |-> 0]]
  /\ current' = [current EXCEPT ![g] = [t \in Topics |-> FALSE]]
  /\ calls' = calls \ Cut(g)
  /\ unregistered' = [t \in Topics |->
       unregistered[t] \union IF FailedBy(g, t) THEN {g} ELSE {}]
  /\ UNCHANGED <<hosts, requested, mapping, recovering, timer, orphans, waves>>

ProviderStart(g) ==
  /\ status[g] = "down"
  /\ status' = [status EXCEPT ![g] = "starting"]
  /\ UNCHANGED <<hosts, home, calls, ipc, routes, intervals, current, waves, crashes>>

(* The stream manager connects its socket ("register-socket").             *)
ProviderReady(g) ==
  /\ status[g] = "starting"
  /\ status' = [status EXCEPT ![g] = "up"]
  /\ UNCHANGED <<hosts, home, calls, ipc, routes, intervals, current, waves, crashes>>

(* Local dies and starts again.  Its providers know nothing of it.         *)
Orphaned(c) == [c EXCEPT !.stage = IF c.kind = "register" THEN "abandoned" ELSE @]
HomeCrash ==
  /\ crashes < MaxCrashes
  /\ crashes' = crashes + 1
  /\ requested' = [t \in Topics |-> FALSE]
  /\ mapping' = [t \in Topics |-> Nothing]
  /\ recovering' = [t \in Topics |-> 0]
  /\ timer' = [t \in Topics |-> [g \in Providers |-> "none"]]
  /\ orphans' = [t \in Topics |-> [g \in Providers |-> 0]]
  /\ unregistered' = [t \in Topics |-> {}]
  /\ routes' = [routes EXCEPT ![Local] = Unrouted]
  /\ calls' = {Orphaned(c) : c \in {e \in calls : e.stage # "served"}}
  /\ UNCHANGED <<hosts, provider, waves>>

(* A device comes in range of one more gateway.                            *)
DeviceHeard(g, d) ==
  /\ <<g, d>> \in Hearable
  /\ d \notin hosts[g]
  /\ g # Local => status[g] = "up"
  /\ hosts' = [hosts EXCEPT ![g] = @ \union {d}]
  /\ UNCHANGED <<home, calls, provider, routes, waves, crashes>>

Next ==
  \/ \E t \in Topics : requestStreams(t) \/ recover(t)
  \/ \E t \in Topics, g \in Providers :
       \/ Elapse(t, g)
       \/ handleHeartbeatMessage(t, g)
       \/ handleRemoteGatewayFailure(t, g)
  \/ \E c \in calls : registered(c) \/ registrationFailed(c) \/ Arrive(c) \/ Lose(c)
  \/ \E g \in Providers :
       \/ registerTopic(g)
       \/ deregisterTopic(g)
       \/ ProviderCrash(g)
       \/ ProviderStart(g)
       \/ ProviderReady(g)
  \/ HomeCrash
  \/ \E g \in Gateways, d \in Devices : DeviceHeard(g, d)

Spec == Init /\ [][Next]_vars

(* Timers run, the link graph is answered, and every request is over in    *)
(* the end: answered, failed or lost.                                      *)
Over(c) == registered(c) \/ registrationFailed(c) \/ Arrive(c) \/ Lose(c)
FairSpec ==
  /\ Spec
  /\ WF_vars(\E c \in calls : Over(c))
  /\ \A t \in Topics :
       /\ WF_vars(recover(t))
       /\ \A g \in Providers :
            /\ WF_vars(Elapse(t, g))
            /\ WF_vars(handleRemoteGatewayFailure(t, g))

-----------------------------------------------------------------------------
CallType ==
  [kind : {"register", "deregister"}, topic : Topics, gw : Providers,
   sensors : SUBSET Devices, wave : Nat, stage : {"sent", "served", "abandoned"}]

TypeOK ==
  /\ hosts \in Mapping
  /\ requested \in [Topics -> BOOLEAN]
  /\ mapping \in [Topics -> Mapping]
  /\ recovering \in [Topics -> Nat]
  /\ timer \in [Topics -> [Providers -> {"none", "armed", "late", "fired"}]]
  /\ orphans \in [Topics -> [Providers -> Nat]]
  /\ calls \subseteq CallType
  /\ unregistered \in [Topics -> SUBSET Providers]
  /\ status \in [Providers -> {"up", "starting", "down"}]
  /\ ipc \in [Providers -> Seq(CallType)]
  /\ routes \in [Gateways -> [Topics -> [Devices -> Nat]]]
  /\ intervals \in [Providers -> [Topics -> Nat]]
  /\ current \in [Providers -> [Topics -> BOOLEAN]]
  /\ waves \in [Topics -> Nat]
  /\ crashes \in Nat

(* A diagnostic timer watches a provider of the topic's current mapping,   *)
(* and none runs while a recovery is under way: what fires later would     *)
(* tear down streams that work, or start a second recovery.                *)
WatchesMapping ==
  \A t \in Topics, g \in Providers :
    timer[t][g] # "none" =>
      requested[t] /\ mapping[t][g] # {} /\ recovering[t] = 0

(* No timer is ever lost track of: a timer set over an armed one could not *)
(* be cleared by heartbeats and would report a failure 65 s later.         *)
OneTimerEach ==
  \A t \in Topics :
    recovering[t] <= 1 /\ \A g \in Providers : orphans[t][g] = 0

(* A provider of the mapping is watched, being registered with, or its     *)
(* registration failed: a success never goes unwatched.                    *)
Awaited(c) == c.kind = "register" /\ c.stage \in {"sent", "served"}
Monitored ==
  \A t \in Topics : requested[t] /\ recovering[t] = 0 =>
    \A g \in Remote(t) :
      \/ timer[t][g] # "none"
      \/ g \in unregistered[t]
      \/ \E c \in calls : c.topic = t /\ c.gw = g /\ Awaited(c)

(* A heartbeat tells the truth: while the provider watched sends them, it  *)
(* routes every sensor asked of it, though heartbeats of older waves,      *)
(* restarts and lost or reordered requests may be mixed up.                *)
RegisterQueued(g, t) ==
  \E k \in DOMAIN ipc[g] : ipc[g][k].kind = "register" /\ ipc[g][k].topic = t

HeartbeatMeansStreaming ==
  \A t \in Topics, g \in Providers :
    timer[t][g] # "none" /\ intervals[g][t] > 0 /\ ~RegisterQueued(g, t) =>
      \A d \in mapping[t][g] : routes[g][t][d] > 0

(* The strengthening that makes WatchesMapping and OneTimerEach inductive: *)
(* a registration awaited belongs to the current mapping and to a provider *)
(* without timer, there is one per provider, and none when a timer is late. *)
AwaitedIsCurrent ==
  \A c \in calls : Awaited(c) =>
    /\ recovering[c.topic] = 0
    /\ requested[c.topic]
    /\ mapping[c.topic][c.gw] # {}
    /\ timer[c.topic][c.gw] = "none"

AwaitedOnce ==
  \A c, e \in calls :
    Awaited(c) /\ Awaited(e) /\ c.topic = e.topic /\ c.gw = e.gw => c = e

ServedIsAwaited == \A c \in calls : c.stage = "served" => c.kind = "register"

LateIsQuiet ==
  \A t \in Topics, g \in Providers :
    timer[t][g] \in {"late", "fired"} => timer[t][g] = "late" /\ Quiet(t)

(* An entry of heartbeatPublishTimers refers to an interval that runs.     *)
CurrentRuns ==
  \A g \in Providers, t \in Topics : current[g][t] => intervals[g][t] > 0

UnaskedIsIdle == \A t \in Topics : ~requested[t] => recovering[t] = 0

StreamInv ==
  /\ TypeOK
  /\ CurrentRuns
  /\ WatchesMapping
  /\ OneTimerEach
  /\ AwaitedIsCurrent
  /\ AwaitedOnce
  /\ ServedIsAwaited
  /\ LateIsQuiet
  /\ UnaskedIsIdle

(* A provider that is watched and dies is no longer relied on, unless it   *)
(* comes back, while the bound on mappings leaves a recovery.              *)
DeadProviderReplaced ==
  \A t \in Topics, g \in Providers :
    timer[t][g] # "none" /\ status[g] = "down" /\ waves[t] < MaxWaves ~>
      status[g] # "down" \/ mapping[t][g] = {}

(* "This function de-registers topic for local sensors": once it has run,  *)
(* the sensors are no longer routed to the topic.                          *)
DeregisterStopsRouting ==
  [][\A g \in Providers : deregisterTopic(g) =>
       LET c == Head(ipc[g]) IN
         \A d \in c.sensors : routes'[g][c.topic][d] = 0]_vars
=============================================================================
