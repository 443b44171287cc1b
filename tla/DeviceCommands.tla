--------------------------- MODULE DeviceCommands ---------------------------
(***************************************************************************)
(* send() of an app to a device, over the device manager of this gateway   *)
(* (DeviceManager) and those of its peers: the app's gateway forwards the  *)
(* command from the API server to the app manager to the device manager.   *)
(* That one dispatches it to the handler of a device it has in its cache;  *)
(* of another it looks up a gateway in the link graph, and sends the       *)
(* command there, where it is handled in the same way.                     *)
(*                                                                         *)
(* The device lists of the link graph come from the databases, the lookup  *)
(* of send-to-device from the caches: while a device manager loads, it     *)
(* finds itself in the graph and sends the command to its own gateway.     *)
(*                                                                         *)
(* The peers are abstract: fixed devices, and processes that load, serve,  *)
(* and stop for good.                                                      *)
(***************************************************************************)
EXTENDS DeviceManager

CONSTANTS
  Commands,     \* send() calls of the apps of all gateways
  Target,       \* command -> device id
  Dispatchers,  \* handlers that have a function dispatch
  Self,         \* this gateway
  Peers,        \* the other gateways
  Hosted        \* peer -> devices in its database

ASSUME CommandsAssumption ==
  /\ Target \in [Commands -> Devices]
  /\ Dispatchers \subseteq Handlers
  /\ Self \notin Peers
  /\ Hosted \in [Peers -> SUBSET Devices]

VARIABLES
  listening,  \* this device manager has its module loaded, maybe not its cache
  peer,       \* peer -> "loading", "serving" or "down"
  step,       \* command -> what happens to it next
  at,         \* command -> the gateway where it does (Self for one that ended)
  executed    \* history: command -> <<gateway, handler>> of every dispatch

path == <<step, at, executed>>
cmdVars == <<listening, peer, path>>
allVars == <<vars, cmdVars>>

Gateways == Peers \union {Self}

CmdInit ==
  /\ Init
  /\ listening = FALSE
  /\ peer = [p \in Peers |-> "loading"]
  /\ step = [c \in Commands |-> "unsent"]
  /\ at = [c \in Commands |-> Self]
  /\ executed = [c \in Commands |-> <<>>]

Listens(g) == IF g = Self THEN listening ELSE peer[g] # "down"

(* deviceCache.hasOwnProperty(deviceId), at gateway g.                     *)
Caches(g, d) ==
  IF g = Self THEN isDeviceInCache(d) ELSE peer[g] = "serving" /\ d \in Hosted[g]

(* get-devices, at gateway g: fetchAll() opens the database if need be.    *)
Rows == IF running THEN db ELSE dbFile
Lists(g, d) ==
  Listens(g) /\ IF g = Self THEN Rows[d] # NoHandler ELSE d \in Hosted[g]

Move(c, s, g) ==
  /\ step' = [step EXCEPT ![c] = s]
  /\ at' = [at EXCEPT ![c] = g]
  /\ UNCHANGED <<vars, listening, peer, executed>>

Drop(c) == Move(c, "ended", Self)

-----------------------------------------------------------------------------
(* Oracle.send(), of an app on gateway g, through talk-to-manager of its   *)
(* API server, and send-to-device of the app manager: both only pass it on.*)
send(c, g) ==
  /\ step[c] = "unsent"
  /\ Listens(g)
  /\ Move(c, "device-manager", g)

(* Mutant: only other gateways are looked at.                              *)
OtherGateways(g, d) == {h \in Gateways \ {g} : Lists(h, d)}

(* Where getHostGatewayIp() may point to: the graph begins with the own    *)
(* gateway, and has those others that the walk reaches.                    *)
HostGateways(g, d) ==
  IF Lists(g, d) THEN {g} ELSE {h \in Gateways : Lists(h, d)}

Executed(c) ==
  IF at[c] # Self
  THEN [executed EXCEPT ![c] = Append(@, <<at[c], NoHandler>>)]
  ELSE IF deviceCache[Target[c]] \in Dispatchers
  THEN [executed EXCEPT ![c] = Append(@, <<Self, deviceCache[Target[c]]>>)]
  ELSE executed

(* Mutant: the else of send-to-device is lost.                             *)
AndDelegated(c) ==
  /\ step[c] = "device-manager"
  /\ Listens(at[c]) /\ Caches(at[c], Target[c])
  /\ step' = [step EXCEPT ![c] = "link-graph"]
  /\ executed' = Executed(c)
  /\ UNCHANGED <<vars, listening, peer, at>>

(* send-to-device for a cached device: its handler's dispatch(), if any.   *)
dispatch(c) ==
  /\ step[c] = "device-manager"
  /\ Listens(at[c]) /\ Caches(at[c], Target[c])
  /\ step' = [step EXCEPT ![c] = "ended"]
  /\ at' = [at EXCEPT ![c] = Self]
  /\ executed' = Executed(c)
  /\ UNCHANGED <<vars, listening, peer>>

(* send-to-device for any other: the link graph is requested.              *)
lookUp(c) ==
  /\ step[c] = "device-manager"
  /\ Listens(at[c]) /\ ~Caches(at[c], Target[c])
  /\ Move(c, "link-graph", at[c])

(* The graph is there: delegateSendRequest() to the gateway found.         *)
delegateSendRequest(c, h) ==
  /\ step[c] = "link-graph"
  /\ h \in HostGateways(at[c], Target[c])
  /\ Move(c, "request", h)

(* No gateway of the graph lists the device, or there is no graph.         *)
notConnected(c) ==
  /\ step[c] = "link-graph"
  /\ ~Lists(at[c], Target[c])
  /\ Drop(c)

(* talk-to-manager at the gateway found, if it still answers.              *)
talkToManager(c) ==
  /\ step[c] = "request"
  /\ IF Listens(at[c]) THEN Move(c, "device-manager", at[c]) ELSE Drop(c)

Handle(c) ==
  \/ dispatch(c) \/ lookUp(c) \/ notConnected(c)
  \/ \E h \in Gateways : delegateSendRequest(c, h)
  \/ talkToManager(c)

-----------------------------------------------------------------------------
(* With a device manager all processes of its gateway stop.                *)
Held(g) ==
  {c \in Commands :
     at[c] = g /\ step[c] \in {"device-manager", "link-graph"}}
Stop(g) ==
  /\ step' = [c \in Commands |-> IF c \in Held(g) THEN "ended" ELSE step[c]]
  /\ at' = [c \in Commands |-> IF c \in Held(g) THEN Self ELSE at[c]]
  /\ UNCHANGED executed

Listen ==
  /\ ~listening
  /\ listening' = TRUE
  /\ UNCHANGED <<vars, peer, path>>

Load == listening /\ Start /\ UNCHANGED cmdVars

Die ==
  /\ Crash
  /\ listening' = FALSE
  /\ Stop(Self)
  /\ UNCHANGED <<peer>>

PeerStops(p) ==
  /\ peer[p] # "down"
  /\ peer' = [peer EXCEPT ![p] = "down"]
  /\ Stop(p)
  /\ UNCHANGED <<vars, listening>>

PeerLoads(p) ==
  /\ peer[p] = "loading"
  /\ peer' = [peer EXCEPT ![p] = "serving"]
  /\ UNCHANGED <<vars, listening, path>>

Manage ==
  \/ \E d \in Devices : \E h \in Registrars[d] : register(d, h)
  \/ \E d \in Devices : \E h \in Deliverers[d] : deliver(d, h)
  \/ addDevice
  \/ registered
  \/ drainBuffer
  \/ Flush

CmdNext ==
  \/ Listen \/ Load \/ Die
  \/ Manage /\ UNCHANGED cmdVars
  \/ \E c \in Commands, g \in Gateways : send(c, g)
  \/ \E c \in Commands : Handle(c)
  \/ \E p \in Peers : PeerStops(p) \/ PeerLoads(p)

CmdSpec == CmdInit /\ [][CmdNext]_allVars

(* The event loops run what is queued: promise jobs, the loading of the    *)
(* database, the messages and the answers of HTTP requests.                *)
CmdFairSpec ==
  /\ CmdSpec
  /\ WF_allVars(RunJob /\ UNCHANGED cmdVars) /\ WF_allVars(Load)
  /\ \A p \in Peers : WF_allVars(PeerLoads(p))
  /\ \A c \in Commands : WF_allVars(Handle(c))

-----------------------------------------------------------------------------
(* A command is dispatched once at most, whatever is delegated and however *)
(* often, and by a handler that understands the device: the one that was   *)
(* started, registered the device and can be commanded.                    *)
ExecutedOnce ==
  \A c \in Commands :
    /\ Len(executed[c]) <= 1
    /\ \A k \in DOMAIN executed[c] :
         IF executed[c][k][1] = Self
         THEN executed[c][k][2] \in HandlersOf(Target[c]) \intersect Dispatchers
         ELSE Target[c] \in Hosted[executed[c][k][1]]

(* No command goes round for ever: the gateways that send it to themselves *)
(* get their caches.                                                       *)
CommandsEnd ==
  \A c \in Commands : step[c] # "unsent" ~> step[c] = "ended"

(* A command that reaches the device manager of a registered device, also  *)
(* while that loads or the device is being cached, is executed, unless the *)
(* process dies.                                                           *)
CommandsArrive ==
  \A c \in Commands :
    /\ step[c] = "device-manager" /\ at[c] = Self /\ Lists(Self, Target[c])
    /\ HandlersOf(Target[c]) \subseteq Dispatchers
    ~> executed[c] # <<>> \/ ~listening
=============================================================================
