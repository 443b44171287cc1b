----------------------------- MODULE Scheduler ------------------------------
(***************************************************************************)
(* schedule() of app-manager/scheduler.js for one request schedule-app:    *)
(* the link graph walk (LinkGraph, over HTTP), the resource usage of every *)
(* gateway of the graph at once, the choice of a gateway, and the request  *)
(* that has it execute the app.                                            *)
(*                                                                         *)
(* That request names its files app and metadata, where the route accepts  *)
(* appPackage and deployMetadata only: it is refused, and every schedule   *)
(* ends in a rejection.  The watcher gateway is never reached.             *)
(***************************************************************************)
EXTENDS LinkGraph

CONSTANTS
  Hosted,      \* gateway -> devices in its list of the link graph
  DeviceIds,   \* the ids of the app's devices, as its metadata lists them
  Usages,      \* records mem (MB free) and cpu (free) a gateway may report
  MemFloor,    \* MEM_FREE_MB_THRESHOLD
  CpuFloor     \* CPU_FREE_PERCENT_THRESHOLD

ASSUME SchedulerAssumption ==
  /\ Gateways = DOMAIN Hosted
  /\ Len(DeviceIds) \in Nat /\ DOMAIN DeviceIds = 1..Len(DeviceIds)
  /\ Usages \subseteq [mem : Nat, cpu : Nat]
  /\ MemFloor \in Nat /\ CpuFloor \in Nat

VARIABLES
  phase,     \* new, walking, asking, placing or rejected
  data,      \* gateways of the link graph, in the order of the keys of data
  usage,     \* gateway -> {what it reported}, or {}
  executor,  \* {the gateway chosen}, or {}
  client,    \* the HTTP request: waiting, or unanswered for good
  uploads    \* the uploaded files are there

request == <<client, uploads>>
schedVars == <<phase, data, usage, executor, request>>
allVars == <<vars, schedVars>>

SchedInit ==
  /\ Init
  /\ phase = "new"
  /\ data = <<>>
  /\ usage = [g \in Gateways |-> {}]
  /\ executor = {}
  /\ client = "waiting" /\ uploads = TRUE

(* The promise of schedule() rejects, at the phase from.                   *)
RejectAt(from) ==
  /\ phase = from
  /\ phase' = "rejected"
  /\ UNCHANGED <<vars, data, usage, executor, request>>

(* readJson() of the metadata, which may fail or name no devices.          *)
ReadMetadata ==
  /\ phase = "new"
  /\ phase' = "walking"
  /\ UNCHANGED <<vars, data, usage, executor, request>>

(* getLinkGraph(): the walk of link-graph-controller.js.                   *)
WalkStep ==
  \/ Ask /\ UNCHANGED data
  \/ \E n \in Gateways : Fail(n) /\ UNCHANGED data
  \/ \E n \in Gateways :
       Answer(n) /\ data' = IF n \in answered THEN data ELSE Append(data, n)

Walk ==
  /\ phase = "walking"
  /\ WalkStep
  /\ UNCHANGED <<phase, usage, executor, request>>

GetLinkGraph ==
  /\ phase = "walking"
  /\ Finish
  /\ phase' = "asking"
  /\ UNCHANGED <<data, usage, executor, request>>

ListedIn(s) == {s[k] : k \in DOMAIN s}

(* getGatewayResourceUsage(): asked of all, answered in any order.         *)
Report(g) ==
  /\ phase = "asking"
  /\ g \in ListedIn(data) /\ usage[g] = {}
  /\ \E u \in Usages : usage' = [usage EXCEPT ![g] = {u}]
  /\ UNCHANGED <<vars, phase, data, executor, request>>

Free(g) == CHOOSE u \in usage[g] : TRUE

(* getHostGateways(): the ids the gateway lists, by their places: one that  *)
(* is named twice counts twice.                                            *)
getHostGateways ==
  [g \in Gateways |-> {i \in DOMAIN DeviceIds : DeviceIds[i] \in Hosted[g]}]

numDevicesSupported(g) == Cardinality(getHostGateways[g])

(* Mutant: the cpu decides before the memory does.                         *)
CpuFirst(g, h) ==
  IF numDevicesSupported(g) # numDevicesSupported(h)
  THEN IF numDevicesSupported(g) > numDevicesSupported(h) THEN g ELSE h
  ELSE IF Free(g).cpu # Free(h).cpu
  THEN IF Free(g).cpu > Free(h).cpu THEN g ELSE h
  ELSE IF Free(g).mem >= Free(h).mem THEN g ELSE h

compareGateways(g, h) ==
  IF numDevicesSupported(g) # numDevicesSupported(h)
  THEN IF numDevicesSupported(g) > numDevicesSupported(h) THEN g ELSE h
  ELSE IF Free(g).mem # Free(h).mem
  THEN IF Free(g).mem > Free(h).mem THEN g ELSE h
  ELSE IF Free(g).cpu >= Free(h).cpu THEN g ELSE h

Suitable(g) == Free(g).cpu >= CpuFloor /\ Free(g).mem >= MemFloor

(* filter(): the places of data whose gateways have the resources.         *)
candidateGateways == {k \in DOMAIN data : Suitable(data[k])}

(* reduce(), from left to right: {the best candidate of the first k}.      *)
reduced[k \in 0..Len(data)] ==
  IF k = 0 THEN {}
  ELSE LET best == reduced[k-1] IN
       IF k \notin candidateGateways THEN best
       ELSE IF best = {} THEN {data[k]}
       ELSE {compareGateways(g, data[k]) : g \in best}

AllReported == \A g \in ListedIn(data) : usage[g] # {}

(* The candidates are reduced to the best, which is asked to execute.      *)
Choose ==
  /\ phase = "asking" /\ AllReported
  /\ candidateGateways # {}
  /\ executor' = reduced[Len(data)]
  /\ phase' = "placing"
  /\ UNCHANGED <<vars, data, usage, request>>

LowOnResources ==
  /\ AllReported /\ candidateGateways = {}
  /\ RejectAt("asking")

(* A gateway of the graph does not report: Promise.all() rejects.          *)
NoReport ==
  /\ ~AllReported
  /\ RejectAt("asking")

(* executeAppOnGateway() is refused, or the gateway is gone.               *)
Refused == RejectAt("placing")

(* scheduleApplication() has its answer, reads a variable it does not      *)
(* have and throws: neither the client nor the uploads hear of it.         *)
Respond ==
  /\ phase = "rejected" /\ client = "waiting"
  /\ client' = "unanswered"
  /\ UNCHANGED <<vars, phase, data, usage, executor, uploads>>

Network ==
  /\ \/ \E g \in Gateways : Toggle(g)
     \/ \E g, h \in Gateways : Sight(g, h)
  /\ UNCHANGED schedVars

SchedStep ==
  \/ RejectAt("new") \/ ReadMetadata
  \/ Walk \/ GetLinkGraph \/ RejectAt("walking")
  \/ \E g \in Gateways : Report(g)
  \/ NoReport \/ Choose \/ LowOnResources \/ Refused
  \/ Respond

SchedNext == SchedStep \/ Network

SchedSpec == SchedInit /\ [][SchedNext]_allVars

-----------------------------------------------------------------------------
(* At least as many of the app's devices, then as much memory, then cpu.   *)
Rank(g) == <<numDevicesSupported(g), Free(g).mem, Free(g).cpu>>
Above(r, s) ==
  \E k \in 1..3 : r[k] > s[k] /\ \A j \in 1..(k-1) : r[j] = s[j]

(* The app goes where the link graph, the devices and the resources say:   *)
(* to a gateway that answered the walk and has the resources, and no other *)
(* such gateway of the graph ranks above it, or as high and before it.     *)
ExecutorIsBest ==
  /\ phase = "placing" => \E e \in executor : executor = {e}
  /\ \A e \in executor :
      /\ e \in answered /\ Suitable(e)
      /\ \A g \in answered : Suitable(g) => ~Above(Rank(g), Rank(e))
      /\ \A j, k \in DOMAIN data :
           e = data[k] /\ j < k /\ Suitable(data[j]) => Above(Rank(e), Rank(data[j]))
=============================================================================
