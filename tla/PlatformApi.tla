----------------------------- MODULE PlatformApi -----------------------------
(***************************************************************************)
(* The requests of platform-api-controller.js that concern all gateways:   *)
(* schedule-app (Scheduler), and disseminate-all and query-all, which an   *)
(* app sends to its own gateway.  That one walks the link graph and posts  *)
(* the same request to the other gateways; they publish it for their apps. *)
(* A gateway tells the two apart by the address the request comes from.    *)
(***************************************************************************)
EXTENDS Scheduler

VARIABLES
  posts,    \* requests under way: <<from, to>>
  pending,  \* requests of own apps that wait for the link graph
  heard,    \* gateway -> times it published the message
  failures  \* history: gateways a request to failed

callVars == <<posts, pending, heard, failures>>
apiVars == <<vars, schedVars, callVars>>

(* Either an app is to be scheduled, or an app of Self calls the oracle's  *)
(* disseminateAll() or queryAll().                                         *)
ApiInit ==
  /\ SchedInit
  /\ posts = {}
  /\ pending = 0
  /\ heard = [g \in Gateways |-> 0]
  /\ failures = {}

disseminateAll ==
  /\ phase = "new"
  /\ phase' = "calling"
  /\ posts' = {<<Self, Self>>}
  /\ UNCHANGED <<vars, data, usage, executor, request, pending, heard, failures>>

(* platformAPICallHelper(): localAddress equals remoteAddress.             *)
isLocalRequest(from, to) == from = to

(* A local request waits for the graph, a remote one is published.         *)
platformAPICallHelper(from, to) ==
  /\ <<from, to>> \in posts
  /\ posts' = posts \ {<<from, to>>}
  /\ IF isLocalRequest(from, to)
     THEN pending' = pending + 1 /\ UNCHANGED heard
     ELSE heard' = [heard EXCEPT ![to] = @ + 1] /\ UNCHANGED pending
  /\ UNCHANGED <<vars, schedVars, failures>>

WalkForCall ==
  /\ phase = "calling" /\ pending > 0
  /\ \/ WalkStep
     \/ Finish /\ UNCHANGED data
  /\ UNCHANGED <<phase, usage, executor, request, callVars>>

(* Mutant: the own address is not filtered out.                            *)
WithSelf == ListedIn(data)

(* getGatewayIPAddressList() less the own address.                         *)
Recipients == ListedIn(data) \ {Self}

(* The graph is there.  (A second request would get one of its own; the    *)
(* same one stands for it.)                                                *)
forwardToAll ==
  /\ done /\ pending > 0
  /\ pending' = pending - 1
  /\ posts' = posts \union {<<Self, g>> : g \in Recipients}
  /\ UNCHANGED <<vars, schedVars, heard, failures>>

(* getLinkGraph() fails: nobody is told, and the app is not answered.       *)
noGraph ==
  /\ pending > 0 /\ ~done
  /\ pending' = pending - 1
  /\ UNCHANGED <<vars, schedVars, posts, heard, failures>>

(* A request to another gateway fails; nobody waits for it.                *)
PostFails(g) ==
  /\ <<Self, g>> \in posts /\ g # Self
  /\ posts' = posts \ {<<Self, g>>}
  /\ failures' = failures \union {g}
  /\ UNCHANGED <<vars, schedVars, pending, heard>>

CallStep ==
  \/ WalkForCall \/ noGraph \/ forwardToAll
  \/ \E from, to \in Gateways : platformAPICallHelper(from, to)
  \/ \E g \in Gateways : PostFails(g)

ApiStep == (SchedStep /\ UNCHANGED callVars) \/ CallStep

ApiNext ==
  \/ ApiStep
  \/ disseminateAll
  \/ Network /\ UNCHANGED callVars

(* Every HTTP request is answered or fails.                                *)
FairApiSpec == ApiInit /\ [][ApiNext]_apiVars /\ WF_apiVars(ApiStep)

-----------------------------------------------------------------------------
(* A message goes round once: no gateway hears it twice and none passes it *)
(* on, and once the sender has forwarded it, every other gateway of the    *)
(* link graph has heard it, is about to, or could not be reached.          *)
HeardOnce ==
  /\ \A g \in Gateways : heard[g] <= IF g = Self THEN 0 ELSE 1
  /\ phase = "calling" /\ done /\ pending = 0 =>
       \A g \in answered \ {Self} :
         heard[g] = 1 \/ <<Self, g>> \in posts \/ g \in failures

(* Every request ends, however the gateways are linked and fail: schedule() *)
(* settles, and of a message that is disseminated nothing stays under way.  *)
RequestsEnd ==
  /\ phase = "walking" ~> phase = "rejected"
  /\ phase = "calling" ~> pending = 0 /\ posts = {}
=============================================================================
