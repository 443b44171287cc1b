------------------------------ MODULE LinkGraph -----------------------------
(***************************************************************************)
(* getLinkGraphData() of link-graph-controller.js: a breadth-first walk    *)
(* over the gateways, one HTTP request at a time, while gateways die, come *)
(* back, and find or lose their neighbors.                                 *)
(***************************************************************************)
EXTENDS Naturals, Sequences, FiniteSets

CONSTANTS
  Gateways,      \* gateway ids
  Self,          \* the gateway that builds the graph
  InitialLinks,  \* gateway -> its active neighbors at first
  Sightings,     \* <<gateway, neighbor>> pairs that may appear and vanish
  MaxChanges     \* bound: changes of the network during the walk

ASSUME LinkGraphAssumption ==
  /\ IsFiniteSet(Gateways) /\ Self \in Gateways
  /\ InitialLinks \in [Gateways -> SUBSET Gateways]
  /\ Sightings \subseteq Gateways \X Gateways
  /\ MaxChanges \in Nat

VARIABLES
  up, links,  \* the network: gateways that answer, what the scanners know
  queue,      \* gateways still to ask
  visited,    \* gateways ever queued
  asked,      \* the gateway asked now, or {}
  told,       \* history: gateway -> the neighbors it answered with
  answered,   \* keys of graph and of data
  graph,      \* gateway -> neighbors in its graph entry
  failed,     \* history: gateways that could not be reached
  done, changes

walk == <<queue, visited, asked, told, answered, graph, failed, done>>
vars == <<up, links, walk, changes>>

NoLinks == [g \in Gateways |-> {}]

Init ==
  /\ up = Gateways
  /\ links = InitialLinks
  /\ queue = <<Self>>
  /\ visited = {Self}
  /\ asked = {}
  /\ told = NoLinks
  /\ answered = {}
  /\ graph = NoLinks
  /\ failed = {}
  /\ done = FALSE
  /\ changes = 0

(* getPartialLinkGraphData(): the request goes out.                        *)
Ask ==
  /\ asked = {} /\ queue # <<>>
  /\ asked' = {Head(queue)}
  /\ queue' = Tail(queue)
  /\ UNCHANGED <<up, links, visited, told, answered, graph, failed, done, changes>>

(* The orders in which a scanner may list a set of neighbors.              *)
Lists(S) ==
  {s \in [1..Cardinality(S) -> S] :
     /\ \A a, b \in DOMAIN s : s[a] = s[b] => a = b
     /\ \A g \in S : \E a \in DOMAIN s : s[a] = g}

Queued == {queue[k] : k \in DOMAIN queue}

(* Mutants: a neighbor is left out only while it waits; only Self's are    *)
(* queued.                                                                 *)
Requeued(n) == links[n] \ Queued
OnlyOfSelf(n) == IF n = Self THEN links[n] \ visited ELSE {}

Unvisited(n) == links[n] \ visited

(* The gateway answers: a graph entry, and its new neighbors queued.       *)
Answer(n) ==
  /\ n \in asked /\ n \in up
  /\ \E new \in Lists(Unvisited(n)) : queue' = queue \o new
  /\ visited' = visited \union Unvisited(n)
  /\ told' = [told EXCEPT ![n] = links[n]]
  /\ graph' = [graph EXCEPT ![n] = links[n]]
  /\ answered' = answered \union {n}
  /\ asked' = {}
  /\ UNCHANGED <<up, links, failed, done, changes>>

(* Mutant: the entry of the failed gateway's neighbors is dropped whole.    *)
EntriesDropped(n) == [g \in Gateways |-> IF n \in graph[g] THEN {} ELSE graph[g]]

Without(n) == [g \in Gateways |-> graph[g] \ {n}]

(* The gateway cannot be reached (it may be up: requests fail too): it is  *)
(* removed from the entries recorded so far.                               *)
Fail(n) ==
  /\ n \in asked
  /\ failed' = failed \union {n}
  /\ graph' = Without(n)
  /\ asked' = {}
  /\ UNCHANGED <<up, links, queue, visited, told, answered, done, changes>>

Finish ==
  /\ asked = {} /\ queue = <<>> /\ ~done
  /\ done' = TRUE
  /\ UNCHANGED <<up, links, queue, visited, asked, told, answered, graph, failed, changes>>

(* The network changes under the walk: a gateway stops or starts, and a    *)
(* gateway scanner sees a neighbor or finds it inactive.                   *)
Change ==
  /\ ~done
  /\ changes < MaxChanges
  /\ changes' = changes + 1
  /\ UNCHANGED walk

Toggle(g) ==
  /\ Change
  /\ g # Self
  /\ up' = IF g \in up THEN up \ {g} ELSE up \union {g}
  /\ UNCHANGED links

Sight(g, h) ==
  /\ Change
  /\ <<g, h>> \in Sightings
  /\ links' = [links EXCEPT ![g] = IF h \in @ THEN @ \ {h} ELSE @ \union {h}]
  /\ UNCHANGED up

Next ==
  \/ Ask
  \/ \E n \in Gateways : Answer(n) \/ Fail(n)
  \/ Finish
  \/ \E g \in Gateways : Toggle(g)
  \/ \E g, h \in Gateways : Sight(g, h)

Spec == Init /\ [][Next]_vars

-----------------------------------------------------------------------------
TypeOK ==
  /\ up \subseteq Gateways
  /\ links \in [Gateways -> SUBSET Gateways]
  /\ queue \in Seq(Gateways)
  /\ visited \subseteq Gateways
  /\ asked \subseteq Gateways
  /\ told \in [Gateways -> SUBSET Gateways]
  /\ answered \subseteq Gateways
  /\ graph \in [Gateways -> SUBSET Gateways]
  /\ failed \subseteq Gateways
  /\ done \in BOOLEAN
  /\ changes \in Nat

(* The walk misses nothing: when it ends, every neighbor an answer named   *)
(* has answered itself or could not be reached, and so has Self.           *)
Complete ==
  done =>
    /\ Self \in answered \union failed
    /\ \A g \in answered : told[g] \subseteq answered \union failed

(* Every gateway is asked at most once, whatever cycles the neighbors form: *)
(* what waits in the queue is there once and was not asked before.         *)
AskedOnce ==
  /\ \A a, b \in DOMAIN queue : queue[a] = queue[b] => a = b
  /\ Queued \intersect (answered \union failed \union asked) = {}
  /\ answered \intersect failed = {}

(* The entry of a gateway is what it told, less gateways that failed: no   *)
(* link between two gateways that answered gets lost.                      *)
EntriesFaithful ==
  \A g \in answered :
    told[g] \ failed \subseteq graph[g] /\ graph[g] \subseteq told[g]

(* The strengthening: a gateway is visited as long as it is in the queue,  *)
(* asked, answered or failed, and every neighbor named has been visited.   *)
Frontier ==
  /\ visited = Queued \union asked \union answered \union failed
  /\ \A g \in answered : told[g] \subseteq visited
  /\ Self \in visited
  /\ asked \intersect (answered \union failed) = {}
  /\ \A g, h \in asked : g = h
  /\ done => asked = {} /\ queue = <<>>

WalkInv == TypeOK /\ Frontier /\ AskedOnce /\ EntriesFaithful
=============================================================================
