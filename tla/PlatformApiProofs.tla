-------------------------- MODULE PlatformApiProofs -------------------------
(***************************************************************************)
(* The walk of getLinkGraphData() for any network that changes under it:   *)
(* it misses no gateway, asks none twice and loses no link.  The requests  *)
(* that walk the graph, schedule-app, disseminate-all and query-all, keep  *)
(* all of that; the gateway that schedule() picks is the best one, and a   *)
(* message that is disseminated goes round once.                           *)
(***************************************************************************)
EXTENDS PlatformApi, FiniteSetTheorems, WellFoundedInduction, TLAPS

(* A list of a set of gateways names each of them once and no other.       *)
LEMMA ListsFacts ==
  ASSUME NEW S \in SUBSET Gateways, NEW s \in Lists(S)
  PROVE  /\ s \in Seq(Gateways)
         /\ \A a, b \in DOMAIN s : s[a] = s[b] => a = b
         /\ {s[a] : a \in DOMAIN s} = S
<1> DEFINE n == Cardinality(S)
<1>1. n \in Nat
  BY LinkGraphAssumption, FS_Subset, FS_CardinalityType
<1>2. s \in [1..n -> S] /\ DOMAIN s = 1..n
  BY DEF Lists
<1>3. s \in Seq(Gateways)
  BY <1>1, <1>2
<1>4. {s[a] : a \in DOMAIN s} = S
  BY <1>2 DEF Lists
<1> QED
  BY <1>3, <1>4 DEF Lists

(* Taking the head of a queue without repetitions.                         *)
LEMMA TailFacts ==
  ASSUME NEW q \in Seq(Gateways), q # <<>>,
         \A a, b \in DOMAIN q : q[a] = q[b] => a = b
  PROVE  /\ Tail(q) \in Seq(Gateways)
         /\ Head(q) \in Gateways
         /\ {q[k] : k \in DOMAIN q}
              = {Tail(q)[k] : k \in DOMAIN Tail(q)} \union {Head(q)}
         /\ Head(q) \notin {Tail(q)[k] : k \in DOMAIN Tail(q)}
         /\ \A a, b \in DOMAIN Tail(q) : Tail(q)[a] = Tail(q)[b] => a = b
<1> DEFINE t == Tail(q)
<1>1. t \in Seq(Gateways) /\ Head(q) = q[1] /\ Len(t) = Len(q) - 1
      /\ Len(q) \in Nat \ {0} /\ \A k \in 1..Len(t) : t[k] = q[k + 1]
  OBVIOUS
<1>2. DOMAIN q = 1..Len(q) /\ DOMAIN t = 1..Len(t)
  BY <1>1
<1> HIDE DEF t
<1>3. q[1] \in Gateways
  BY <1>1, <1>2
<1>4. \A k \in DOMAIN t : k + 1 \in DOMAIN q /\ k + 1 # 1 /\ t[k] = q[k + 1]
  BY <1>1, <1>2
<1>5. \A k \in DOMAIN q : k = 1 \/ (k - 1 \in DOMAIN t /\ t[k - 1] = q[k])
  BY <1>1, <1>2
<1>6. 1 \in DOMAIN q
  BY <1>1, <1>2
<1>7. {q[k] : k \in DOMAIN q} = {t[k] : k \in DOMAIN t} \union {q[1]}
  BY <1>4, <1>5, <1>6
<1>8. q[1] \notin {t[k] : k \in DOMAIN t}
  BY <1>4, <1>6
<1>9. ASSUME NEW a \in DOMAIN t, NEW b \in DOMAIN t, t[a] = t[b]
      PROVE  a = b
  <2>1. a + 1 = b + 1
    BY <1>4, <1>9
  <2> QED
    BY <1>2, <1>1, <2>1
<1> QED
  BY <1>1, <1>3, <1>7, <1>8, <1>9 DEF t

(* Appending a list of gateways the queue does not hold.                   *)
LEMMA AppendFacts ==
  ASSUME NEW q \in Seq(Gateways), NEW s \in Seq(Gateways),
         \A a, b \in DOMAIN q : q[a] = q[b] => a = b,
         \A a, b \in DOMAIN s : s[a] = s[b] => a = b,
         {q[k] : k \in DOMAIN q} \intersect {s[k] : k \in DOMAIN s} = {}
  PROVE  /\ q \o s \in Seq(Gateways)
         /\ {(q \o s)[k] : k \in DOMAIN (q \o s)}
              = {q[k] : k \in DOMAIN q} \union {s[k] : k \in DOMAIN s}
         /\ \A a, b \in DOMAIN (q \o s) : (q \o s)[a] = (q \o s)[b] => a = b
<1> DEFINE r == q \o s
           m == Len(q)
           n == Len(s)
<1>1. r \in Seq(Gateways) /\ Len(r) = m + n /\ m \in Nat /\ n \in Nat
      /\ \A k \in 1..(m + n) : r[k] = IF k <= m THEN q[k] ELSE s[k - m]
  OBVIOUS
<1>2. DOMAIN q = 1..m /\ DOMAIN s = 1..n /\ DOMAIN r = 1..(m + n)
  BY <1>1
<1> HIDE DEF r, m, n
<1>3. \A k \in DOMAIN r :
        \/ k \in DOMAIN q /\ r[k] = q[k]
        \/ k - m \in DOMAIN s /\ r[k] = s[k - m] /\ k \notin DOMAIN q
  BY <1>1, <1>2
<1>4. \A k \in DOMAIN q : k \in DOMAIN r /\ r[k] = q[k]
  BY <1>1, <1>2
<1>5. \A k \in DOMAIN s : k + m \in DOMAIN r /\ r[k + m] = s[k]
  BY <1>1, <1>2
<1>6. {r[k] : k \in DOMAIN r}
        = {q[k] : k \in DOMAIN q} \union {s[k] : k \in DOMAIN s}
  BY <1>3, <1>4, <1>5
<1>7. ASSUME NEW a \in DOMAIN r, NEW b \in DOMAIN r, r[a] = r[b]
      PROVE  a = b
  <2>1. CASE a \in DOMAIN q /\ b \in DOMAIN q
    BY <1>4, <1>7, <2>1
  <2>2. CASE a \notin DOMAIN q /\ b \notin DOMAIN q
    <3>1. a - m = b - m
      BY <1>3, <1>7, <2>2
    <3> QED
      BY <1>1, <1>2, <3>1
  <2>3. CASE a \in DOMAIN q /\ b \notin DOMAIN q
    BY <1>3, <1>7, <2>3
  <2>4. CASE a \notin DOMAIN q /\ b \in DOMAIN q
    BY <1>3, <1>7, <2>4
  <2> QED
    BY <2>1, <2>2, <2>3, <2>4
<1> QED
  BY <1>1, <1>6, <1>7 DEF r

LEMMA InitWalk == Init => WalkInv
<1> SUFFICES ASSUME Init PROVE WalkInv
  OBVIOUS
<1>1. TypeOK
  <2>1. queue \in Seq(Gateways)
    BY LinkGraphAssumption DEF Init
  <2>2. NoLinks \in [Gateways -> SUBSET Gateways]
    BY DEF NoLinks
  <2> QED
    BY <2>1, <2>2, LinkGraphAssumption DEF Init, TypeOK
<1>2. Queued = {Self}
  BY DEF Init, Queued
<1> QED
  BY <1>1, <1>2 DEF Init, WalkInv, Frontier, AskedOnce, EntriesFaithful

LEMMA AskKeeps == WalkInv /\ Ask => WalkInv'
<1> SUFFICES ASSUME WalkInv, Ask PROVE WalkInv'
  OBVIOUS
<1> USE DEF WalkInv
<1>1. /\ queue \in Seq(Gateways) /\ queue # <<>> /\ queue' = Tail(queue)
      /\ asked = {} /\ asked' = {Head(queue)}
      /\ \A a, b \in DOMAIN queue : queue[a] = queue[b] => a = b
  BY DEF TypeOK, AskedOnce, Ask
<1>2. /\ queue' \in Seq(Gateways) /\ Head(queue) \in Gateways
      /\ Queued = Queued' \union {Head(queue)}
      /\ Head(queue) \notin Queued'
      /\ \A a, b \in DOMAIN queue' : queue'[a] = queue'[b] => a = b
  <2>1. /\ Tail(queue) \in Seq(Gateways) /\ Head(queue) \in Gateways
        /\ {queue[k] : k \in DOMAIN queue}
             = {Tail(queue)[k] : k \in DOMAIN Tail(queue)} \union {Head(queue)}
        /\ Head(queue) \notin {Tail(queue)[k] : k \in DOMAIN Tail(queue)}
        /\ \A a, b \in DOMAIN Tail(queue) :
             Tail(queue)[a] = Tail(queue)[b] => a = b
    BY <1>1, TailFacts
  <2> QED
    BY <1>1, <2>1 DEF Queued
<1>3. TypeOK'
  BY <1>1, <1>2 DEF TypeOK, Ask
<1>4. Frontier'
  BY <1>1, <1>2 DEF Frontier, AskedOnce, Ask
<1>5. AskedOnce'
  BY <1>1, <1>2 DEF AskedOnce, Ask
<1>6. EntriesFaithful'
  BY DEF EntriesFaithful, Ask
<1> QED
  BY <1>3, <1>4, <1>5, <1>6

LEMMA AnswerKeeps ==
  ASSUME NEW n \in Gateways, WalkInv, Answer(n)
  PROVE  WalkInv'
<1> USE DEF WalkInv
<1> DEFINE U == Unvisited(n)
<1>1. links[n] \subseteq Gateways /\ U \subseteq Gateways /\ U = links[n] \ visited
  BY DEF TypeOK, Unvisited
<1>2. PICK new \in Lists(U) : queue' = queue \o new
  BY DEF Answer
<1>3. /\ new \in Seq(Gateways)
      /\ \A a, b \in DOMAIN new : new[a] = new[b] => a = b
      /\ {new[k] : k \in DOMAIN new} = U
  BY <1>1, <1>2, ListsFacts, Zenon
<1>4. Queued \subseteq visited /\ Queued \intersect U = {}
  BY <1>1 DEF Frontier
<1>5. queue \in Seq(Gateways)
      /\ \A a, b \in DOMAIN queue : queue[a] = queue[b] => a = b
  BY DEF TypeOK, AskedOnce
<1>6. {queue[k] : k \in DOMAIN queue} \intersect {new[k] : k \in DOMAIN new} = {}
  BY <1>3, <1>4 DEF Queued
<1>7. /\ queue' \in Seq(Gateways)
      /\ Queued' = Queued \union U
      /\ \A a, b \in DOMAIN queue' : queue'[a] = queue'[b] => a = b
  <2>1. /\ queue \o new \in Seq(Gateways)
        /\ {(queue \o new)[k] : k \in DOMAIN (queue \o new)}
             = {queue[k] : k \in DOMAIN queue} \union {new[k] : k \in DOMAIN new}
        /\ \A a, b \in DOMAIN (queue \o new) :
             (queue \o new)[a] = (queue \o new)[b] => a = b
    BY <1>3, <1>5, <1>6, AppendFacts
  <2> DEFINE r == queue \o new
  <2>2. queue' = r /\ r \in Seq(Gateways)
        /\ {r[k] : k \in DOMAIN r}
             = {queue[k] : k \in DOMAIN queue} \union {new[k] : k \in DOMAIN new}
        /\ \A a, b \in DOMAIN r : r[a] = r[b] => a = b
    BY <1>2, <2>1
  <2> HIDE DEF r
  <2>3. Queued' = {r[k] : k \in DOMAIN r}
    BY ONLY <2>2 DEF Queued
  <2>4. Queued' = Queued \union U
    BY ONLY <1>3, <2>2, <2>3 DEF Queued
  <2> QED
    BY ONLY <2>2, <2>4
<1>8. /\ n \in asked /\ asked' = {} /\ visited' = visited \union U
      /\ told' = [told EXCEPT ![n] = links[n]]
      /\ graph' = [graph EXCEPT ![n] = links[n]]
      /\ answered' = answered \union {n}
      /\ UNCHANGED <<up, links, failed, done, changes>>
  BY DEF Answer
<1>9. /\ told'[n] = links[n] /\ graph'[n] = links[n]
      /\ \A g \in Gateways \ {n} : told'[g] = told[g] /\ graph'[g] = graph[g]
      /\ told' \in [Gateways -> SUBSET Gateways]
      /\ graph' \in [Gateways -> SUBSET Gateways]
  BY <1>1, <1>8 DEF TypeOK
<1>10. asked = {n} /\ n \notin answered /\ n \notin failed
       /\ answered \subseteq Gateways
  BY <1>8 DEF Frontier, TypeOK
<1>11. TypeOK'
  BY <1>1, <1>7, <1>8, <1>9 DEF TypeOK
<1>12. Frontier'
  <2>1. visited' = Queued' \union asked' \union answered' \union failed'
    BY <1>7, <1>8, <1>10 DEF Frontier
  <2>2. \A g \in answered' : told'[g] \subseteq visited'
    BY <1>1, <1>8, <1>9, <1>10 DEF Frontier
  <2>3. ~done
    BY <1>10 DEF Frontier
  <2> QED
    BY <1>8, <2>1, <2>2, <2>3 DEF Frontier
<1>13. AskedOnce'
  <2>1. U \intersect (answered \union failed \union asked) = {}
    BY <1>1 DEF Frontier
  <2>2. Queued' \intersect (answered' \union failed' \union asked') = {}
    BY <1>7, <1>8, <1>10, <2>1 DEF AskedOnce
  <2> QED
    BY <1>7, <1>8, <1>10, <2>2 DEF AskedOnce
<1>14. EntriesFaithful'
  BY <1>8, <1>9, <1>10 DEF EntriesFaithful
<1> QED
  BY <1>11, <1>12, <1>13, <1>14

LEMMA FailKeeps ==
  ASSUME NEW n \in Gateways, WalkInv, Fail(n)
  PROVE  WalkInv'
<1> USE DEF WalkInv
<1>1. /\ n \in asked /\ asked' = {} /\ failed' = failed \union {n}
      /\ graph' = Without(n)
      /\ UNCHANGED <<up, links, queue, visited, told, answered, done, changes>>
  BY DEF Fail
<1>2. asked = {n} /\ n \notin answered /\ n \notin failed /\ ~done
  BY <1>1 DEF Frontier
<1>3. Queued' = Queued
  BY <1>1 DEF Queued
<1>4. graph' \in [Gateways -> SUBSET Gateways]
      /\ \A g \in Gateways : graph'[g] = graph[g] \ {n}
  BY <1>1 DEF Without, TypeOK
<1>5. TypeOK'
  BY <1>1, <1>4 DEF TypeOK
<1>6. Frontier'
  BY <1>1, <1>2, <1>3 DEF Frontier
<1>7. AskedOnce'
  BY <1>1, <1>2, <1>3 DEF AskedOnce
<1>8. EntriesFaithful'
  BY <1>1, <1>4 DEF EntriesFaithful, TypeOK
<1> QED
  BY <1>5, <1>6, <1>7, <1>8

LEMMA OthersKeep ==
  ASSUME WalkInv, 
         \/ Finish
         \/ \E g \in Gateways : Toggle(g)
         \/ \E g, h \in Gateways : Sight(g, h)
         \/ UNCHANGED vars
  PROVE  WalkInv'
<1> USE DEF WalkInv
<1>1. /\ UNCHANGED <<queue, visited, asked, told, answered, graph, failed>>
      /\ done' => done \/ (asked = {} /\ queue = <<>>)
  <2>1. CASE Finish
    BY <2>1 DEF Finish
  <2>2. CASE UNCHANGED walk
    BY <2>2 DEF walk
  <2> QED
    BY <2>1, <2>2 DEF Toggle, Sight, Change, vars
<1>2. TypeOK'
  <2>1. CASE Finish \/ UNCHANGED vars
    BY <2>1 DEF Finish, vars, walk, TypeOK
  <2>2. ASSUME NEW g \in Gateways, Toggle(g) PROVE TypeOK'
    BY <2>2 DEF Toggle, Change, walk, TypeOK
  <2>3. ASSUME NEW g \in Gateways, NEW h \in Gateways, Sight(g, h) PROVE TypeOK'
    <3>1. links' \in [Gateways -> SUBSET Gateways]
      BY <2>3 DEF Sight, TypeOK
    <3> QED
      BY <2>3, <3>1 DEF Sight, Change, walk, TypeOK
  <2> QED
    BY <2>1, <2>2, <2>3
<1>3. Queued' = Queued
  BY <1>1 DEF Queued
<1>4. Frontier'
  BY <1>1, <1>3 DEF Frontier
<1>5. AskedOnce'
  BY <1>1, <1>3 DEF AskedOnce
<1>6. EntriesFaithful'
  BY <1>1 DEF EntriesFaithful
<1> QED
  BY <1>2, <1>4, <1>5, <1>6

(* The walk keeps its frontier: a gateway seen is queued, asked, answered  *)
(* or failed, whatever happens to the network meanwhile.                   *)
THEOREM WalkInvariant == Spec => []WalkInv
<1>1. WalkInv /\ [Next]_vars => WalkInv'
  BY AskKeeps, AnswerKeeps, FailKeeps, OthersKeep DEF Next
<1> QED
  BY InitWalk, <1>1, PTL DEF Spec

(* getLinkGraphData() misses no gateway it hears of.                       *)
THEOREM WalkIsComplete == Spec => []Complete
<1>1. WalkInv => Complete
  BY DEF WalkInv, Complete, Frontier, Queued
<1> QED
  BY WalkInvariant, <1>1, PTL

(* No gateway is asked twice, so the walk ends once the network is quiet.  *)
THEOREM NoneAskedTwice == Spec => []AskedOnce
<1>1. WalkInv => AskedOnce
  BY DEF WalkInv
<1> QED
  BY WalkInvariant, <1>1, PTL

(* No link between gateways that answered is lost or invented.             *)
THEOREM LinksAreKept == Spec => []EntriesFaithful
<1>1. WalkInv => EntriesFaithful
  BY DEF WalkInv
<1> QED
  BY WalkInvariant, <1>1, PTL

(* Every variable of the walk keeps its type.                              *)
THEOREM TypeInvariant == Spec => []TypeOK
<1>1. WalkInv => TypeOK
  BY DEF WalkInv
<1> QED
  BY WalkInvariant, <1>1, PTL

-----------------------------------------------------------------------------
(* Whatever a request does to the walk is a step of the walk.              *)
LEMMA WalkSteps ==
  ASSUME WalkStep
  PROVE  \/ Ask /\ UNCHANGED data
         \/ \E n \in Gateways : Fail(n) /\ UNCHANGED data
         \/ \E n \in Gateways : /\ Answer(n)
                                /\ data' = IF n \in answered THEN data
                                           ELSE Append(data, n)
BY DEF WalkStep

LEMMA ApiSteps ==
  ASSUME ApiNext \/ UNCHANGED apiVars
  PROVE  \/ WalkStep /\ phase \in {"walking", "calling"}
                     /\ UNCHANGED <<phase, usage, executor, callVars>>
         \/ Finish /\ UNCHANGED <<data, usage, executor, callVars>>
                   /\ \/ phase = "calling" /\ phase' = "calling" /\ pending > 0
                      \/ phase = "walking" /\ phase' = "asking"
         \/ Network /\ UNCHANGED callVars
         \/ UNCHANGED <<vars, data>>
<1> USE DEF schedVars, callVars, request
<1>1. CASE SchedStep /\ UNCHANGED callVars
  BY <1>1 DEF SchedStep, RejectAt, ReadMetadata, Walk, GetLinkGraph, Report,
              NoReport, Choose, LowOnResources, Refused, Respond
<1>2. CASE CallStep
  <2>1. CASE WalkForCall
    BY <2>1 DEF WalkForCall
  <2>2. CASE noGraph \/ forwardToAll \/ \E g \in Gateways : PostFails(g)
    BY <2>2 DEF noGraph, forwardToAll, PostFails
  <2>3. CASE \E from, to \in Gateways : platformAPICallHelper(from, to)
    BY <2>3 DEF platformAPICallHelper
  <2> QED
    BY <1>2, <2>1, <2>2, <2>3 DEF CallStep
<1>3. CASE disseminateAll
  BY <1>3 DEF disseminateAll
<1>4. CASE UNCHANGED apiVars
  BY <1>4 DEF apiVars
<1> QED
  BY <1>1, <1>2, <1>3, <1>4 DEF ApiNext, ApiStep

LEMMA ApiStepsWalk ==
  ASSUME ApiNext \/ UNCHANGED apiVars
  PROVE  Next \/ UNCHANGED vars
<1>1. CASE WalkStep
  BY <1>1, WalkSteps DEF Next
<1>2. CASE Finish \/ Network
  BY <1>2 DEF Next, Network
<1> QED
  BY <1>1, <1>2, ApiSteps

LEMMA WalkKept ==
  ASSUME WalkInv, ApiNext \/ UNCHANGED apiVars
  PROVE  WalkInv'
BY ApiStepsWalk, AskKeeps, AnswerKeeps, FailKeeps, OthersKeep DEF Next

(* A gateway that schedules an app or disseminates a message walks the     *)
(* link graph as getLinkGraphData() does: the requests implement the walk. *)
THEOREM RequestsWalk == FairApiSpec => Spec
<1>1. ApiInit => Init
  BY DEF ApiInit, SchedInit
<1>2. [ApiNext]_apiVars => [Next]_vars
  BY ApiStepsWalk
<1> QED
  BY <1>1, <1>2, PTL DEF FairApiSpec, Spec

(* What is known of the walk is known of every request: none misses a      *)
(* gateway, asks one twice or loses a link.                                *)
THEOREM RequestsKeepTheWalk ==
  FairApiSpec => [](Complete /\ AskedOnce /\ EntriesFaithful)
BY RequestsWalk, WalkIsComplete, NoneAskedTwice, LinksAreKept, PTL

(* The keys of data are the gateways that answered the walk, each of them  *)
(* once.                                                                   *)
Listed ==
  /\ data \in Seq(Gateways)
  /\ ListedIn(data) = answered
  /\ \A j, k \in DOMAIN data : data[j] = data[k] => j = k

LEMMA InitListed == ApiInit => Listed
<1> SUFFICES ASSUME ApiInit PROVE Listed
  OBVIOUS
<1>1. DOMAIN data = {} /\ data \in Seq(Gateways)
  BY DEF ApiInit, SchedInit
<1> QED
  BY <1>1 DEF ApiInit, SchedInit, Init, Listed, ListedIn

LEMMA KeepsListed ==
  ASSUME TypeOK, Listed, ApiNext \/ UNCHANGED apiVars
  PROVE  Listed'
<1>1. CASE UNCHANGED <<data, answered>>
  BY <1>1 DEF Listed, ListedIn
<1>2. ASSUME NEW n \in Gateways, Answer(n),
             data' = IF n \in answered THEN data ELSE Append(data, n)
      PROVE  Listed'
  <2>1. answered' = answered \union {n}
    BY <1>2 DEF Answer
  <2>2. CASE n \in answered
    BY <1>1, <1>2, <2>1, <2>2
  <2>3. CASE n \notin answered
    <3> DEFINE m == Len(data)
               s == data'
    <3>1. /\ data \in Seq(Gateways) /\ m \in Nat /\ DOMAIN data = 1..m
          /\ s \in Seq(Gateways) /\ DOMAIN s = 1..(m + 1)
          /\ \A k \in 1..m : s[k] = data[k]
          /\ s[m + 1] = n
      BY <1>2, <2>3 DEF Listed
    <3> HIDE DEF m, s
    <3>2. m + 1 \in DOMAIN s /\ \A k \in DOMAIN s : k \in DOMAIN data \/ k = m + 1
      BY <3>1
    <3>3. \A k \in DOMAIN data : k \in DOMAIN s /\ s[k] = data[k]
      BY <3>1
    <3>4. ListedIn(data) = answered
          /\ \A j, k \in DOMAIN data : data[j] = data[k] => j = k
      BY DEF Listed
    <3>5. {s[k] : k \in DOMAIN s} = {data[k] : k \in DOMAIN data} \union {n}
      BY <3>1, <3>2, <3>3
    <3>6. \A k \in DOMAIN data : data[k] # n
      BY <2>3, <3>4 DEF ListedIn
    <3>7. \A j, k \in DOMAIN s : s[j] = s[k] => j = k
      BY <3>1, <3>2, <3>3, <3>4, <3>6
    <3> QED
      BY <2>1, <3>1, <3>4, <3>5, <3>7 DEF Listed, ListedIn, s
  <2> QED
    BY <2>2, <2>3
<1>3. CASE UNCHANGED data /\ (Ask \/ Finish \/ Network \/ \E n \in Gateways : Fail(n))
  BY <1>1, <1>3 DEF Ask, Fail, Finish, Network, Toggle, Sight, Change, walk
<1>4. CASE UNCHANGED <<vars, data>>
  BY <1>1, <1>4 DEF vars, walk
<1>5. CASE WalkStep
  BY <1>2, <1>3, <1>5, WalkSteps
<1>6. CASE Network
  BY <1>3, <1>6 DEF Network, schedVars
<1> QED
  BY <1>3, <1>4, <1>5, <1>6, ApiSteps

CallTypeOK ==
  /\ posts \subseteq {<<Self, g>> : g \in Gateways}
  /\ pending \in {0, 1}
  /\ heard \in [Gateways -> {0, 1}]
  /\ failures \subseteq Gateways

(* Nobody has been sent the message.                                       *)
Unheard == heard = [g \in Gateways |-> 0] /\ failures = {}

(* The message has been sent to the others, once each.                     *)
Forwarded ==
  /\ <<Self, Self>> \notin posts /\ heard[Self] = 0
  /\ \A g \in Gateways : <<Self, g>> \in posts => heard[g] = 0
  /\ done => \A g \in answered \ {Self} :
               heard[g] = 1 \/ <<Self, g>> \in posts \/ g \in failures

(* The one request of the app: not made, on its way to Self, waiting for   *)
(* the link graph, and forwarded (or given up).                            *)
Round ==
  /\ phase = "new" => ~done
  /\ \/ phase # "calling" /\ posts = {} /\ pending = 0 /\ Unheard
     \/ /\ phase = "calling" /\ ~done
        /\ posts = {<<Self, Self>>} /\ pending = 0 /\ Unheard
     \/ phase = "calling" /\ posts = {} /\ pending = 1 /\ Unheard
     \/ phase = "calling" /\ pending = 0 /\ Forwarded

LEMMA HearingKeepsRound ==
  ASSUME NEW from \in Gateways, NEW to \in Gateways,
         TypeOK, CallTypeOK, Round, platformAPICallHelper(from, to)
  PROVE  CallTypeOK' /\ Round'
<1>1. /\ from = Self /\ <<Self, to>> \in posts /\ posts' = posts \ {<<Self, to>>}
      /\ UNCHANGED <<phase, done, answered, failures>>
      /\ phase = "calling"
  BY DEF CallTypeOK, Round, platformAPICallHelper, vars, walk, schedVars
<1>2. CASE to = Self
  <2>1. pending' = pending + 1 /\ UNCHANGED heard
    BY <1>1, <1>2 DEF platformAPICallHelper, isLocalRequest
  <2>2. posts = {<<Self, Self>>} /\ pending = 0 /\ Unheard
    BY <1>1, <1>2, <2>1 DEF Round, Forwarded
  <2>3. posts' = {} /\ pending' = 1 /\ Unheard'
    BY <1>1, <1>2, <2>1, <2>2 DEF Unheard
  <2> QED
    BY <1>1, <2>1, <2>3 DEF CallTypeOK, Round
<1>3. CASE to # Self
  <2>1. heard' = [heard EXCEPT ![to] = @ + 1] /\ UNCHANGED pending
    BY <1>1, <1>3 DEF platformAPICallHelper, isLocalRequest
  <2>2. pending = 0 /\ Forwarded
    BY <1>1, <1>3 DEF Round
  <2>3. heard[to] = 0 /\ heard'[to] = 1
        /\ \A g \in Gateways \ {to} : heard'[g] = heard[g]
        /\ heard' \in [Gateways -> {0, 1}]
    BY <1>1, <2>1, <2>2 DEF Forwarded, CallTypeOK
  <2>4. \A g \in Gateways : <<Self, g>> \in posts' <=> <<Self, g>> \in posts /\ g # to
    BY <1>1
  <2>5. Self \in Gateways /\ answered \subseteq Gateways
    BY LinkGraphAssumption DEF TypeOK
  <2>6. Forwarded'
    BY <1>1, <1>3, <2>2, <2>3, <2>4, <2>5 DEF Forwarded
  <2> QED
    BY <1>1, <2>1, <2>2, <2>3, <2>6 DEF CallTypeOK, Round
<1> QED
  BY <1>2, <1>3

LEMMA ForwardingKeepsRound ==
  ASSUME TypeOK, CallTypeOK, Round, Listed, forwardToAll
  PROVE  CallTypeOK' /\ Round'
<1>1. /\ done /\ pending > 0 /\ pending' = pending - 1
      /\ posts' = posts \union {<<Self, g>> : g \in Recipients}
      /\ UNCHANGED <<phase, done, answered, failures, heard>>
  BY DEF forwardToAll, vars, walk, schedVars
<1>2. phase = "calling" /\ posts = {} /\ pending = 1 /\ Unheard
  BY <1>1 DEF Round
<1>3. Recipients = answered \ {Self}
  BY DEF Recipients, Listed
<1>4. pending' = 0 /\ posts' = {<<Self, g>> : g \in answered \ {Self}}
  BY <1>1, <1>2, <1>3
<1>5. answered \subseteq Gateways /\ Self \in Gateways
  BY LinkGraphAssumption DEF TypeOK
<1>6. Forwarded'
  BY <1>1, <1>2, <1>4, <1>5 DEF Forwarded, Unheard
<1> QED
  BY <1>1, <1>2, <1>4, <1>5, <1>6 DEF CallTypeOK, Round

LEMMA KeepsRound ==
  ASSUME WalkInv, Listed, CallTypeOK, Round, ApiNext \/ UNCHANGED apiVars
  PROVE  CallTypeOK' /\ Round'
<1> USE DEF callVars
<1>0. TypeOK /\ Self \in Gateways
  BY LinkGraphAssumption DEF WalkInv
<1>1. CASE WalkForCall
  <2>1. /\ phase = "calling" /\ pending > 0
        /\ UNCHANGED <<phase, posts, pending, heard, failures>>
    BY <1>1 DEF WalkForCall
  <2>2. phase = "calling" /\ posts = {} /\ pending = 1 /\ Unheard
    BY <2>1 DEF Round
  <2> QED
    BY <2>1, <2>2 DEF CallTypeOK, Round, Unheard
<1>2. CASE noGraph
  <2>1. /\ ~done /\ pending > 0 /\ pending' = pending - 1
        /\ UNCHANGED <<phase, done, answered, posts, heard, failures>>
    BY <1>2 DEF noGraph, vars, walk, schedVars
  <2>2. phase = "calling" /\ posts = {} /\ pending = 1 /\ Unheard
    BY <2>1 DEF Round
  <2> QED
    BY <2>1, <2>2, LinkGraphAssumption DEF CallTypeOK, Round, Unheard, Forwarded
<1>3. ASSUME NEW g \in Gateways, PostFails(g) PROVE CallTypeOK' /\ Round'
  <2>1. /\ <<Self, g>> \in posts /\ g # Self
        /\ posts' = posts \ {<<Self, g>>}
        /\ failures' = failures \union {g}
        /\ UNCHANGED <<phase, done, answered, pending, heard>>
    BY <1>3 DEF PostFails, vars, walk, schedVars
  <2>2. phase = "calling" /\ pending = 0 /\ Forwarded
    BY <2>1 DEF Round
  <2>3. \A h \in Gateways : <<Self, h>> \in posts' <=> <<Self, h>> \in posts /\ h # g
    BY <2>1
  <2>4. Forwarded'
    BY <2>1, <2>2, <2>3, LinkGraphAssumption DEF Forwarded, TypeOK
  <2> QED
    BY <2>1, <2>2, <2>4 DEF CallTypeOK, Round
<1>4. CASE disseminateAll
  BY <1>4, LinkGraphAssumption
  DEF disseminateAll, CallTypeOK, Round, Unheard, vars, walk
<1>5. CASE SchedStep /\ UNCHANGED callVars
  <2>1. /\ phase # "calling" /\ phase' # "calling"
        /\ phase' = "new" => phase = "new" /\ UNCHANGED done
    BY <1>5 DEF SchedStep, RejectAt, ReadMetadata, Walk, GetLinkGraph, Report,
                NoReport, Choose, LowOnResources, Refused, Respond, vars, walk
  <2> QED
    BY <1>5, <2>1 DEF CallTypeOK, Round, Unheard
<1>6. CASE (Network /\ UNCHANGED callVars) \/ UNCHANGED apiVars
  <2>1. UNCHANGED <<phase, done, answered, callVars>>
    BY <1>6 DEF Network, Toggle, Sight, Change, schedVars, apiVars, vars, walk
  <2> QED
    BY <2>1 DEF CallTypeOK, Round, Unheard, Forwarded
<1>7. CASE CallStep
  BY <1>0, <1>1, <1>2, <1>3, <1>7, ForwardingKeepsRound, HearingKeepsRound
  DEF CallStep
<1> QED
  BY <1>4, <1>5, <1>6, <1>7 DEF ApiNext, ApiStep

(* A message goes round once, whatever the network does under the walk:    *)
(* HeardOnce follows from where the one request of the app is.             *)
THEOREM MessagesHeardOnce == FairApiSpec => []HeardOnce
<1> DEFINE Inv == WalkInv /\ Listed /\ CallTypeOK /\ Round
<1>1. ApiInit => Inv
  <2> SUFFICES ASSUME ApiInit PROVE Inv
    OBVIOUS
  <2>1. WalkInv
    BY InitWalk DEF ApiInit, SchedInit
  <2>2. CallTypeOK /\ Round
    BY DEF ApiInit, SchedInit, Init, CallTypeOK, Round, Unheard
  <2> QED
    BY <2>1, <2>2, InitListed
<1>2. Inv /\ [ApiNext]_apiVars => Inv'
  BY WalkKept, KeepsListed, KeepsRound DEF WalkInv
<1>3. Inv => HeardOnce
  <2> SUFFICES ASSUME Inv PROVE HeardOnce
    OBVIOUS
  <2>1. answered \subseteq Gateways
    BY DEF WalkInv, TypeOK
  <2> QED
    BY <2>1, LinkGraphAssumption
    DEF Round, Unheard, Forwarded, CallTypeOK, HeardOnce
<1> QED
  BY <1>1, <1>2, <1>3, PTL DEF FairApiSpec

-----------------------------------------------------------------------------
(* A set of numbers has a least one: what induction over the places of     *)
(* data comes down to.                                                     *)
LEMMA Smallest ==
  ASSUME NEW S \in SUBSET Nat, S # {}
  PROVE  \E u \in S : \A v \in S : u <= v
<1>1. PICK u \in S : \A v \in S : ~ (<<v, u>> \in OpToRel(<, Nat))
  BY NatLessThanWellFounded, WFMin
<1>2. \A v \in S : ~ (v < u)
  BY <1>1 DEF OpToRel
<1> QED
  BY <1>2

(* One turn of reduce().                                                   *)
Reduction(f, k) ==
  IF k = 0 THEN {}
  ELSE LET best == f[k-1] IN
       IF k \notin candidateGateways THEN best
       ELSE IF best = {} THEN {data[k]}
       ELSE {compareGateways(g, data[k]) : g \in best}

LEMMA ReductionExists ==
  ASSUME NEW n \in Nat
  PROVE  \E f : f = [k \in 0..n |-> Reduction(f, k)]
<1> DEFINE Defined(m) == \E f : f = [k \in 0..m |-> Reduction(f, k)]
           Undefined == {m \in Nat : ~Defined(m)}
<1>1. SUFFICES ASSUME Undefined # {} PROVE FALSE
  OBVIOUS
<1>2. PICK m \in Undefined : \A v \in Undefined : m <= v
  BY <1>1, Smallest
<1>3. m # 0
  <2> DEFINE f == [k \in 0..0 |-> {}]
  <2>1. f = [k \in 0..0 |-> Reduction(f, k)]
    BY DEF Reduction
  <2> QED
    BY <1>2, <2>1
<1>4. m - 1 \in Nat /\ Defined(m - 1)
  BY <1>2, <1>3
<1>5. PICK f : f = [k \in 0..(m - 1) |-> Reduction(f, k)]
  BY <1>4
<1> DEFINE g == [k \in 0..m |-> Reduction(f, k)]
<1>6. ASSUME NEW k \in 0..m PROVE Reduction(g, k) = Reduction(f, k)
  <2>1. CASE k = 0
    BY <2>1 DEF Reduction
  <2>2. CASE k # 0
    <3>1. k - 1 \in 0..(m - 1) /\ k - 1 \in 0..m
      BY <1>4, <2>2
    <3>2. f[k - 1] = Reduction(f, k - 1)
      BY <1>5, <3>1
    <3>3. g[k - 1] = f[k - 1]
      BY <3>1, <3>2
    <3> HIDE DEF g
    <3> QED
      BY <2>2, <3>3 DEF Reduction
  <2> QED
    BY <2>1, <2>2
<1>7. g = [k \in 0..m |-> Reduction(g, k)]
  BY <1>6
<1> QED
  BY <1>2, <1>7

LEMMA ReducedStep ==
  ASSUME Len(data) \in Nat, NEW k \in 0..Len(data)
  PROVE  reduced[k] = Reduction(reduced, k)
<1>1. \E f : f = [j \in 0..Len(data) |-> Reduction(f, j)]
  BY ReductionExists
<1>2. reduced = CHOOSE f : f = [j \in 0..Len(data) |-> Reduction(f, j)]
  BY DEF reduced, Reduction
<1>3. reduced = [j \in 0..Len(data) |-> Reduction(reduced, j)]
  BY <1>1, <1>2
<1> QED
  BY <1>3

(* What the gateways of data reported, once each of them has.              *)
Reported ==
  /\ data \in Seq(Gateways)
  /\ usage \in [Gateways -> SUBSET Usages]
  /\ AllReported

LEMMA RankFacts ==
  ASSUME Reported, NEW k \in DOMAIN data
  PROVE  /\ numDevicesSupported(data[k]) \in Nat
         /\ Free(data[k]).mem \in Nat /\ Free(data[k]).cpu \in Nat
<1> DEFINE g == data[k]
<1>1. g \in Gateways /\ g \in ListedIn(data)
  BY DEF Reported, ListedIn
<1>2. usage[g] # {} /\ usage[g] \subseteq Usages
  BY <1>1 DEF Reported, AllReported
<1>3. Free(g) \in Usages
  BY <1>2 DEF Free
<1>4. Free(g) \in [mem : Nat, cpu : Nat]
  BY <1>3, SchedulerAssumption
<1>5. numDevicesSupported(g) \in Nat
  <2>1. IsFiniteSet(DOMAIN DeviceIds)
    BY SchedulerAssumption, FS_Interval
  <2>2. getHostGateways[g] \in SUBSET DOMAIN DeviceIds
    BY <1>1 DEF getHostGateways
  <2> QED
    BY <2>1, <2>2, FS_Subset, FS_CardinalityType DEF numDevicesSupported
<1> QED
  BY <1>4, <1>5

(* Above() orders the ranks by their first difference.                     *)
LEMMA AboveMeans ==
  ASSUME NEW g, NEW h,
         numDevicesSupported(g) \in Nat, numDevicesSupported(h) \in Nat,
         Free(g).mem \in Nat, Free(h).mem \in Nat,
         Free(g).cpu \in Nat, Free(h).cpu \in Nat
  PROVE  Above(Rank(g), Rank(h)) <=>
           \/ numDevicesSupported(g) > numDevicesSupported(h)
           \/ /\ numDevicesSupported(g) = numDevicesSupported(h)
              /\ \/ Free(g).mem > Free(h).mem
                 \/ Free(g).mem = Free(h).mem /\ Free(g).cpu > Free(h).cpu
<1> DEFINE r == Rank(g)
           s == Rank(h)
<1>1. /\ r[1] = numDevicesSupported(g) /\ r[2] = Free(g).mem /\ r[3] = Free(g).cpu
      /\ s[1] = numDevicesSupported(h) /\ s[2] = Free(h).mem /\ s[3] = Free(h).cpu
  BY DEF Rank
<1> HIDE DEF r, s
<1>2. Above(r, s) <=> \/ r[1] > s[1]
                      \/ r[2] > s[2] /\ r[1] = s[1]
                      \/ r[3] > s[3] /\ r[1] = s[1] /\ r[2] = s[2]
  <2>1. 1..3 = {1, 2, 3} /\ 1..(1-1) = {} /\ 1..(2-1) = {1} /\ 1..(3-1) = {1, 2}
    OBVIOUS
  <2> QED
    BY <2>1 DEF Above
<1> QED
  BY <1>1, <1>2 DEF r, s

(* It is a strict order in which two ranks that neither is above the other *)
(* are above and below the same ones.                                      *)
LEMMA AboveOrders ==
  ASSUME Reported, NEW i \in DOMAIN data, NEW j \in DOMAIN data, NEW k \in DOMAIN data
  PROVE  /\ ~Above(Rank(data[i]), Rank(data[i]))
         /\ Above(Rank(data[k]), Rank(data[i])) => ~Above(Rank(data[i]), Rank(data[k]))
         /\ Above(Rank(data[k]), Rank(data[j])) =>
              \/ Above(Rank(data[k]), Rank(data[i]))
              \/ Above(Rank(data[i]), Rank(data[j]))
<1>1. \A a \in DOMAIN data :
        /\ numDevicesSupported(data[a]) \in Nat
        /\ Free(data[a]).mem \in Nat /\ Free(data[a]).cpu \in Nat
  BY RankFacts
<1>2. \A a, b \in DOMAIN data :
        Above(Rank(data[a]), Rank(data[b])) <=>
           \/ numDevicesSupported(data[a]) > numDevicesSupported(data[b])
           \/ /\ numDevicesSupported(data[a]) = numDevicesSupported(data[b])
              /\ \/ Free(data[a]).mem > Free(data[b]).mem
                 \/ /\ Free(data[a]).mem = Free(data[b]).mem
                    /\ Free(data[a]).cpu > Free(data[b]).cpu
  BY <1>1, AboveMeans
<1> QED
  BY <1>1, <1>2

(* compareGateways() keeps the first of two unless the second is above it. *)
LEMMA ComparesRanks ==
  ASSUME Reported, NEW j \in DOMAIN data, NEW k \in DOMAIN data
  PROVE  compareGateways(data[j], data[k])
           = IF Above(Rank(data[k]), Rank(data[j])) THEN data[k] ELSE data[j]
<1>1. \A a \in {j, k} :
        /\ numDevicesSupported(data[a]) \in Nat
        /\ Free(data[a]).mem \in Nat /\ Free(data[a]).cpu \in Nat
  BY RankFacts
<1>2. Above(Rank(data[k]), Rank(data[j])) <=>
         \/ numDevicesSupported(data[k]) > numDevicesSupported(data[j])
         \/ /\ numDevicesSupported(data[k]) = numDevicesSupported(data[j])
            /\ \/ Free(data[k]).mem > Free(data[j]).mem
               \/ /\ Free(data[k]).mem = Free(data[j]).mem
                  /\ Free(data[k]).cpu > Free(data[j]).cpu
  BY <1>1, AboveMeans
<1> QED
  BY <1>1, <1>2 DEF compareGateways

(* The best of the first k candidates is at place j.                       *)
BestOfFirst(k, j) ==
  /\ j \in 1..k /\ Suitable(data[j])
  /\ \A i \in 1..k :
       Suitable(data[i]) =>
         /\ ~Above(Rank(data[i]), Rank(data[j]))
         /\ i < j => Above(Rank(data[j]), Rank(data[i]))

BestSoFar(k) ==
  \/ reduced[k] = {} /\ \A i \in 1..k : ~Suitable(data[i])
  \/ \E j \in 1..k : reduced[k] = {data[j]} /\ BestOfFirst(k, j)

(* One more candidate.                                                     *)
LEMMA BestOfOneMore ==
  ASSUME Reported, NEW k \in 1..Len(data), BestSoFar(k - 1)
  PROVE  BestSoFar(k)
<1>1. Len(data) \in Nat /\ DOMAIN data = 1..Len(data)
  BY DEF Reported
<1>2. /\ k \in DOMAIN data /\ k # 0 /\ k \in 0..Len(data)
      /\ k \in 1..k /\ \A i \in 1..k : i \in DOMAIN data /\ (i # k => i \in 1..(k-1))
      /\ \A i \in 1..(k-1) : i \in 1..k /\ i < k
      /\ \A i \in 1..k : ~(k < i)
  BY <1>1
<1>3. reduced[k] = Reduction(reduced, k)
  BY <1>1, <1>2, ReducedStep
<1>4. CASE ~Suitable(data[k])
  <2>1. reduced[k] = reduced[k-1]
    BY <1>2, <1>3, <1>4 DEF Reduction, candidateGateways
  <2> QED
    BY <1>2, <1>4, <2>1 DEF BestSoFar, BestOfFirst
<1>5. CASE Suitable(data[k]) /\ reduced[k-1] = {}
  <2>1. reduced[k] = {data[k]}
    BY <1>2, <1>3, <1>5 DEF Reduction, candidateGateways
  <2>2. \A i \in 1..(k-1) : ~Suitable(data[i])
    BY <1>5 DEF BestSoFar
  <2>3. ~Above(Rank(data[k]), Rank(data[k]))
    BY <1>2, AboveOrders
  <2>4. BestOfFirst(k, k)
    BY <1>2, <1>5, <2>2, <2>3 DEF BestOfFirst
  <2> QED
    BY <1>2, <2>1, <2>4 DEF BestSoFar
<1>6. ASSUME Suitable(data[k]),
             NEW j \in 1..(k-1), reduced[k-1] = {data[j]}, BestOfFirst(k-1, j)
      PROVE  BestSoFar(k)
  <2>0. j \in DOMAIN data /\ j \in 1..k /\ j < k
    BY <1>2
  <2>1. reduced[k] = {compareGateways(data[j], data[k])}
    BY <1>2, <1>3, <1>6 DEF Reduction, candidateGateways
  <2>2. compareGateways(data[j], data[k])
          = IF Above(Rank(data[k]), Rank(data[j])) THEN data[k] ELSE data[j]
    BY <1>2, <2>0, ComparesRanks
  <2>3. CASE ~Above(Rank(data[k]), Rank(data[j]))
    <3>1. BestOfFirst(k, j)
      BY <1>2, <1>6, <2>0, <2>3 DEF BestOfFirst
    <3> QED
      BY <2>0, <2>1, <2>2, <2>3, <3>1 DEF BestSoFar
  <2>4. CASE Above(Rank(data[k]), Rank(data[j]))
    <3>1. ASSUME NEW i \in 1..k, Suitable(data[i])
          PROVE  /\ ~Above(Rank(data[i]), Rank(data[k]))
                 /\ i < k => Above(Rank(data[k]), Rank(data[i]))
      <4>1. CASE i = k
        BY <1>2, <4>1, AboveOrders
      <4>2. CASE i # k
        <5>1. ~Above(Rank(data[i]), Rank(data[j]))
          BY <1>2, <1>6, <3>1, <4>2 DEF BestOfFirst
        <5>2. Above(Rank(data[k]), Rank(data[i]))
          BY <1>2, <2>0, <2>4, <5>1, AboveOrders
        <5> QED
          BY <1>2, <5>2, AboveOrders
      <4> QED
        BY <4>1, <4>2
    <3>2. BestOfFirst(k, k)
      BY <1>2, <1>6, <3>1 DEF BestOfFirst
    <3> QED
      BY <1>2, <2>1, <2>2, <2>4, <3>2 DEF BestSoFar
  <2> QED
    BY <2>3, <2>4
<1> QED
  BY <1>4, <1>5, <1>6 DEF BestSoFar

(* reduce() ends with the best of the candidates.                          *)
LEMMA ReducesToBest ==
  ASSUME Reported
  PROVE  BestSoFar(Len(data))
<1>1. Len(data) \in Nat
  BY DEF Reported
<1> DEFINE Wrong == {k \in 0..Len(data) : ~BestSoFar(k)}
<1>2. SUFFICES ASSUME Wrong # {} PROVE FALSE
  BY <1>1
<1>3. PICK m \in Wrong : \A k \in Wrong : m <= k
  <2>1. Wrong \in SUBSET Nat
    BY <1>1
  <2> HIDE DEF Wrong
  <2> QED
    BY <1>2, <2>1, Smallest
<1>4. m # 0
  <2>1. 0 \in 0..Len(data)
    BY <1>1
  <2>2. reduced[0] = Reduction(reduced, 0)
    BY <1>1, <2>1, ReducedStep
  <2>3. reduced[0] = {}
    BY <2>2 DEF Reduction
  <2> QED
    BY <1>3, <2>3 DEF BestSoFar
<1>5. m \in 1..Len(data) /\ BestSoFar(m - 1)
  BY <1>1, <1>3, <1>4
<1> QED
  BY <1>3, <1>5, BestOfOneMore

(* An executor is there from the choice on, when the requests for the      *)
(* graph and for the resources are over.                                   *)
Choosing ==
  /\ phase \in {"new", "walking", "calling", "asking", "placing", "rejected"}
  /\ usage \in [Gateways -> SUBSET Usages]
  /\ executor # {} => phase \in {"placing", "rejected"}
  /\ ExecutorIsBest

LEMMA RanksStay ==
  ASSUME UNCHANGED usage, NEW g
  PROVE  Rank(g)' = Rank(g) /\ (Suitable(g)' <=> Suitable(g))
<1>1. Free(g)' = Free(g)
  BY DEF Free
<1> QED
  BY <1>1 DEF Rank, Suitable

LEMMA ChoiceIsBest ==
  ASSUME TypeOK, Listed, Choosing, Choose
  PROVE  Choosing'
<1>1. /\ phase' = "placing" /\ executor' = reduced[Len(data)]
      /\ UNCHANGED <<data, usage, answered>>
      /\ candidateGateways # {}
  BY DEF Choose, vars, walk
<1>2. Reported
  BY DEF Choose, Choosing, Listed, Reported
<1>3. DOMAIN data = 1..Len(data) /\ Len(data) \in Nat
  BY DEF Listed
<1>4. PICK j \in 1..Len(data) :
        reduced[Len(data)] = {data[j]} /\ BestOfFirst(Len(data), j)
  <2>1. \E i \in DOMAIN data : Suitable(data[i])
    BY <1>1 DEF candidateGateways
  <2> QED
    BY <1>2, <1>3, <2>1, ReducesToBest DEF BestSoFar
<1> DEFINE e == data[j]
<1>5. /\ executor' = {e} /\ e \in answered /\ Suitable(e)
      /\ \A g \in answered : Suitable(g) => ~Above(Rank(g), Rank(e))
      /\ \A i, k \in DOMAIN data :
           e = data[k] /\ i < k /\ Suitable(data[i]) => Above(Rank(e), Rank(data[i]))
  <2>1. e \in answered /\ \A g \in answered : \E i \in DOMAIN data : g = data[i]
    BY <1>3 DEF Listed, ListedIn
  <2>2. \A k \in DOMAIN data : e = data[k] => k = j
    BY <1>3 DEF Listed
  <2> QED
    BY <1>1, <1>3, <1>4, <2>1, <2>2 DEF BestOfFirst
<1>6. ExecutorIsBest'
  BY <1>1, <1>5, RanksStay DEF ExecutorIsBest
<1> QED
  BY <1>1, <1>6 DEF Choosing

LEMMA KeepsChoosing ==
  ASSUME TypeOK, Listed, Choosing, ApiNext \/ UNCHANGED apiVars
  PROVE  Choosing'
<1>1. CASE UNCHANGED <<data, usage, answered, executor>>
           /\ (phase' = phase \/ phase' = "rejected")
  <2>1. ExecutorIsBest'
    BY <1>1, RanksStay DEF Choosing, ExecutorIsBest
  <2> QED
    BY <1>1, <2>1 DEF Choosing
<1>2. ASSUME executor = {}, executor' = {},
             usage' \in [Gateways -> SUBSET Usages],
             phase' \in {"walking", "calling", "asking", "rejected"}
      PROVE  Choosing'
  BY <1>2 DEF Choosing, ExecutorIsBest
<1>3. executor # {} => phase \in {"placing", "rejected"}
  BY DEF Choosing
<1>4. CASE SchedStep /\ UNCHANGED callVars
  <2>1. CASE ReadMetadata \/ Walk \/ GetLinkGraph
    BY <1>2, <1>3, <2>1 DEF Choosing, ReadMetadata, Walk, GetLinkGraph
  <2>2. ASSUME NEW g \in Gateways, Report(g) PROVE Choosing'
    <3>1. PICK u \in Usages : usage' = [usage EXCEPT ![g] = {u}]
      BY <2>2 DEF Report
    <3>2. usage' \in [Gateways -> SUBSET Usages]
      BY <3>1 DEF Choosing
    <3> QED
      BY <1>2, <1>3, <2>2, <3>2 DEF Report
  <2>3. ASSUME NEW from \in {"new", "walking", "asking", "placing"}, RejectAt(from)
        PROVE  Choosing'
    BY <1>1, <2>3 DEF RejectAt, vars, walk
  <2>4. CASE Respond
    BY <1>1, <2>4 DEF Respond, vars, walk
  <2> QED
    BY <1>4, <2>1, <2>2, <2>3, <2>4, ChoiceIsBest
    DEF SchedStep, NoReport, LowOnResources, Refused
<1>5. CASE CallStep
  <2>1. CASE WalkForCall
    BY <1>2, <1>3, <2>1 DEF Choosing, WalkForCall
  <2>2. CASE UNCHANGED <<vars, schedVars>>
    BY <1>1, <2>2 DEF vars, walk, schedVars
  <2> QED
    BY <1>5, <2>1, <2>2
    DEF CallStep, noGraph, forwardToAll, PostFails, platformAPICallHelper
<1>6. CASE disseminateAll
  BY <1>2, <1>3, <1>6 DEF Choosing, disseminateAll
<1>7. CASE (Network /\ UNCHANGED callVars) \/ UNCHANGED apiVars
  BY <1>1, <1>7 DEF Network, Toggle, Sight, Change, schedVars, apiVars, vars, walk
<1> QED
  BY <1>4, <1>5, <1>6, <1>7 DEF ApiNext, ApiStep

(* schedule() asks the best gateway of the link graph to execute the app,  *)
(* however many there are and in whatever order they answer: reduce() with *)
(* compareGateways() misses none that ranks above the one it ends with.    *)
THEOREM BestIsChosen == FairApiSpec => []ExecutorIsBest
<1> DEFINE Inv == WalkInv /\ Listed /\ Choosing
<1>1. ApiInit => Inv
  <2> SUFFICES ASSUME ApiInit PROVE Inv
    OBVIOUS
  <2>1. Choosing
    BY DEF ApiInit, SchedInit, Choosing, ExecutorIsBest
  <2> QED
    BY <2>1, InitWalk, InitListed DEF ApiInit, SchedInit
<1>2. Inv /\ [ApiNext]_apiVars => Inv'
  BY WalkKept, KeepsListed, KeepsChoosing DEF WalkInv
<1>3. Inv => ExecutorIsBest
  BY DEF Choosing
<1> QED
  BY <1>1, <1>2, <1>3, PTL DEF FairApiSpec
=============================================================================
