------------------------------ MODULE Messaging -----------------------------
(***************************************************************************)
(* The messages between the services of a gateway: messaging-service.js in *)
(* each service and the platform manager, which forks the services, stores *)
(* their sockets, forwards their messages and stops them all when one ends. *)
(***************************************************************************)
EXTENDS Naturals, Sequences, FiniteSets

CONSTANTS
  Services,   \* the services the platform manager forks
  Calls,      \* the messages and queries the services will send, once each
  Queries,    \* the calls made with query()
  Home,       \* call -> the service that makes it
  Sender,     \* call -> its meta.sender
  Recipient,  \* call -> its meta.recipient
  Event       \* call -> its event name

ASSUME MessagingAssumption ==
  /\ Queries \subseteq Calls
  /\ Home \in [Calls -> Services]
  /\ Recipient \in [Calls -> Services]
  /\ DOMAIN Sender = Calls /\ DOMAIN Event = Calls
  /\ \A c \in Queries : Sender[c] = Home[c]

VARIABLES
  platformUp,    \* the platform manager runs
  alive,         \* services that run
  connected,     \* services that saw 'connect' and sent their socket
  socket,        \* services whose socket the platform manager stored
  toPlatform,    \* service -> what it wrote to its socket, unread
  fromPlatform,  \* service -> what the platform manager wrote to it, unread
  handling,      \* queries whose handler has not responded yet
  result,        \* query -> {} or {the query whose answer resolved its promise}
  made,          \* history: service -> its calls in the order it made them
  arrived,       \* history: service -> calls in the order their listener ran
  answered,      \* history: queries whose response reached their sender
  ignored, lost  \* history: calls the platform manager ignored, calls lost

services == <<platformUp, alive, connected>>
wires == <<toPlatform, fromPlatform>>
history == <<made, arrived, answered, ignored, lost>>
vars == <<services, socket, wires, handling, result, history>>

RegisterSocket == [type |-> "register-socket"]
Request(c) == [type |-> "request", call |-> c]
Response(c) == [type |-> "response", call |-> c]

Message == {RegisterSocket} \union {Request(c) : c \in Calls}
                            \union {Response(c) : c \in Queries}

(* Mutant: an answer is sent to the service that answers.                  *)
ToRecipient(m) == Recipient[m.call]

From(m) == IF m.type = "request" THEN Sender[m.call] ELSE Recipient[m.call]
To(m) == IF m.type = "request" THEN Recipient[m.call] ELSE Sender[m.call]

Elements(q) == {q[k] : k \in DOMAIN q}
CallsIn(q) == {m.call : m \in Elements(q) \ {RegisterSocket}}
Made == UNION {Elements(made[s]) : s \in Services}

Empty == [s \in Services |-> <<>>]

Init ==
  /\ platformUp = TRUE
  /\ alive = Services
  /\ connected = {}
  /\ socket = {}
  /\ toPlatform = Empty
  /\ fromPlatform = Empty
  /\ handling = {}
  /\ result = [c \in Queries |-> {}]
  /\ made = Empty
  /\ arrived = Empty
  /\ answered = {}
  /\ ignored = {}
  /\ lost = {}

Emit(s, m) == toPlatform' = [toPlatform EXCEPT ![s] = Append(@, m)]

(* A service connects and sends its socket; it may have sent messages      *)
(* before, which the socket buffers.                                       *)
Connect(s) ==
  /\ platformUp /\ s \in alive \ connected
  /\ connected' = connected \union {s}
  /\ Emit(s, RegisterSocket)
  /\ UNCHANGED <<platformUp, alive, socket, fromPlatform, handling, result, history>>

(* forwardMessage(), or query(), whose promise then waits for an answer.   *)
send(c) ==
  /\ platformUp /\ Home[c] \in alive
  /\ c \notin Made
  /\ made' = [made EXCEPT ![Home[c]] = Append(@, c)]
  /\ Emit(Home[c], Request(c))
  /\ UNCHANGED <<services, socket, fromPlatform, handling, result, arrived,
                 answered, ignored, lost>>

Reads(s) == platformUp /\ toPlatform[s] # <<>>

(* The platform manager takes the first n messages of a service off.        *)
Take(s, n) ==
  toPlatform' = [toPlatform EXCEPT ![s] = SubSeq(@, n + 1, Len(@))]

registerSocket(s) ==
  /\ Reads(s)
  /\ Head(toPlatform[s]) = RegisterSocket
  /\ Take(s, 1)
  /\ socket' = socket \union {s}
  /\ UNCHANGED <<services, fromPlatform, handling, result, history>>

Forwards(s) == Reads(s) /\ Head(toPlatform[s]) # RegisterSocket

(* forward: a sender that is no service of this platform is ignored.        *)
ignore(s) ==
  /\ Forwards(s)
  /\ LET m == Head(toPlatform[s]) IN
       /\ From(m) \notin Services
       /\ ignored' = ignored \union {m.call}
  /\ Take(s, 1)
  /\ UNCHANGED <<services, socket, fromPlatform, handling, result, made, arrived,
                 answered, lost>>

(* Mutant: the message overtakes what the recipient has not read yet.      *)
Overtaking(q, m) == <<m>> \o q

Enqueued(q, m) == Append(q, m)

(* forward: the message is written to the recipient's socket; a recipient  *)
(* that died does not read it any more.                                    *)
forward(s) ==
  /\ Forwards(s)
  /\ LET m == Head(toPlatform[s])
         r == To(m)
     IN  /\ From(m) \in Services
         /\ r \in socket
         /\ IF r \in alive
              THEN /\ fromPlatform' = [fromPlatform EXCEPT ![r] = Enqueued(@, m)]
                   /\ UNCHANGED lost
              ELSE /\ lost' = lost \union {m.call}
                   /\ UNCHANGED fromPlatform
  /\ Take(s, 1)
  /\ UNCHANGED <<services, socket, handling, result, made, arrived, answered, ignored>>

(* forward: the recipient has not sent its socket yet.  The write throws,   *)
(* the handler of uncaught exceptions swallows it, and the messages that   *)
(* came with this one are lost with it.                                    *)
forwardFails(s) ==
  /\ Forwards(s)
  /\ LET m == Head(toPlatform[s]) IN From(m) \in Services /\ To(m) \notin socket
  /\ \E n \in 1..Len(toPlatform[s]) :
       /\ Take(s, n)
       /\ lost' = lost \union CallsIn(SubSeq(toPlatform[s], 1, n))
  /\ UNCHANGED <<services, socket, fromPlatform, handling, result, made, arrived,
                 answered, ignored>>

Receives(s, type) ==
  /\ s \in alive /\ fromPlatform[s] # <<>>
  /\ Head(fromPlatform[s]).type = type
  /\ fromPlatform' = [fromPlatform EXCEPT ![s] = Tail(@)]
  /\ UNCHANGED <<services, socket, toPlatform, made, ignored, lost>>

ToRespond(c) == {c} \intersect Queries

(* A listener runs; that of a query responds later.                        *)
receiveRequest(s) ==
  /\ Receives(s, "request")
  /\ LET c == Head(fromPlatform[s]).call IN
       /\ arrived' = [arrived EXCEPT ![s] = Append(@, c)]
       /\ handling' = handling \union ToRespond(c)
  /\ UNCHANGED <<result, answered>>

(* Mutant: an answer resolves one of the promises that wait for its name.   *)
ResolvedOne(s, c) ==
  LET P == {q \in Queries : Home[q] = s /\ Event[q] = Event[c]
                            /\ q \in Made /\ result[q] = {}}
  IN  IF P = {} THEN {} ELSE {CHOOSE q \in P : TRUE}

(* Every listener of "<query>-response" runs, whichever query is answered. *)
Resolved(s, c) ==
  {q \in Queries : Home[q] = s /\ Event[q] = Event[c]
                   /\ q \in Made /\ result[q] = {}}

receiveResponse(s) ==
  /\ Receives(s, "response")
  /\ LET c == Head(fromPlatform[s]).call IN
       /\ result' = [q \in Queries |-> IF q \in Resolved(s, c) THEN {c} ELSE result[q]]
       /\ answered' = answered \union {c}
  /\ UNCHANGED <<arrived, handling>>

(* Mutant: the handler stays ready to respond again.                       *)
StillHandling(c) == handling

Handled(c) == handling \ {c}

respondToQuery(c) ==
  /\ platformUp /\ c \in handling /\ Recipient[c] \in alive
  /\ handling' = Handled(c)
  /\ Emit(Recipient[c], Response(c))
  /\ UNCHANGED <<services, socket, fromPlatform, result, history>>

(* A service ends, by itself or with an error it reports first.             *)
Die(s) ==
  /\ platformUp /\ s \in alive
  /\ alive' = alive \ {s}
  /\ fromPlatform' = [fromPlatform EXCEPT ![s] = <<>>]
  /\ lost' = lost \union CallsIn(fromPlatform[s])
               \union {c \in handling : Recipient[c] = s}
  /\ handling' = {c \in handling : Recipient[c] # s}
  /\ UNCHANGED <<platformUp, connected, socket, toPlatform, result, made, arrived,
                 answered, ignored>>

(* Mutants: the platform manager stops alone, or kills one service.         *)
KilledNone == {}
KilledOne == IF alive = {} THEN {} ELSE {CHOOSE s \in alive : TRUE}

Killed == alive

(* quit(): the platform manager kills its services and exits.              *)
quit ==
  /\ platformUp /\ alive # Services
  /\ platformUp' = FALSE
  /\ alive' = alive \ Killed
  /\ toPlatform' = Empty
  /\ UNCHANGED <<connected, socket, fromPlatform, handling, result, history>>

Next ==
  \/ \E s \in Services :
       \/ Connect(s)
       \/ registerSocket(s)
       \/ ignore(s)
       \/ forward(s)
       \/ forwardFails(s)
       \/ receiveRequest(s)
       \/ receiveResponse(s)
       \/ Die(s)
  \/ \E c \in Calls : send(c)
  \/ \E c \in Queries : respondToQuery(c)
  \/ quit

Spec == Init /\ [][Next]_vars

Platform(s) == registerSocket(s) \/ ignore(s) \/ forward(s) \/ forwardFails(s)
Listener(s) == receiveRequest(s) \/ receiveResponse(s)

(* Event loops run, and handlers respond; a service need not end.          *)
FairSpec ==
  /\ Spec
  /\ \A s \in Services : /\ WF_vars(Connect(s))
                         /\ WF_vars(Platform(s))
                         /\ WF_vars(Listener(s))
  /\ \A c \in Queries : WF_vars(respondToQuery(c))
  /\ WF_vars(quit)

-----------------------------------------------------------------------------
TypeOK ==
  /\ platformUp \in BOOLEAN
  /\ alive \subseteq Services /\ connected \subseteq Services
  /\ socket \subseteq connected
  /\ toPlatform \in [Services -> Seq(Message)]
  /\ fromPlatform \in [Services -> Seq(Message \ {RegisterSocket})]
  /\ handling \subseteq Queries
  /\ result \in [Queries -> SUBSET Queries]
  /\ made \in [Services -> Seq(Calls)]
  /\ arrived \in [Services -> Seq(Calls)]
  /\ answered \subseteq Queries
  /\ ignored \subseteq Calls /\ lost \subseteq Calls

Before(a, b, q) ==
  \E j, k \in DOMAIN q : j < k /\ q[j] = a /\ q[k] = b

(* Two messages from one service to another arrive in the order they were   *)
(* sent, and none arrives twice.                                           *)
InOrder ==
  \A s \in Services : \A j, k \in DOMAIN arrived[s] :
    LET a == arrived[s][j]
        b == arrived[s][k]
    IN  j < k /\ Home[a] = Home[b] => Before(a, b, made[Home[a]])

(* Where a call is: its message in a wire, in a handler, or at its end.     *)
OnWire(name, wire, c) ==
  UNION {{<<name, s, k>> : k \in {i \in DOMAIN wire[s] :
                                   wire[s][i] \in {Request(c), Response(c)}}}
           : s \in Services}

In(name, S, c) == {<<name, Home[d], 0>> : d \in S \intersect {c}}

Done == answered \union {c \in Calls \ Queries :
                           \E s \in Services : c \in Elements(arrived[s])}

Places(c) ==
  OnWire("to", toPlatform, c) \union OnWire("from", fromPlatform, c)
    \union In("handling", handling, c) \union In("ignored", ignored, c)
    \union In("lost", lost, c) \union In("done", Done, c)

(* No message is duplicated, and none vanishes but those the platform      *)
(* manager ignores or cannot write: every call made, be it a message, a    *)
(* query or the answer to it, is in exactly one place while the platform   *)
(* runs, whichever services end meanwhile.                                 *)
Accounted == platformUp => \A c \in Made : Cardinality(Places(c)) = 1

(* When the answer to a query has reached its sender, the promise of that   *)
(* query has been resolved, by this answer or an earlier one of its name.   *)
AnswerResolves == \A c \in answered : result[c] # {}

(* "Provides a query result from the query's recipient": a promise is      *)
(* resolved with the answer to its own query.                              *)
OwnAnswer == \A c \in Queries : result[c] \subseteq {c}

(* A query sent when every service has its socket registered is answered,   *)
(* unless a service ends.                                                  *)
QueriesAnswered ==
  \A c \in Queries :
    socket = Services /\ Request(c) \in Elements(toPlatform[Home[c]])
      ~> result[c] # {} \/ alive # Services

(* When a service ends, the platform manager and all services end.         *)
StopTogether == alive # Services ~> ~platformUp /\ alive = {}
=============================================================================
