--------------------------- MODULE MessagingProofs --------------------------
(***************************************************************************)
(* Theorems about Messaging, for any services and any messages and queries *)
(* between them.                                                           *)
(***************************************************************************)
EXTENDS Messaging, Integers, SequenceTheorems, FiniteSetTheorems, TLAPS

(* Messages of the three types differ, and a request or a response tells   *)
(* the call it belongs to.                                                 *)
LEMMA MessageFacts ==
  /\ RegisterSocket \in Message
  /\ \A c \in Calls : /\ Request(c) \in Message \ {RegisterSocket}
                      /\ Request(c).type = "request" /\ Request(c).call = c
                      /\ Response(c).type = "response" /\ Response(c).call = c
                      /\ Response(c) # RegisterSocket
  /\ \A c \in Queries : Response(c) \in Message \ {RegisterSocket}
  /\ \A m \in Message \ {RegisterSocket} :
       /\ m.call \in Calls
       /\ \/ m = Request(m.call) /\ m.type = "request"
          \/ m = Response(m.call) /\ m.type = "response" /\ m.call \in Queries
<1>1. \A c : /\ Request(c).type = "request" /\ Request(c).call = c
             /\ Response(c).type = "response" /\ Response(c).call = c
             /\ RegisterSocket.type = "register-socket"
  BY DEF Request, Response, RegisterSocket
<1>2. \A c : Request(c) # RegisterSocket /\ Response(c) # RegisterSocket
  BY <1>1
<1>3. Queries \subseteq Calls
  BY MessagingAssumption
<1> QED BY <1>1, <1>2, <1>3 DEF Message

(* Where a message goes that the platform manager forwards.                *)
LEMMA Addressed ==
  ASSUME NEW m \in Message \ {RegisterSocket}, From(m) \in Services
  PROVE  To(m) \in Services
  BY MessageFacts, MessagingAssumption DEF From, To

(* A queue that is appended to, and one whose first n messages are taken.  *)
LEMMA Appended ==
  ASSUME NEW S, NEW q \in Seq(S), NEW m \in S, NEW t, t = Append(q, m)
  PROVE  /\ t \in Seq(S) /\ Len(q) + 1 \in DOMAIN t /\ t[Len(q) + 1] = m
         /\ \A k \in DOMAIN q : /\ k \in DOMAIN t /\ t[k] = q[k]
                                /\ k \in Nat /\ k < Len(q) + 1
         /\ \A k \in DOMAIN t : k \in DOMAIN q \/ k = Len(q) + 1
         /\ Len(q) \in Nat
  OBVIOUS

LEMMA Taken ==
  ASSUME NEW S, NEW q \in Seq(S), NEW n \in 1 .. Len(q),
         NEW t, t = SubSeq(q, n + 1, Len(q))
  PROVE  /\ t \in Seq(S) /\ n \in Nat
         /\ \A k \in DOMAIN t : k \in Nat /\ k > 0 /\ k + n \in DOMAIN q
                                /\ t[k] = q[k + n]
         /\ \A k \in DOMAIN q : k > n => k - n \in DOMAIN t /\ t[k - n] = q[k]
<1> DEFINE l == Len(q)
<1>1. l \in Nat /\ DOMAIN q = 1 .. l /\ n \in Nat /\ n > 0 /\ n <= l
  OBVIOUS
<1>2. t \in Seq(S) /\ DOMAIN t = 1 .. Len(t)
  OBVIOUS
<1>3. Len(t) = l - n /\ \A k \in 1 .. l - n : t[k] = q[k + n]
  <2>1. l \in Int /\ n + 1 \in Int /\ \A k \in n + 1 .. l : q[k] \in S
    BY <1>1
  <2> HIDE DEF l
  <2>2. /\ Len(SubSeq(q, n + 1, l)) = IF n + 1 <= l THEN l - (n + 1) + 1 ELSE 0
        /\ \A k \in 1 .. l - (n + 1) + 1 : SubSeq(q, n + 1, l)[k] = q[n + 1 + k - 1]
    BY ONLY <2>1, SubSeqProperties
  <2>3. t = SubSeq(q, n + 1, l)
    BY DEF l
  <2>4. l - (n + 1) + 1 = l - n /\ (~(n + 1 <= l) => l - n = 0)
    BY <1>1
  <2>5. Len(t) = l - n
    <3>1. Len(t) = IF n + 1 <= l THEN l - n ELSE 0
      BY ONLY <2>2, <2>3, <2>4
    <3> QED
      BY ONLY <3>1, <2>4
  <2>6. ASSUME NEW k \in 1 .. l - n PROVE t[k] = q[k + n]
    <3>1. n + 1 + k - 1 = k + n
      BY <1>1
    <3>2. t[k] = q[n + 1 + k - 1]
      BY ONLY <2>2, <2>3, <2>4, <2>6
    <3> QED
      BY ONLY <3>1, <3>2
  <2> QED BY ONLY <2>5, <2>6
<1>4. \A k \in 1 .. l - n : t[k] = q[k + n]
  BY <1>3
<1> HIDE DEF l
<1>5. \A k \in 1 .. l - n : k \in Nat /\ k > 0 /\ k + n \in 1 .. l
  BY <1>1
<1>6. \A k \in 1 .. l : k > n => k - n \in 1 .. l - n /\ (k - n) + n = k
  BY <1>1
<1>7. DOMAIN t = 1 .. l - n
  BY <1>2, <1>3
<1>8. \A k \in DOMAIN q : k > n => k - n \in DOMAIN t /\ t[k - n] = q[k]
  <2> SUFFICES ASSUME NEW k \in 1 .. l, k > n
               PROVE  k - n \in DOMAIN t /\ t[k - n] = q[k]
    BY <1>1
  <2>1. k - n \in 1 .. l - n /\ (k - n) + n = k
    BY <1>6
  <2>2. t[k - n] = q[(k - n) + n]
    BY <1>4, <2>1
  <2> QED BY <1>7, <2>1, <2>2
<1> QED BY <1>1, <1>2, <1>4, <1>5, <1>7, <1>8

LEMMA HeadTaken ==
  ASSUME NEW S, NEW q \in Seq(S), q # <<>>
  PROVE  /\ Head(q) \in S /\ Tail(q) = SubSeq(q, 2, Len(q))
         /\ 1 \in 1 .. Len(q) /\ 1 \in DOMAIN q /\ Head(q) = q[1]
  OBVIOUS

-----------------------------------------------------------------------------
(* A service sends its socket when it is connected.                        *)
Registering ==
  \A s \in Services : \A k \in DOMAIN toPlatform[s] :
    toPlatform[s][k] = RegisterSocket => s \in connected

LEMMA TypesInit == Init => TypeOK /\ Registering
  BY MessagingAssumption DEF Init, Empty, TypeOK, Registering

LEMMA TypesStep == TypeOK /\ Registering /\ [Next]_vars => TypeOK' /\ Registering'
<1> SUFFICES ASSUME TypeOK, Registering, [Next]_vars PROVE TypeOK' /\ Registering'
  OBVIOUS
<1> USE MessagingAssumption DEF TypeOK, services, wires, history
<1>1. <<>> \in Seq(Message)
  OBVIOUS
<1>2. ASSUME NEW s \in Services, NEW m \in Message, Emit(s, m),
             m = RegisterSocket => s \in connected',
             connected \subseteq connected'
      PROVE  toPlatform' \in [Services -> Seq(Message)] /\ Registering'
  <2>1. Append(toPlatform[s], m) \in Seq(Message)
    OBVIOUS
  <2>2. toPlatform' \in [Services -> Seq(Message)]
    BY <1>2, <2>1 DEF Emit
  <2>3. ASSUME NEW r \in Services, NEW k \in DOMAIN toPlatform'[r],
               toPlatform'[r][k] = RegisterSocket
        PROVE  r \in connected'
    <3>1. CASE r = s
      <4>1. toPlatform'[r] = Append(toPlatform[s], m)
        BY <1>2, <3>1 DEF Emit
      <4> QED BY <1>2, <2>3, <3>1, <4>1, Appended DEF Registering
    <3>2. CASE r # s
      BY <1>2, <2>3, <3>2 DEF Emit, Registering
    <3> QED BY <3>1, <3>2
  <2> QED BY <2>2, <2>3 DEF Registering
<1>3. ASSUME NEW s \in Services, NEW n \in 1 .. Len(toPlatform[s]), Take(s, n),
             connected' = connected
      PROVE  toPlatform' \in [Services -> Seq(Message)] /\ Registering'
  <2> DEFINE t == SubSeq(toPlatform[s], n + 1, Len(toPlatform[s]))
  <2>1. /\ t \in Seq(Message)
        /\ \A k \in DOMAIN t : k + n \in DOMAIN toPlatform[s]
                               /\ t[k] = toPlatform[s][k + n]
    BY Taken
  <2>2. toPlatform' = [toPlatform EXCEPT ![s] = t]
    BY <1>3 DEF Take
  <2> HIDE DEF t
  <2> QED BY <1>3, <2>1, <2>2 DEF Registering
<1>4. ASSUME NEW s \in Services, Reads(s)
      PROVE  /\ 1 \in 1 .. Len(toPlatform[s]) /\ 1 \in DOMAIN toPlatform[s]
             /\ Head(toPlatform[s]) = toPlatform[s][1]
             /\ Head(toPlatform[s]) \in Message
  BY <1>4, HeadTaken DEF Reads
<1>5. ASSUME NEW s \in Services, Forwards(s)
      PROVE  /\ 1 \in 1 .. Len(toPlatform[s])
             /\ Head(toPlatform[s]) \in Message \ {RegisterSocket}
             /\ Head(toPlatform[s]).call \in Calls
  BY <1>4, <1>5, MessageFacts DEF Forwards
<1>6. ASSUME NEW q \in Seq(Message) PROVE CallsIn(q) \subseteq Calls
  <2>1. Elements(q) \subseteq Message
    BY DEF Elements
  <2> QED BY <2>1, MessageFacts DEF CallsIn
<1>7. ASSUME NEW s \in Services, Connect(s) PROVE TypeOK' /\ Registering'
  BY <1>2, <1>7, MessageFacts DEF Connect
<1>8. ASSUME NEW c \in Calls, send(c) PROVE TypeOK' /\ Registering'
  <2>1. Request(c) \in Message /\ Request(c) # RegisterSocket
    BY MessageFacts
  <2>2. toPlatform' \in [Services -> Seq(Message)] /\ Registering'
    BY <1>2, <1>8, <2>1 DEF send
  <2>3. made' \in [Services -> Seq(Calls)]
    BY <1>8 DEF send
  <2> QED BY <1>8, <2>2, <2>3 DEF send
<1>9. ASSUME NEW s \in Services, registerSocket(s) PROVE TypeOK' /\ Registering'
  <2>1. s \in connected
    BY <1>4, <1>9 DEF registerSocket, Registering
  <2>2. toPlatform' \in [Services -> Seq(Message)] /\ Registering'
    BY <1>3, <1>4, <1>9 DEF registerSocket
  <2> QED BY <1>9, <2>1, <2>2 DEF registerSocket
<1>10. ASSUME NEW s \in Services, ignore(s) PROVE TypeOK' /\ Registering'
  <2>1. toPlatform' \in [Services -> Seq(Message)] /\ Registering'
    BY <1>3, <1>5, <1>10 DEF ignore
  <2> QED BY <1>5, <1>10, <2>1 DEF ignore
<1>11. ASSUME NEW s \in Services, forward(s) PROVE TypeOK' /\ Registering'
  <2> DEFINE m == Head(toPlatform[s])
  <2>1. toPlatform' \in [Services -> Seq(Message)] /\ Registering'
    BY <1>3, <1>5, <1>11 DEF forward
  <2>2. m \in Message \ {RegisterSocket} /\ m.call \in Calls /\ To(m) \in Services
    BY <1>5, <1>11, Addressed DEF forward
  <2> HIDE DEF m
  <2>3. fromPlatform' \in [Services -> Seq(Message \ {RegisterSocket})]
    <3>1. Append(fromPlatform[To(m)], m) \in Seq(Message \ {RegisterSocket})
      BY <2>2
    <3> QED BY <1>11, <2>2, <3>1 DEF forward, Enqueued, m
  <2>4. lost' \subseteq Calls
    BY <1>11, <2>2 DEF forward, m
  <2> QED BY <1>11, <2>1, <2>3, <2>4 DEF forward
<1>12. ASSUME NEW s \in Services, forwardFails(s) PROVE TypeOK' /\ Registering'
  <2>1. PICK n \in 1 .. Len(toPlatform[s]) :
          /\ Take(s, n)
          /\ lost' = lost \union CallsIn(SubSeq(toPlatform[s], 1, n))
    BY <1>12 DEF forwardFails
  <2>2. toPlatform' \in [Services -> Seq(Message)] /\ Registering'
    BY <1>3, <1>12, <2>1 DEF forwardFails
  <2>3. SubSeq(toPlatform[s], 1, n) \in Seq(Message)
    OBVIOUS
  <2>4. lost' \subseteq Calls
    BY <1>6, <2>1, <2>3
  <2> QED BY <1>12, <2>2, <2>4 DEF forwardFails
<1>13. ASSUME NEW s \in Services, s \in alive, fromPlatform[s] # <<>>
       PROVE  /\ Head(fromPlatform[s]) \in Message \ {RegisterSocket}
              /\ Head(fromPlatform[s]).call \in Calls
              /\ Tail(fromPlatform[s]) \in Seq(Message \ {RegisterSocket})
  <2>1. /\ Head(fromPlatform[s]) \in Message \ {RegisterSocket}
        /\ Tail(fromPlatform[s]) \in Seq(Message \ {RegisterSocket})
    BY <1>13
  <2> QED BY <2>1, MessageFacts
<1>14. ASSUME NEW s \in Services, receiveRequest(s) PROVE TypeOK' /\ Registering'
  <2>1. Registering'
    BY <1>14 DEF receiveRequest, Receives, Registering
  <2>2. arrived' \in [Services -> Seq(Calls)]
    <3>1. Append(arrived[s], Head(fromPlatform[s]).call) \in Seq(Calls)
      BY <1>13, <1>14 DEF receiveRequest, Receives
    <3> QED BY <1>14, <3>1 DEF receiveRequest
  <2> QED BY <1>13, <1>14, <2>1, <2>2 DEF receiveRequest, Receives, ToRespond
<1>15. ASSUME NEW s \in Services, receiveResponse(s) PROVE TypeOK' /\ Registering'
  <2> DEFINE c == Head(fromPlatform[s]).call
  <2>1. Registering'
    BY <1>15 DEF receiveResponse, Receives, Registering
  <2>2. c \in Queries
    <3>1. Head(fromPlatform[s]).type = "response"
      BY <1>15 DEF receiveResponse, Receives
    <3> QED BY <1>13, <1>15, <3>1, MessageFacts DEF receiveResponse, Receives
  <2>3. fromPlatform' \in [Services -> Seq(Message \ {RegisterSocket})]
    BY <1>13, <1>15 DEF receiveResponse, Receives
  <2>4. result' \in [Queries -> SUBSET Queries] /\ answered' \subseteq Queries
    BY <1>15, <2>2 DEF receiveResponse
  <2> QED BY <1>15, <2>1, <2>3, <2>4 DEF receiveResponse, Receives
<1>16. ASSUME NEW c \in Queries, respondToQuery(c) PROVE TypeOK' /\ Registering'
  <2>1. Response(c) \in Message /\ Response(c) # RegisterSocket
        /\ Recipient[c] \in Services
    BY MessageFacts
  <2>2. toPlatform' \in [Services -> Seq(Message)] /\ Registering'
    BY <1>2, <1>16, <2>1 DEF respondToQuery
  <2> QED BY <1>16, <2>2 DEF respondToQuery, Handled
<1>17. ASSUME NEW s \in Services, Die(s) PROVE TypeOK' /\ Registering'
  <2>1. Registering'
    BY <1>17 DEF Die, Registering
  <2>2. CallsIn(fromPlatform[s]) \subseteq Calls
    <3>1. fromPlatform[s] \in Seq(Message)
      OBVIOUS
    <3> QED BY <1>6, <3>1
  <2>3. fromPlatform' \in [Services -> Seq(Message \ {RegisterSocket})]
    <3>1. <<>> \in Seq(Message \ {RegisterSocket})
      OBVIOUS
    <3> QED BY <1>17, <3>1 DEF Die
  <2> QED BY <1>17, <2>1, <2>2, <2>3 DEF Die
<1>18. CASE quit
  <2>1. toPlatform' \in [Services -> Seq(Message)]
    BY <1>1, <1>18 DEF quit, Empty
  <2>2. Registering'
    BY <1>18 DEF quit, Empty, Registering
  <2>3. alive' \subseteq Services /\ platformUp' \in BOOLEAN
    BY <1>18 DEF quit
  <2> QED BY <1>18, <2>1, <2>2, <2>3 DEF quit
<1>19. CASE UNCHANGED vars
  BY <1>19 DEF vars, Registering
<1> QED
  BY <1>7, <1>8, <1>9, <1>10, <1>11, <1>12, <1>14, <1>15, <1>16, <1>17, <1>18,
     <1>19 DEF Next

(* Every variable keeps its type: in particular a message in a wire is one *)
(* a service may send, and only services that connected have a socket.     *)
THEOREM TypeInvariant == Spec => [](TypeOK /\ Registering)
  BY TypesInit, TypesStep, PTL DEF Spec
-----------------------------------------------------------------------------
(* The order of the messages.  The calls of a service that left its wire   *)
(* were made before those still in it, those that arrived before those on  *)
(* their way to the same service, and each wire keeps the order.           *)
RequestsIn(q) == {c \in Calls : \E k \in DOMAIN q : q[k] = Request(c)}

Ahead(M, a, b) == Home[a] = Home[b] => Before(a, b, M[Home[a]])

Sorted(M, q) ==
  \A a, b \in Calls : \A j, k \in DOMAIN q :
    j < k /\ q[j] = Request(a) /\ q[k] = Request(b) => Ahead(M, a, b)

Left(r) == RequestsIn(fromPlatform[r]) \union Elements(arrived[r])

Fifo ==
  /\ \A s \in Services : \A c \in RequestsIn(toPlatform[s]) :
       Home[c] = s /\ c \in Elements(made[s])
  /\ \A r \in Services : \A c \in Left(r) : c \in Elements(made[Home[c]])
  /\ \A s \in Services : Sorted(made, toPlatform[s]) /\ Sorted(made, fromPlatform[s])
  /\ \A s, r \in Services : \A a \in Left(r) : \A b \in RequestsIn(toPlatform[s]) :
       Ahead(made, a, b)
  /\ \A r \in Services : \A a \in Elements(arrived[r]) :
       \A b \in RequestsIn(fromPlatform[r]) : Ahead(made, a, b)
  /\ InOrder

(* Answers find the service that made the query.                           *)
ResponsesIn(q) == {c \in Queries : \E k \in DOMAIN q : q[k] = Response(c)}

Answering ==
  /\ \A s \in Services : ResponsesIn(toPlatform[s]) \subseteq Made
  /\ \A s \in Services : \A c \in ResponsesIn(fromPlatform[s]) :
       c \in Made /\ Home[c] = s
  /\ handling \subseteq Made
  /\ AnswerResolves

-----------------------------------------------------------------------------
(* Where calls are.                                                        *)
About(m, c) == m = Request(c) \/ m = Response(c)

Carries(w, c) == \E s \in Services : \E k \in DOMAIN w[s] : About(w[s][k], c)

Once(w, c) ==
  \A s, r \in Services : \A j \in DOMAIN w[s], k \in DOMAIN w[r] :
    About(w[s][j], c) /\ About(w[r][k], c) => s = r /\ j = k

Ended(c) == IF c \in Queries THEN c \in answered
           ELSE \E s \in Services : c \in Elements(arrived[s])

Somewhere(c) ==
  \/ Carries(toPlatform, c) \/ Carries(fromPlatform, c)
  \/ c \in handling \/ c \in ignored \/ c \in lost \/ Ended(c)

Alone(c) ==
  /\ Once(toPlatform, c) /\ Once(fromPlatform, c)
  /\ Carries(toPlatform, c) => /\ ~Carries(fromPlatform, c) /\ ~Ended(c)
                               /\ c \notin handling \union ignored \union lost
  /\ Carries(fromPlatform, c) => /\ ~Ended(c)
                                 /\ c \notin handling \union ignored \union lost
  /\ c \in handling => ~Ended(c) /\ c \notin ignored \union lost
  /\ c \in ignored => ~Ended(c) /\ c \notin lost
  /\ c \in lost => ~Ended(c)

OnePlace ==
  platformUp => \A c \in Calls : Alone(c) /\ (Somewhere(c) <=> c \in Made)

-----------------------------------------------------------------------------
(* The requests of a queue, its responses and its order, when a message is *)
(* appended to it and when its first n messages are taken.                 *)
LEMMA QueueAppended ==
  ASSUME NEW q \in Seq(Message), NEW m \in Message, NEW M
  PROVE  LET t == Append(q, m)
         IN  /\ RequestsIn(t) = RequestsIn(q) \union {c \in Calls : m = Request(c)}
             /\ ResponsesIn(t) = ResponsesIn(q) \union {c \in Queries : m = Response(c)}
             /\ Sorted(M, q) /\ (\A a \in RequestsIn(q) : \A c \in Calls :
                                   m = Request(c) => Ahead(M, a, c))
                  => Sorted(M, t)
<1> DEFINE t == Append(q, m)
<1>1. /\ t \in Seq(Message) /\ Len(q) + 1 \in DOMAIN t /\ t[Len(q) + 1] = m
      /\ \A k \in DOMAIN q : /\ k \in DOMAIN t /\ t[k] = q[k]
                             /\ k \in Nat /\ k < Len(q) + 1
      /\ \A k \in DOMAIN t : k \in DOMAIN q \/ k = Len(q) + 1
      /\ Len(q) \in Nat
  BY Appended
<1> HIDE DEF t
<1>2. RequestsIn(t) = RequestsIn(q) \union {c \in Calls : m = Request(c)}
  BY <1>1 DEF RequestsIn
<1>3. ResponsesIn(t) = ResponsesIn(q) \union {c \in Queries : m = Response(c)}
  BY <1>1 DEF ResponsesIn
<1>4. ASSUME Sorted(M, q), \A a \in RequestsIn(q) : \A c \in Calls :
                             m = Request(c) => Ahead(M, a, c)
      PROVE  Sorted(M, t)
  <2> SUFFICES ASSUME NEW a \in Calls, NEW b \in Calls,
                      NEW j \in DOMAIN t, NEW k \in DOMAIN t,
                      j < k, t[j] = Request(a), t[k] = Request(b)
               PROVE  Ahead(M, a, b)
    BY DEF Sorted
  <2>1. CASE k \in DOMAIN q
    <3>1. j \in DOMAIN q
      BY <1>1, <2>1
    <3> QED BY <1>1, <1>4, <2>1, <3>1 DEF Sorted
  <2>2. CASE k = Len(q) + 1
    <3>1. j \in DOMAIN q
      BY <1>1, <2>2
    <3>2. m = Request(b) /\ a \in RequestsIn(q)
      BY <1>1, <2>2, <3>1 DEF RequestsIn
    <3> QED BY <1>4, <3>2
  <2> QED BY <1>1, <2>1, <2>2
<1> QED BY <1>2, <1>3, <1>4 DEF t

LEMMA QueueTaken ==
  ASSUME NEW q \in Seq(Message), NEW n \in 1 .. Len(q), NEW M
  PROVE  LET t == SubSeq(q, n + 1, Len(q))
         IN  /\ RequestsIn(t) \subseteq RequestsIn(q)
             /\ ResponsesIn(t) \subseteq ResponsesIn(q)
             /\ Sorted(M, q) => Sorted(M, t)
             /\ Sorted(M, q) => \A a \in Calls : \A b \in RequestsIn(t) :
                                  q[1] = Request(a) => Ahead(M, a, b)
<1> DEFINE t == SubSeq(q, n + 1, Len(q))
<1>1. /\ n \in Nat /\ n > 0 /\ 1 \in DOMAIN q
      /\ \A k \in DOMAIN t : k \in Nat /\ k > 0 /\ k + n \in DOMAIN q
                             /\ t[k] = q[k + n]
  BY Taken
<1> HIDE DEF t
<1>2. RequestsIn(t) \subseteq RequestsIn(q)
  BY <1>1 DEF RequestsIn
<1>3. ResponsesIn(t) \subseteq ResponsesIn(q)
  BY <1>1 DEF ResponsesIn
<1>4. ASSUME Sorted(M, q) PROVE Sorted(M, t)
  <2> SUFFICES ASSUME NEW a \in Calls, NEW b \in Calls,
                      NEW j \in DOMAIN t, NEW k \in DOMAIN t,
                      j < k, t[j] = Request(a), t[k] = Request(b)
               PROVE  Ahead(M, a, b)
    BY DEF Sorted
  <2>1. j + n \in DOMAIN q /\ k + n \in DOMAIN q /\ j + n < k + n
        /\ q[j + n] = Request(a) /\ q[k + n] = Request(b)
    BY <1>1
  <2> QED BY <1>4, <2>1 DEF Sorted
<1>5. ASSUME Sorted(M, q), NEW a \in Calls, NEW b \in RequestsIn(t), q[1] = Request(a)
      PROVE  Ahead(M, a, b)
  <2>1. b \in Calls /\ \E k \in DOMAIN t : t[k] = Request(b)
    BY DEF RequestsIn
  <2>2. PICK k \in DOMAIN t : t[k] = Request(b)
    BY <2>1
  <2>3. k + n \in DOMAIN q /\ 1 < k + n /\ q[k + n] = Request(b)
    BY <1>1, <2>2
  <2> QED BY <1>1, <1>5, <2>1, <2>3 DEF Sorted
<1> QED BY <1>2, <1>3, <1>4, <1>5 DEF t

LEMMA QueueEmpty ==
  \A M : RequestsIn(<<>>) = {} /\ ResponsesIn(<<>>) = {} /\ Sorted(M, <<>>)
  BY DEF RequestsIn, ResponsesIn, Sorted

(* A request is no response, and neither is the message of a socket.       *)
LEMMA Distinct ==
  /\ \A c, d : /\ Request(c) # Response(d)
               /\ Request(c) # RegisterSocket /\ Response(c) # RegisterSocket
               /\ Request(c) = Request(d) => c = d
               /\ Response(c) = Response(d) => c = d
<1>1. \A c : /\ Request(c).type = "request" /\ Request(c).call = c
             /\ Response(c).type = "response" /\ Response(c).call = c
             /\ RegisterSocket.type = "register-socket"
  BY DEF Request, Response, RegisterSocket
<1> QED BY <1>1

-----------------------------------------------------------------------------
(* Order is kept when a wire loses messages or gains one that is no        *)
(* request, as it is by every step but the three of a request.             *)
LEMMA FifoKept ==
  ASSUME Fifo, made' = made, arrived' = arrived,
         \A s \in Services :
           /\ RequestsIn(toPlatform'[s]) \subseteq RequestsIn(toPlatform[s])
           /\ RequestsIn(fromPlatform'[s]) \subseteq RequestsIn(fromPlatform[s])
           /\ Sorted(made, toPlatform'[s]) /\ Sorted(made, fromPlatform'[s])
  PROVE  Fifo'
<1>1. InOrder'
  BY DEF Fifo, InOrder
<1>2. \A r \in Services : Left(r)' \subseteq Left(r)
  BY DEF Left
<1>3. \A s \in Services : \A c \in RequestsIn(toPlatform'[s]) :
        Home[c] = s /\ c \in Elements(made'[s])
  BY DEF Fifo
<1>4. \A r \in Services : \A c \in Left(r)' : c \in Elements(made'[Home[c]])
  BY <1>2 DEF Fifo
<1>5. \A s, r \in Services : \A a \in Left(r)' : \A b \in RequestsIn(toPlatform'[s]) :
        Ahead(made', a, b)
  BY <1>2 DEF Fifo
<1>6. \A r \in Services : \A a \in Elements(arrived'[r]) :
        \A b \in RequestsIn(fromPlatform'[r]) : Ahead(made', a, b)
  BY DEF Fifo
<1> QED BY <1>1, <1>3, <1>4, <1>5, <1>6 DEF Fifo

(* A call is made after those its service made before.                     *)
LEMMA MadeGrows ==
  ASSUME TypeOK, NEW c \in Calls, made' = [made EXCEPT ![Home[c]] = Append(@, c)]
  PROVE  /\ \A s \in Services : Elements(made[s]) \subseteq Elements(made'[s])
         /\ c \in Elements(made'[Home[c]])
         /\ \A a \in Elements(made[Home[c]]) : Ahead(made', a, c)
         /\ \A a, b \in Calls : Ahead(made, a, b) => Ahead(made', a, b)
<1> DEFINE h == Home[c]  q == made[h]  t == Append(q, c)
<1>1. h \in Services /\ q \in Seq(Calls) /\ made' = [made EXCEPT ![h] = t]
  BY MessagingAssumption DEF TypeOK
<1>2. /\ t \in Seq(Calls) /\ Len(q) + 1 \in DOMAIN t /\ t[Len(q) + 1] = c
      /\ \A k \in DOMAIN q : /\ k \in DOMAIN t /\ t[k] = q[k]
                             /\ k \in Nat /\ k < Len(q) + 1
  BY <1>1, Appended
<1>3. made'[h] = t /\ \A s \in Services \ {h} : made'[s] = made[s]
  BY <1>1 DEF TypeOK
<1> HIDE DEF t
<1>4. \A s \in Services : Elements(made[s]) \subseteq Elements(made'[s])
  BY <1>2, <1>3 DEF Elements
<1>5. c \in Elements(made'[h])
  BY <1>2, <1>3 DEF Elements
<1>6. ASSUME NEW a \in Elements(q) PROVE Ahead(made', a, c)
  BY <1>2, <1>3 DEF Elements, Ahead, Before
<1>7. ASSUME NEW a \in Calls, NEW b \in Calls, Ahead(made, a, b)
      PROVE  Ahead(made', a, b)
  <2>1. CASE Home[a] = h
    <3> SUFFICES ASSUME Home[a] = Home[b] PROVE Before(a, b, t)
      BY <1>3, <2>1, <1>1 DEF Ahead
    <3>1. Before(a, b, q)
      BY <1>7, <2>1 DEF Ahead
    <3>2. PICK j \in DOMAIN q, k \in DOMAIN q : j < k /\ q[j] = a /\ q[k] = b
      BY <3>1 DEF Before
    <3> HIDE DEF q
    <3>3. j \in DOMAIN t /\ k \in DOMAIN t /\ t[j] = a /\ t[k] = b
      BY <1>2, <3>2
    <3> QED BY <3>2, <3>3 DEF Before
  <2>2. CASE Home[a] # h
    BY <1>3, <1>7, <2>2, MessagingAssumption DEF Ahead
  <2> QED BY <2>1, <2>2
<1> QED BY <1>4, <1>5, <1>6, <1>7

LEMMA FifoSend ==
  ASSUME TypeOK, Fifo, NEW c \in Calls, send(c)
  PROVE  Fifo'
<1> DEFINE h == Home[c]
<1>1. /\ h \in Services
      /\ made' = [made EXCEPT ![h] = Append(@, c)]
      /\ toPlatform' = [toPlatform EXCEPT ![h] = Append(toPlatform[h], Request(c))]
      /\ fromPlatform' = fromPlatform /\ arrived' = arrived
  BY MessagingAssumption DEF send, Emit
<1>2. /\ \A s \in Services : Elements(made[s]) \subseteq Elements(made'[s])
      /\ c \in Elements(made'[h])
      /\ \A a \in Elements(made[h]) : Ahead(made', a, c)
      /\ \A a, b \in Calls : Ahead(made, a, b) => Ahead(made', a, b)
  BY <1>1, MadeGrows
<1>3. \A q : Sorted(made, q) => Sorted(made', q)
  BY <1>2 DEF Sorted
<1>4. /\ toPlatform[h] \in Seq(Message) /\ toPlatform \in [Services -> Seq(Message)]
      /\ Request(c) \in Message
  BY <1>1, MessageFacts DEF TypeOK
<1>5. {d \in Calls : Request(c) = Request(d)} = {c}
  BY Distinct
<1>6. /\ RequestsIn(toPlatform'[h]) = RequestsIn(toPlatform[h]) \union {c}
      /\ Sorted(made', toPlatform[h])
           /\ (\A a \in RequestsIn(toPlatform[h]) : Ahead(made', a, c))
           => Sorted(made', toPlatform'[h])
  <2>1. toPlatform'[h] = Append(toPlatform[h], Request(c))
    BY <1>1, <1>4
  <2> DEFINE q == toPlatform[h]  m == Request(c)
  <2>2. /\ RequestsIn(Append(q, m)) = RequestsIn(q) \union {d \in Calls : m = Request(d)}
        /\ Sorted(made', q) /\ (\A a \in RequestsIn(q) : \A d \in Calls :
                                m = Request(d) => Ahead(made', a, d))
             => Sorted(made', Append(q, m))
    BY <1>4, QueueAppended
  <2> QED BY <1>5, <2>1, <2>2
<1>7. \A s \in Services \ {h} : toPlatform'[s] = toPlatform[s]
  BY <1>1, <1>4
<1> HIDE DEF h
<1>8. \A r \in Services : Left(r)' = Left(r) /\ Left(r) \subseteq Calls
  BY <1>1 DEF Left, TypeOK, RequestsIn, Elements
<1>9. \A s \in Services : \A d \in RequestsIn(toPlatform'[s]) :
        Home[d] = s /\ d \in Elements(made'[s])
  BY <1>2, <1>6, <1>7 DEF Fifo, h
<1>10. \A r \in Services : \A d \in Left(r)' : d \in Elements(made'[Home[d]])
  BY <1>2, <1>8, MessagingAssumption DEF Fifo
<1>11. \A s \in Services : Sorted(made', toPlatform'[s]) /\ Sorted(made', fromPlatform'[s])
  BY <1>1, <1>2, <1>3, <1>6, <1>7 DEF Fifo
<1>12. \A s, r \in Services : \A a \in Left(r)' : \A b \in RequestsIn(toPlatform'[s]) :
         Ahead(made', a, b)
  <2> SUFFICES ASSUME NEW s \in Services, NEW r \in Services, NEW a \in Left(r),
                      NEW b \in RequestsIn(toPlatform'[s])
               PROVE  Ahead(made', a, b)
    BY <1>8
  <2>1. a \in Calls /\ b \in Calls /\ a \in Elements(made[Home[a]])
    BY <1>8 DEF Fifo, RequestsIn
  <2>2. CASE b \in RequestsIn(toPlatform[s])
    BY <1>2, <2>1, <2>2 DEF Fifo
  <2>3. CASE b = c
    BY <1>2, <2>1, <2>3 DEF Ahead, h
  <2> QED BY <1>6, <1>7, <2>2, <2>3
<1>13. \A r \in Services : \A a \in Elements(arrived'[r]) :
         \A b \in RequestsIn(fromPlatform'[r]) : Ahead(made', a, b)
  <2>1. \A r \in Services : RequestsIn(fromPlatform[r]) \subseteq Calls
    BY DEF RequestsIn
  <2> QED BY <1>1, <1>2, <1>8, <2>1 DEF Fifo, Left
<1>14. InOrder'
  <2> SUFFICES ASSUME NEW s \in Services, NEW j \in DOMAIN arrived[s],
                      NEW k \in DOMAIN arrived[s], j < k
               PROVE  Ahead(made', arrived[s][j], arrived[s][k])
    BY <1>1 DEF InOrder, Ahead
  <2>1. Ahead(made, arrived[s][j], arrived[s][k])
    BY DEF Fifo, InOrder, Ahead
  <2> QED BY <1>2, <2>1 DEF TypeOK
<1> QED BY <1>9, <1>10, <1>11, <1>12, <1>13, <1>14 DEF Fifo

-----------------------------------------------------------------------------
(* What the steps on the wires do to the requests and responses in them.   *)
LEMMA TakenOff ==
  ASSUME TypeOK, NEW s \in Services, NEW n \in 1 .. Len(toPlatform[s]), Take(s, n)
  PROVE  /\ \A r \in Services :
              /\ RequestsIn(toPlatform'[r]) \subseteq RequestsIn(toPlatform[r])
              /\ ResponsesIn(toPlatform'[r]) \subseteq ResponsesIn(toPlatform[r])
              /\ Sorted(made, toPlatform[r]) => Sorted(made, toPlatform'[r])
         /\ Sorted(made, toPlatform[s]) =>
              \A a \in Calls : \A b \in RequestsIn(toPlatform'[s]) :
                toPlatform[s][1] = Request(a) => Ahead(made, a, b)
<1>1. toPlatform \in [Services -> Seq(Message)] /\ toPlatform[s] \in Seq(Message)
  BY DEF TypeOK
<1>2. toPlatform'[s] = SubSeq(toPlatform[s], n + 1, Len(toPlatform[s]))
      /\ \A r \in Services \ {s} : toPlatform'[r] = toPlatform[r]
  BY <1>1 DEF Take
<1> QED BY <1>1, <1>2, QueueTaken

LEMMA Emitted ==
  ASSUME TypeOK, NEW s \in Services, NEW m \in Message, Emit(s, m),
         \A c \in Calls : m # Request(c)
  PROVE  \A r \in Services :
           /\ RequestsIn(toPlatform'[r]) = RequestsIn(toPlatform[r])
           /\ \A c \in ResponsesIn(toPlatform'[r]) :
                c \in ResponsesIn(toPlatform[r]) \/ m = Response(c)
           /\ Sorted(made, toPlatform[r]) => Sorted(made, toPlatform'[r])
<1>1. toPlatform \in [Services -> Seq(Message)] /\ toPlatform[s] \in Seq(Message)
  BY DEF TypeOK
<1>2. toPlatform'[s] = Append(toPlatform[s], m)
      /\ \A r \in Services \ {s} : toPlatform'[r] = toPlatform[r]
  BY <1>1 DEF Emit
<1> DEFINE q == toPlatform[s]
<1>3. /\ RequestsIn(Append(q, m)) = RequestsIn(q) \union {c \in Calls : m = Request(c)}
      /\ ResponsesIn(Append(q, m))
           = ResponsesIn(q) \union {c \in Queries : m = Response(c)}
      /\ Sorted(made, q) /\ (\A a \in RequestsIn(q) : \A c \in Calls :
                               m = Request(c) => Ahead(made, a, c))
           => Sorted(made, Append(q, m))
  BY <1>1, QueueAppended
<1> QED BY <1>2, <1>3

LEMMA Received ==
  ASSUME TypeOK, NEW s \in Services, NEW type, Receives(s, type)
  PROVE  LET m == Head(fromPlatform[s])
         IN  /\ m \in Message \ {RegisterSocket} /\ m.type = type
             /\ m = fromPlatform[s][1] /\ 1 \in DOMAIN fromPlatform[s]
             /\ 1 \in 1 .. Len(fromPlatform[s])
             /\ fromPlatform' = [fromPlatform EXCEPT
                   ![s] = SubSeq(fromPlatform[s], 2, Len(fromPlatform[s]))]
             /\ type = "request" => m = Request(m.call) /\ m.call \in Calls
             /\ type = "response" => m = Response(m.call) /\ m.call \in Queries
             /\ \A r \in Services :
                  /\ RequestsIn(fromPlatform'[r]) \subseteq RequestsIn(fromPlatform[r])
                  /\ ResponsesIn(fromPlatform'[r]) \subseteq ResponsesIn(fromPlatform[r])
                  /\ Sorted(made, fromPlatform[r]) => Sorted(made, fromPlatform'[r])
             /\ Sorted(made, fromPlatform[s]) =>
                  \A a \in Calls : \A b \in RequestsIn(fromPlatform'[s]) :
                    m = Request(a) => Ahead(made, a, b)
<1> DEFINE q == fromPlatform[s]
<1>1. /\ fromPlatform \in [Services -> Seq(Message \ {RegisterSocket})]
      /\ q \in Seq(Message \ {RegisterSocket}) /\ q \in Seq(Message)
  BY DEF TypeOK
<1>2. q # <<>> /\ Head(q).type = type
  BY DEF Receives
<1>3. /\ Head(q) \in Message \ {RegisterSocket} /\ Tail(q) = SubSeq(q, 2, Len(q))
      /\ 1 \in 1 .. Len(q) /\ 1 \in DOMAIN q /\ Head(q) = q[1]
  BY <1>1, <1>2, HeadTaken
<1>4. fromPlatform' = [fromPlatform EXCEPT ![s] = SubSeq(q, 2, Len(q))]
  BY <1>3 DEF Receives
<1>5. fromPlatform'[s] = SubSeq(q, 2, Len(q))
      /\ \A r \in Services \ {s} : fromPlatform'[r] = fromPlatform[r]
  BY <1>1, <1>4
<1>6. /\ type = "request" => Head(q) = Request(Head(q).call) /\ Head(q).call \in Calls
      /\ type = "response" => /\ Head(q) = Response(Head(q).call)
                              /\ Head(q).call \in Queries
  BY <1>2, <1>3, MessageFacts
<1> DEFINE t == SubSeq(q, 1 + 1, Len(q))
<1>7. /\ RequestsIn(t) \subseteq RequestsIn(q)
      /\ ResponsesIn(t) \subseteq ResponsesIn(q)
      /\ Sorted(made, q) => Sorted(made, t)
      /\ Sorted(made, q) => \A a \in Calls : \A b \in RequestsIn(t) :
                              q[1] = Request(a) => Ahead(made, a, b)
  BY <1>1, <1>3, QueueTaken
<1>8. t = fromPlatform'[s]
  BY <1>5
<1> HIDE DEF t
<1> QED BY <1>2, <1>3, <1>4, <1>5, <1>6, <1>7, <1>8

LEMMA TakesHead ==
  ASSUME TypeOK, NEW s \in Services, Forwards(s)
  PROVE  LET m == Head(toPlatform[s])
         IN  /\ m \in Message \ {RegisterSocket} /\ m = toPlatform[s][1]
             /\ 1 \in 1 .. Len(toPlatform[s]) /\ 1 \in DOMAIN toPlatform[s]
             /\ m.call \in Calls
             /\ m = Request(m.call) \/ (m = Response(m.call) /\ m.call \in Queries)
<1>1. toPlatform[s] \in Seq(Message) /\ toPlatform[s] # <<>>
  BY DEF TypeOK, Forwards, Reads
<1> DEFINE q == toPlatform[s]
<1>2. /\ Head(q) \in Message /\ Head(q) = q[1] /\ 1 \in 1 .. Len(q) /\ 1 \in DOMAIN q
  BY <1>1, HeadTaken
<1> DEFINE m == Head(q)
<1>3. m \in Message \ {RegisterSocket}
  BY <1>2 DEF Forwards
<1> HIDE DEF m
<1>4. /\ m.call \in Calls
      /\ m = Request(m.call) \/ (m = Response(m.call) /\ m.call \in Queries)
  BY <1>3, MessageFacts
<1> QED BY <1>2, <1>3, <1>4 DEF m

(* A request that is forwarded is queued behind those sent before it.      *)
LEMMA FifoForward ==
  ASSUME TypeOK, Fifo, NEW s \in Services, forward(s)
  PROVE  Fifo'
<1> DEFINE m == Head(toPlatform[s])  r == To(m)  c == m.call
<1>1. /\ m \in Message \ {RegisterSocket} /\ m = toPlatform[s][1]
      /\ 1 \in 1 .. Len(toPlatform[s]) /\ 1 \in DOMAIN toPlatform[s]
      /\ c \in Calls
      /\ m = Request(c) \/ (m = Response(c) /\ c \in Queries)
  BY TakesHead DEF forward
<1>2. r \in Services
  BY <1>1, Addressed DEF forward
<1>3. /\ Take(s, 1) /\ arrived' = arrived /\ made' = made
      /\ \/ fromPlatform' = fromPlatform
         \/ fromPlatform' = [fromPlatform EXCEPT ![r] = Append(fromPlatform[r], m)]
  BY DEF forward, Enqueued
<1>4. /\ \A t \in Services :
           /\ RequestsIn(toPlatform'[t]) \subseteq RequestsIn(toPlatform[t])
           /\ Sorted(made, toPlatform'[t])
      /\ \A a \in Calls : \A b \in RequestsIn(toPlatform'[s]) :
           toPlatform[s][1] = Request(a) => Ahead(made, a, b)
  BY <1>1, <1>3, TakenOff DEF Fifo
<1>5. /\ fromPlatform \in [Services -> Seq(Message \ {RegisterSocket})]
      /\ fromPlatform[r] \in Seq(Message)
  BY <1>2 DEF TypeOK
<1> HIDE DEF m, r, c
<1>6. /\ RequestsIn(Append(fromPlatform[r], m))
           = RequestsIn(fromPlatform[r]) \union {d \in Calls : m = Request(d)}
      /\ Sorted(made, fromPlatform[r]) /\ (\A a \in RequestsIn(fromPlatform[r]) :
             \A d \in Calls : m = Request(d) => Ahead(made, a, d))
           => Sorted(made, Append(fromPlatform[r], m))
  BY <1>1, <1>5, QueueAppended
<1>7. CASE fromPlatform' = fromPlatform
  BY <1>3, <1>4, <1>7, FifoKept DEF Fifo
<1>8. CASE /\ fromPlatform' = [fromPlatform EXCEPT ![r] = Append(fromPlatform[r], m)]
           /\ m = Response(c)
  <2>1. /\ fromPlatform'[r] = Append(fromPlatform[r], m)
        /\ \A t \in Services \ {r} : fromPlatform'[t] = fromPlatform[t]
    BY <1>2, <1>5, <1>8
  <2>2. RequestsIn(fromPlatform'[r]) = RequestsIn(fromPlatform[r])
        /\ Sorted(made, fromPlatform'[r])
    <3>1. {d \in Calls : m = Request(d)} = {}
      BY <1>8, Distinct
    <3>2. RequestsIn(fromPlatform'[r]) = RequestsIn(fromPlatform[r])
      BY <1>6, <2>1, <3>1
    <3>3. Sorted(made, fromPlatform[r])
      BY <1>2 DEF Fifo
    <3> QED BY <1>6, <2>1, <3>1, <3>2, <3>3
  <2> QED BY <1>3, <1>4, <2>1, <2>2, FifoKept DEF Fifo
<1>9. CASE /\ fromPlatform' = [fromPlatform EXCEPT ![r] = Append(fromPlatform[r], m)]
           /\ m = Request(c)
  <2>1. /\ fromPlatform'[r] = Append(fromPlatform[r], m)
        /\ \A t \in Services \ {r} : fromPlatform'[t] = fromPlatform[t]
    BY <1>2, <1>5, <1>9
  <2>2. c \in RequestsIn(toPlatform[s]) /\ Home[c] = s /\ c \in Elements(made[s])
    BY <1>1, <1>9 DEF RequestsIn, Fifo
  <2>3. \A t \in Services : \A a \in Left(t) : Ahead(made, a, c)
    BY <2>2 DEF Fifo
  <2>4. {d \in Calls : m = Request(d)} = {c}
    BY <1>1, <1>9, Distinct
  <2>5. RequestsIn(fromPlatform'[r]) = RequestsIn(fromPlatform[r]) \union {c}
    BY <1>6, <2>1, <2>4
  <2>6. Sorted(made, fromPlatform'[r])
    BY <1>2, <1>6, <2>1, <2>3, <2>4 DEF Fifo, Left
  <2>7. \A t \in Services : Left(t)' \subseteq Left(t) \union {c}
    BY <1>3, <2>1, <2>5 DEF Left
  <2>8. \A t \in Services : \A b \in RequestsIn(toPlatform'[t]) : Ahead(made, c, b)
    <3>1. \A b \in RequestsIn(toPlatform'[s]) : Ahead(made, c, b)
      BY <1>1, <1>4, <1>9
    <3>2. \A t \in Services \ {s} : \A b \in RequestsIn(toPlatform'[t]) : Home[b] # s
      BY <1>4 DEF Fifo
    <3> QED BY <2>2, <3>1, <3>2 DEF Ahead
  <2>9. \A t \in Services : \A d \in RequestsIn(toPlatform'[t]) :
          Home[d] = t /\ d \in Elements(made'[t])
    BY <1>3, <1>4 DEF Fifo
  <2>10. \A t \in Services : \A d \in Left(t)' : d \in Elements(made'[Home[d]])
    BY <1>3, <2>2, <2>7 DEF Fifo
  <2>11. \A t \in Services : Sorted(made', toPlatform'[t]) /\ Sorted(made', fromPlatform'[t])
    BY <1>3, <1>4, <2>1, <2>6 DEF Fifo
  <2>12. \A t, u \in Services : \A a \in Left(u)' : \A b \in RequestsIn(toPlatform'[t]) :
           Ahead(made', a, b)
    <3>1. \A t, u \in Services : \A a \in Left(u) : \A b \in RequestsIn(toPlatform'[t]) :
            Ahead(made, a, b)
      BY <1>4 DEF Fifo
    <3> QED BY <1>3, <2>7, <2>8, <3>1
  <2>13. \A t \in Services : \A a \in Elements(arrived'[t]) :
           \A b \in RequestsIn(fromPlatform'[t]) : Ahead(made', a, b)
    <3>1. \A t \in Services : \A a \in Elements(arrived[t]) : Ahead(made, a, c)
      BY <2>3 DEF Left
    <3>2. \A t \in Services :
            RequestsIn(fromPlatform'[t]) \subseteq RequestsIn(fromPlatform[t]) \union {c}
      BY <2>1, <2>5
    <3>3. \A t \in Services : \A a \in Elements(arrived[t]) :
            \A b \in RequestsIn(fromPlatform[t]) : Ahead(made, a, b)
      BY DEF Fifo
    <3> QED BY <1>3, <3>1, <3>2, <3>3
  <2>14. InOrder'
    BY <1>3 DEF Fifo, InOrder
  <2> QED BY <2>9, <2>10, <2>11, <2>12, <2>13, <2>14 DEF Fifo
<1> QED BY <1>1, <1>3, <1>7, <1>8, <1>9

(* A request that arrives is the first of the wire.                        *)
LEMMA FifoReceive ==
  ASSUME TypeOK, Fifo, NEW s \in Services, receiveRequest(s)
  PROVE  Fifo'
<1> DEFINE c == Head(fromPlatform[s]).call
<1>1. /\ Head(fromPlatform[s]) = Request(c) /\ c \in Calls
      /\ Head(fromPlatform[s]) = fromPlatform[s][1] /\ 1 \in DOMAIN fromPlatform[s]
      /\ \A r \in Services :
           /\ RequestsIn(fromPlatform'[r]) \subseteq RequestsIn(fromPlatform[r])
           /\ Sorted(made, fromPlatform'[r])
      /\ \A a \in Calls : \A b \in RequestsIn(fromPlatform'[s]) :
           Head(fromPlatform[s]) = Request(a) => Ahead(made, a, b)
  BY Received DEF receiveRequest, Fifo
<1>2. /\ made' = made /\ toPlatform' = toPlatform
      /\ arrived' = [arrived EXCEPT ![s] = Append(arrived[s], c)]
  BY DEF receiveRequest, Receives
<1> HIDE DEF c
<1>3. c \in RequestsIn(fromPlatform[s])
  BY <1>1 DEF RequestsIn
<1>4. arrived \in [Services -> Seq(Calls)] /\ arrived[s] \in Seq(Calls)
  BY DEF TypeOK
<1> DEFINE q == arrived[s]  t == Append(q, c)
<1>5. /\ t \in Seq(Calls) /\ Len(q) + 1 \in DOMAIN t /\ t[Len(q) + 1] = c
      /\ \A k \in DOMAIN q : /\ k \in DOMAIN t /\ t[k] = q[k]
                             /\ k \in Nat /\ k < Len(q) + 1
      /\ \A k \in DOMAIN t : k \in DOMAIN q \/ k = Len(q) + 1
      /\ Len(q) \in Nat
  BY <1>1, <1>4, Appended
<1>6. arrived'[s] = t /\ \A r \in Services \ {s} : arrived'[r] = arrived[r]
  BY <1>2, <1>4
<1> HIDE DEF t
<1>7. Elements(t) = Elements(q) \union {c}
  BY <1>5 DEF Elements
<1>8. \A r \in Services : Left(r)' \subseteq Left(r)
  BY <1>1, <1>3, <1>6, <1>7 DEF Left
<1>9. \A r \in Services : \A d \in RequestsIn(toPlatform'[r]) :
        Home[d] = r /\ d \in Elements(made'[r])
  BY <1>2 DEF Fifo
<1>10. \A r \in Services : \A d \in Left(r)' : d \in Elements(made'[Home[d]])
  BY <1>2, <1>8 DEF Fifo
<1>11. \A r \in Services : Sorted(made', toPlatform'[r]) /\ Sorted(made', fromPlatform'[r])
  BY <1>1, <1>2 DEF Fifo
<1>12. \A u, r \in Services : \A a \in Left(r)' : \A b \in RequestsIn(toPlatform'[u]) :
         Ahead(made', a, b)
  BY <1>2, <1>8 DEF Fifo
<1>13. \A r \in Services : \A a \in Elements(arrived'[r]) :
         \A b \in RequestsIn(fromPlatform'[r]) : Ahead(made', a, b)
  <2>1. \A r \in Services : \A a \in Elements(arrived[r]) :
          \A b \in RequestsIn(fromPlatform[r]) : Ahead(made, a, b)
    BY DEF Fifo
  <2>2. \A b \in RequestsIn(fromPlatform'[s]) : Ahead(made, c, b)
    BY <1>1
  <2> QED BY <1>1, <1>2, <1>6, <1>7, <2>1, <2>2
<1>14. InOrder'
  <2> SUFFICES ASSUME NEW r \in Services, NEW j \in DOMAIN arrived'[r],
                      NEW k \in DOMAIN arrived'[r], j < k
               PROVE  Ahead(made, arrived'[r][j], arrived'[r][k])
    BY <1>2 DEF InOrder, Ahead
  <2>1. \A u \in Services : \A i, l \in DOMAIN arrived[u] :
          i < l => Ahead(made, arrived[u][i], arrived[u][l])
    BY DEF Fifo, InOrder, Ahead
  <2>2. CASE r # s
    BY <1>6, <2>1, <2>2
  <2>3. CASE r = s /\ k \in DOMAIN q
    <3>1. j \in DOMAIN q
      BY <1>5, <1>6, <2>3
    <3> QED BY <1>5, <1>6, <2>1, <2>3, <3>1
  <2>4. CASE r = s /\ k = Len(q) + 1
    <3>1. j \in DOMAIN q
      BY <1>5, <1>6, <2>4
    <3>2. q[j] \in Elements(arrived[s]) /\ t[j] = q[j] /\ t[k] = c
      BY <1>5, <2>4, <3>1 DEF Elements
    <3>3. Ahead(made, q[j], c)
      BY <1>3, <3>2 DEF Fifo
    <3> QED BY <1>6, <2>4, <3>2, <3>3
  <2> QED BY <1>5, <1>6, <2>2, <2>3, <2>4
<1> QED BY <1>9, <1>10, <1>11, <1>12, <1>13, <1>14 DEF Fifo

LEMMA FifoInit == Init => Fifo
  BY MessagingAssumption, QueueEmpty
     DEF Init, Empty, Fifo, Left, Elements, InOrder

LEMMA FifoStep == TypeOK /\ Fifo /\ [Next]_vars => Fifo'
<1> SUFFICES ASSUME TypeOK, Fifo, [Next]_vars PROVE Fifo'
  OBVIOUS
<1>1. \A s \in Services : Sorted(made, toPlatform[s]) /\ Sorted(made, fromPlatform[s])
  BY DEF Fifo
<1>2. ASSUME NEW s \in Services, Connect(s) PROVE Fifo'
  <2>1. Emit(s, RegisterSocket) /\ UNCHANGED <<fromPlatform, made, arrived>>
    BY <1>2 DEF Connect, history
  <2>2. RegisterSocket \in Message /\ \A c \in Calls : RegisterSocket # Request(c)
    BY MessageFacts, Distinct
  <2> QED BY <1>1, <2>1, <2>2, Emitted, FifoKept
<1>3. ASSUME NEW c \in Queries, respondToQuery(c) PROVE Fifo'
  <2>1. Emit(Recipient[c], Response(c)) /\ UNCHANGED <<fromPlatform, made, arrived>>
    BY <1>3 DEF respondToQuery, history
  <2>2. /\ Recipient[c] \in Services /\ Response(c) \in Message
        /\ \A d \in Calls : Response(c) # Request(d)
    BY MessageFacts, MessagingAssumption, Distinct
  <2> QED BY <1>1, <2>1, <2>2, Emitted, FifoKept
<1>4. ASSUME NEW s \in Services, NEW n \in 1 .. Len(toPlatform[s]), Take(s, n),
             UNCHANGED <<fromPlatform, made, arrived>>
      PROVE  Fifo'
  BY <1>1, <1>4, TakenOff, FifoKept
<1>5. ASSUME NEW s \in Services, registerSocket(s) \/ ignore(s) PROVE Fifo'
  <2>1. toPlatform[s] \in Seq(Message) /\ toPlatform[s] # <<>>
    BY <1>5 DEF registerSocket, ignore, Forwards, Reads, TypeOK
  <2>2. 1 \in 1 .. Len(toPlatform[s])
    BY <2>1, HeadTaken
  <2>3. Take(s, 1) /\ UNCHANGED <<fromPlatform, made, arrived>>
    BY <1>5 DEF registerSocket, ignore, history
  <2> QED BY <1>4, <2>2, <2>3
<1>6. ASSUME NEW s \in Services, forwardFails(s) PROVE Fifo'
  BY <1>4, <1>6 DEF forwardFails
<1>7. ASSUME NEW s \in Services, receiveResponse(s) PROVE Fifo'
  <2>1. Receives(s, "response") /\ UNCHANGED <<toPlatform, made, arrived>>
    BY <1>7 DEF receiveResponse, Receives
  <2>2. \A r \in Services :
          /\ RequestsIn(fromPlatform'[r]) \subseteq RequestsIn(fromPlatform[r])
          /\ Sorted(made, fromPlatform[r]) => Sorted(made, fromPlatform'[r])
    BY <2>1, Received
  <2> QED BY <1>1, <2>1, <2>2, FifoKept
<1>8. ASSUME NEW s \in Services, Die(s) PROVE Fifo'
  <2>1. \A r \in Services : fromPlatform'[r] = fromPlatform[r] \/ fromPlatform'[r] = <<>>
    BY <1>8 DEF Die, TypeOK
  <2>2. UNCHANGED <<toPlatform, made, arrived>>
    BY <1>8 DEF Die
  <2> QED BY <1>1, <2>1, <2>2, QueueEmpty, FifoKept
<1>9. CASE quit
  <2>1. \A r \in Services : toPlatform'[r] = <<>>
    BY <1>9 DEF quit, Empty
  <2>2. UNCHANGED <<fromPlatform, made, arrived>>
    BY <1>9 DEF quit, history
  <2> QED BY <1>1, <2>1, <2>2, QueueEmpty, FifoKept
<1>10. CASE UNCHANGED vars
  <2>1. UNCHANGED <<toPlatform, fromPlatform, made, arrived>>
    BY <1>10 DEF vars, wires, history
  <2> QED BY <1>1, <2>1, FifoKept
<1> QED
  BY <1>2, <1>3, <1>5, <1>6, <1>7, <1>8, <1>9, <1>10, FifoSend, FifoForward,
     FifoReceive DEF Next

(* Two messages of one service to another arrive in the order they were    *)
(* sent, whatever the other services send, lose or end meanwhile: the      *)
(* platform manager's wires and listeners are first in, first out.         *)
THEOREM MessagesInOrder == Spec => []InOrder
<1>1. Fifo => InOrder
  BY DEF Fifo
<1> QED BY <1>1, TypeInvariant, FifoInit, FifoStep, PTL DEF Spec

-----------------------------------------------------------------------------
(* The answers.                                                            *)
LEMMA AnsweringKept ==
  ASSUME Answering, Made \subseteq Made', handling' \subseteq handling,
         UNCHANGED <<answered, result>>,
         \A s \in Services :
           /\ ResponsesIn(toPlatform'[s]) \subseteq ResponsesIn(toPlatform[s])
           /\ ResponsesIn(fromPlatform'[s]) \subseteq ResponsesIn(fromPlatform[s])
  PROVE  Answering'
  BY DEF Answering, AnswerResolves

LEMMA AnsweringForward ==
  ASSUME TypeOK, Answering, NEW s \in Services, forward(s)
  PROVE  Answering'
<1> DEFINE m == Head(toPlatform[s])  r == To(m)  c == m.call
<1>1. /\ m \in Message \ {RegisterSocket} /\ m = toPlatform[s][1]
      /\ 1 \in 1 .. Len(toPlatform[s]) /\ 1 \in DOMAIN toPlatform[s]
      /\ m = Request(c) \/ (m = Response(c) /\ c \in Queries)
  BY TakesHead DEF forward
<1>2. r \in Services
  BY <1>1, Addressed DEF forward
<1>3. /\ Take(s, 1) /\ UNCHANGED <<handling, answered, result, made>>
      /\ \/ fromPlatform' = fromPlatform
         \/ fromPlatform' = [fromPlatform EXCEPT ![r] = Append(fromPlatform[r], m)]
  BY DEF forward, Enqueued
<1>4. \A t \in Services : ResponsesIn(toPlatform'[t]) \subseteq ResponsesIn(toPlatform[t])
  BY <1>1, <1>3, TakenOff
<1>5. /\ fromPlatform \in [Services -> Seq(Message \ {RegisterSocket})]
      /\ fromPlatform[r] \in Seq(Message)
  BY <1>2 DEF TypeOK
<1>6. ASSUME NEW d \in Queries, m = Response(d) PROVE d \in Made /\ Home[d] = r
  <2>1. d \in ResponsesIn(toPlatform[s])
    BY <1>1, <1>6 DEF ResponsesIn
  <2>2. m.type = "response" /\ m.call = d
    BY <1>6, MessageFacts, MessagingAssumption
  <2> QED BY <2>1, <2>2, MessagingAssumption DEF Answering, To
<1>7. Made' = Made
  BY <1>3 DEF Made
<1> HIDE DEF m, r, c
<1>8. ResponsesIn(Append(fromPlatform[r], m))
        = ResponsesIn(fromPlatform[r]) \union {d \in Queries : m = Response(d)}
  BY <1>1, <1>5, QueueAppended
<1>9. \A t \in Services : \A d \in ResponsesIn(fromPlatform'[t]) :
        \/ d \in ResponsesIn(fromPlatform[t])
        \/ t = r /\ d \in Queries /\ m = Response(d)
  <2>1. CASE fromPlatform' = fromPlatform
    BY <2>1
  <2>2. CASE fromPlatform' = [fromPlatform EXCEPT ![r] = Append(fromPlatform[r], m)]
    <3>1. /\ fromPlatform'[r] = Append(fromPlatform[r], m)
          /\ \A t \in Services \ {r} : fromPlatform'[t] = fromPlatform[t]
      BY <1>2, <1>5, <2>2
    <3> QED BY <1>8, <3>1
  <2> QED BY <1>3, <2>1, <2>2
<1>10. \A t \in Services : \A d \in ResponsesIn(fromPlatform'[t]) :
         d \in Made /\ Home[d] = t
  BY <1>6, <1>9 DEF Answering
<1> QED BY <1>3, <1>4, <1>7, <1>10 DEF Answering, AnswerResolves

(* The promise of a query is among those its answer resolves.              *)
LEMMA AnsweringResponse ==
  ASSUME TypeOK, Answering, NEW s \in Services, receiveResponse(s)
  PROVE  Answering'
<1> DEFINE c == Head(fromPlatform[s]).call
<1>1. /\ Head(fromPlatform[s]) = Response(c) /\ c \in Queries
      /\ Head(fromPlatform[s]) = fromPlatform[s][1] /\ 1 \in DOMAIN fromPlatform[s]
      /\ \A r \in Services :
           ResponsesIn(fromPlatform'[r]) \subseteq ResponsesIn(fromPlatform[r])
  BY Received DEF receiveResponse
<1>2. /\ result' = [q \in Queries |-> IF q \in Resolved(s, c) THEN {c} ELSE result[q]]
      /\ answered' = answered \union {c}
      /\ UNCHANGED <<handling, toPlatform, made>>
  BY DEF receiveResponse, Receives
<1> HIDE DEF c
<1>3. c \in Made /\ Home[c] = s
  BY <1>1 DEF Answering, ResponsesIn
<1>4. result[c] = {} => c \in Resolved(s, c)
  BY <1>1, <1>3 DEF Resolved
<1>5. AnswerResolves'
  <2> SUFFICES ASSUME NEW a \in answered' PROVE result'[a] # {}
    BY DEF AnswerResolves
  <2>1. a \in Queries
    BY <1>1, <1>2 DEF TypeOK
  <2>2. result[a] # {} \/ a \in Resolved(s, c)
    BY <1>2, <1>4 DEF Answering, AnswerResolves
  <2> QED BY <1>2, <2>1, <2>2
<1>6. Made' = Made
  BY <1>2 DEF Made
<1> QED BY <1>1, <1>2, <1>5, <1>6 DEF Answering

LEMMA AnsweringInit == Init => Answering
  BY QueueEmpty DEF Init, Empty, Answering, AnswerResolves

LEMMA AnsweringStep == TypeOK /\ Fifo /\ Answering /\ [Next]_vars => Answering'
<1> SUFFICES ASSUME TypeOK, Fifo, Answering, [Next]_vars PROVE Answering'
  OBVIOUS
<1>1. made' = made => Made' = Made
  BY DEF Made
<1>2. ASSUME NEW s \in Services, Connect(s) PROVE Answering'
  <2>1. Emit(s, RegisterSocket)
        /\ UNCHANGED <<fromPlatform, handling, made, answered, result>>
    BY <1>2 DEF Connect, history
  <2>2. \A r \in Services : ResponsesIn(toPlatform'[r]) \subseteq ResponsesIn(toPlatform[r])
    <3>1. /\ RegisterSocket \in Message /\ \A d \in Calls : RegisterSocket # Request(d)
          /\ \A d : RegisterSocket # Response(d)
      BY MessageFacts, Distinct
    <3> QED BY <2>1, <3>1, Emitted
  <2> QED BY <1>1, <2>1, <2>2, AnsweringKept
<1>3. ASSUME NEW c \in Calls, send(c) PROVE Answering'
  <2> DEFINE h == Home[c]  q == toPlatform[h]
  <2>1. /\ h \in Services /\ toPlatform' = [toPlatform EXCEPT ![h] = Append(q, Request(c))]
        /\ made' = [made EXCEPT ![h] = Append(@, c)]
        /\ UNCHANGED <<fromPlatform, handling, answered, result>>
    BY <1>3, MessagingAssumption DEF send, Emit
  <2>2. Made \subseteq Made'
    BY <2>1, MadeGrows DEF Made
  <2>3. toPlatform \in [Services -> Seq(Message)] /\ q \in Seq(Message)
        /\ Request(c) \in Message
    BY <2>1, MessageFacts DEF TypeOK
  <2>4. toPlatform'[h] = Append(q, Request(c))
        /\ \A r \in Services \ {h} : toPlatform'[r] = toPlatform[r]
    BY <2>1, <2>3
  <2>5. ResponsesIn(Append(q, Request(c)))
          = ResponsesIn(q) \union {d \in Queries : Request(c) = Response(d)}
    BY <2>3, QueueAppended
  <2>6. ResponsesIn(Append(q, Request(c))) = ResponsesIn(q)
    BY <2>5, Distinct
  <2> QED BY <2>1, <2>2, <2>4, <2>6, AnsweringKept
<1>4. ASSUME NEW c \in Queries, respondToQuery(c) PROVE Answering'
  <2>1. /\ Emit(Recipient[c], Response(c)) /\ c \in handling /\ handling' \subseteq handling
        /\ UNCHANGED <<fromPlatform, made, answered, result>>
    BY <1>4 DEF respondToQuery, Handled, history
  <2>2. /\ Recipient[c] \in Services /\ Response(c) \in Message
        /\ \A d \in Calls : Response(c) # Request(d)
        /\ \A d : Response(c) = Response(d) => c = d
    BY MessageFacts, MessagingAssumption, Distinct
  <2>3. \A r \in Services : \A d \in ResponsesIn(toPlatform'[r]) :
          d \in ResponsesIn(toPlatform[r]) \/ d = c
    BY <2>1, <2>2, Emitted
  <2> QED BY <1>1, <2>1, <2>3 DEF Answering, AnswerResolves
<1>5. ASSUME NEW s \in Services, NEW n \in 1 .. Len(toPlatform[s]), Take(s, n),
             UNCHANGED <<fromPlatform, made, handling, answered, result>>
      PROVE  Answering'
  BY <1>1, <1>5, TakenOff, AnsweringKept
<1>6. ASSUME NEW s \in Services, registerSocket(s) \/ ignore(s) PROVE Answering'
  <2>1. toPlatform[s] \in Seq(Message) /\ toPlatform[s] # <<>>
    BY <1>6 DEF registerSocket, ignore, Forwards, Reads, TypeOK
  <2>2. 1 \in 1 .. Len(toPlatform[s])
    BY <2>1, HeadTaken
  <2>3. Take(s, 1) /\ UNCHANGED <<fromPlatform, made, handling, answered, result>>
    BY <1>6 DEF registerSocket, ignore, history
  <2> QED BY <1>5, <2>2, <2>3
<1>7. ASSUME NEW s \in Services, forwardFails(s) PROVE Answering'
  BY <1>5, <1>7 DEF forwardFails
<1>8. ASSUME NEW s \in Services, receiveRequest(s) PROVE Answering'
  <2> DEFINE c == Head(fromPlatform[s]).call
  <2>1. /\ Head(fromPlatform[s]) = Request(c) /\ c \in Calls
        /\ Head(fromPlatform[s]) = fromPlatform[s][1] /\ 1 \in DOMAIN fromPlatform[s]
        /\ \A r \in Services :
             ResponsesIn(fromPlatform'[r]) \subseteq ResponsesIn(fromPlatform[r])
    BY <1>8, Received DEF receiveRequest
  <2>2. /\ handling' \subseteq handling \union {c}
        /\ UNCHANGED <<toPlatform, made, answered, result>>
    BY <1>8 DEF receiveRequest, Receives, ToRespond
  <2> HIDE DEF c
  <2>3. c \in Left(s)
    BY <2>1 DEF RequestsIn, Left
  <2>4. c \in Made
    BY <2>1, <2>3, MessagingAssumption DEF Fifo, Made
  <2> QED BY <1>1, <2>1, <2>2, <2>4 DEF Answering, AnswerResolves
<1>9. ASSUME NEW s \in Services, Die(s) PROVE Answering'
  <2>1. \A r \in Services : fromPlatform'[r] = fromPlatform[r] \/ fromPlatform'[r] = <<>>
    BY <1>9 DEF Die, TypeOK
  <2>2. handling' \subseteq handling /\ UNCHANGED <<toPlatform, made, answered, result>>
    BY <1>9 DEF Die
  <2> QED BY <1>1, <2>1, <2>2, QueueEmpty, AnsweringKept
<1>10. CASE quit
  <2>1. \A r \in Services : toPlatform'[r] = <<>>
    BY <1>10 DEF quit, Empty
  <2>2. UNCHANGED <<fromPlatform, handling, made, answered, result>>
    BY <1>10 DEF quit, history
  <2> QED BY <1>1, <2>1, <2>2, QueueEmpty, AnsweringKept
<1>11. CASE UNCHANGED vars
  <2>1. UNCHANGED <<toPlatform, fromPlatform, handling, made, answered, result>>
    BY <1>11 DEF vars, wires, history
  <2> QED BY <1>1, <2>1, AnsweringKept
<1> QED
  BY <1>2, <1>3, <1>4, <1>6, <1>7, <1>8, <1>9, <1>10, <1>11, AnsweringForward,
     AnsweringResponse DEF Next

(* When the answer to a query is back at the service that asked, the       *)
(* promise of that query is resolved: no query waits for an answer that    *)
(* was delivered, although answers are told apart by their name only.      *)
THEOREM DeliveredAnswerResolves == Spec => []AnswerResolves
<1>1. Answering => AnswerResolves
  BY DEF Answering
<1> QED
  BY <1>1, TypeInvariant, FifoInit, FifoStep, AnsweringInit, AnsweringStep, PTL DEF Spec

-----------------------------------------------------------------------------
(* Which calls a wire carries, and that it carries each once, when a       *)
(* message is appended to it, when its first n messages are taken, and     *)
(* when it is emptied.                                                     *)
Appends(w, v, s, m) == v = [w EXCEPT ![s] = Append(w[s], m)]
Drops(w, v, s, n) == v = [w EXCEPT ![s] = SubSeq(w[s], n + 1, Len(w[s]))]
Empties(w, v, s) == v = [w EXCEPT ![s] = <<>>]

LEMMA CarriesAppended ==
  ASSUME NEW w \in [Services -> Seq(Message)], NEW s \in Services, NEW m \in Message,
         NEW v, Appends(w, v, s, m), NEW c
  PROVE  /\ Carries(v, c) <=> Carries(w, c) \/ About(m, c)
         /\ Once(w, c) /\ ~(Carries(w, c) /\ About(m, c)) => Once(v, c)
<1> DEFINE q == w[s]  t == Append(q, m)
<1>1. /\ t \in Seq(Message) /\ Len(q) + 1 \in DOMAIN t /\ t[Len(q) + 1] = m
      /\ \A k \in DOMAIN q : /\ k \in DOMAIN t /\ t[k] = q[k]
                             /\ k \in Nat /\ k < Len(q) + 1
      /\ \A k \in DOMAIN t : k \in DOMAIN q \/ k = Len(q) + 1
  BY Appended
<1>2. v[s] = t /\ \A r \in Services \ {s} : v[r] = w[r]
  BY DEF Appends
<1> HIDE DEF t
<1>3. Carries(v, c) => Carries(w, c) \/ About(m, c)
  BY <1>1, <1>2 DEF Carries
<1>4. Carries(w, c) => Carries(v, c)
  <2> SUFFICES ASSUME NEW r \in Services, NEW k \in DOMAIN w[r], About(w[r][k], c)
               PROVE  Carries(v, c)
    BY DEF Carries
  <2>1. k \in DOMAIN v[r] /\ v[r][k] = w[r][k]
    BY <1>1, <1>2
  <2> QED BY <2>1 DEF Carries
<1>5. About(m, c) => Carries(v, c)
  BY <1>1, <1>2 DEF Carries
<1>6. ASSUME Once(w, c), ~(Carries(w, c) /\ About(m, c)) PROVE Once(v, c)
  <2> SUFFICES ASSUME NEW r \in Services, NEW u \in Services,
                      NEW j \in DOMAIN v[r], NEW k \in DOMAIN v[u],
                      About(v[r][j], c), About(v[u][k], c)
               PROVE  r = u /\ j = k
    BY DEF Once
  <2>1. \/ j \in DOMAIN w[r] /\ w[r][j] = v[r][j]
        \/ r = s /\ j = Len(q) + 1 /\ v[r][j] = m
    BY <1>1, <1>2
  <2>2. \/ k \in DOMAIN w[u] /\ w[u][k] = v[u][k]
        \/ u = s /\ k = Len(q) + 1 /\ v[u][k] = m
    BY <1>1, <1>2
  <2> QED BY <1>6, <2>1, <2>2 DEF Once, Carries
<1> QED BY <1>3, <1>4, <1>5, <1>6

LEMMA CarriesTaken ==
  ASSUME NEW w \in [Services -> Seq(Message)], NEW s \in Services,
         NEW n \in 1 .. Len(w[s]), NEW v, Drops(w, v, s, n), NEW c, Once(w, c)
  PROVE  /\ Once(v, c)
         /\ Carries(v, c) <=> Carries(w, c) /\ ~\E k \in 1 .. n : About(w[s][k], c)
         /\ (\E k \in 1 .. n : About(w[s][k], c)) => Carries(w, c)
<1> DEFINE q == w[s]  t == SubSeq(q, n + 1, Len(q))
<1>1. /\ n \in Nat
      /\ \A k \in DOMAIN t : k \in Nat /\ k > 0 /\ k + n \in DOMAIN q
                             /\ t[k] = q[k + n]
      /\ \A k \in DOMAIN q : k > n => k - n \in DOMAIN t /\ t[k - n] = q[k]
  BY Taken
<1>2. /\ v[s] = t /\ \A r \in Services \ {s} : v[r] = w[r]
      /\ \A k \in 1 .. n : k \in DOMAIN q
      /\ \A k \in DOMAIN q : k \in Nat /\ (k \in 1 .. n \/ k > n)
  BY DEF Drops
<1> HIDE DEF t
<1> DEFINE at(r, k) == IF r = s THEN k + n ELSE k
<1>3. \A r \in Services : \A k \in DOMAIN v[r] :
        at(r, k) \in DOMAIN w[r] /\ w[r][at(r, k)] = v[r][k]
        /\ ~(r = s /\ at(r, k) \in 1 .. n)
  BY <1>1, <1>2
<1>4. /\ \A k, j \in DOMAIN v[s] : k + n = j + n => k = j
      /\ \A r \in Services : \A j, k \in DOMAIN v[r] : at(r, j) = at(r, k) => j = k
  BY <1>1, <1>2
<1> HIDE DEF at
<1>5. Once(v, c)
  <2> SUFFICES ASSUME NEW r \in Services, NEW u \in Services,
                      NEW j \in DOMAIN v[r], NEW k \in DOMAIN v[u],
                      About(v[r][j], c), About(v[u][k], c)
               PROVE  r = u /\ j = k
    BY DEF Once
  <2>1. r = u /\ at(r, j) = at(u, k)
    BY <1>3 DEF Once
  <2> QED BY <1>4, <2>1
<1>6. Carries(v, c) => Carries(w, c) /\ ~\E k \in 1 .. n : About(q[k], c)
  <2> SUFFICES ASSUME NEW r \in Services, NEW k \in DOMAIN v[r], About(v[r][k], c)
               PROVE  Carries(w, c) /\ ~\E j \in 1 .. n : About(q[j], c)
    BY DEF Carries
  <2>1. /\ at(r, k) \in DOMAIN w[r] /\ About(w[r][at(r, k)], c)
        /\ ~(r = s /\ at(r, k) \in 1 .. n)
    BY <1>3
  <2>2. Carries(w, c)
    BY <2>1 DEF Carries
  <2>3. ASSUME NEW j \in 1 .. n, About(q[j], c) PROVE FALSE
    BY <1>2, <2>1, <2>3 DEF Once
  <2> QED BY <2>2, <2>3
<1>7. ASSUME Carries(w, c), ~\E k \in 1 .. n : About(q[k], c) PROVE Carries(v, c)
  <2>0. PICK r \in Services : \E k \in DOMAIN w[r] : About(w[r][k], c)
    BY <1>7 DEF Carries
  <2>1. PICK k \in DOMAIN w[r] : About(w[r][k], c)
    BY <2>0
  <2>2. CASE r = s
    <3>1. k > n
      BY <1>2, <1>7, <2>1, <2>2
    <3>2. k - n \in DOMAIN v[s] /\ v[s][k - n] = w[s][k]
      BY <1>1, <1>2, <2>2, <3>1
    <3> QED BY <2>1, <2>2, <3>2 DEF Carries
  <2>3. CASE r # s
    BY <1>2, <2>1, <2>3 DEF Carries
  <2> QED BY <2>2, <2>3
<1>8. (\E k \in 1 .. n : About(q[k], c)) => Carries(w, c)
  BY <1>2 DEF Carries
<1> QED BY <1>5, <1>6, <1>7, <1>8

LEMMA CarriesEmptied ==
  ASSUME NEW w \in [Services -> Seq(Message)], NEW s \in Services,
         NEW v, Empties(w, v, s), NEW c, Once(w, c)
  PROVE  /\ Once(v, c)
         /\ Carries(v, c) <=> Carries(w, c) /\ ~\E k \in DOMAIN w[s] : About(w[s][k], c)
         /\ (\E k \in DOMAIN w[s] : About(w[s][k], c)) => Carries(w, c)
<1>1. /\ v[s] = <<>> /\ DOMAIN v[s] = {} /\ \A r \in Services \ {s} : v[r] = w[r]
  BY DEF Empties
<1>2. \A r \in Services : \A k \in DOMAIN v[r] : k \in DOMAIN w[r] /\ v[r][k] = w[r][k]
                                                /\ r # s
  BY <1>1
<1> QED BY <1>1, <1>2 DEF Carries, Once

(* The calls of the messages in a queue are those it is about.             *)
LEMMA CallsAre ==
  ASSUME NEW q \in Seq(Message), NEW c \in Calls
  PROVE  c \in CallsIn(q) <=> \E k \in DOMAIN q : About(q[k], c)
<1>1. \A m \in Message \ {RegisterSocket} : About(m, m.call)
  BY MessageFacts DEF About
<1>2. ASSUME NEW m \in Message, About(m, c) PROVE m # RegisterSocket /\ m.call = c
  BY <1>2, MessageFacts, Distinct DEF About
<1>3. \A k \in DOMAIN q : q[k] \in Message
  OBVIOUS
<1>4. c \in CallsIn(q) => \E k \in DOMAIN q : About(q[k], c)
  BY <1>1, <1>3 DEF CallsIn, Elements
<1>5. ASSUME NEW k \in DOMAIN q, About(q[k], c) PROVE c \in CallsIn(q)
  BY <1>2, <1>3, <1>5 DEF CallsIn, Elements
<1> QED BY <1>4, <1>5

LEMMA AboutOne ==
  /\ \A m \in Message \ {RegisterSocket} : \A c \in Calls : About(m, c) <=> c = m.call
  /\ \A c \in Calls : ~About(RegisterSocket, c)
  BY MessageFacts, Distinct DEF About

-----------------------------------------------------------------------------
(* Every step leaves each call in one place, or moves it to another.       *)
LEMMA MadeOne ==
  ASSUME TypeOK, NEW c \in Calls, send(c)
  PROVE  Made' = Made \union {c}
<1> DEFINE h == Home[c]  q == made[h]  t == Append(q, c)
<1>1. h \in Services /\ q \in Seq(Calls) /\ made' = [made EXCEPT ![h] = t]
      /\ made \in [Services -> Seq(Calls)]
  BY MessagingAssumption DEF TypeOK, send
<1>2. /\ Len(q) + 1 \in DOMAIN t /\ t[Len(q) + 1] = c
      /\ \A k \in DOMAIN q : k \in DOMAIN t /\ t[k] = q[k]
      /\ \A k \in DOMAIN t : k \in DOMAIN q \/ k = Len(q) + 1
  BY <1>1, Appended
<1>3. made'[h] = t /\ \A s \in Services \ {h} : made'[s] = made[s]
  BY <1>1
<1> HIDE DEF t
<1>4. Elements(t) = Elements(q) \union {c}
  BY <1>2 DEF Elements
<1>5. Made' = UNION {Elements(made'[s]) : s \in Services}
  BY DEF Made
<1>6. \A d : d \in Made' <=> d \in Made \/ d = c
  BY <1>1, <1>3, <1>4, <1>5 DEF Made
<1> QED BY <1>6

(* A step that moves no message but one of the platform's own.             *)
LEMMA PlaceKept ==
  ASSUME OnePlace, platformUp' = platformUp, Made' = Made,
         UNCHANGED <<fromPlatform, handling, ignored, lost, answered, arrived>>,
         \A c \in Calls : /\ Carries(toPlatform', c) <=> Carries(toPlatform, c)
                          /\ Once(toPlatform, c) => Once(toPlatform', c)
  PROVE  OnePlace'
  BY DEF OnePlace, Alone, Somewhere, Ended

LEMMA PlaceConnect ==
  ASSUME TypeOK, OnePlace, NEW s \in Services, Connect(s)
  PROVE  OnePlace'
<1>1. /\ toPlatform \in [Services -> Seq(Message)] /\ RegisterSocket \in Message
      /\ Appends(toPlatform, toPlatform', s, RegisterSocket)
      /\ Made' = Made /\ platformUp' = platformUp
      /\ UNCHANGED <<fromPlatform, handling, ignored, lost, answered, arrived>>
  BY MessageFacts DEF TypeOK, Connect, Emit, Appends, history, Made
<1>2. \A c \in Calls : /\ Carries(toPlatform', c) <=> Carries(toPlatform, c)
                       /\ Once(toPlatform, c) => Once(toPlatform', c)
  <2> SUFFICES ASSUME NEW c \in Calls
               PROVE  /\ Carries(toPlatform', c) <=> Carries(toPlatform, c)
                      /\ Once(toPlatform, c) => Once(toPlatform', c)
    OBVIOUS
  <2>1. ~About(RegisterSocket, c)
    BY AboutOne
  <2> QED BY <1>1, <2>1, CarriesAppended
<1> QED BY <1>1, <1>2, PlaceKept

LEMMA PlaceRegister ==
  ASSUME TypeOK, OnePlace, NEW s \in Services, registerSocket(s)
  PROVE  OnePlace'
<1> DEFINE q == toPlatform[s]
<1>1. /\ toPlatform \in [Services -> Seq(Message)] /\ q \in Seq(Message) /\ q # <<>>
      /\ Head(q) = RegisterSocket
      /\ Drops(toPlatform, toPlatform', s, 1)
      /\ Made' = Made /\ platformUp' = platformUp /\ platformUp
      /\ UNCHANGED <<fromPlatform, handling, ignored, lost, answered, arrived>>
  BY DEF TypeOK, registerSocket, Reads, Take, Drops, services, history, Made
<1>2. 1 \in 1 .. Len(q) /\ q[1] = RegisterSocket
  BY <1>1, HeadTaken
<1>3. \A c \in Calls : Once(toPlatform, c)
  BY <1>1 DEF OnePlace, Alone
<1>4. \A c \in Calls : ~\E k \in 1 .. 1 : About(q[k], c)
  BY <1>2, AboutOne
<1>5. \A c \in Calls : /\ Carries(toPlatform', c) <=> Carries(toPlatform, c)
                       /\ Once(toPlatform', c)
  <2> SUFFICES ASSUME NEW c \in Calls
               PROVE  /\ Carries(toPlatform', c) <=> Carries(toPlatform, c)
                      /\ Once(toPlatform', c)
    OBVIOUS
  <2>1. Once(toPlatform, c) /\ ~\E k \in 1 .. 1 : About(q[k], c)
    BY <1>3, <1>4
  <2> QED BY <1>1, <1>2, <2>1, CarriesTaken
<1> QED BY <1>1, <1>5, PlaceKept

LEMMA PlaceSend ==
  ASSUME TypeOK, OnePlace, NEW c \in Calls, send(c)
  PROVE  OnePlace'
<1> DEFINE h == Home[c]
<1>1. /\ toPlatform \in [Services -> Seq(Message)] /\ h \in Services
      /\ Request(c) \in Message
      /\ Appends(toPlatform, toPlatform', h, Request(c))
      /\ platformUp' = platformUp /\ platformUp /\ c \notin Made
      /\ UNCHANGED <<fromPlatform, handling, ignored, lost, answered, arrived>>
  BY MessageFacts, MessagingAssumption DEF TypeOK, send, Emit, Appends, services
<1>2. Made' = Made \union {c}
  BY MadeOne
<1>3. \A d \in Calls : About(Request(c), d) <=> d = c
  BY Distinct DEF About
<1>4. \A d \in Calls : Alone(d) /\ (Somewhere(d) <=> d \in Made)
  BY <1>1 DEF OnePlace
<1>5. \A d \in Calls : /\ Carries(toPlatform', d) <=> Carries(toPlatform, d) \/ d = c
                       /\ Once(toPlatform', d)
  <2>1. \A d \in Calls : Once(toPlatform, d) /\ ~(Carries(toPlatform, d) /\ d = c)
    BY <1>1, <1>4 DEF Alone, Somewhere
  <2> SUFFICES ASSUME NEW d \in Calls
               PROVE  /\ Carries(toPlatform', d) <=> Carries(toPlatform, d) \/ d = c
                      /\ Once(toPlatform', d)
    OBVIOUS
  <2>2. About(Request(c), d) <=> d = c
    BY <1>3
  <2> QED BY <1>1, <2>1, <2>2, CarriesAppended
<1>6. ~Somewhere(c)
  BY <1>1, <1>4
<1> HIDE DEF h
<1>7. \A d \in Calls : Ended(d)' = Ended(d)
  BY <1>1 DEF Ended
<1>8. ASSUME NEW d \in Calls PROVE Alone(d)' /\ (Somewhere(d)' <=> d \in Made')
  <2>1. CASE d = c
    BY <1>1, <1>2, <1>4, <1>5, <1>6, <1>7, <2>1 DEF Alone, Somewhere
  <2>2. CASE d # c
    BY <1>1, <1>2, <1>4, <1>5, <1>7, <2>2 DEF Alone, Somewhere
  <2> QED BY <2>1, <2>2
<1> QED BY <1>8 DEF OnePlace

(* The message the platform manager handles leaves the wire of its sender, *)
(* and the one a service reads leaves its own.                             *)
LEMMA HeadOff ==
  ASSUME TypeOK, OnePlace, NEW s \in Services, Forwards(s), Take(s, 1)
  PROVE  LET c == Head(toPlatform[s]).call
         IN  /\ platformUp /\ c \in Calls /\ Carries(toPlatform, c)
             /\ \A d \in Calls :
                  /\ Once(toPlatform', d)
                  /\ Carries(toPlatform', d) <=> Carries(toPlatform, d) /\ d # c
<1> DEFINE q == toPlatform[s]  m == Head(q)  c == m.call
<1>1. /\ m \in Message \ {RegisterSocket} /\ m = q[1] /\ 1 \in 1 .. Len(q)
      /\ 1 \in DOMAIN q /\ c \in Calls
  BY TakesHead
<1>2. /\ toPlatform \in [Services -> Seq(Message)] /\ platformUp
      /\ Drops(toPlatform, toPlatform', s, 1)
  BY DEF TypeOK, Take, Drops, Forwards, Reads
<1> HIDE DEF m, c
<1>3. \A d \in Calls : About(q[1], d) <=> d = c
  BY <1>1, AboutOne DEF c
<1>4. Carries(toPlatform, c)
  BY <1>1, <1>3 DEF Carries
<1>5. ASSUME NEW d \in Calls
      PROVE  /\ Once(toPlatform', d)
             /\ Carries(toPlatform', d) <=> Carries(toPlatform, d) /\ d # c
  <2>1. Once(toPlatform, d)
    BY <1>2 DEF OnePlace, Alone
  <2>2. (\E k \in 1 .. 1 : About(q[k], d)) <=> d = c
    BY <1>3
  <2> QED BY <1>1, <1>2, <2>1, <2>2, CarriesTaken
<1> QED BY <1>1, <1>2, <1>4, <1>5 DEF m, c

LEMMA HeadRead ==
  ASSUME TypeOK, OnePlace, platformUp, NEW s \in Services, NEW type, Receives(s, type)
  PROVE  LET c == Head(fromPlatform[s]).call
         IN  /\ c \in Calls /\ Carries(fromPlatform, c)
             /\ \A d \in Calls :
                  /\ Once(fromPlatform', d)
                  /\ Carries(fromPlatform', d) <=> Carries(fromPlatform, d) /\ d # c
<1> DEFINE q == fromPlatform[s]  m == Head(q)  c == m.call
<1>1. /\ m \in Message \ {RegisterSocket} /\ m = q[1] /\ 1 \in 1 .. Len(q)
      /\ 1 \in DOMAIN q
      /\ Drops(fromPlatform, fromPlatform', s, 1)
  BY Received DEF Drops
<1>2. fromPlatform \in [Services -> Seq(Message)]
  BY DEF TypeOK
<1> HIDE DEF m, c
<1>3. c \in Calls /\ \A d \in Calls : About(q[1], d) <=> d = c
  BY <1>1, MessageFacts, AboutOne DEF c
<1>4. Carries(fromPlatform, c)
  BY <1>1, <1>3 DEF Carries
<1>5. ASSUME NEW d \in Calls
      PROVE  /\ Once(fromPlatform', d)
             /\ Carries(fromPlatform', d) <=> Carries(fromPlatform, d) /\ d # c
  <2>1. Once(fromPlatform, d)
    BY DEF OnePlace, Alone
  <2>2. (\E k \in 1 .. 1 : About(q[k], d)) <=> d = c
    BY <1>3
  <2> QED BY <1>1, <1>2, <2>1, <2>2, CarriesTaken
<1> QED BY <1>3, <1>4, <1>5 DEF m, c

LEMMA PlaceIgnore ==
  ASSUME TypeOK, OnePlace, NEW s \in Services, ignore(s)
  PROVE  OnePlace'
<1> DEFINE c == Head(toPlatform[s]).call
<1>1. /\ platformUp /\ c \in Calls /\ Carries(toPlatform, c)
      /\ \A d \in Calls :
           /\ Once(toPlatform', d)
           /\ Carries(toPlatform', d) <=> Carries(toPlatform, d) /\ d # c
  BY HeadOff DEF ignore
<1>2. /\ ignored' = ignored \union {c} /\ platformUp' = platformUp
      /\ UNCHANGED <<fromPlatform, handling, lost, answered, arrived, made>>
  BY DEF ignore, services
<1> HIDE DEF c
<1>3. Made' = Made /\ \A d \in Calls : Ended(d)' = Ended(d)
  BY <1>2 DEF Made, Ended
<1>4. \A d \in Calls : Alone(d) /\ (Somewhere(d) <=> d \in Made)
  BY <1>1 DEF OnePlace
<1>5. ASSUME NEW d \in Calls PROVE Alone(d)' /\ (Somewhere(d)' <=> d \in Made')
  BY <1>1, <1>2, <1>3, <1>4 DEF Alone, Somewhere
<1> QED BY <1>5 DEF OnePlace

LEMMA PlaceForward ==
  ASSUME TypeOK, OnePlace, NEW s \in Services, forward(s)
  PROVE  OnePlace'
<1> DEFINE m == Head(toPlatform[s])  c == m.call  r == To(m)
<1>1. /\ platformUp /\ c \in Calls /\ Carries(toPlatform, c)
      /\ \A d \in Calls :
           /\ Once(toPlatform', d)
           /\ Carries(toPlatform', d) <=> Carries(toPlatform, d) /\ d # c
  BY HeadOff DEF forward
<1>2. m \in Message \ {RegisterSocket} /\ r \in Services
  BY TakesHead, Addressed DEF forward
<1>3. /\ platformUp' = platformUp
      /\ UNCHANGED <<handling, ignored, answered, arrived, made>>
      /\ \/ Appends(fromPlatform, fromPlatform', r, m) /\ lost' = lost
         \/ fromPlatform' = fromPlatform /\ lost' = lost \union {c}
  BY DEF forward, Enqueued, Appends, services
<1>4. \A d \in Calls : About(m, d) <=> d = c
  BY <1>2, AboutOne
<1>5. fromPlatform \in [Services -> Seq(Message)]
  BY DEF TypeOK
<1> HIDE DEF m, c, r
<1>6. Made' = Made /\ \A d \in Calls : Ended(d)' = Ended(d)
  BY <1>3 DEF Made, Ended
<1>7. \A d \in Calls : Alone(d) /\ (Somewhere(d) <=> d \in Made)
  BY <1>1 DEF OnePlace
<1>8. CASE Appends(fromPlatform, fromPlatform', r, m) /\ lost' = lost
  <2>1. ASSUME NEW d \in Calls
        PROVE  /\ Once(fromPlatform', d)
               /\ Carries(fromPlatform', d) <=> Carries(fromPlatform, d) \/ d = c
    <3>1. Once(fromPlatform, d) /\ ~(Carries(fromPlatform, d) /\ About(m, d))
      BY <1>1, <1>4, <1>7 DEF Alone
    <3>2. About(m, d) <=> d = c
      BY <1>4
    <3> QED BY <1>2, <1>5, <1>8, <3>1, <3>2, CarriesAppended
  <2>2. ASSUME NEW d \in Calls PROVE Alone(d)' /\ (Somewhere(d)' <=> d \in Made')
    BY <1>1, <1>3, <1>6, <1>7, <1>8, <2>1 DEF Alone, Somewhere
  <2> QED BY <2>2 DEF OnePlace
<1>9. CASE fromPlatform' = fromPlatform /\ lost' = lost \union {c}
  <2>1. ASSUME NEW d \in Calls PROVE Alone(d)' /\ (Somewhere(d)' <=> d \in Made')
    BY <1>1, <1>3, <1>6, <1>7, <1>9 DEF Alone, Somewhere
  <2> QED BY <2>1 DEF OnePlace
<1> QED BY <1>3, <1>8, <1>9

LEMMA PlaceForwardFails ==
  ASSUME TypeOK, OnePlace, NEW s \in Services, forwardFails(s)
  PROVE  OnePlace'
<1> DEFINE q == toPlatform[s]
<1>1. PICK n \in 1 .. Len(q) :
        Take(s, n) /\ lost' = lost \union CallsIn(SubSeq(q, 1, n))
  BY DEF forwardFails
<1>2. /\ platformUp' = platformUp /\ platformUp
      /\ UNCHANGED <<fromPlatform, handling, ignored, answered, arrived, made>>
  BY DEF forwardFails, Forwards, Reads, services
<1>3. /\ toPlatform \in [Services -> Seq(Message)] /\ q \in Seq(Message)
      /\ Drops(toPlatform, toPlatform', s, n)
  BY <1>1 DEF TypeOK, Take, Drops
<1> DEFINE f == SubSeq(q, 1, n)
<1>4. f \in Seq(Message) /\ DOMAIN f = 1 .. n /\ \A k \in 1 .. n : f[k] = q[k]
  BY <1>3
<1> HIDE DEF f
<1>5. \A d \in Calls : d \in CallsIn(f) <=> \E k \in 1 .. n : About(q[k], d)
  BY <1>4, CallsAre
<1>6. Made' = Made /\ \A d \in Calls : Ended(d)' = Ended(d)
  BY <1>2 DEF Made, Ended
<1>7. \A d \in Calls : Alone(d) /\ (Somewhere(d) <=> d \in Made)
  BY <1>2 DEF OnePlace
<1>8. ASSUME NEW d \in Calls
      PROVE  /\ Once(toPlatform', d)
             /\ Carries(toPlatform', d) <=> Carries(toPlatform, d) /\ d \notin CallsIn(f)
             /\ d \in CallsIn(f) => Carries(toPlatform, d)
  <2>1. Once(toPlatform, d)
    BY <1>7 DEF Alone
  <2>2. d \in CallsIn(f) <=> \E k \in 1 .. n : About(toPlatform[s][k], d)
    BY <1>5
  <2> QED BY <1>3, <2>1, <2>2, CarriesTaken
<1>9. lost' = lost \union CallsIn(f)
  BY <1>1 DEF f
<1>10. ASSUME NEW d \in Calls PROVE Alone(d)' /\ (Somewhere(d)' <=> d \in Made')
  BY <1>2, <1>6, <1>7, <1>8, <1>9 DEF Alone, Somewhere
<1> QED BY <1>10 DEF OnePlace

LEMMA PlaceReceiveRequest ==
  ASSUME TypeOK, OnePlace, NEW s \in Services, receiveRequest(s)
  PROVE  OnePlace'
<1> SUFFICES ASSUME platformUp' PROVE OnePlace'
  BY DEF OnePlace
<1> DEFINE c == Head(fromPlatform[s]).call
<1>1. /\ platformUp /\ Receives(s, "request")
      /\ UNCHANGED <<toPlatform, ignored, lost, answered, made>>
      /\ arrived' = [arrived EXCEPT ![s] = Append(arrived[s], c)]
      /\ handling' = handling \union ToRespond(c)
  BY DEF receiveRequest, Receives, services
<1>2. /\ c \in Calls /\ Carries(fromPlatform, c)
      /\ \A d \in Calls :
           /\ Once(fromPlatform', d)
           /\ Carries(fromPlatform', d) <=> Carries(fromPlatform, d) /\ d # c
  BY <1>1, HeadRead
<1> HIDE DEF c
<1>3. arrived \in [Services -> Seq(Calls)] /\ arrived[s] \in Seq(Calls)
  BY DEF TypeOK
<1>4. \A r \in Services : \A d :
        d \in Elements(arrived'[r]) <=> d \in Elements(arrived[r]) \/ (r = s /\ d = c)
  <2> DEFINE q == arrived[s]  t == Append(q, c)
  <2>1. /\ Len(q) + 1 \in DOMAIN t /\ t[Len(q) + 1] = c
        /\ \A k \in DOMAIN q : k \in DOMAIN t /\ t[k] = q[k]
        /\ \A k \in DOMAIN t : k \in DOMAIN q \/ k = Len(q) + 1
    BY <1>2, <1>3, Appended
  <2>2. arrived'[s] = t /\ \A r \in Services \ {s} : arrived'[r] = arrived[r]
    BY <1>1, <1>3
  <2> HIDE DEF t
  <2>3. \A d : d \in Elements(t) <=> d \in Elements(q) \/ d = c
    BY <2>1 DEF Elements
  <2> QED BY <2>2, <2>3
<1>5. \A d \in Calls : Ended(d)' <=> Ended(d) \/ (d = c /\ c \notin Queries)
  BY <1>1, <1>4 DEF Ended
<1>6. Made' = Made
  BY <1>1 DEF Made
<1>7. \A d \in Calls : Alone(d) /\ (Somewhere(d) <=> d \in Made)
  BY <1>1 DEF OnePlace
<1>8. \A d : d \in handling' <=> d \in handling \/ (d = c /\ c \in Queries)
  BY <1>1 DEF ToRespond
<1>9. ASSUME NEW d \in Calls PROVE Alone(d)' /\ (Somewhere(d)' <=> d \in Made')
  BY <1>1, <1>2, <1>5, <1>6, <1>7, <1>8 DEF Alone, Somewhere
<1> QED BY <1>9 DEF OnePlace

LEMMA PlaceReceiveResponse ==
  ASSUME TypeOK, OnePlace, NEW s \in Services, receiveResponse(s)
  PROVE  OnePlace'
<1> SUFFICES ASSUME platformUp' PROVE OnePlace'
  BY DEF OnePlace
<1> DEFINE c == Head(fromPlatform[s]).call
<1>1. /\ platformUp /\ Receives(s, "response")
      /\ UNCHANGED <<toPlatform, handling, ignored, lost, arrived, made>>
      /\ answered' = answered \union {c}
  BY DEF receiveResponse, Receives, services
<1>2. /\ c \in Calls /\ Carries(fromPlatform, c)
      /\ \A d \in Calls :
           /\ Once(fromPlatform', d)
           /\ Carries(fromPlatform', d) <=> Carries(fromPlatform, d) /\ d # c
  BY <1>1, HeadRead
<1>3. c \in Queries
  BY <1>1, Received
<1> HIDE DEF c
<1>4. \A d \in Calls : Ended(d)' <=> Ended(d) \/ d = c
  BY <1>1, <1>3 DEF Ended
<1>5. Made' = Made
  BY <1>1 DEF Made
<1>6. \A d \in Calls : Alone(d) /\ (Somewhere(d) <=> d \in Made)
  BY <1>1 DEF OnePlace
<1>7. ASSUME NEW d \in Calls PROVE Alone(d)' /\ (Somewhere(d)' <=> d \in Made')
  BY <1>1, <1>2, <1>4, <1>5, <1>6 DEF Alone, Somewhere
<1> QED BY <1>7 DEF OnePlace

LEMMA PlaceRespond ==
  ASSUME TypeOK, OnePlace, NEW c \in Queries, respondToQuery(c)
  PROVE  OnePlace'
<1> DEFINE h == Recipient[c]
<1>1. /\ toPlatform \in [Services -> Seq(Message)] /\ h \in Services
      /\ Response(c) \in Message /\ c \in Calls
      /\ Appends(toPlatform, toPlatform', h, Response(c))
      /\ platformUp' = platformUp /\ platformUp
      /\ c \in handling /\ handling' = handling \ {c}
      /\ UNCHANGED <<fromPlatform, ignored, lost, answered, arrived, made>>
  BY MessageFacts, MessagingAssumption
     DEF TypeOK, respondToQuery, Handled, Emit, Appends, services, history
<1>2. \A d \in Calls : About(Response(c), d) <=> d = c
  BY Distinct DEF About
<1>3. \A d \in Calls : Alone(d) /\ (Somewhere(d) <=> d \in Made)
  BY <1>1 DEF OnePlace
<1>4. ASSUME NEW d \in Calls
      PROVE  /\ Carries(toPlatform', d) <=> Carries(toPlatform, d) \/ d = c
             /\ Once(toPlatform', d)
  <2>1. Once(toPlatform, d) /\ ~(Carries(toPlatform, d) /\ About(Response(c), d))
    BY <1>1, <1>2, <1>3 DEF Alone
  <2>2. About(Response(c), d) <=> d = c
    BY <1>2
  <2> QED BY <1>1, <2>1, <2>2, CarriesAppended
<1> HIDE DEF h
<1>5. Made' = Made /\ \A d \in Calls : Ended(d)' = Ended(d)
  BY <1>1 DEF Made, Ended
<1>6. ASSUME NEW d \in Calls PROVE Alone(d)' /\ (Somewhere(d)' <=> d \in Made')
  BY <1>1, <1>3, <1>4, <1>5 DEF Alone, Somewhere
<1> QED BY <1>6 DEF OnePlace

LEMMA PlaceDie ==
  ASSUME TypeOK, OnePlace, NEW s \in Services, Die(s)
  PROVE  OnePlace'
<1> DEFINE q == fromPlatform[s]
<1>1. /\ platformUp /\ platformUp' = platformUp
      /\ Empties(fromPlatform, fromPlatform', s)
      /\ lost' = (lost \union CallsIn(q)) \union {c \in handling : Recipient[c] = s}
      /\ handling' = {c \in handling : Recipient[c] # s}
      /\ UNCHANGED <<toPlatform, ignored, answered, arrived, made>>
  BY DEF Die, Empties
<1>2. fromPlatform \in [Services -> Seq(Message)] /\ q \in Seq(Message)
  BY DEF TypeOK
<1>3. \A d \in Calls : Alone(d) /\ (Somewhere(d) <=> d \in Made)
  BY <1>1 DEF OnePlace
<1>4. ASSUME NEW d \in Calls
      PROVE  /\ Once(fromPlatform', d)
             /\ Carries(fromPlatform', d) <=> Carries(fromPlatform, d) /\ d \notin CallsIn(q)
             /\ d \in CallsIn(q) => Carries(fromPlatform, d)
  <2>1. Once(fromPlatform, d)
    BY <1>3 DEF Alone
  <2>2. d \in CallsIn(q) <=> \E k \in DOMAIN fromPlatform[s] : About(fromPlatform[s][k], d)
    BY <1>2, CallsAre
  <2> QED BY <1>1, <1>2, <2>1, <2>2, CarriesEmptied
<1> HIDE DEF q
<1>5. Made' = Made /\ \A d \in Calls : Ended(d)' = Ended(d)
  BY <1>1 DEF Made, Ended
<1>6. ASSUME NEW d \in Calls PROVE Alone(d)' /\ (Somewhere(d)' <=> d \in Made')
  BY <1>1, <1>3, <1>4, <1>5 DEF Alone, Somewhere
<1> QED BY <1>6 DEF OnePlace

LEMMA PlaceInit == Init => OnePlace
<1> SUFFICES ASSUME Init, NEW c \in Calls
             PROVE  Alone(c) /\ ~Somewhere(c) /\ c \notin Made
  BY DEF OnePlace
<1>1. \A s \in Services : DOMAIN Empty[s] = {}
  BY DEF Empty
<1>2. ~Carries(Empty, c) /\ Once(Empty, c)
  BY <1>1 DEF Carries, Once
<1>3. \A s \in Services : Elements(Empty[s]) = {}
  BY <1>1 DEF Elements
<1> QED BY <1>2, <1>3 DEF Init, Alone, Somewhere, Ended, Made

LEMMA PlaceStep == TypeOK /\ OnePlace /\ [Next]_vars => OnePlace'
<1>1. ASSUME quit PROVE OnePlace'
  BY <1>1 DEF quit, OnePlace
<1>2. ASSUME OnePlace, UNCHANGED vars PROVE OnePlace'
  <2>1. /\ platformUp' = platformUp /\ Made' = Made
        /\ UNCHANGED <<toPlatform, fromPlatform, handling, ignored, lost, answered, arrived>>
    BY <1>2 DEF vars, services, wires, history, Made
  <2> QED BY <1>2, <2>1, PlaceKept
<1> QED
  BY <1>1, <1>2, PlaceConnect, PlaceRegister, PlaceIgnore, PlaceForward,
     PlaceForwardFails, PlaceReceiveRequest, PlaceReceiveResponse, PlaceDie,
     PlaceSend, PlaceRespond DEF Next

(* The places of a call that is somewhere, and there alone, are one.       *)
LEMMA OneOfPlaces ==
  ASSUME TypeOK, NEW c \in Calls, Alone(c), Somewhere(c)
  PROVE  Cardinality(Places(c)) = 1
<1>1. \A p : p \in Places(c) <=>
        \/ \E s \in Services : \E k \in DOMAIN toPlatform[s] :
             About(toPlatform[s][k], c) /\ p = <<"to", s, k>>
        \/ \E s \in Services : \E k \in DOMAIN fromPlatform[s] :
             About(fromPlatform[s][k], c) /\ p = <<"from", s, k>>
        \/ c \in handling /\ p = <<"handling", Home[c], 0>>
        \/ c \in ignored /\ p = <<"ignored", Home[c], 0>>
        \/ c \in lost /\ p = <<"lost", Home[c], 0>>
        \/ Ended(c) /\ p = <<"done", Home[c], 0>>
  <2>1. \A p, name, w : p \in OnWire(name, w, c) <=>
          \E s \in Services : \E k \in DOMAIN w[s] :
            About(w[s][k], c) /\ p = <<name, s, k>>
    BY DEF OnWire, About
  <2>2. \A p, name, S : p \in In(name, S, c) <=> c \in S /\ p = <<name, Home[c], 0>>
    BY DEF In
  <2>3. c \in Done <=> Ended(c)
    BY DEF TypeOK, Done, Ended
  <2> QED BY <2>1, <2>2, <2>3 DEF Places
<1>2. \E p : p \in Places(c)
  BY <1>1 DEF Somewhere, Carries
<1>3. \A p, o \in Places(c) : p = o
  BY <1>1 DEF Alone, Carries, Once
<1>4. \E p : Places(c) = {p}
  BY <1>2, <1>3
<1> QED BY <1>4, FS_Singleton

(* No message is duplicated, and none vanishes but where the platform      *)
(* manager ignores it or cannot write it: a call that was made is in one   *)
(* place while the platform runs, whichever services end meanwhile.        *)
THEOREM MessagesAccounted == Spec => []Accounted
<1>1. TypeOK /\ OnePlace => Accounted
  <2> SUFFICES ASSUME TypeOK, OnePlace, platformUp, NEW c \in Made
               PROVE  Cardinality(Places(c)) = 1
    BY DEF Accounted
  <2>1. c \in Calls
    BY DEF TypeOK, Made, Elements
  <2> QED BY <2>1, OneOfPlaces DEF OnePlace
<1> QED BY <1>1, TypeInvariant, PlaceInit, PlaceStep, PTL DEF Spec
=============================================================================
