------------------------- MODULE DeviceManagerProofs ------------------------
(***************************************************************************)
(* Theorems about DeviceStream, DeviceManager and DeviceCommands, for any  *)
(* devices, handlers, gateways, commands and bounds.                       *)
(***************************************************************************)
EXTENDS DeviceCommands, Integers, TLAPS

(* Every variable keeps its type: in particular a job always names a       *)
(* device and a handler that exist.                                        *)
THEOREM TypeInvariant == Spec => []TypeOK
<1> USE ConstantsAssumption DEF TypeOK
<1>0. <<>> \in Seq(JobType) /\ <<>> \in Seq(Nat)
  OBVIOUS
<1>1. Init => TypeOK
  <2>1. Empty \in [Devices -> Entry]
    BY DEF Empty, Entry
  <2> SUFFICES ASSUME Init PROVE TypeOK
    OBVIOUS
  <2>2. /\ running \in BOOLEAN
        /\ deviceCache \in [Devices -> Entry] /\ jobs \in Seq(JobType)
        /\ db \in [Devices -> Entry] /\ dbFile \in [Devices -> Entry]
    BY <1>0, <2>1 DEF Init
  <2>3. /\ pendingDeviceBuffer \in [Devices -> Seq(Nat)]
        /\ received \in [Devices -> Nat]
        /\ published \in [Devices -> Seq(Nat)]
        /\ lost \in [Devices -> SUBSET Nat]
        /\ registers \in Nat /\ crashes \in Nat
    BY <1>0 DEF Init
  <2> QED BY <2>2, <2>3
<1>2. TypeOK /\ [Next]_vars => TypeOK'
  <2> SUFFICES ASSUME TypeOK, [Next]_vars PROVE TypeOK'
    OBVIOUS
  <2>1. CASE Start
    BY <2>1 DEF Start, stream
  <2>2. ASSUME NEW d \in Devices, NEW h \in Registrars[d], register(d, h)
        PROVE  TypeOK'
    <3>1. Job("add", d, h, "register") \in JobType
      BY DEF Job, JobType
    <3> QED BY <2>2, <3>1 DEF register, stream
  <2>3. ASSUME NEW d \in Devices, NEW h \in Deliverers[d], deliver(d, h)
        PROVE  TypeOK'
    <3>1. Job("add", d, h, "deliver") \in JobType
      BY DEF Job, JobType
    <3>2. Reading(d) \in Nat /\ Pushed(d) \in Seq(Nat)
      BY DEF Reading, Pushed
    <3>3. CASE deliverBuffered(d)
      BY <3>2, <3>3 DEF deliverBuffered, Receive
    <3>4. CASE deliverNew(d, h)
      BY <3>1, <3>2, <3>4 DEF deliverNew, Receive
    <3>5. CASE deliverKnown(d)
      BY <3>2, <3>5 DEF deliverKnown, Receive
    <3> QED BY <2>3, <3>3, <3>4, <3>5 DEF deliver
  <2>4. CASE addDevice
    <3> DEFINE j == Head(jobs)
    <3>1. jobs # <<>> /\ j \in JobType /\ Tail(jobs) \in Seq(JobType)
      BY <2>4 DEF addDevice
    <3>2. Job("done", j.dev, j.handler, j.call) \in JobType
      BY <3>1 DEF Job, JobType
    <3>3. jobs' \in Seq(JobType)
      BY <2>4, <3>1, <3>2 DEF addDevice, Resolved
    <3>4. db' \in [Devices -> Entry]
      BY <2>4, <3>1 DEF addDevice, Inserted, JobType, Entry
    <3> QED BY <2>4, <3>3, <3>4 DEF addDevice, stream
  <2>5. CASE registered
    <3> DEFINE j == Head(jobs)
    <3>1. jobs # <<>> /\ j \in JobType /\ Tail(jobs) \in Seq(JobType)
      BY <2>5 DEF registered
    <3>2. deviceCache' \in [Devices -> Entry]
      BY <2>5, <3>1 DEF registered, JobType, Entry
    <3> QED BY <2>5, <3>1, <3>2 DEF registered, stream
  <2>6. CASE drainBuffer
    <3> DEFINE j == Head(jobs)
    <3>1. jobs # <<>> /\ j \in JobType /\ Tail(jobs) \in Seq(JobType)
      BY <2>6 DEF drainBuffer
    <3>2. deviceCache' \in [Devices -> Entry]
      BY <2>6, <3>1 DEF drainBuffer, JobType, Entry
    <3>3. /\ published[j.dev] \o pendingDeviceBuffer[j.dev] \in Seq(Nat)
          /\ <<>> \in Seq(Nat)
      BY <3>1 DEF JobType
    <3>4. /\ published' \in [Devices -> Seq(Nat)]
          /\ pendingDeviceBuffer' \in [Devices -> Seq(Nat)]
      BY <2>6, <3>3 DEF drainBuffer, Drained
    <3> QED BY <2>6, <3>1, <3>2, <3>4 DEF drainBuffer
  <2>7. CASE Flush
    BY <2>7 DEF Flush, stream
  <2>8. CASE Crash
    <3>1. Empty \in [Devices -> Entry]
      BY DEF Empty, Entry
    <3>2. \A d \in Devices : Elements(pendingDeviceBuffer[d]) \subseteq Nat
      BY DEF Elements
    <3>3. /\ lost' \in [Devices -> SUBSET Nat]
          /\ pendingDeviceBuffer' \in [Devices -> Seq(Nat)]
      BY <2>8, <3>2 DEF Crash
    <3>4. /\ running' \in BOOLEAN
          /\ deviceCache' \in [Devices -> Entry] /\ jobs' \in Seq(JobType)
          /\ db' \in [Devices -> Entry] /\ dbFile' \in [Devices -> Entry]
      BY <1>0, <2>8, <3>1 DEF Crash
    <3> QED BY <2>8, <3>3, <3>4 DEF Crash
  <2>9. CASE UNCHANGED vars
    BY <2>9 DEF vars, stream
  <2> QED BY <2>1, <2>2, <2>3, <2>4, <2>5, <2>6, <2>7, <2>8, <2>9 DEF Next
<1> QED BY <1>1, <1>2, PTL DEF Spec

-----------------------------------------------------------------------------
(* Appending adds one element, and keeps an increasing sequence increasing *)
(* when the element is above all of it.                                    *)
LEMMA AppendFacts ==
  ASSUME NEW s \in Seq(Nat), NEW n \in Nat
  PROVE  /\ Append(s, n) \in Seq(Nat)
         /\ DS!Elements(Append(s, n)) = DS!Elements(s) \union {n}
         /\ DS!Increasing(s) /\ (\A x \in DS!Elements(s) : x < n)
              => DS!Increasing(Append(s, n))
<1> DEFINE t == Append(s, n)
<1>1. t \in Seq(Nat) /\ Len(t) = Len(s) + 1
  OBVIOUS
<1>2. \A i \in DOMAIN s : i \in DOMAIN t /\ t[i] = s[i]
  OBVIOUS
<1>3. Len(t) \in DOMAIN t /\ t[Len(t)] = n
  OBVIOUS
<1>4. \A i \in DOMAIN t : i \in DOMAIN s \/ i = Len(t)
  OBVIOUS
<1>5. DOMAIN t = 1 .. Len(t) /\ DOMAIN s = 1 .. Len(s) /\ Len(s) \in Nat
  OBVIOUS
<1>6. \A i \in DOMAIN s : s[i] \in Nat
  OBVIOUS
<1> HIDE DEF t
<1>7. DS!Elements(t) = DS!Elements(s) \union {n}
  BY <1>2, <1>3, <1>4 DEF DS!Elements
<1>8. ASSUME DS!Increasing(s), \A x \in DS!Elements(s) : x < n
      PROVE  DS!Increasing(t)
  <2>1. \A i \in DOMAIN s : s[i] < n
    BY <1>8 DEF DS!Elements
  <2> SUFFICES ASSUME NEW i \in DOMAIN t, NEW j \in DOMAIN t, i < j
               PROVE  t[i] < t[j]
    BY DEF DS!Increasing
  <2>2. i \in DOMAIN s
    BY <1>1, <1>4, <1>5
  <2>3. CASE j \in DOMAIN s
    BY <1>2, <1>8, <2>2, <2>3 DEF DS!Increasing
  <2>4. CASE j = Len(t)
    BY <1>2, <1>3, <2>1, <2>2, <2>4
  <2> QED BY <1>4, <2>3, <2>4
<1> QED BY <1>1, <1>7, <1>8 DEF t

(* The same of concatenation.                                              *)
LEMMA ConcatFacts ==
  ASSUME NEW s \in Seq(Nat), NEW t \in Seq(Nat)
  PROVE  /\ s \o t \in Seq(Nat)
         /\ DS!Elements(s \o t) = DS!Elements(s) \union DS!Elements(t)
         /\ DS!Increasing(s) /\ DS!Increasing(t) /\ DS!Below(s, t)
              => DS!Increasing(s \o t)
<1> DEFINE u == s \o t
<1>1. u \in Seq(Nat)
  OBVIOUS
<1>2. \A i \in DOMAIN s : i \in DOMAIN u /\ u[i] = s[i]
  OBVIOUS
<1>3. \A i \in DOMAIN t : Len(s) + i \in DOMAIN u /\ u[Len(s) + i] = t[i]
  OBVIOUS
<1>4. \A i \in DOMAIN u :
         \/ i \in DOMAIN s
         \/ i > Len(s) /\ i - Len(s) \in DOMAIN t /\ u[i] = t[i - Len(s)]
  OBVIOUS
<1>5. /\ DOMAIN s = 1 .. Len(s) /\ Len(s) \in Nat
      /\ DOMAIN t = 1 .. Len(t) /\ Len(t) \in Nat
      /\ DOMAIN u = 1 .. Len(u) /\ Len(u) \in Nat
  BY <1>1
<1> HIDE DEF u
<1>6. DS!Elements(u) = DS!Elements(s) \union DS!Elements(t)
  BY <1>2, <1>3, <1>4 DEF DS!Elements
<1>7. ASSUME DS!Increasing(s), DS!Increasing(t), DS!Below(s, t)
      PROVE  DS!Increasing(u)
  <2> SUFFICES ASSUME NEW i \in DOMAIN u, NEW j \in DOMAIN u, i < j
               PROVE  u[i] < u[j]
    BY DEF DS!Increasing
  <2>1. CASE j \in DOMAIN s
    <3>1. i \in DOMAIN s
      BY <2>1, <1>5
    <3> QED BY <3>1, <2>1, <1>2, <1>7 DEF DS!Increasing
  <2>2. CASE i \notin DOMAIN s /\ j \notin DOMAIN s
    BY <2>2, <1>4, <1>5, <1>7 DEF DS!Increasing
  <2>3. CASE i \in DOMAIN s /\ j \notin DOMAIN s
    <3>1. u[i] \in DS!Elements(s) /\ u[j] \in DS!Elements(t)
      BY <2>3, <1>2, <1>4 DEF DS!Elements
    <3> QED BY <3>1, <1>7 DEF DS!Below
  <2> QED BY <2>1, <2>2, <2>3, <1>5
<1> QED BY <1>1, <1>6, <1>7 DEF u

(* The stream of every device is ordered and complete in every state, for  *)
(* any set of devices and any number of readings.                          *)
THEOREM StreamInvariant == DS!Spec => []DS!IInv
<1>1. DS!Init => DS!IInv
  BY DEF DS!Init, DS!IInv, DS!TypeOK, DS!Ordered, DS!Increasing, DS!Below,
         DS!Apart, DS!Complete, DS!Elements
<1>2. DS!IInv /\ [DS!Next]_(DS!vars) => DS!IInv'
  <2> SUFFICES ASSUME DS!IInv, [DS!Next]_(DS!vars) PROVE DS!IInv'
    OBVIOUS
  <2> USE DEF DS!IInv, DS!TypeOK
  <2>0. /\ \A d \in Devices :
             /\ DS!Elements(published[d]) \subseteq 1 .. received[d]
             /\ DS!Elements(pendingDeviceBuffer[d]) \subseteq 1 .. received[d]
             /\ lost[d] \subseteq 1 .. received[d]
        /\ DS!Elements(<<>>) = {} /\ DS!Increasing(<<>>)
    BY DEF DS!Complete, DS!Elements, DS!Increasing
  <2>1. ASSUME NEW d \in Devices, DS!Pass(d) PROVE DS!IInv'
    <3> DEFINE r == received[d] + 1
               p == Append(published[d], r)
    <3>1. /\ received' = [received EXCEPT ![d] = r] /\ lost' = lost
          /\ pendingDeviceBuffer' = pendingDeviceBuffer
          /\ published' = [published EXCEPT ![d] = p]
          /\ pendingDeviceBuffer[d] = <<>> /\ r \in Nat /\ r = received[d] + 1
      BY <2>1 DEF DS!Pass, DS!Receive
    <3>2. /\ p \in Seq(Nat)
          /\ DS!Elements(p) = DS!Elements(published[d]) \union {r}
          /\ DS!Increasing(p)
      BY <2>0, <3>1, AppendFacts DEF DS!Ordered
    <3> HIDE DEF r, p
    <3>3. DS!TypeOK'
      BY <3>1, <3>2
    <3>4. DS!Ordered'
      BY <2>0, <3>1, <3>2 DEF DS!Ordered, DS!Below
    <3>5. DS!Complete'
      BY <2>0, <3>1, <3>2 DEF DS!Complete
    <3>6. DS!Apart'
      BY <2>0, <3>1, <3>2 DEF DS!Apart
    <3> QED BY <3>3, <3>4, <3>5, <3>6
  <2>2. ASSUME NEW d \in Devices, DS!Hold(d) PROVE DS!IInv'
    <3> DEFINE r == received[d] + 1
               b == Append(pendingDeviceBuffer[d], r)
    <3>1. /\ received' = [received EXCEPT ![d] = r] /\ published' = published
          /\ lost' = lost
          /\ pendingDeviceBuffer' = [pendingDeviceBuffer EXCEPT ![d] = b]
          /\ r \in Nat /\ r = received[d] + 1
      BY <2>2 DEF DS!Hold, DS!Receive
    <3>2. /\ b \in Seq(Nat)
          /\ DS!Elements(b) = DS!Elements(pendingDeviceBuffer[d]) \union {r}
          /\ DS!Increasing(b)
      BY <2>0, <3>1, AppendFacts DEF DS!Ordered
    <3> HIDE DEF r, b
    <3>3. DS!TypeOK'
      BY <3>1, <3>2
    <3>4. DS!Ordered'
      BY <2>0, <3>1, <3>2 DEF DS!Ordered, DS!Below
    <3>5. DS!Complete'
      BY <2>0, <3>1, <3>2 DEF DS!Complete
    <3>6. DS!Apart'
      BY <2>0, <3>1, <3>2 DEF DS!Apart
    <3> QED BY <3>3, <3>4, <3>5, <3>6
  <2>3. ASSUME NEW d \in Devices, DS!Drain(d) PROVE DS!IInv'
    <3> DEFINE p == published[d] \o pendingDeviceBuffer[d]
    <3>1. /\ published' = [published EXCEPT ![d] = p] /\ lost' = lost
          /\ pendingDeviceBuffer' = [pendingDeviceBuffer EXCEPT ![d] = <<>>]
          /\ received' = received
      BY <2>3 DEF DS!Drain
    <3>2. /\ p \in Seq(Nat) /\ DS!Increasing(p)
          /\ DS!Elements(p) = DS!Elements(published[d])
                                 \union DS!Elements(pendingDeviceBuffer[d])
      BY ConcatFacts DEF DS!Ordered
    <3> HIDE DEF p
    <3>3. DS!TypeOK'
      BY <3>1, <3>2
    <3>4. DS!Ordered'
      BY <2>0, <3>1, <3>2 DEF DS!Ordered, DS!Below
    <3>5. DS!Complete'
      BY <2>0, <3>1, <3>2 DEF DS!Complete
    <3>6. DS!Apart'
      BY <2>0, <3>1, <3>2 DEF DS!Apart
    <3> QED BY <3>3, <3>4, <3>5, <3>6
  <2>4. CASE DS!Die
    <3>1. published' = published /\ received' = received
          /\ lost' = [d \in Devices |->
                        lost[d] \union DS!Elements(pendingDeviceBuffer[d])]
          /\ pendingDeviceBuffer' = [d \in Devices |-> <<>>]
      BY <2>4 DEF DS!Die
    <3>2. DS!TypeOK'
      BY <2>0, <3>1
    <3>3. DS!Ordered'
      BY <2>0, <3>1 DEF DS!Ordered, DS!Below
    <3>4. \A d \in Devices :
            DS!Elements(published[d])
                 \intersect DS!Elements(pendingDeviceBuffer[d]) = {}
      BY <2>0 DEF DS!Ordered, DS!Below
    <3>5. DS!Apart' /\ DS!Complete'
      BY <2>0, <3>1, <3>4 DEF DS!Apart, DS!Complete
    <3> QED BY <3>2, <3>3, <3>5
  <2>5. CASE UNCHANGED DS!vars
    BY <2>5 DEF DS!vars, DS!Ordered, DS!Increasing, DS!Apart, DS!Complete
  <2> QED BY <2>1, <2>2, <2>3, <2>4, <2>5 DEF DS!Next
<1> QED BY <1>1, <1>2, PTL DEF DS!Spec

(* Once each, in the order received; and nothing lost but at a death.      *)
THEOREM StreamPromise == DS!Spec => [](DS!InOrder /\ DS!Conserved)
<1>1. DS!IInv => DS!InOrder /\ DS!Conserved
  BY DEF DS!IInv, DS!Ordered, DS!Apart, DS!Complete, DS!InOrder, DS!Conserved
<1> QED BY <1>1, StreamInvariant, PTL

-----------------------------------------------------------------------------
(* Every step of the device manager is a step of DeviceStream on the       *)
(* buffers and the published readings, or leaves them alone.               *)
THEOREM Refinement == Spec => StreamSpec
<1>1. Init => DS!Init
  BY DEF Init, DS!Init
<1>2. TypeOK /\ [Next]_vars => [DS!Next]_(DS!vars)
  <2> SUFFICES ASSUME TypeOK, [Next]_vars PROVE [DS!Next]_(DS!vars)
    OBVIOUS
  <2> USE DEF stream, DS!vars
  <2>1. CASE Start
    BY <2>1 DEF Start
  <2>2. ASSUME NEW d \in Devices, NEW h \in Registrars[d], register(d, h)
        PROVE  UNCHANGED DS!vars
    BY <2>2 DEF register
  <2>3. ASSUME NEW d \in Devices, NEW h \in Deliverers[d], deliver(d, h)
        PROVE  DS!Pass(d) \/ DS!Hold(d)
    <3>1. CASE deliverBuffered(d)
      BY <3>1 DEF deliverBuffered, DS!Hold, Receive, DS!Receive, Reading, Pushed
    <3>2. CASE deliverNew(d, h)
      <4>1. Append(pendingDeviceBuffer[d], Reading(d)) = <<Reading(d)>>
        <5>1. pendingDeviceBuffer[d] = <<>> /\ Reading(d) \in Nat
          BY <3>2 DEF deliverNew, isAwaitingRegistration, TypeOK, Reading
        <5> QED BY <5>1
      <4> QED BY <3>2, <4>1
              DEF deliverNew, DS!Hold, Receive, DS!Receive, Reading
    <3>3. CASE deliverKnown(d)
      BY <3>3 DEF deliverKnown, isAwaitingRegistration, DS!Pass, Receive,
                  DS!Receive, Reading
    <3> QED BY <2>3, <3>1, <3>2, <3>3 DEF deliver
  <2>4. CASE addDevice
    BY <2>4 DEF addDevice
  <2>5. CASE registered
    BY <2>5 DEF registered
  <2>6. CASE drainBuffer
    <3>1. Head(jobs).dev \in Devices
      <4>1. jobs \in Seq(JobType) /\ jobs # <<>>
        BY <2>6 DEF drainBuffer, TypeOK
      <4>2. Head(jobs) \in JobType
        BY <4>1
      <4> QED BY <4>2 DEF JobType
    <3>2. DS!Drain(Head(jobs).dev)
      BY <2>6, <3>1 DEF drainBuffer, Drained, DS!Drain
    <3> QED BY <3>1, <3>2 DEF DS!Next
  <2>7. CASE Flush
    BY <2>7 DEF Flush
  <2>8. CASE Crash
    BY <2>8 DEF Crash, Elements, DS!Die, DS!Elements, DS!Next
  <2>9. CASE UNCHANGED vars
    BY <2>9 DEF vars
  <2> QED BY <2>1, <2>2, <2>3, <2>4, <2>5, <2>6, <2>7, <2>8, <2>9
          DEF Next, DS!Next
<1> QED BY <1>1, <1>2, TypeInvariant, PTL DEF Spec, StreamSpec, DS!Spec

(* Hence readings leave once each, in the order received, and only those   *)
(* held when the process died are missing.                                 *)
THEOREM ReadingsInOrder == Spec => [](InOrder /\ Conserved)
<1>1. StreamSpec => [](DS!InOrder /\ DS!Conserved)
  BY StreamPromise DEF StreamSpec
<1> QED BY <1>1, Refinement, PTL DEF InOrder, Conserved

-----------------------------------------------------------------------------
(* Where the jobs of a queue come from when one is appended, removed, or   *)
(* replaced by its continuation at the end.                                *)
LEMMA AppendedJobs ==
  ASSUME NEW q \in Seq(JobType), NEW k \in JobType
  PROVE  /\ \A i \in DOMAIN q : i \in DOMAIN Append(q, k) /\ Append(q, k)[i] = q[i]
         /\ \A i \in DOMAIN Append(q, k) : i \in DOMAIN q \/ i = Len(q) + 1
         /\ Len(q) + 1 \in DOMAIN Append(q, k) /\ Append(q, k)[Len(q) + 1] = k
         /\ Len(q) + 1 \notin DOMAIN q
  OBVIOUS

LEMMA RemainingJobs ==
  ASSUME NEW q \in Seq(JobType), q # <<>>
  PROVE  /\ \A i \in DOMAIN Tail(q) : i + 1 \in DOMAIN q /\ i + 1 # 1
                                       /\ Tail(q)[i] = q[i + 1]
         /\ \A i \in DOMAIN q : i # 1 => i - 1 \in DOMAIN Tail(q)
                                       /\ Tail(q)[i - 1] = q[i]
         /\ \A i, j \in DOMAIN Tail(q) : i + 1 = j + 1 => i = j
         /\ 1 \in DOMAIN q /\ q[1] = Head(q) /\ Head(q) \in JobType
         /\ Tail(q) \in Seq(JobType)
  OBVIOUS

LEMMA RequeuedJobs ==
  ASSUME NEW q \in Seq(JobType), q # <<>>, NEW k \in JobType,
         NEW t, t = Append(Tail(q), k)
  PROVE  /\ \A i \in DOMAIN t :
              \/ i + 1 \in DOMAIN q /\ i + 1 # 1 /\ t[i] = q[i + 1]
              \/ i = Len(q) /\ t[i] = k
         /\ \A i \in DOMAIN q : i # 1 => i - 1 \in DOMAIN t /\ t[i - 1] = q[i]
         /\ Len(q) \in DOMAIN t /\ t[Len(q)] = k
         /\ \A i \in DOMAIN t : i \in Int
<1> DEFINE n == Len(q)
           r == Tail(q)
<1>1. n \in Nat /\ n > 0 /\ DOMAIN q = 1 .. n
  OBVIOUS
<1>2. r \in Seq(JobType) /\ Len(r) = n - 1 /\ DOMAIN r = 1 .. n - 1
  OBVIOUS
<1>3. (\A i \in 1 .. n - 1 : r[i] = q[i + 1]) /\ t = Append(r, k)
  OBVIOUS
<1> HIDE DEF n, r
<1>4. DOMAIN t = 1 .. n /\ t[n] = k
  BY <1>1, <1>2, <1>3
<1>5. \A i \in 1 .. n - 1 : t[i] = r[i]
  BY <1>1, <1>2, <1>3
<1>6. \A i \in 1 .. n : i < n \/ i = n
  BY <1>1
<1>7. \A i \in 1 .. n - 1 : t[i] = q[i + 1] /\ i + 1 \in 1 .. n /\ i + 1 # 1
  BY <1>1, <1>3, <1>5
<1>8. \A i \in 1 .. n : i # 1 => i - 1 \in 1 .. n - 1 /\ (i - 1) + 1 = i
  BY <1>1
<1>9. \A i \in DOMAIN t : \/ i + 1 \in DOMAIN q /\ i + 1 # 1 /\ t[i] = q[i + 1]
                          \/ i = n /\ t[i] = k
  BY <1>1, <1>4, <1>6, <1>7
<1>10. \A i \in DOMAIN q : i # 1 => i - 1 \in DOMAIN t /\ t[i - 1] = q[i]
  <2> SUFFICES ASSUME NEW i \in 1 .. n, i # 1
               PROVE  i - 1 \in DOMAIN t /\ t[i - 1] = q[i]
    BY <1>1
  <2>1. i - 1 \in 1 .. n - 1 /\ (i - 1) + 1 = i
    BY <1>8
  <2>2. t[i - 1] = q[(i - 1) + 1]
    BY <1>7, <2>1
  <2>3. i - 1 \in 1 .. n
    BY <1>1, <2>1
  <2> QED BY <1>4, <2>1, <2>2, <2>3
<1>11. n \in DOMAIN t /\ \A i \in DOMAIN t : i \in Int
  BY <1>1, <1>4
<1>12. \A i \in DOMAIN t : \/ i + 1 \in DOMAIN q /\ i + 1 # 1 /\ t[i] = q[i + 1]
                           \/ i = Len(q) /\ t[i] = k
  BY <1>9, Zenon DEF n
<1>13. Len(q) \in DOMAIN t /\ t[Len(q)] = k
  BY <1>4, <1>11, Zenon DEF n
<1>14. \A i \in DOMAIN t : i \in Int
  BY <1>11
<1> QED BY <1>10, <1>12, <1>13, <1>14

(* A buffer has exactly one registration in flight, the cache agrees with  *)
(* the database, and the jobs in flight agree with both, in every state.   *)
THEOREM CacheInvariant == Spec => []IInv
<1> DEFINE Rest == /\ BufferHasItsJob /\ CacheReflectsDb /\ AllSound
                   /\ RowsSound(db) /\ RowsSound(dbFile) /\ Idle
<1>1. Init => Rest
  BY ConstantsAssumption
     DEF Init, Empty, BufferHasItsJob, DeliverJobs, CacheReflectsDb, AllSound,
         RowsSound, Idle
<1>2. TypeOK /\ TypeOK' /\ Rest /\ [Next]_vars => Rest'
  <2> SUFFICES ASSUME TypeOK, TypeOK', Rest, [Next]_vars PROVE Rest'
    OBVIOUS
  <2> HIDE DEF Rest
  <2>0. /\ BufferHasItsJob /\ CacheReflectsDb /\ AllSound
        /\ RowsSound(db) /\ RowsSound(dbFile) /\ Idle
        /\ jobs \in Seq(JobType) /\ jobs' \in Seq(JobType)
        /\ NoHandler \notin Handlers
    BY ConstantsAssumption DEF Rest, TypeOK
  <2>1. CASE Start
    <3>1. /\ running' = TRUE /\ db' = dbFile /\ deviceCache' = dbFile
          /\ jobs' = jobs /\ jobs = <<>> /\ dbFile' = dbFile
          /\ pendingDeviceBuffer' = pendingDeviceBuffer
      BY <2>0, <2>1 DEF Start, Idle
    <3>2. BufferHasItsJob'
      BY <2>0, <3>1 DEF BufferHasItsJob, DeliverJobs
    <3>3. CacheReflectsDb'
      BY <3>1 DEF CacheReflectsDb, isDeviceInCache
    <3>4. AllSound' /\ RowsSound(db)' /\ RowsSound(dbFile)' /\ Idle'
      BY <2>0, <3>1 DEF AllSound, RowsSound, Idle, HandlersOf
    <3> QED BY <3>2, <3>3, <3>4 DEF Rest
  <2>2. ASSUME NEW d \in Devices, NEW h \in Registrars[d], register(d, h)
        PROVE  Rest'
    <3> DEFINE k == Job("add", d, h, "register")
    <3>1. /\ jobs' = Append(jobs, k) /\ running /\ running' = running
          /\ db' = db /\ dbFile' = dbFile /\ deviceCache' = deviceCache
          /\ pendingDeviceBuffer' = pendingDeviceBuffer
      BY <2>2 DEF register
    <3>2. k \in JobType /\ k.dev = d /\ k.step = "add" /\ k.call = "register"
          /\ k.handler = h
      BY ConstantsAssumption DEF Job, JobType
    <3> HIDE DEF k
    <3>3. BufferHasItsJob'
      BY <2>0, <3>1, <3>2, AppendedJobs DEF BufferHasItsJob, DeliverJobs
    <3>4. CacheReflectsDb'
      BY <2>0, <3>1, <3>2, AppendedJobs DEF CacheReflectsDb, isDeviceInCache
    <3>5. JobSound(k)
      BY <3>2 DEF JobSound
    <3>6. AllSound'
      <4> SUFFICES ASSUME NEW i \in DOMAIN jobs' PROVE JobSound(jobs'[i])
        BY <3>1 DEF AllSound, JobSound
      <4> QED BY <2>0, <3>1, <3>2, <3>5, AppendedJobs DEF AllSound
    <3> QED BY <2>0, <3>1, <3>3, <3>4, <3>6 DEF Rest, RowsSound, HandlersOf, Idle
  <2>3. ASSUME NEW d \in Devices, NEW h \in Deliverers[d], deliver(d, h)
        PROVE  Rest'
    <3>1. CASE deliverBuffered(d)
      <4>1. /\ jobs' = jobs /\ running' = running /\ db' = db
            /\ dbFile' = dbFile /\ deviceCache' = deviceCache
            /\ pendingDeviceBuffer[d] # <<>>
            /\ pendingDeviceBuffer' = [pendingDeviceBuffer EXCEPT ![d] = Pushed(d)]
        BY <3>1 DEF deliverBuffered, Receive, isAwaitingRegistration
      <4>2. Pushed(d) # <<>>
        <5>1. pendingDeviceBuffer[d] \in Seq(Nat) /\ Reading(d) \in Nat
          BY DEF Reading, TypeOK
        <5> QED BY <5>1 DEF Pushed
      <4>3. BufferHasItsJob'
        <5>1. \A e \in Devices : pendingDeviceBuffer'[e] # <<>>
                                <=> pendingDeviceBuffer[e] # <<>>
          BY <4>1, <4>2 DEF TypeOK
        <5> QED BY <2>0, <4>1, <5>1 DEF BufferHasItsJob, DeliverJobs
      <4> QED BY <2>0, <4>1, <4>3 DEF Rest, CacheReflectsDb, isDeviceInCache,
                  AllSound, JobSound, RowsSound, HandlersOf, Idle
    <3>2. CASE deliverNew(d, h)
      <4> DEFINE k == Job("add", d, h, "deliver")
      <4>1. /\ jobs' = Append(jobs, k) /\ running /\ running' = running
            /\ db' = db /\ dbFile' = dbFile /\ deviceCache' = deviceCache
            /\ pendingDeviceBuffer[d] = <<>> /\ deviceCache[d] = NoHandler
            /\ pendingDeviceBuffer' =
                 [pendingDeviceBuffer EXCEPT ![d] = <<Reading(d)>>]
        BY <3>2 DEF deliverNew, Receive, isAwaitingRegistration, isDeviceInCache
      <4>2. k \in JobType /\ k.dev = d /\ k.step = "add" /\ k.call = "deliver"
            /\ k.handler = h
        BY ConstantsAssumption DEF Job, JobType
      <4> HIDE DEF k
      <4>3. DeliverJobs(d) = {} /\ <<Reading(d)>> # <<>>
        BY <2>0, <4>1 DEF BufferHasItsJob
      <4>4. BufferHasItsJob'
        <5>1. /\ \A e \in Devices : e # d =>
                   pendingDeviceBuffer'[e] = pendingDeviceBuffer[e]
              /\ pendingDeviceBuffer'[d] # <<>>
          BY <4>1, <4>3 DEF TypeOK
        <5>2. /\ \A e \in Devices : e # d => DeliverJobs(e)' = DeliverJobs(e)
              /\ DeliverJobs(d)' = {Len(jobs) + 1}
          BY <2>0, <4>1, <4>2, <4>3, AppendedJobs DEF DeliverJobs
        <5> QED BY <2>0, <5>1, <5>2 DEF BufferHasItsJob
      <4>5. CacheReflectsDb'
        BY <2>0, <4>1, <4>2, AppendedJobs DEF CacheReflectsDb, isDeviceInCache
      <4>6. JobSound(k)
        <5>1. ASSUME Registrars[d] = {}, db[d] # NoHandler PROVE FALSE
          <6>1. PICK i \in DOMAIN jobs : jobs[i].step = "done" /\ jobs[i].dev = d
            BY <2>0, <4>1, <5>1 DEF CacheReflectsDb, isDeviceInCache
          <6>2. jobs[i].call = "register"
            <7>1. jobs[i] \in JobType
              BY <2>0
            <7> QED BY <4>3, <6>1, <7>1 DEF DeliverJobs, JobType
          <6> QED BY <2>0, <5>1, <6>1, <6>2 DEF AllSound, JobSound
        <5> QED BY <4>2, <5>1 DEF JobSound
      <4>7. AllSound'
        <5> SUFFICES ASSUME NEW i \in DOMAIN jobs' PROVE JobSound(jobs'[i])
          BY <4>1 DEF AllSound, JobSound
        <5> QED BY <2>0, <4>1, <4>2, <4>6, AppendedJobs DEF AllSound
      <4> QED BY <2>0, <4>1, <4>4, <4>5, <4>7 DEF Rest, RowsSound, HandlersOf, Idle
    <3>3. CASE deliverKnown(d)
      <4>1. /\ jobs' = jobs /\ running' = running /\ db' = db
            /\ dbFile' = dbFile /\ deviceCache' = deviceCache
            /\ pendingDeviceBuffer' = pendingDeviceBuffer
        BY <3>3 DEF deliverKnown, Receive
      <4> QED BY <2>0, <4>1 DEF Rest, BufferHasItsJob, DeliverJobs,
                  CacheReflectsDb, isDeviceInCache, AllSound, JobSound,
                  RowsSound, HandlersOf, Idle
    <3> QED BY <2>3, <3>1, <3>2, <3>3 DEF deliver
  <2>4. CASE addDevice
    <3> DEFINE j == Head(jobs)
               k == Job("done", j.dev, j.handler, j.call)
    <3>1. /\ jobs # <<>> /\ j.step = "add" /\ db' = Inserted(j.dev, j.handler)
          /\ jobs' = Append(Tail(jobs), k) /\ running' = running
          /\ deviceCache' = deviceCache /\ dbFile' = dbFile
          /\ pendingDeviceBuffer' = pendingDeviceBuffer
      BY <2>4 DEF addDevice, Resolved
    <3>2. j \in JobType /\ jobs[1] = j /\ 1 \in DOMAIN jobs
      BY <2>0, <3>1
    <3>3. k \in JobType /\ k.dev = j.dev /\ k.step = "done" /\ k.call = j.call
          /\ k.handler = j.handler
      BY <3>2 DEF Job, JobType
    <3>4. j.dev \in Devices /\ j.handler \in Handlers
          /\ j.call \in {"register", "deliver"} /\ j.handler \in HandlersOf(j.dev)
      BY <2>0, <3>2 DEF JobType, AllSound, JobSound, HandlersOf
    <3> HIDE DEF j, k
    <3>5. /\ \A d \in Devices : db[d] # NoHandler => db'[d] = db[d]
          /\ \A d \in Devices : d # j.dev => db'[d] = db[d]
          /\ db'[j.dev] # NoHandler
          /\ db[j.dev] = NoHandler => db'[j.dev] = j.handler
      BY <2>0, <3>1, <3>4 DEF Inserted, TypeOK
    <3>6. db'[j.dev] = j.handler
      <4>1. CASE db[j.dev] = NoHandler
        BY <4>1, <3>5
      <4>2. CASE db[j.dev] # NoHandler
        <5>1. Registrars[j.dev] # {}
          BY <2>0, <3>1, <3>2, <4>2 DEF AllSound, JobSound
        <5>2. PICK r \in Registrars[j.dev] : HandlersOf(j.dev) = {r}
          BY <3>4, <5>1, OwnershipAssumption DEF HandlersOf
        <5> QED BY <2>0, <3>4, <3>5, <4>2, <5>2 DEF RowsSound
      <4> QED BY <4>1, <4>2
    <3>7. /\ \A i \in DOMAIN jobs' :
               \/ i + 1 \in DOMAIN jobs /\ i + 1 # 1 /\ jobs'[i] = jobs[i + 1]
               \/ i = Len(jobs) /\ jobs'[i] = k
          /\ \A i \in DOMAIN jobs : i # 1 => i - 1 \in DOMAIN jobs'
                                            /\ jobs'[i - 1] = jobs[i]
          /\ Len(jobs) \in DOMAIN jobs' /\ jobs'[Len(jobs)] = k
          /\ \A i \in DOMAIN jobs' : i \in Int
      <4>1. jobs \in Seq(JobType) /\ jobs # <<>> /\ k \in JobType
            /\ jobs' = Append(Tail(jobs), k)
        BY <2>0, <3>1, <3>3
      <4> QED BY <4>1, RequeuedJobs
    <3>8. BufferHasItsJob'
      <4> SUFFICES ASSUME NEW d \in Devices
                   PROVE  /\ pendingDeviceBuffer[d] # <<>> <=> DeliverJobs(d)' # {}
                          /\ \A m, n \in DeliverJobs(d)' : m = n
        BY <3>1 DEF BufferHasItsJob
      <4>1. \A i \in DeliverJobs(d)' :
              \/ i + 1 \in DeliverJobs(d) /\ i + 1 # 1
              \/ i = Len(jobs) /\ 1 \in DeliverJobs(d)
        BY <3>2, <3>3, <3>7 DEF DeliverJobs
      <4>2. \A i \in DeliverJobs(d) :
              \/ i - 1 \in DeliverJobs(d)'
              \/ i = 1 /\ Len(jobs) \in DeliverJobs(d)'
        BY <3>2, <3>3, <3>7 DEF DeliverJobs
      <4>3. \A i \in DeliverJobs(d)' : i \in Int
        BY <3>7 DEF DeliverJobs
      <4> QED BY <2>0, <4>1, <4>2, <4>3 DEF BufferHasItsJob
    <3>9. CacheReflectsDb'
      <4> SUFFICES ASSUME running, NEW d \in Devices
            PROVE  /\ deviceCache[d] # NoHandler => deviceCache[d] = db'[d]
                   /\ db'[d] # NoHandler /\ deviceCache[d] = NoHandler =>
                        \E i \in DOMAIN jobs' : jobs'[i].step = "done"
                                                /\ jobs'[i].dev = d
        BY <3>1 DEF CacheReflectsDb, isDeviceInCache
      <4>1. deviceCache[d] # NoHandler => deviceCache[d] = db'[d]
        BY <2>0, <3>5 DEF CacheReflectsDb, isDeviceInCache
      <4>2. CASE d = j.dev
        BY <4>1, <4>2, <3>3, <3>7
      <4>3. ASSUME d # j.dev, db'[d] # NoHandler, deviceCache[d] = NoHandler
            PROVE  \E i \in DOMAIN jobs' : jobs'[i].step = "done"
                                           /\ jobs'[i].dev = d
        <5>1. PICK i \in DOMAIN jobs : jobs[i].step = "done" /\ jobs[i].dev = d
          BY <2>0, <3>5, <4>3 DEF CacheReflectsDb, isDeviceInCache
        <5>2. i # 1
          BY <3>2, <4>3, <5>1
        <5> QED BY <3>7, <5>1, <5>2
      <4> QED BY <4>1, <4>2, <4>3
    <3>10. AllSound'
      <4> SUFFICES ASSUME NEW i \in DOMAIN jobs' PROVE JobSound(jobs[i])'
        BY DEF AllSound
      <4>1. CASE i = Len(jobs) /\ jobs'[i] = k
        <5>1. k.handler \in IF k.call = "register" THEN Registrars[k.dev]
                                                   ELSE Deliverers[k.dev]
          BY <2>0, <3>2, <3>3 DEF AllSound, JobSound
        <5> QED BY <4>1, <5>1, <3>3, <3>6 DEF JobSound
      <4>2. ASSUME i + 1 \in DOMAIN jobs, i + 1 # 1, jobs'[i] = jobs[i + 1]
            PROVE  JobSound(jobs[i])'
        <5> DEFINE m == jobs[i + 1]
        <5>1. JobSound(m) /\ m \in JobType
          BY <2>0, <4>2 DEF AllSound
        <5>2. m.step = "done" => db'[m.dev] = m.handler
          BY <5>1, <3>5, <2>0 DEF JobSound, JobType
        <5>3. ASSUME m.step = "add", Registrars[m.dev] = {}, m.dev = j.dev
              PROVE  FALSE
          <6>1. m.call = "deliver" /\ j.call = "deliver"
            BY <2>0, <3>2, <3>4, <5>1, <5>3 DEF AllSound, JobSound, JobType
          <6>2. 1 \in DeliverJobs(j.dev) /\ i + 1 \in DeliverJobs(j.dev)
            BY <3>2, <4>2, <5>3, <6>1 DEF DeliverJobs
          <6> QED BY <2>0, <3>4, <4>2, <6>2 DEF BufferHasItsJob
        <5>4. m.step = "add" /\ Registrars[m.dev] = {} => db'[m.dev] = NoHandler
          BY <5>1, <5>3, <3>5 DEF JobSound, JobType
        <5> QED BY <4>2, <5>1, <5>2, <5>4 DEF JobSound
      <4> QED BY <3>7, <4>1, <4>2
    <3>11. RowsSound(db)' /\ RowsSound(dbFile)'
      BY <2>0, <3>1, <3>4, <3>5, <3>6 DEF RowsSound, HandlersOf
    <3>12. Idle'
      BY <2>0, <3>1 DEF Idle
    <3> QED BY <3>8, <3>9, <3>10, <3>11, <3>12 DEF Rest
  <2>5. CASE registered
    <3> DEFINE j == Head(jobs)
    <3>1. /\ jobs # <<>> /\ j.step = "done" /\ j.call = "register"
          /\ deviceCache' = [deviceCache EXCEPT ![j.dev] = j.handler]
          /\ jobs' = Tail(jobs) /\ running' = running /\ db' = db
          /\ dbFile' = dbFile /\ pendingDeviceBuffer' = pendingDeviceBuffer
      BY <2>5 DEF registered
    <3>2. /\ \A i \in DOMAIN jobs' : i + 1 \in DOMAIN jobs /\ i + 1 # 1
                                     /\ jobs'[i] = jobs[i + 1]
          /\ \A i \in DOMAIN jobs : i # 1 => i - 1 \in DOMAIN jobs'
                                          /\ jobs'[i - 1] = jobs[i]
          /\ \A m, n \in DOMAIN jobs' : m + 1 = n + 1 => m = n
          /\ 1 \in DOMAIN jobs /\ jobs[1] = j /\ j \in JobType
      BY <2>0, <3>1, RemainingJobs
    <3>3. j.dev \in Devices /\ j.handler \in Handlers /\ db[j.dev] = j.handler
      BY <2>0, <3>1, <3>2 DEF AllSound, JobSound, JobType
    <3> HIDE DEF j
    <3>4. BufferHasItsJob'
      <4> SUFFICES ASSUME NEW d \in Devices
                   PROVE  /\ pendingDeviceBuffer[d] # <<>> <=> DeliverJobs(d)' # {}
                          /\ \A m, n \in DeliverJobs(d)' : m = n
        BY <3>1 DEF BufferHasItsJob
      <4>1. \A i \in DeliverJobs(d)' : i + 1 \in DeliverJobs(d)
        BY <3>2 DEF DeliverJobs
      <4>2. \A i \in DeliverJobs(d) : i - 1 \in DeliverJobs(d)'
        BY <3>1, <3>2 DEF DeliverJobs
      <4>3. \A m, n \in DeliverJobs(d)' : m = n
        <5>1. TAKE m, n \in DeliverJobs(d)'
        <5>2. m \in DOMAIN jobs' /\ n \in DOMAIN jobs'
          BY <5>1 DEF DeliverJobs
        <5>3. m + 1 \in DeliverJobs(d) /\ n + 1 \in DeliverJobs(d)
          BY <4>1, <5>1
        <5>4. m + 1 = n + 1
          BY <2>0, <5>3 DEF BufferHasItsJob
        <5> QED BY <3>2, <5>2, <5>4
      <4>4. DeliverJobs(d)' # {} <=> DeliverJobs(d) # {}
        BY <4>1, <4>2
      <4> QED BY <2>0, <4>3, <4>4 DEF BufferHasItsJob
    <3>5. CacheReflectsDb'
      <4> SUFFICES ASSUME running, NEW d \in Devices
            PROVE  /\ deviceCache'[d] # NoHandler => deviceCache'[d] = db[d]
                   /\ db[d] # NoHandler /\ deviceCache'[d] = NoHandler =>
                        \E i \in DOMAIN jobs' : jobs'[i].step = "done"
                                                /\ jobs'[i].dev = d
        BY <3>1 DEF CacheReflectsDb, isDeviceInCache
      <4>1. CASE d = j.dev
        <5>1. deviceCache'[d] = j.handler
          BY <3>1, <4>1 DEF TypeOK
        <5> QED BY <2>0, <3>3, <4>1, <5>1
      <4>2. CASE d # j.dev
        <5>1. deviceCache'[d] = deviceCache[d]
          BY <3>1, <4>2 DEF TypeOK
        <5>2. \A i \in DOMAIN jobs : jobs[i].dev = d => i # 1
          BY <3>2, <4>2
        <5>3. deviceCache[d] # NoHandler => deviceCache[d] = db[d]
          BY <2>0 DEF CacheReflectsDb, isDeviceInCache
        <5>4. ASSUME db[d] # NoHandler, deviceCache[d] = NoHandler
              PROVE  \E i \in DOMAIN jobs' : jobs'[i].step = "done"
                                             /\ jobs'[i].dev = d
          <6>1. PICK i \in DOMAIN jobs : jobs[i].step = "done" /\ jobs[i].dev = d
            BY <2>0, <5>4 DEF CacheReflectsDb, isDeviceInCache
          <6> QED BY <3>2, <5>2, <6>1
        <5> QED BY <5>1, <5>3, <5>4
      <4> QED BY <4>1, <4>2
    <3>6. AllSound'
      BY <2>0, <3>1, <3>2 DEF AllSound, JobSound
    <3> QED BY <2>0, <3>1, <3>4, <3>5, <3>6 DEF Rest, RowsSound, HandlersOf, Idle
  <2>6. CASE drainBuffer
    <3> DEFINE j == Head(jobs)
    <3>1. /\ jobs # <<>> /\ j.step = "done" /\ j.call = "deliver"
          /\ deviceCache' = [deviceCache EXCEPT ![j.dev] = j.handler]
          /\ jobs' = Tail(jobs) /\ running' = running /\ db' = db
          /\ dbFile' = dbFile
          /\ pendingDeviceBuffer' = [pendingDeviceBuffer EXCEPT ![j.dev] = <<>>]
      BY <2>6 DEF drainBuffer, Drained
    <3>2. /\ \A i \in DOMAIN jobs' : i + 1 \in DOMAIN jobs /\ i + 1 # 1
                                     /\ jobs'[i] = jobs[i + 1]
          /\ \A i \in DOMAIN jobs : i # 1 => i - 1 \in DOMAIN jobs'
                                          /\ jobs'[i - 1] = jobs[i]
          /\ \A m, n \in DOMAIN jobs' : m + 1 = n + 1 => m = n
          /\ 1 \in DOMAIN jobs /\ jobs[1] = j /\ j \in JobType
      BY <2>0, <3>1, RemainingJobs
    <3>3. j.dev \in Devices /\ j.handler \in Handlers /\ db[j.dev] = j.handler
      BY <2>0, <3>1, <3>2 DEF AllSound, JobSound, JobType
    <3>4. 1 \in DeliverJobs(j.dev)
      BY <3>1, <3>2 DEF DeliverJobs
    <3> HIDE DEF j
    <3>5. BufferHasItsJob'
      <4> SUFFICES ASSUME NEW d \in Devices
                   PROVE  /\ pendingDeviceBuffer'[d] # <<>> <=> DeliverJobs(d)' # {}
                          /\ \A m, n \in DeliverJobs(d)' : m = n
        BY DEF BufferHasItsJob
      <4>1. \A i \in DeliverJobs(d)' : i + 1 \in DeliverJobs(d) /\ i + 1 # 1
        BY <3>2 DEF DeliverJobs
      <4>2. \A i \in DeliverJobs(d) : i # 1 => i - 1 \in DeliverJobs(d)'
        BY <3>2 DEF DeliverJobs
      <4>3. \A m, n \in DeliverJobs(d)' : m = n
        <5>1. TAKE m, n \in DeliverJobs(d)'
        <5>2. m \in DOMAIN jobs' /\ n \in DOMAIN jobs'
          BY <5>1 DEF DeliverJobs
        <5>3. m + 1 \in DeliverJobs(d) /\ n + 1 \in DeliverJobs(d)
          BY <4>1, <5>1
        <5>4. m + 1 = n + 1
          BY <2>0, <5>3 DEF BufferHasItsJob
        <5> QED BY <3>2, <5>2, <5>4
      <4>4. CASE d = j.dev
        <5>1. DeliverJobs(d)' = {}
          BY <2>0, <3>4, <4>1, <4>4 DEF BufferHasItsJob
        <5>2. pendingDeviceBuffer'[d] = <<>>
          BY <3>1, <4>4 DEF TypeOK
        <5> QED BY <4>3, <5>1, <5>2
      <4>5. CASE d # j.dev
        <5>1. 1 \notin DeliverJobs(d)
          BY <3>2, <4>5 DEF DeliverJobs
        <5>2. pendingDeviceBuffer'[d] = pendingDeviceBuffer[d]
          BY <3>1, <4>5 DEF TypeOK
        <5> QED BY <2>0, <4>1, <4>2, <4>3, <5>1, <5>2 DEF BufferHasItsJob
      <4> QED BY <4>4, <4>5
    <3>6. CacheReflectsDb'
      <4> SUFFICES ASSUME running, NEW d \in Devices
            PROVE  /\ deviceCache'[d] # NoHandler => deviceCache'[d] = db[d]
                   /\ db[d] # NoHandler /\ deviceCache'[d] = NoHandler =>
                        \E i \in DOMAIN jobs' : jobs'[i].step = "done"
                                                /\ jobs'[i].dev = d
        BY <3>1 DEF CacheReflectsDb, isDeviceInCache
      <4>1. CASE d = j.dev
        <5>1. deviceCache'[d] = j.handler
          BY <3>1, <4>1 DEF TypeOK
        <5> QED BY <2>0, <3>3, <4>1, <5>1
      <4>2. CASE d # j.dev
        <5>1. deviceCache'[d] = deviceCache[d]
          BY <3>1, <4>2 DEF TypeOK
        <5>2. \A i \in DOMAIN jobs : jobs[i].dev = d => i # 1
          BY <3>2, <4>2
        <5>3. deviceCache[d] # NoHandler => deviceCache[d] = db[d]
          BY <2>0 DEF CacheReflectsDb, isDeviceInCache
        <5>4. ASSUME db[d] # NoHandler, deviceCache[d] = NoHandler
              PROVE  \E i \in DOMAIN jobs' : jobs'[i].step = "done"
                                             /\ jobs'[i].dev = d
          <6>1. PICK i \in DOMAIN jobs : jobs[i].step = "done" /\ jobs[i].dev = d
            BY <2>0, <5>4 DEF CacheReflectsDb, isDeviceInCache
          <6> QED BY <3>2, <5>2, <6>1
        <5> QED BY <5>1, <5>3, <5>4
      <4> QED BY <4>1, <4>2
    <3>7. AllSound'
      BY <2>0, <3>1, <3>2 DEF AllSound, JobSound
    <3> QED BY <2>0, <3>1, <3>5, <3>6, <3>7 DEF Rest, RowsSound, HandlersOf, Idle
  <2>7. CASE Flush
    BY <2>0, <2>7 DEF Flush, Rest, BufferHasItsJob, DeliverJobs, CacheReflectsDb,
        isDeviceInCache, AllSound, JobSound, RowsSound, HandlersOf, Idle
  <2>8. CASE Crash
    <3>1. /\ running' = FALSE /\ jobs' = <<>> /\ db' = Empty /\ dbFile' = dbFile
          /\ pendingDeviceBuffer' = [d \in Devices |-> <<>>]
      BY <2>8 DEF Crash
    <3> QED BY <2>0, <3>1 DEF Rest, BufferHasItsJob, DeliverJobs,
               CacheReflectsDb, AllSound, RowsSound, HandlersOf, Idle, Empty
  <2>9. CASE UNCHANGED vars
    BY <2>0, <2>9 DEF vars, Rest, BufferHasItsJob, DeliverJobs, CacheReflectsDb,
        isDeviceInCache, AllSound, JobSound, RowsSound, HandlersOf, Idle
  <2> QED BY <2>1, <2>2, <2>3, <2>4, <2>5, <2>6, <2>7, <2>8, <2>9 DEF Next
<1>3. TypeOK /\ Rest => IInv
  BY DEF IInv
<1> HIDE DEF Rest
<1> QED BY <1>1, <1>2, <1>3, TypeInvariant, PTL DEF Spec

(* The readings held for a registration have exactly one job to release    *)
(* them.                                                                   *)
THEOREM BuffersHaveJobs == Spec => []BufferHasItsJob
<1>1. IInv => BufferHasItsJob
  BY DEF IInv
<1> QED BY <1>1, CacheInvariant, PTL

(* Commands find the handler that the database has, as soon as the         *)
(* registration under way is through.                                      *)
THEOREM CacheFollowsDb == Spec => []CacheReflectsDb
<1>1. IInv => CacheReflectsDb
  BY DEF IInv
<1> QED BY <1>1, CacheInvariant, PTL
-----------------------------------------------------------------------------
(* What is in the file is in the memory of a process that runs, under the  *)
(* same handler: a row is inserted but never replaced, and a restart       *)
(* begins with the file.                                                   *)
FileKept ==
  running => \A d \in Devices : dbFile[d] # NoHandler => db[d] = dbFile[d]

LEMMA RowsStay ==
  ASSUME TypeOK, [Next]_vars, FileKept
  PROVE  /\ FileKept'
         /\ \A d \in Devices : dbFile[d] # NoHandler => dbFile'[d] = dbFile[d]
<1>1. CASE Start
  BY <1>1 DEF Start, FileKept
<1>2. ASSUME NEW d \in Devices, NEW h \in Handlers, register(d, h)
      PROVE  FileKept' /\ dbFile' = dbFile
  BY <1>2 DEF register, FileKept
<1>3. ASSUME NEW d \in Devices, NEW h \in Handlers, deliver(d, h)
      PROVE  FileKept' /\ dbFile' = dbFile
  BY <1>3 DEF deliver, deliverBuffered, deliverNew, deliverKnown, FileKept
<1>4. CASE addDevice
  <2>1. \A d \in Devices : db[d] # NoHandler => db'[d] = db[d]
    BY <1>4 DEF addDevice, Inserted, TypeOK
  <2> QED BY <1>4, <2>1 DEF addDevice, FileKept
<1>5. ASSUME registered \/ drainBuffer PROVE FileKept' /\ dbFile' = dbFile
  <2>1. running' = running /\ db' = db /\ dbFile' = dbFile
    BY <1>5 DEF registered, drainBuffer
  <2> QED BY <2>1 DEF FileKept
<1>6. CASE Flush
  BY <1>6 DEF Flush, FileKept
<1>7. CASE Crash
  BY <1>7 DEF Crash, FileKept
<1>8. CASE UNCHANGED vars
  BY <1>8 DEF vars, FileKept
<1> QED
  BY <1>1, <1>2, <1>3, <1>4, <1>5, <1>6, <1>7, <1>8, ConstantsAssumption
     DEF Next

(* No step of the process, nor its death, takes a row out of the database  *)
(* file or gives it to another handler.                                    *)
THEOREM RowsPersist == Spec => FileRowsPersist
<1>1. Init => FileKept
  BY DEF Init, FileKept
<1>2. TypeOK /\ FileKept /\ [Next]_vars => FileKept'
  BY RowsStay
<1>3. TypeOK /\ FileKept /\ [Next]_vars =>
        [\A d \in Devices : dbFile[d] # NoHandler => dbFile'[d] = dbFile[d]]_vars
  BY RowsStay
<1> QED BY <1>1, <1>2, <1>3, TypeInvariant, PTL DEF Spec, FileRowsPersist

-----------------------------------------------------------------------------
(* The device manager behaves the same whatever commands are sent: what is *)
(* proved above of Spec holds of CmdSpec.                                  *)
THEOREM CommandsRefine == CmdSpec => Spec
<1>1. CmdInit => Init
  BY DEF CmdInit
<1>2. [CmdNext]_allVars => [Next]_vars
  <2> SUFFICES ASSUME [CmdNext]_allVars PROVE [Next]_vars
    OBVIOUS
  <2>1. CASE Listen
    BY <2>1 DEF Listen
  <2>2. CASE Load
    BY <2>2 DEF Load, Next
  <2>3. CASE Die
    BY <2>3 DEF Die, Next
  <2>4. CASE Manage
    BY <2>4 DEF Manage, Next
  <2>5. ASSUME NEW c \in Commands, NEW g \in Gateways, send(c, g)
        PROVE  UNCHANGED vars
    BY <2>5 DEF send, Move
  <2>6. ASSUME NEW c \in Commands, Handle(c)
        PROVE  UNCHANGED vars
    BY <2>6 DEF Handle, dispatch, lookUp, notConnected, delegateSendRequest,
                talkToManager, Drop, Move
  <2>7. ASSUME NEW p \in Peers, PeerStops(p) \/ PeerLoads(p)
        PROVE  UNCHANGED vars
    BY <2>7 DEF PeerStops, PeerLoads
  <2>8. CASE UNCHANGED allVars
    BY <2>8 DEF allVars
  <2> QED BY <2>1, <2>2, <2>3, <2>4, <2>5, <2>6, <2>7, <2>8 DEF CmdNext
<1> QED BY <1>1, <1>2, PTL DEF CmdSpec, Spec

(* Before the database is loaded, nothing is cached.                       *)
Unloaded == ~running => deviceCache = Empty

(* The cache is filled by the start and by registrations after it only.    *)
THEOREM EmptyBeforeStart == Spec => []Unloaded
<1>1. Init => Unloaded
  BY DEF Init, Unloaded
<1>2. TypeOK /\ IInv /\ Unloaded /\ [Next]_vars => Unloaded'
  <2> SUFFICES ASSUME TypeOK, IInv, Unloaded, [Next]_vars PROVE Unloaded'
    OBVIOUS
  <2>1. CASE Start
    BY <2>1 DEF Start, Unloaded
  <2>2. ASSUME NEW d \in Devices, NEW h \in Handlers, register(d, h)
        PROVE  Unloaded'
    BY <2>2 DEF register, Unloaded
  <2>3. ASSUME NEW d \in Devices, NEW h \in Handlers, deliver(d, h)
        PROVE  Unloaded'
    BY <2>3 DEF deliver, deliverBuffered, deliverNew, deliverKnown, Unloaded
  <2>4. CASE addDevice
    BY <2>4 DEF addDevice, Unloaded
  <2>5. ASSUME registered \/ drainBuffer PROVE Unloaded'
    <3>1. running' = running /\ jobs # <<>>
      BY <2>5 DEF registered, drainBuffer
    <3> QED BY <3>1 DEF IInv, Idle, Unloaded
  <2>6. CASE Flush
    BY <2>6 DEF Flush, Unloaded
  <2>7. CASE Crash
    BY <2>7 DEF Crash, Unloaded
  <2>8. CASE UNCHANGED vars
    BY <2>8 DEF vars, Unloaded
  <2> QED
    BY <2>1, <2>2, <2>3, <2>4, <2>5, <2>6, <2>7, <2>8, ConstantsAssumption
       DEF Next
<1> QED BY <1>1, <1>2, TypeInvariant, CacheInvariant, PTL DEF Spec

(* A command is at a gateway that exists, and executed by nobody before it *)
(* ends.                                                                   *)
Pending ==
  /\ at \in [Commands -> Gateways]
  /\ DOMAIN step = Commands
  /\ executed \in [Commands -> Seq(Gateways \X Entry)]
  /\ \A c \in Commands : step[c] # "ended" => executed[c] = <<>>

CmdInv == Pending /\ ExecutedOnce

LEMMA Dispatched ==
  ASSUME CmdInv, IInv, Unloaded, NEW c \in Commands, dispatch(c)
  PROVE  CmdInv'
<1>1. /\ step[c] = "device-manager" /\ Caches(at[c], Target[c])
      /\ step' = [step EXCEPT ![c] = "ended"]
      /\ at' = [at EXCEPT ![c] = Self]
      /\ executed' = Executed(c)
      /\ Target[c] \in Devices /\ at[c] \in Gateways /\ executed[c] = <<>>
  BY CommandsAssumption DEF dispatch, CmdInv, Pending
<1>2. PICK e \in {<<>>} \union {<<x>> : x \in Gateways \X Entry} :
        /\ executed' = [executed EXCEPT ![c] = e]
        /\ e # <<>> =>
             IF e[1][1] = Self
             THEN e[1][2] \in HandlersOf(Target[c]) \intersect Dispatchers
             ELSE Target[c] \in Hosted[e[1][1]]
  <2>1. CASE at[c] # Self
    <3> DEFINE x == <<at[c], NoHandler>>
    <3>1. executed' = [executed EXCEPT ![c] = <<x>>]
      BY <1>1, <2>1 DEF Executed
    <3>2. Target[c] \in Hosted[at[c]] /\ x \in Gateways \X Entry
      BY <1>1, <2>1 DEF Caches, Entry
    <3>3. <<x>>[1] = x /\ x[1] = at[c]
      OBVIOUS
    <3> HIDE DEF x
    <3> QED BY <2>1, <3>1, <3>2, <3>3
  <2>2. CASE at[c] = Self /\ deviceCache[Target[c]] \in Dispatchers
    <3> DEFINE h == deviceCache[Target[c]]
               x == <<Self, h>>
    <3>1. executed' = [executed EXCEPT ![c] = <<x>>]
      BY <1>1, <2>2 DEF Executed
    <3>2. h # NoHandler
      BY <1>1, <2>2 DEF Caches, isDeviceInCache
    <3>3. running
      BY <1>1, <3>2 DEF Unloaded, Empty
    <3>4. h \in HandlersOf(Target[c])
      BY <1>1, <3>2, <3>3
         DEF IInv, CacheReflectsDb, RowsSound, isDeviceInCache
    <3>5. x \in Gateways \X Entry
      BY <1>1 DEF IInv, TypeOK, Gateways
    <3>6. <<x>>[1] = x /\ x[1] = Self /\ x[2] = h
      OBVIOUS
    <3> HIDE DEF x
    <3> QED BY <2>2, <3>1, <3>4, <3>5, <3>6
  <2>3. CASE at[c] = Self /\ deviceCache[Target[c]] \notin Dispatchers
    <3>1. executed' = [executed EXCEPT ![c] = <<>>]
      BY <1>1, <2>3 DEF Executed, CmdInv, Pending
    <3> QED BY <3>1
  <2> QED BY <2>1, <2>2, <2>3
<1>3. /\ e \in Seq(Gateways \X Entry) /\ Len(e) <= 1
      /\ \A k \in DOMAIN e : k = 1 /\ e # <<>>
  <2>1. CASE e = <<>>
    BY <2>1
  <2>2. ASSUME NEW x \in Gateways \X Entry, e = <<x>>
        PROVE  /\ e \in Seq(Gateways \X Entry) /\ Len(e) <= 1
               /\ \A k \in DOMAIN e : k = 1 /\ e # <<>>
    <3> DEFINE P == Gateways \X Entry
    <3>1. x \in P
      OBVIOUS
    <3> HIDE DEF P
    <3>2. <<x>> \in Seq(P) /\ Len(<<x>>) = 1 /\ DOMAIN <<x>> = 1 .. 1
          /\ <<x>> # <<>>
      BY <3>1
    <3> QED BY <2>2, <3>2 DEF P
  <2> QED BY <2>1, <2>2
<1>4. Pending'
  BY <1>1, <1>2, <1>3 DEF CmdInv, Pending, Gateways
<1>5. ExecutedOnce'
  <2> SUFFICES ASSUME NEW b \in Commands
      PROVE  /\ Len(executed'[b]) <= 1
             /\ \A k \in DOMAIN executed'[b] :
                  IF executed'[b][k][1] = Self
                  THEN executed'[b][k][2]
                         \in HandlersOf(Target[b]) \intersect Dispatchers
                  ELSE Target[b] \in Hosted[executed'[b][k][1]]
    BY DEF ExecutedOnce
  <2>1. CASE b = c
    <3>1. executed'[b] = e
      BY <1>2, <2>1 DEF CmdInv, Pending
    <3> QED BY <1>2, <1>3, <2>1, <3>1
  <2>2. CASE b # c
    BY <1>2, <2>2 DEF CmdInv, Pending, ExecutedOnce
  <2> QED BY <2>1, <2>2
<1> QED BY <1>4, <1>5 DEF CmdInv

(* Every other step leaves what was executed alone and resumes no command  *)
(* that ended.                                                             *)
LEMMA NotDispatched ==
  ASSUME CmdInv, executed' = executed, at' \in [Commands -> Gateways],
         DOMAIN step' = Commands,
         \A c \in Commands : step[c] = "ended" => step'[c] = "ended"
  PROVE  CmdInv'
<1>1. Pending'
  BY DEF CmdInv, Pending
<1>2. ExecutedOnce'
  BY DEF CmdInv, ExecutedOnce
<1> QED BY <1>1, <1>2 DEF CmdInv

LEMMA MovedOn ==
  ASSUME CmdInv, NEW c \in Commands, NEW s, NEW g \in Gateways, Move(c, s, g),
         step[c] # "ended"
  PROVE  CmdInv'
<1>1. at' \in [Commands -> Gateways] /\ DOMAIN step' = Commands
  BY DEF Move, CmdInv, Pending
<1>2. \A b \in Commands : step[b] = "ended" => step'[b] = "ended"
  BY DEF Move, CmdInv, Pending
<1> QED BY <1>1, <1>2, NotDispatched DEF Move

LEMMA CmdStep ==
  ASSUME CmdInv, IInv, Unloaded, [CmdNext]_allVars
  PROVE  CmdInv'
<1>0. Self \in Gateways /\ at \in [Commands -> Gateways] /\ DOMAIN step = Commands
  BY DEF Gateways, CmdInv, Pending
<1>1. CASE Listen \/ Load \/ (Manage /\ UNCHANGED cmdVars)
  BY <1>0, <1>1, NotDispatched DEF Listen, Load, cmdVars, path
<1>2. CASE Die
  BY <1>0, <1>2, NotDispatched DEF Die, Stop
<1>3. ASSUME NEW c \in Commands, NEW g \in Gateways, send(c, g) PROVE CmdInv'
  BY <1>3, MovedOn DEF send
<1>4. ASSUME NEW c \in Commands, Handle(c) PROVE CmdInv'
  <2>1. CASE dispatch(c)
    BY <2>1, Dispatched
  <2>2. CASE lookUp(c)
    <3>1. at[c] \in Gateways
      BY <1>0
    <3> QED BY <2>2, <3>1, MovedOn DEF lookUp
  <2>3. CASE notConnected(c)
    BY <1>0, <2>3, MovedOn DEF notConnected, Drop
  <2>4. ASSUME NEW h \in Gateways, delegateSendRequest(c, h) PROVE CmdInv'
    BY <2>4, MovedOn DEF delegateSendRequest
  <2>5. CASE talkToManager(c)
    <3>1. at[c] \in Gateways
      BY <1>0
    <3> QED BY <1>0, <2>5, <3>1, MovedOn DEF talkToManager, Drop
  <2> QED BY <1>4, <2>1, <2>2, <2>3, <2>4, <2>5 DEF Handle
<1>5. ASSUME NEW p \in Peers, PeerStops(p) \/ PeerLoads(p) PROVE CmdInv'
  BY <1>0, <1>5, NotDispatched DEF PeerStops, PeerLoads, Stop, path
<1>6. CASE UNCHANGED allVars
  BY <1>0, <1>6, NotDispatched DEF allVars, cmdVars, path
<1> QED BY <1>1, <1>2, <1>3, <1>4, <1>5, <1>6 DEF CmdNext

(* However often a command is passed on, between however many gateways, it *)
(* is executed once at most and by a handler that understands its device.  *)
THEOREM CommandsExecutedOnce == CmdSpec => []ExecutedOnce
<1>1. CmdInit => CmdInv
  BY DEF CmdInit, CmdInv, Pending, ExecutedOnce, Gateways
<1>2. CmdInv /\ IInv /\ Unloaded /\ [CmdNext]_allVars => CmdInv'
  BY CmdStep
<1>3. CmdInv => ExecutedOnce
  BY DEF CmdInv
<1> QED
  BY <1>1, <1>2, <1>3, CommandsRefine, CacheInvariant, EmptyBeforeStart, PTL
     DEF CmdSpec
=============================================================================
