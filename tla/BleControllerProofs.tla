------------------------- MODULE BleControllerProofs ------------------------
(***************************************************************************)
(* The shared radio for any number of peripherals and handlers: who has    *)
(* it, the critical sections, and what becomes of every message.  At the   *)
(* end, what the lab11 handler keeps of the parsers it downloads.          *)
(***************************************************************************)
EXTENDS BleController, Lab11Handler, TLAPS

(* Queues as the actions use them.                                         *)
LEMMA AppendFacts ==
  ASSUME NEW S, NEW q \in Seq(S), NEW m \in S
  PROVE  /\ Append(q, m) \in Seq(S) /\ Append(q, m) # <<>>
         /\ \A k \in DOMAIN Append(q, m) :
              \/ k \in DOMAIN q /\ Append(q, m)[k] = q[k]
              \/ k = Len(q) + 1 /\ Append(q, m)[k] = m
         /\ \A k \in DOMAIN q : k \in DOMAIN Append(q, m) /\ Append(q, m)[k] = q[k]
         /\ Len(q) + 1 \in DOMAIN Append(q, m) /\ Append(q, m)[Len(q) + 1] = m
         /\ \A k \in DOMAIN q : k \in Nat /\ q[k] \in S /\ k < Len(q) + 1
         /\ Len(q) + 1 \in Nat
  OBVIOUS

LEMMA TailFacts ==
  ASSUME NEW S, NEW q \in Seq(S), q # <<>>
  PROVE  /\ Tail(q) \in Seq(S) /\ Head(q) \in S
         /\ 1 \in DOMAIN q /\ Head(q) = q[1]
         /\ \A k \in DOMAIN Tail(q) :
              k \in Nat /\ k + 1 \in DOMAIN q /\ 1 < k + 1 /\ Tail(q)[k] = q[k + 1]
         /\ \A k \in DOMAIN q : k = 1 \/ (k - 1 \in DOMAIN Tail(q) /\ Tail(q)[k - 1] = q[k])
  OBVIOUS

-----------------------------------------------------------------------------
LEMMA InitRadio == Init => RadioInv
<1> SUFFICES ASSUME Init
             PROVE  RadioInv
  OBVIOUS
<1>1. TypeOK
  <2>1. <<>> \in Seq(Peripherals) /\ <<>> \in Seq(Nat)
    OBVIOUS
  <2> QED
    BY <2>1 DEF Init, TypeOK
<1>2. FlagGuardsRadio /\ Separate
  BY DEF Init, FlagGuardsRadio, Separate
<1>3. CriticalSection
  BY DEF Init, CriticalSection, RunsOf
<1> QED
  BY <1>1, <1>2, <1>3 DEF RadioInv

LEMMA TypeStep == TypeOK /\ [Next]_vars => TypeOK'
<1> SUFFICES ASSUME TypeOK, [Next]_vars
             PROVE  TypeOK'
  OBVIOUS
<1> USE DEF TypeOK, radioState, messages, vars
<1>1. CASE \E p \in Peripherals : dispatch(p)
  <2> PICK p \in Peripherals : dispatch(p)
    BY <1>1
  <2> DEFINE n == accepted[p] + 1
  <2>1. n \in Nat /\ n \in Messages /\ accepted' = [accepted EXCEPT ![p] = n]
    BY DEF dispatch, Messages, Undefined
  <2>2. accepted'[p] = n
    BY <2>1
  <2>3. \A q \in pendingMessages[p] : Append(q, n) \in Seq(Messages)
    BY <2>1, AppendFacts
  <2>4. <<n>> \in Seq(Messages)
    BY <2>1
  <2>5. pendingMessages' \in [Peripherals -> SUBSET Seq(Messages)]
    BY <2>2, <2>3, <2>4 DEF dispatch
  <2> QED
    BY <2>1, <2>5 DEF dispatch
<1>2. CASE \E p \in Peripherals : handlePeripheral(p)
  <2> PICK p \in Peripherals : handlePeripheral(p)
    BY <1>2
  <2> PICK q \in pendingMessages[p] :
         /\ pendingMessages' = [pendingMessages EXCEPT ![p] = {shift(q)}]
         /\ connectToPeripheralAsync(p, Run(p, message(q)))
    BY DEF handlePeripheral
  <2>1. q \in Seq(Messages)
    OBVIOUS
  <2>2. shift(q) \in Seq(Messages) /\ message(q) \in Nat
    BY <2>1, TailFacts DEF shift, message, Undefined, Messages
  <2>3. Run(p, message(q)) \in RunType
    BY <2>2 DEF Run, RunType
  <2>4. pendingMessages' \in [Peripherals -> SUBSET Seq(Messages)]
    BY <2>2
  <2>5. isHandlingMessages' \in [Locking -> BOOLEAN]
    BY DEF handlePeripheral
  <2>6. /\ radio' \in {"on", "stopping", "off"} /\ isConnectedToPeripheral' \in BOOLEAN
        /\ link' \subseteq Peripherals /\ connected' \in BOOLEAN
        /\ connectionQueue' \in Seq(Peripherals)
        /\ active' \subseteq RunType /\ stuck' \subseteq RunType
    <3> DEFINE run == Run(p, message(q))
    <3> HIDE DEF run
    <3>1. run \in RunType
      BY <2>3 DEF run
    <3>2. connectToPeripheralAsync(p, run)
      BY DEF run
    <3>3. CASE ~isConnectedToPeripheral
      BY <3>1, <3>2, <3>3 DEF connectToPeripheralAsync, Connecting
    <3>4. CASE isConnectedToPeripheral
      <4>1. Append(connectionQueue, p) \in Seq(Peripherals)
        OBVIOUS
      <4> QED
        BY <3>1, <3>2, <3>4, <4>1 DEF connectToPeripheralAsync
    <3> QED
      BY <3>3, <3>4
  <2> QED
    BY <2>4, <2>5, <2>6 DEF handlePeripheral
<1>3. CASE ScanStopped \/ onWriteRequestFinished \/ Established \/ ConnectFails
  BY <1>3 DEF ScanStopped, onWriteRequestFinished, Established, ConnectFails
<1>4. ASSUME NEW run \in active, Finish(run)
      PROVE  /\ pendingMessages' \in [Peripherals -> SUBSET Seq(Messages)]
             /\ isHandlingMessages' \in [Locking -> BOOLEAN]
             /\ active' = {}
  BY <1>4 DEF Finish, RunType, Remaining
<1>5. CASE Write
  <2> PICK run \in active : writeMessage(run) \/ writeUndefined(run)
    BY <1>5 DEF Write
  <2>1. run \in RunType
    OBVIOUS
  <2>2. CASE writeUndefined(run)
    BY <2>2 DEF writeUndefined
  <2>3. CASE writeMessage(run)
    <3>1. run.peer \in Peripherals /\ run.message \in Nat
      BY <2>1 DEF RunType
    <3>2. Append(written[run.peer], run.message) \in Seq(Nat)
      BY <3>1, AppendFacts
    <3>3. written' \in [Peripherals -> Seq(Nat)]
      BY <2>3, <3>2 DEF writeMessage
    <3>4. [run EXCEPT !.sent = TRUE] \in RunType
      BY <2>1 DEF RunType
    <3> QED
      BY <1>4, <2>3, <3>3, <3>4 DEF writeMessage
  <2> QED
    BY <2>2, <2>3
<1>6. CASE Disconnection
  <2>1. onDisconnect
    BY <1>6 DEF Disconnection, Dropped, Disconnected
  <2>2. connectionQueue # <<>> =>
          Head(connectionQueue) \in Peripherals /\ Tail(connectionQueue) \in Seq(Peripherals)
    OBVIOUS
  <2>3. /\ radio' \in {"on", "stopping", "off"} /\ isConnectedToPeripheral' \in BOOLEAN
        /\ link' \subseteq Peripherals /\ connected' \in BOOLEAN
        /\ connectionQueue' \in Seq(Peripherals)
    BY <2>1, <2>2 DEF onDisconnect, FlagAfter, ScanRestarted
  <2> QED
    BY <1>4, <1>6, <2>3 DEF Disconnection, Dropped, Disconnected
<1>7. CASE UNCHANGED vars
  BY <1>7
<1> QED
  BY <1>1, <1>2, <1>3, <1>5, <1>6, <1>7 DEF Next
-----------------------------------------------------------------------------
(* The run with the radio ends: its section is free and its list kept only *)
(* if something is left in it.                                             *)
LEMMA FinishKeeps ==
  ASSUME RadioInv, NEW run \in active, Finish(run), stuck' = stuck
  PROVE  CriticalSection' /\ Separate'
<1> USE DEF RadioInv
<1>1. /\ run \in RunType /\ run.peer \in Peripherals /\ active = {run}
      /\ active' = {}
  BY DEF TypeOK, FlagGuardsRadio, RunType, Finish
<1>2. /\ \A p \in Peripherals : p # run.peer => pendingMessages'[p] = pendingMessages[p]
      /\ <<>> \notin pendingMessages'[run.peer]
  BY <1>1 DEF Finish, TypeOK, Remaining
<1>3. \A h \in Locking :
        isHandlingMessages'[h] <=> isHandlingMessages[h] /\ h # Handler[run.peer]
  BY DEF Finish
<1>4. \A p \in Peripherals : Handler[p] \in Locking /\ <<>> \in pendingMessages'[p] =>
        p # run.peer /\ \E r \in stuck : r.peer = p
  BY <1>1, <1>2 DEF Separate
<1>5. Separate'
  BY <1>1, <1>4 DEF Separate
<1>6. ASSUME NEW h \in Locking
      PROVE  /\ isHandlingMessages'[h] <=> RunsOf(h)' # {}
             /\ \A a, b \in RunsOf(h)' : a = b
             /\ \A p \in Peripherals : Handler[p] = h /\ ~isHandlingMessages'[h] =>
                  <<>> \notin pendingMessages'[p]
  <2>1. RunsOf(h)' = {r \in stuck : Handler[r.peer] = h}
    BY <1>1 DEF RunsOf
  <2>2. CASE h = Handler[run.peer]
    <3>1. RunsOf(h)' = {}
      BY <1>1, <2>1, <2>2 DEF Separate
    <3>2. ASSUME NEW p \in Peripherals, Handler[p] = h, <<>> \in pendingMessages'[p]
          PROVE  FALSE
      BY <1>4, <2>1, <3>1, <3>2
    <3> QED
      BY <1>3, <2>2, <3>1, <3>2
  <2>3. CASE h # Handler[run.peer]
    <3>1. RunsOf(h)' = RunsOf(h)
      BY <1>1, <2>1, <2>3 DEF RunsOf
    <3>2. ASSUME NEW p \in Peripherals, Handler[p] = h
          PROVE  pendingMessages'[p] = pendingMessages[p]
      BY <1>2, <2>3, <3>2
    <3> QED
      BY <1>3, <2>3, <3>1, <3>2 DEF CriticalSection
  <2> QED
    BY <2>2, <2>3
<1> QED
  BY <1>5, <1>6 DEF CriticalSection

(* A discovery takes a section that is free.                               *)
LEMMA HandleKeeps ==
  ASSUME RadioInv, NEW p \in Peripherals, handlePeripheral(p)
  PROVE  CriticalSection' /\ Separate'
<1> USE DEF RadioInv
<1> PICK q \in pendingMessages[p] :
       /\ pendingMessages' = [pendingMessages EXCEPT ![p] = {shift(q)}]
       /\ connectToPeripheralAsync(p, Run(p, message(q)))
  BY DEF handlePeripheral
<1> DEFINE run == Run(p, message(q))
<1>1. run.peer = p /\ run.message = message(q)
  BY DEF Run
<1> HIDE DEF run
<1>2. connectToPeripheralAsync(p, run)
  BY DEF run
<1>3. \/ active = {} /\ active' = {run} /\ stuck' = stuck
      \/ active' = active /\ stuck' = stuck \union {run}
  <2>1. ASSUME ~isConnectedToPeripheral PROVE active = {}
    <3>1. link = {}
      BY <2>1 DEF FlagGuardsRadio
    <3> QED
      BY <3>1 DEF FlagGuardsRadio
  <2> QED
    BY <1>2, <2>1 DEF connectToPeripheralAsync
<1>4. \A h \in Locking :
        isHandlingMessages'[h] <=> isHandlingMessages[h] \/ h = Handler[p]
  BY DEF handlePeripheral, TypeOK
<1>5. \A o \in Peripherals : o # p => pendingMessages'[o] = pendingMessages[o]
  BY DEF TypeOK
<1>6. Handler[p] \in Locking => ~isHandlingMessages[Handler[p]] /\ RunsOf(Handler[p]) = {}
  BY DEF handlePeripheral, Free, CriticalSection
<1>7. \A h : RunsOf(h)' = IF h = Handler[p] THEN RunsOf(h) \union {run} ELSE RunsOf(h)
  BY <1>1, <1>3 DEF RunsOf
<1>8. Handler[p] \in Locking => run.message # Undefined
  <2> SUFFICES ASSUME Handler[p] \in Locking
               PROVE  run.message # Undefined
    OBVIOUS
  <2>1. q # <<>> /\ q \in Seq(Messages)
    BY <1>6 DEF CriticalSection, TypeOK
  <2> QED
    BY <1>1, <2>1, TailFacts DEF message, Messages
<1>9. CriticalSection'
  <2> SUFFICES ASSUME NEW h \in Locking
               PROVE  /\ isHandlingMessages'[h] <=> RunsOf(h)' # {}
                      /\ \A a, b \in RunsOf(h)' : a = b
                      /\ \A o \in Peripherals : Handler[o] = h /\ ~isHandlingMessages'[h] =>
                           <<>> \notin pendingMessages'[o]
    BY DEF CriticalSection
  <2>1. CASE h = Handler[p]
    BY <1>4, <1>6, <1>7, <2>1
  <2>2. CASE h # Handler[p]
    <3>1. \A o \in Peripherals : Handler[o] = h => pendingMessages'[o] = pendingMessages[o]
      BY <1>5, <2>2
    <3> QED
      BY <1>4, <1>7, <2>2, <3>1 DEF CriticalSection
  <2> QED
    BY <2>1, <2>2
<1>10. ASSUME NEW a \in active', NEW b \in stuck', Handler[a.peer] = Handler[b.peer],
              Handler[a.peer] \in Locking
       PROVE  FALSE
  <2>1. a \in active \/ a = run
    BY <1>3
  <2>2. CASE a \in active /\ b \in stuck
    BY <1>10, <2>2 DEF Separate
  <2>3. CASE a \in active /\ b = run
    BY <1>1, <1>6, <1>10, <2>3 DEF RunsOf
  <2>4. CASE a = run /\ b \in stuck
    BY <1>1, <1>6, <1>10, <2>4 DEF RunsOf
  <2> QED
    BY <1>3, <2>2, <2>3, <2>4
<1>11. ASSUME NEW o \in Peripherals, Handler[o] \in Locking, <<>> \in pendingMessages'[o]
       PROVE  \E r \in active' \union stuck' : r.peer = o
  BY <1>1, <1>3, <1>5, <1>11 DEF Separate
<1>12. \A r \in active' : Handler[r.peer] \in Locking => r.message # Undefined
  BY <1>1, <1>3, <1>8 DEF Separate
<1> QED
  BY <1>9, <1>10, <1>11, <1>12 DEF Separate

(* A run that awaited the radio gets stuck: it is still the same runs.      *)
LEMMA StuckKeeps ==
  ASSUME RadioInv, stuck' = stuck \union active, active' = {},
         UNCHANGED <<pendingMessages, isHandlingMessages>>
  PROVE  CriticalSection' /\ Separate'
<1> USE DEF RadioInv
<1>1. \A h : RunsOf(h)' = RunsOf(h)
  BY DEF RunsOf
<1>2. CriticalSection'
  BY <1>1 DEF CriticalSection
<1>3. Separate'
  BY DEF Separate
<1> QED
  BY <1>2, <1>3

(* The steps that concern no run.                                          *)
LEMMA SameRuns ==
  ASSUME RadioInv, UNCHANGED <<active, stuck, pendingMessages, isHandlingMessages>>
  PROVE  CriticalSection' /\ Separate'
  BY DEF RadioInv, CriticalSection, Separate, RunsOf

LEMMA DispatchKeeps ==
  ASSUME RadioInv, NEW p \in Peripherals, dispatch(p)
  PROVE  CriticalSection' /\ Separate'
<1> USE DEF RadioInv
<1>1. UNCHANGED <<active, stuck, isHandlingMessages>>
  BY DEF dispatch
<1>2. \A h : RunsOf(h)' = RunsOf(h)
  BY <1>1 DEF RunsOf
<1>3. \A o \in Peripherals : <<>> \in pendingMessages'[o] => o # p /\ <<>> \in pendingMessages[o]
  <2>1. \A o \in Peripherals : o # p => pendingMessages'[o] = pendingMessages[o]
    BY DEF dispatch, TypeOK
  <2> DEFINE n == accepted'[p]
  <2>2. n \in Nat /\ n \in Messages
    BY DEF dispatch, TypeOK, Messages, Undefined
  <2>3. \A q \in pendingMessages[p] : Append(q, n) # <<>>
    BY <2>2, AppendFacts DEF TypeOK
  <2>4. <<>> \notin pendingMessages'[p]
    BY <2>3 DEF dispatch, TypeOK
  <2> QED
    BY <2>1, <2>4
<1>4. CriticalSection'
  BY <1>1, <1>2, <1>3 DEF CriticalSection
<1>5. Separate'
  BY <1>1, <1>3 DEF Separate
<1> QED
  BY <1>4, <1>5

LEMMA WriteKeeps ==
  ASSUME RadioInv, Write
  PROVE  CriticalSection' /\ Separate'
<1> USE DEF RadioInv
<1> PICK run \in active : writeMessage(run) \/ writeUndefined(run)
  BY DEF Write
<1>1. run \in RunType /\ active = {run}
  BY DEF TypeOK, FlagGuardsRadio
<1>2. CASE writeUndefined(run)
  <2>1. Handler[run.peer] \notin Locking
    BY <1>2 DEF writeUndefined, Separate
  <2>2. \A h \in Locking : RunsOf(h)' = RunsOf(h)
    BY <1>1, <1>2, <2>1 DEF writeUndefined, RunsOf
  <2>3. UNCHANGED <<pendingMessages, isHandlingMessages, stuck>> /\ active' = {}
    BY <1>2 DEF writeUndefined, messages
  <2>4. CriticalSection'
    BY <2>2, <2>3 DEF CriticalSection
  <2>5. ASSUME NEW p \in Peripherals, Handler[p] \in Locking, <<>> \in pendingMessages[p]
        PROVE  \E r \in stuck : r.peer = p
    BY <1>1, <2>1, <2>5 DEF Separate
  <2> QED
    BY <2>3, <2>4, <2>5 DEF Separate
<1>3. CASE writeMessage(run) /\ Handler[run.peer] \notin Closing
  BY <1>3, FinishKeeps DEF writeMessage
<1>4. CASE writeMessage(run) /\ Handler[run.peer] \in Closing
  <2> DEFINE sent == [run EXCEPT !.sent = TRUE]
  <2>1. sent.peer = run.peer /\ sent.message = run.message
    BY <1>1 DEF RunType
  <2> HIDE DEF sent
  <2>2. active' = {sent} /\ UNCHANGED <<pendingMessages, isHandlingMessages, stuck>>
    BY <1>4 DEF writeMessage, sent
  <2>3. Handler[run.peer] \in Locking
    BY <1>4, BleAssumption
  <2>4. \A h : h # Handler[run.peer] => RunsOf(h)' = RunsOf(h)
    BY <1>1, <2>1, <2>2 DEF RunsOf
  <2>5. RunsOf(Handler[run.peer])' = {sent} /\ RunsOf(Handler[run.peer]) = {run}
    BY <1>1, <2>1, <2>2, <2>3 DEF RunsOf, Separate
  <2>6. CriticalSection'
    BY <2>2, <2>4, <2>5 DEF CriticalSection
  <2>7. Separate'
    BY <1>1, <2>1, <2>2 DEF Separate
  <2> QED
    BY <2>6, <2>7
<1> QED
  BY <1>2, <1>3, <1>4

LEMMA FlagStep == RadioInv /\ [Next]_vars => FlagGuardsRadio'
<1> SUFFICES ASSUME RadioInv, [Next]_vars
             PROVE  FlagGuardsRadio'
  OBVIOUS
<1> USE DEF RadioInv, radioState, vars
<1>1. CASE \E p \in Peripherals : dispatch(p)
  BY <1>1 DEF FlagGuardsRadio, dispatch
<1>2. ASSUME NEW p \in Peripherals, handlePeripheral(p)
      PROVE  FlagGuardsRadio'
  <2> PICK q \in pendingMessages[p] : connectToPeripheralAsync(p, Run(p, message(q)))
    BY <1>2 DEF handlePeripheral
  <2> DEFINE run == Run(p, message(q))
  <2>1. run.peer = p
    BY DEF Run
  <2> HIDE DEF run
  <2>2. connectToPeripheralAsync(p, run)
    BY DEF run
  <2>3. failed' = failed
    BY <1>2 DEF handlePeripheral
  <2>4. CASE ~isConnectedToPeripheral
    BY <2>1, <2>2, <2>3, <2>4 DEF connectToPeripheralAsync, Connecting, FlagGuardsRadio
  <2>5. CASE isConnectedToPeripheral
    BY <2>2, <2>3, <2>5 DEF connectToPeripheralAsync, FlagGuardsRadio
  <2> QED
    BY <2>4, <2>5
<1>3. CASE ScanStopped \/ onWriteRequestFinished \/ Established \/ ConnectFails
  BY <1>3 DEF ScanStopped, onWriteRequestFinished, Established, ConnectFails, FlagGuardsRadio
<1>4. CASE Write
  <2> PICK run \in active : writeMessage(run) \/ writeUndefined(run)
    BY <1>4 DEF Write
  <2>1. UNCHANGED <<link, failed, isConnectedToPeripheral, connectionQueue>>
    BY DEF writeMessage, writeUndefined
  <2>2. run \in RunType /\ link = {run.peer}
    BY DEF TypeOK, FlagGuardsRadio
  <2>3. active' = {} \/ active' = {[run EXCEPT !.sent = TRUE]}
    BY DEF writeMessage, writeUndefined, Finish
  <2>4. \A r \in active' : r.peer = run.peer /\ active' = {r}
    BY <2>2, <2>3 DEF RunType
  <2> QED
    BY <2>1, <2>2, <2>4 DEF FlagGuardsRadio
<1>5. CASE Disconnection
  <2>1. onDisconnect /\ active' = {} /\ failed' = failed
    BY <1>5 DEF Disconnection, Dropped, Disconnected, Finish
  <2>2. ~failed
    BY <2>1 DEF onDisconnect, FlagGuardsRadio
  <2>3. CASE connectionQueue = <<>>
    BY <2>1, <2>2, <2>3 DEF onDisconnect, FlagGuardsRadio, FlagAfter
  <2>4. CASE connectionQueue # <<>>
    BY <2>1, <2>2, <2>4 DEF onDisconnect, FlagGuardsRadio, FlagAfter
  <2> QED
    BY <2>3, <2>4
<1>6. CASE UNCHANGED vars
  BY <1>6 DEF FlagGuardsRadio
<1> QED
  BY <1>1, <1>2, <1>3, <1>4, <1>5, <1>6 DEF Next

LEMMA RadioStep == RadioInv /\ [Next]_vars => RadioInv'
<1> SUFFICES ASSUME RadioInv, [Next]_vars
             PROVE  CriticalSection' /\ Separate'
  BY TypeStep, FlagStep DEF RadioInv
<1> USE DEF radioState, messages, vars
<1>1. CASE \E p \in Peripherals : dispatch(p)
  BY <1>1, DispatchKeeps
<1>2. CASE \E p \in Peripherals : handlePeripheral(p)
  BY <1>2, HandleKeeps
<1>3. CASE ScanStopped \/ onWriteRequestFinished \/ Established \/ UNCHANGED vars
  BY <1>3, SameRuns DEF ScanStopped, onWriteRequestFinished, Established
<1>4. CASE ConnectFails \/ Dropped
  BY <1>4, StuckKeeps DEF ConnectFails, Dropped
<1>5. CASE Write
  BY <1>5, WriteKeeps
<1>6. ASSUME NEW run \in active, Disconnected(run)
      PROVE  CriticalSection' /\ Separate'
  BY <1>6, FinishKeeps DEF Disconnected
<1> QED
  BY <1>1, <1>2, <1>3, <1>4, <1>5, <1>6 DEF Next, Disconnection

(* The radio has one user at most, the flag that guards it tells the truth, *)
(* and the critical sections of the handlers exclude (ble-controller.js    *)
(* 219-267, isHandlingMessages of the OORT and Leviton handlers).          *)
THEOREM RadioInvariant == Spec => []RadioInv
<1>1. Init => RadioInv
  BY InitRadio
<1>2. RadioInv /\ [Next]_vars => RadioInv'
  BY RadioStep
<1> QED
  BY <1>1, <1>2, PTL DEF Spec

(* At most one run of a locking handler, exactly while its flag is set; no  *)
(* list is shifted empty.                                                  *)
THEOREM SectionsExclude == Spec => []CriticalSection
<1>1. RadioInv => CriticalSection
  BY DEF RadioInv
<1> QED
  BY <1>1, RadioInvariant, PTL

(* Every variable keeps its type.                                          *)
THEOREM TypeInvariant == Spec => []TypeOK
<1>1. RadioInv => TypeOK
  BY DEF RadioInv
<1> QED
  BY <1>1, RadioInvariant, PTL

-----------------------------------------------------------------------------
(* The order of the messages of one peripheral depends on its own runs,    *)
(* and survives when runs end or get stuck and lists are dropped.          *)
Of(S, p) == {run \in S : run.peer = p}

LEMMA FewerKeep ==
  ASSUME NEW p \in Peripherals, OrderOf(p),
         pendingMessages'[p] \subseteq pendingMessages[p],
         written'[p] = written[p], accepted'[p] = accepted[p],
         \/ Of(active', p) = Of(active, p) /\ Of(stuck', p) = Of(stuck, p)
         \/ Of(active', p) = {} /\ Of(stuck', p) \subseteq Of(stuck, p) \union Of(active, p),
         TypeOK
  PROVE  OrderOf(p)'
<1>1. \A run \in active' \union stuck' : run.peer = p => run \in active \union stuck
  BY DEF Of
<1>2. /\ \A q, r \in pendingMessages'[p] : q = r
      /\ \A q \in pendingMessages'[p] : Increasing(q)
      /\ Increasing(written'[p])
      /\ \A k \in DOMAIN written'[p] : written'[p][k] \in 1..accepted'[p]
  BY DEF OrderOf
<1>3. \A q \in pendingMessages'[p] : PrecedesList(p, q)'
  BY <1>1 DEF OrderOf, PrecedesList
<1>4. \A run \in active' \union stuck' : run.peer = p => run.message <= accepted'[p]
  BY <1>1 DEF OrderOf
<1>5. \A run \in active' : Holds(run, p) =>
        \A k \in DOMAIN written'[p] : written'[p][k] < run.message
  BY DEF OrderOf, Of, Holds
<1>6. ASSUME NEW run \in active, Holds(run, p)
      PROVE  ~IsWritten(p, run.message)
  <2> SUFFICES ASSUME NEW k \in DOMAIN written[p], written[p][k] = run.message
               PROVE  FALSE
    BY DEF IsWritten
  <2>1. written[p][k] < run.message /\ run.message \in Nat
    BY <1>6 DEF OrderOf, TypeOK, RunType
  <2> QED
    BY <2>1
<1>7. \A run \in stuck' : Holds(run, p) => ~IsWritten(p, run.message)'
  <2> SUFFICES ASSUME NEW run \in stuck', Holds(run, p)
               PROVE  ~IsWritten(p, run.message)
    BY DEF IsWritten
  <2>1. run \in stuck \/ run \in active
    BY DEF Of, Holds
  <2> QED
    BY <2>1, <1>6 DEF OrderOf
<1>8. \A a \in active', b \in stuck' :
        Holds(a, p) /\ Holds(b, p) => a.message # b.message
  BY DEF OrderOf, Of, Holds
<1> QED
  BY <1>2, <1>3, <1>4, <1>5, <1>7, <1>8 DEF OrderOf, Holds

LEMMA DispatchOrder ==
  ASSUME BleInv, NEW p \in Peripherals, dispatch(p)
  PROVE  OrderOf(p)'
<1> USE DEF BleInv, RadioInv
<1> PICK n : n = accepted[p] + 1
  OBVIOUS
<1>1. /\ n = accepted[p] + 1 /\ n \in Nat /\ n \in Messages /\ accepted[p] \in Nat /\ accepted'[p] = n
      /\ written' = written /\ active' = active /\ stuck' = stuck
  BY DEF dispatch, TypeOK, Messages, Undefined
<1>2. pendingMessages'[p] = IF pendingMessages[p] = {} THEN {<<n>>}
                              ELSE {Append(q, n) : q \in pendingMessages[p]}
  BY <1>1 DEF dispatch, TypeOK
<1>3. \A q \in pendingMessages[p] : q \in Seq(Messages)
  BY DEF TypeOK
<1>4. \A run \in active \union stuck : run.peer = p => run.message < n
  <2> SUFFICES ASSUME NEW run \in active \union stuck, run.peer = p
               PROVE  run.message < n
    OBVIOUS
  <2>1. run.message \in Nat /\ run.message <= accepted[p]
    BY DEF TypeOK, RunType, OrderOf
  <2> QED
    BY <1>1, <2>1
<1>5. \A j \in DOMAIN written[p] :
        written[p][j] \in Nat /\ written[p][j] < n /\ written[p][j] \in 1..n
  <2> SUFFICES ASSUME NEW j \in DOMAIN written[p]
               PROVE  written[p][j] \in Nat /\ written[p][j] < n /\ written[p][j] \in 1..n
    OBVIOUS
  <2>1. written[p][j] \in 1..accepted[p]
    BY DEF OrderOf
  <2> QED
    BY <1>1, <2>1
<1>6. ASSUME NEW q \in pendingMessages[p]
      PROVE  Increasing(Append(q, n)) /\ PrecedesList(p, Append(q, n))'
  <2> DEFINE s == Append(q, n)
             c == Len(q) + 1
  <2>1. /\ \A k \in DOMAIN s : \/ k \in DOMAIN q /\ s[k] = q[k]
                               \/ k = c /\ s[k] = n
        /\ \A k \in DOMAIN q : k \in Nat /\ k < c
        /\ c \in Nat
    BY <1>1, <1>3, AppendFacts
  <2> HIDE DEF s, c
  <2>2. \A k \in DOMAIN q : q[k] \in 1..accepted[p] /\ q[k] < n /\ q[k] \in 1..n
    <3> SUFFICES ASSUME NEW k \in DOMAIN q
                 PROVE  q[k] \in 1..accepted[p] /\ q[k] < n /\ q[k] \in 1..n
      OBVIOUS
    <3>1. q[k] \in 1..accepted[p]
      BY DEF OrderOf, PrecedesList
    <3> QED
      BY <1>1, <3>1
  <2>3. Increasing(s)
    <3> SUFFICES ASSUME NEW j \in DOMAIN s, NEW k \in DOMAIN s, j < k
                 PROVE  s[j] < s[k]
      BY DEF Increasing
    <3>1. CASE k \in DOMAIN q /\ j \in DOMAIN q
      BY <2>1, <3>1 DEF OrderOf, Increasing
    <3>2. CASE k = c /\ j \in DOMAIN q
      BY <2>1, <2>2, <3>2
    <3>3. CASE j = c
      BY <2>1, <3>3
    <3> QED
      BY <2>1, <3>1, <3>2, <3>3
  <2>4. ASSUME NEW k \in DOMAIN s
        PROVE  /\ s[k] \in 1..accepted'[p]
               /\ \A j \in DOMAIN written'[p] : written'[p][j] < s[k]
               /\ \A run \in active' \union stuck' : run.peer = p => run.message < s[k]
    <3>1. CASE k \in DOMAIN q /\ s[k] = q[k]
      BY <1>1, <2>2, <3>1 DEF OrderOf, PrecedesList
    <3>2. CASE s[k] = n
      <4>1. n \in 1..n
        BY <1>1 DEF Messages, Undefined
      <4> QED
        BY <1>1, <1>4, <1>5, <3>2, <4>1
    <3> QED
      BY <2>1, <3>1, <3>2
  <2> QED
    BY <2>3, <2>4 DEF PrecedesList, s
<1>7. Increasing(<<n>>) /\ PrecedesList(p, <<n>>)'
  <2>1. \A k \in DOMAIN <<n>> : k = 1 /\ <<n>>[k] = n
    OBVIOUS
  <2>2. n \in 1..n
    BY <1>1 DEF Messages, Undefined
  <2>3. Increasing(<<n>>)
    BY <2>1 DEF Increasing
  <2>4. PrecedesList(p, <<n>>)'
    BY <1>1, <1>4, <1>5, <2>1, <2>2 DEF PrecedesList
  <2> QED
    BY <2>3, <2>4
<1>8. \A q \in pendingMessages'[p] : Increasing(q) /\ PrecedesList(p, q)'
  BY <1>2, <1>6, <1>7
<1>9. \A q, r \in pendingMessages'[p] : q = r
  BY <1>2 DEF OrderOf
<1>10. \A run \in active' \union stuck' : run.peer = p => run.message <= accepted'[p]
  <2> SUFFICES ASSUME NEW run \in active \union stuck, run.peer = p
               PROVE  run.message <= n
    BY <1>1
  <2>1. run.message \in Nat /\ run.message < n
    BY <1>4 DEF TypeOK, RunType
  <2> QED
    BY <1>1, <2>1
<1>11. \A run \in stuck' : Holds(run, p) => ~IsWritten(p, run.message)'
  BY <1>1 DEF OrderOf, IsWritten
<1>12. /\ Increasing(written'[p])
       /\ \A k \in DOMAIN written'[p] : written'[p][k] \in 1..accepted'[p]
       /\ \A run \in active' : Holds(run, p) =>
            \A k \in DOMAIN written'[p] : written'[p][k] < run.message
       /\ \A a \in active', b \in stuck' :
            Holds(a, p) /\ Holds(b, p) => a.message # b.message
  BY <1>1, <1>5 DEF OrderOf
<1> QED
  BY <1>8, <1>9, <1>10, <1>11, <1>12 DEF OrderOf, Holds

LEMMA HandleOrder ==
  ASSUME BleInv, NEW p \in Peripherals, handlePeripheral(p)
  PROVE  OrderOf(p)'
<1> USE DEF BleInv, RadioInv
<1> PICK q \in pendingMessages[p] :
       /\ pendingMessages' = [pendingMessages EXCEPT ![p] = {shift(q)}]
       /\ connectToPeripheralAsync(p, Run(p, message(q)))
  BY DEF handlePeripheral
<1> PICK run, s : run = Run(p, message(q)) /\ s = shift(q)
  OBVIOUS
<1>1. run.peer = p /\ run.message = message(q) /\ run.sent = FALSE
  BY DEF Run
<1>2. /\ written' = written /\ accepted' = accepted /\ accepted[p] \in Nat
      /\ pendingMessages'[p] = {s}
  BY DEF handlePeripheral, TypeOK
<1>3. \/ active = {} /\ active' = {run} /\ stuck' = stuck
      \/ active' = active /\ stuck' = stuck \union {run}
  BY DEF connectToPeripheralAsync, FlagGuardsRadio
<1>4. q \in Seq(Messages) /\ Increasing(q) /\ PrecedesList(p, q)
  BY DEF TypeOK, OrderOf
<1>5. ASSUME run.message # Undefined
      PROVE  /\ run.message \in 1..accepted[p]
             /\ \A j \in DOMAIN written[p] : written[p][j] < run.message
             /\ \A r \in active \union stuck : r.peer = p => r.message < run.message
  <2>1. q # <<>>
    BY <1>1, <1>5 DEF message
  <2>2. 1 \in DOMAIN q /\ run.message = q[1]
    BY <1>1, <1>4, <2>1, TailFacts DEF message
  <2> QED
    BY <1>4, <2>2 DEF PrecedesList
<1>6. ASSUME NEW k \in DOMAIN s
      PROVE  /\ s[k] \in 1..accepted[p] /\ k \in Nat
             /\ \A j \in DOMAIN written[p] : written[p][j] < s[k]
             /\ \A r \in active \union stuck : r.peer = p => r.message < s[k]
             /\ run.message < s[k]
             /\ k + 1 \in DOMAIN q /\ s[k] = q[k + 1]
  <2>1. q # <<>> /\ s = Tail(q)
    BY <1>6 DEF shift
  <2>2. /\ 1 \in DOMAIN q /\ run.message = q[1]
        /\ k \in Nat /\ k + 1 \in DOMAIN q /\ 1 < k + 1 /\ s[k] = q[k + 1]
    BY <1>1, <1>4, <1>6, <2>1, TailFacts DEF message
  <2>3. q[1] < q[k + 1]
    BY <1>4, <2>2 DEF Increasing
  <2> QED
    BY <1>4, <2>2, <2>3 DEF PrecedesList
<1>7. Increasing(s)
  <2> SUFFICES ASSUME NEW j \in DOMAIN s, NEW k \in DOMAIN s, j < k
               PROVE  s[j] < s[k]
    BY DEF Increasing
  <2>1. j + 1 < k + 1
    BY <1>6
  <2> QED
    BY <1>4, <1>6, <2>1 DEF Increasing
<1>8. PrecedesList(p, s)'
  <2> SUFFICES ASSUME NEW k \in DOMAIN s
               PROVE  /\ s[k] \in 1..accepted'[p]
                      /\ \A j \in DOMAIN written'[p] : written'[p][j] < s[k]
                      /\ \A r \in active' \union stuck' : r.peer = p => r.message < s[k]
    BY DEF PrecedesList
  <2> QED
    BY <1>2, <1>3, <1>6
<1>9. run.message <= accepted[p]
  BY <1>2, <1>5 DEF Undefined
<1>10. \A r \in active' \union stuck' : r.peer = p => r.message <= accepted'[p]
  BY <1>2, <1>3, <1>9 DEF OrderOf
<1>11. \A r \in active' : Holds(r, p) =>
         \A k \in DOMAIN written'[p] : written'[p][k] < r.message
  BY <1>2, <1>3, <1>5 DEF OrderOf, Holds
<1>12. \A r \in stuck' : Holds(r, p) => ~IsWritten(p, r.message)'
  <2> SUFFICES ASSUME NEW r \in stuck', Holds(r, p)
               PROVE  ~IsWritten(p, r.message)
    BY <1>2 DEF IsWritten
  <2>1. CASE r \in stuck
    BY <2>1 DEF OrderOf
  <2>2. CASE r = run
    <3> SUFFICES ASSUME NEW k \in DOMAIN written[p], written[p][k] = run.message
                 PROVE  FALSE
      BY <2>2 DEF IsWritten
    <3>1. run.message \in 1..accepted[p] /\ written[p][k] < run.message
      BY <1>5, <2>2 DEF Holds
    <3> QED
      BY <1>2, <3>1
  <2> QED
    BY <1>3, <2>1, <2>2
<1>13. ASSUME NEW r \in active \union stuck, Holds(r, p), Holds(run, p)
       PROVE  r.message # run.message
  <2>1. run.message \in 1..accepted[p] /\ r.message < run.message
    BY <1>5, <1>13 DEF Holds
  <2> QED
    BY <1>2, <2>1
<1>14. \A a \in active', b \in stuck' :
         Holds(a, p) /\ Holds(b, p) => a.message # b.message
  BY <1>3, <1>13 DEF OrderOf
<1>15. /\ \A t, u \in pendingMessages'[p] : t = u
       /\ \A t \in pendingMessages'[p] : Increasing(t) /\ PrecedesList(p, t)'
       /\ Increasing(written'[p])
       /\ \A k \in DOMAIN written'[p] : written'[p][k] \in 1..accepted'[p]
  BY <1>2, <1>7, <1>8 DEF OrderOf
<1> QED
  BY <1>10, <1>11, <1>12, <1>14, <1>15 DEF OrderOf, Holds

LEMMA WriteOrder ==
  ASSUME BleInv, NEW run \in active, writeMessage(run)
  PROVE  OrderOf(run.peer)'
<1> USE DEF BleInv, RadioInv
<1> PICK p, m : p = run.peer /\ m = run.message
  OBVIOUS
<1>1. /\ run \in RunType /\ p \in Peripherals /\ m \in Nat /\ active = {run}
      /\ Holds(run, p) /\ OrderOf(p)
  BY DEF TypeOK, RunType, FlagGuardsRadio, writeMessage, Holds
<1>2. /\ written'[p] = Append(written[p], m) /\ written[p] \in Seq(Nat)
      /\ accepted' = accepted /\ accepted[p] \in Nat /\ stuck' = stuck
  BY <1>1 DEF writeMessage, TypeOK
<1>3. \A r \in active' : r.peer = p /\ r.message = m /\ r.sent
  BY <1>1 DEF writeMessage, Finish, RunType
<1>4. pendingMessages'[p] \subseteq pendingMessages[p]
  BY <1>1 DEF writeMessage, Finish, Remaining, TypeOK
<1>5. /\ \A k \in DOMAIN written[p] : written[p][k] < m
      /\ m <= accepted[p] /\ m # Undefined
  BY <1>1 DEF OrderOf, Holds
<1>6. /\ \A k \in DOMAIN written'[p] :
           \/ k \in DOMAIN written[p] /\ written'[p][k] = written[p][k]
           \/ k = Len(written[p]) + 1 /\ written'[p][k] = m
      /\ \A k \in DOMAIN written[p] : k \in Nat /\ k < Len(written[p]) + 1
      /\ Len(written[p]) + 1 \in Nat
  BY <1>1, <1>2, AppendFacts
<1>7. Increasing(written'[p])
  <2> SUFFICES ASSUME NEW j \in DOMAIN written'[p], NEW k \in DOMAIN written'[p], j < k
               PROVE  written'[p][j] < written'[p][k]
    BY DEF Increasing
  <2>1. j \in DOMAIN written[p] /\ written'[p][j] = written[p][j]
    BY <1>6
  <2>2. CASE k \in DOMAIN written[p] /\ written'[p][k] = written[p][k]
    BY <1>1, <2>1, <2>2 DEF OrderOf, Increasing
  <2>3. CASE written'[p][k] = m
    BY <1>5, <2>1, <2>3
  <2> QED
    BY <1>6, <2>2, <2>3
<1>8. \A k \in DOMAIN written'[p] : written'[p][k] \in 1..accepted'[p]
  <2>1. m \in 1..accepted[p]
    BY <1>1, <1>2, <1>5 DEF Undefined
  <2> QED
    BY <1>1, <1>2, <1>6, <2>1 DEF OrderOf
<1>9. ASSUME NEW q \in pendingMessages'[p]
      PROVE  Increasing(q) /\ PrecedesList(p, q)'
  <2>1. Increasing(q) /\ PrecedesList(p, q)
    BY <1>1, <1>4, <1>9 DEF OrderOf
  <2> SUFFICES ASSUME NEW k \in DOMAIN q
               PROVE  /\ q[k] \in 1..accepted'[p]
                      /\ \A j \in DOMAIN written'[p] : written'[p][j] < q[k]
                      /\ \A r \in active' \union stuck' : r.peer = p => r.message < q[k]
    BY <2>1 DEF PrecedesList
  <2>2. m < q[k]
    BY <1>1, <2>1 DEF PrecedesList
  <2> QED
    BY <1>2, <1>3, <1>6, <2>1, <2>2 DEF PrecedesList
<1>10. \A r \in active' \union stuck' : r.peer = p => r.message <= accepted'[p]
  BY <1>1, <1>2, <1>3, <1>5 DEF OrderOf
<1>11. \A r \in active' : ~Holds(r, p)
  BY <1>3 DEF Holds
<1>12. ASSUME NEW r \in stuck', Holds(r, p)
       PROVE  ~IsWritten(p, r.message)'
  <2>1. r \in stuck /\ r.message # m /\ ~IsWritten(p, r.message)
    BY <1>1, <1>2, <1>12 DEF OrderOf
  <2> QED
    BY <1>6, <2>1 DEF IsWritten
<1>13. \A q, r \in pendingMessages'[p] : q = r
  BY <1>1, <1>4 DEF OrderOf
<1>14. OrderOf(p)'
  BY <1>7, <1>8, <1>9, <1>10, <1>11, <1>12, <1>13 DEF OrderOf, Holds
<1> QED
  BY <1>14

(* Every other step: runs of p end or get stuck, lists are only dropped.   *)
LEMMA BleStep == BleInv /\ [Next]_vars => BleInv'
<1> SUFFICES ASSUME BleInv, [Next]_vars, NEW p \in Peripherals
             PROVE  OrderOf(p)'
  BY RadioStep DEF BleInv
<1> USE DEF BleInv, RadioInv, radioState, messages, vars
<1>1. OrderOf(p) /\ TypeOK
  OBVIOUS
<1>2. ASSUME NEW o \in Peripherals, dispatch(o)
      PROVE  OrderOf(p)'
  <2>1. CASE o = p
    BY <1>2, <2>1, DispatchOrder
  <2>2. CASE o # p
    <3>1. pendingMessages'[p] = pendingMessages[p] /\ accepted'[p] = accepted[p]
      BY <1>2, <2>2 DEF dispatch, TypeOK
    <3> QED
      BY <1>1, <1>2, <3>1, FewerKeep DEF dispatch
  <2> QED
    BY <2>1, <2>2
<1>3. ASSUME NEW o \in Peripherals, handlePeripheral(o)
      PROVE  OrderOf(p)'
  <2>1. CASE o = p
    BY <1>3, <2>1, HandleOrder
  <2>2. CASE o # p
    <3> PICK q \in pendingMessages[o] :
           /\ pendingMessages' = [pendingMessages EXCEPT ![o] = {shift(q)}]
           /\ connectToPeripheralAsync(o, Run(o, message(q)))
      BY <1>3 DEF handlePeripheral
    <3> PICK run : run = Run(o, message(q))
      OBVIOUS
    <3>1. run.peer = o
      BY DEF Run
    <3>2. \/ active = {} /\ active' = {run} /\ stuck' = stuck
          \/ active' = active /\ stuck' = stuck \union {run}
      BY DEF connectToPeripheralAsync, FlagGuardsRadio
    <3>3. Of(active', p) = Of(active, p) /\ Of(stuck', p) = Of(stuck, p)
      BY <2>2, <3>1, <3>2 DEF Of
    <3>4. pendingMessages'[p] = pendingMessages[p]
      BY <2>2 DEF TypeOK
    <3> QED
      BY <1>1, <1>3, <3>3, <3>4, FewerKeep DEF handlePeripheral
  <2> QED
    BY <2>1, <2>2
<1>4. CASE ScanStopped \/ onWriteRequestFinished \/ Established \/ UNCHANGED vars
  BY <1>1, <1>4, FewerKeep DEF ScanStopped, onWriteRequestFinished, Established
<1>5. CASE ConnectFails \/ Dropped
  <2>1. Of(active', p) = {} /\ Of(stuck', p) \subseteq Of(stuck, p) \union Of(active, p)
    BY <1>5 DEF ConnectFails, Dropped, Of
  <2> QED
    BY <1>1, <1>5, <2>1, FewerKeep DEF ConnectFails, Dropped
<1>6. ASSUME NEW run \in active, Finish(run)
      PROVE  Of(active', p) = {} /\ pendingMessages'[p] \subseteq pendingMessages[p]
  BY <1>6 DEF Finish, Of, Remaining, TypeOK
<1>7. ASSUME NEW run \in active, writeMessage(run)
      PROVE  OrderOf(p)'
  <2>1. run \in RunType /\ active = {run}
    BY DEF TypeOK, FlagGuardsRadio
  <2>2. CASE p = run.peer
    BY <1>7, <2>2, WriteOrder
  <2>3. CASE p # run.peer
    <3>1. Of(active, p) = {} /\ Of(active', p) = {}
      BY <1>7, <2>1, <2>3 DEF writeMessage, Finish, Of, RunType
    <3>2. written'[p] = written[p] /\ pendingMessages'[p] \subseteq pendingMessages[p]
      BY <1>6, <1>7, <2>3 DEF writeMessage, TypeOK
    <3> QED
      BY <1>1, <1>7, <3>1, <3>2, FewerKeep DEF writeMessage
  <2> QED
    BY <2>2, <2>3
<1>8. ASSUME NEW run \in active, writeUndefined(run)
      PROVE  OrderOf(p)'
  <2>1. Of(active', p) = {}
    BY <1>8 DEF writeUndefined, Of
  <2> QED
    BY <1>1, <1>8, <2>1, FewerKeep DEF writeUndefined
<1>9. ASSUME NEW run \in active, Disconnected(run)
      PROVE  OrderOf(p)'
  BY <1>1, <1>6, <1>9, FewerKeep DEF Disconnected
<1> QED
  BY <1>2, <1>3, <1>4, <1>5, <1>7, <1>8, <1>9 DEF Next, Write, Disconnection

LEMMA InitOrder == Init => BleInv
<1> SUFFICES ASSUME Init, NEW p \in Peripherals
             PROVE  OrderOf(p)
  BY InitRadio DEF BleInv
<1>1. written[p] = <<>> /\ pendingMessages[p] = {} /\ active = {} /\ stuck = {}
  BY DEF Init
<1>2. Increasing(written[p]) /\ \A k \in DOMAIN written[p] : FALSE
  BY <1>1 DEF Increasing
<1> QED
  BY <1>1, <1>2 DEF OrderOf

(* What is written of a peripheral's messages comes before what a run      *)
(* holds, and that before what is still in the list (the push of dispatch, *)
(* the shift of _handlePeripheral and the lists it drops).                 *)
THEOREM BleInvariant == Spec => []BleInv
<1>1. Init => BleInv
  BY InitOrder
<1>2. BleInv /\ [Next]_vars => BleInv'
  BY BleStep
<1> QED
  BY <1>1, <1>2, PTL DEF Spec

(* A peripheral is written its messages in the order they were accepted,   *)
(* each at most once, whoever else uses the radio in between.              *)
THEOREM MessagesInOrder == Spec => []WrittenInOrder
<1>1. BleInv => WrittenInOrder
  BY DEF BleInv, OrderOf, WrittenInOrder
<1> QED
  BY <1>1, BleInvariant, PTL

-----------------------------------------------------------------------------
(* No message is lost from sight: every one accepted is in the list,       *)
(* written, or held by a run.                                              *)
Kept(p, m) == InList(p, m) \/ IsWritten(p, m) \/ Held(p, m) # {}
AllKept == \A p \in Peripherals : \A m \in 1..accepted[p] : Kept(p, m)

LEMMA KeptStep ==
  ASSUME BleInv, AllKept, [Next]_vars, NEW p \in Peripherals, NEW m \in 1..accepted'[p]
  PROVE  Kept(p, m)'
<1> USE DEF BleInv, RadioInv, radioState, messages, vars
<1> DEFINE Holder(run) == run.peer = p /\ run.message = m /\ ~run.sent
<1>1. /\ Kept(p, m)' <=> \/ \E q \in pendingMessages'[p] : \E k \in DOMAIN q : q[k] = m
                         \/ \E k \in DOMAIN written'[p] : written'[p][k] = m
                         \/ \E run \in active' \union stuck' : Holder(run)
      /\ Kept(p, m) <=> \/ \E q \in pendingMessages[p] : \E k \in DOMAIN q : q[k] = m
                        \/ \E k \in DOMAIN written[p] : written[p][k] = m
                        \/ \E run \in active \union stuck : Holder(run)
  BY DEF Kept, InList, IsWritten, Held
<1>2. ASSUME NEW o \in Peripherals, dispatch(o)
      PROVE  Kept(p, m)'
  <2>1. written' = written /\ active' = active /\ stuck' = stuck
    BY <1>2 DEF dispatch
  <2>2. CASE o # p
    <3>1. pendingMessages'[p] = pendingMessages[p] /\ accepted'[p] = accepted[p]
      BY <1>2, <2>2 DEF dispatch, TypeOK
    <3> QED
      BY <1>1, <2>1, <3>1 DEF AllKept
  <2>3. CASE o = p
    <3> PICK n : n = accepted[p] + 1
      OBVIOUS
    <3>1. n \in Nat /\ n \in Messages /\ accepted[p] \in Nat /\ accepted'[p] = n
      BY <1>2, <2>3 DEF dispatch, TypeOK, Messages, Undefined
    <3>2. pendingMessages'[p] = IF pendingMessages[p] = {} THEN {<<n>>}
                                ELSE {Append(q, n) : q \in pendingMessages[p]}
      BY <1>2, <2>3, <3>1 DEF dispatch, TypeOK
    <3>3. \A q \in pendingMessages[p] :
            /\ \A k \in DOMAIN q : k \in DOMAIN Append(q, n) /\ Append(q, n)[k] = q[k]
            /\ \E k \in DOMAIN Append(q, n) : Append(q, n)[k] = n
      <4> SUFFICES ASSUME NEW q \in pendingMessages[p]
                   PROVE  /\ \A k \in DOMAIN q :
                               k \in DOMAIN Append(q, n) /\ Append(q, n)[k] = q[k]
                          /\ \E k \in DOMAIN Append(q, n) : Append(q, n)[k] = n
        OBVIOUS
      <4>1. q \in Seq(Messages)
        BY DEF TypeOK
      <4>2. /\ \A k \in DOMAIN q : k \in DOMAIN Append(q, n) /\ Append(q, n)[k] = q[k]
            /\ Len(q) + 1 \in DOMAIN Append(q, n) /\ Append(q, n)[Len(q) + 1] = n
        BY <3>1, <4>1, AppendFacts
      <4> QED
        BY <4>2
    <3>4. 1 \in DOMAIN <<n>> /\ <<n>>[1] = n
      OBVIOUS
    <3>5. CASE m = n
      <4>1. \E q \in pendingMessages'[p] : \E k \in DOMAIN q : q[k] = n
        <5>1. CASE pendingMessages[p] = {}
          <6>1. <<n>> \in pendingMessages'[p]
            BY <3>2, <5>1
          <6> QED
            BY <3>4, <6>1
        <5>2. ASSUME NEW q \in pendingMessages[p]
              PROVE  \E t \in pendingMessages'[p] : \E k \in DOMAIN t : t[k] = n
          <6>1. Append(q, n) \in pendingMessages'[p]
            BY <3>2
          <6> QED
            BY <3>3, <6>1
        <5> QED
          BY <5>1, <5>2
      <4> QED
        BY <1>1, <3>5, <4>1
    <3>6. CASE m # n
      <4>1. m \in 1..accepted[p]
        BY <3>1, <3>6
      <4>2. Kept(p, m)
        BY <4>1 DEF AllKept
      <4>3. ASSUME NEW q \in pendingMessages[p], NEW k \in DOMAIN q, q[k] = m
            PROVE  \E t \in pendingMessages'[p] : \E j \in DOMAIN t : t[j] = m
        <5>1. Append(q, n) \in pendingMessages'[p]
          BY <3>2
        <5> QED
          BY <3>3, <4>3, <5>1
      <4> QED
        BY <1>1, <2>1, <4>2, <4>3
    <3> QED
      BY <3>5, <3>6
  <2> QED
    BY <2>2, <2>3
<1>3. (\A o \in Peripherals : ~dispatch(o)) => accepted' = accepted
  BY DEF Next, handlePeripheral, ScanStopped, onWriteRequestFinished, Established,
         ConnectFails, Write, writeMessage, writeUndefined, Disconnection, Dropped, Disconnected
<1>4. ASSUME NEW o \in Peripherals, handlePeripheral(o), accepted' = accepted
      PROVE  Kept(p, m)'
  <2> PICK q \in pendingMessages[o] :
         /\ pendingMessages' = [pendingMessages EXCEPT ![o] = {shift(q)}]
         /\ connectToPeripheralAsync(o, Run(o, message(q)))
    BY <1>4 DEF handlePeripheral
  <2> PICK run : run = Run(o, message(q))
    OBVIOUS
  <2>1. run.peer = o /\ run.message = message(q) /\ ~run.sent
    BY DEF Run
  <2>2. active' \union stuck' = (active \union stuck) \union {run}
    BY DEF connectToPeripheralAsync, FlagGuardsRadio
  <2>3. Kept(p, m) /\ written' = written
    BY <1>4 DEF AllKept, handlePeripheral
  <2>4. CASE o # p
    BY <1>1, <2>2, <2>3, <2>4 DEF TypeOK
  <2>5. CASE o = p
    <3>1. pendingMessages'[p] = {shift(q)} /\ q \in Seq(Messages)
      BY <2>5 DEF TypeOK
    <3>2. \A t \in pendingMessages[p] : t = q
      BY <2>5 DEF OrderOf
    <3>3. ASSUME NEW k \in DOMAIN q, q[k] = m
          PROVE  \/ \E j \in DOMAIN shift(q) : shift(q)[j] = m
                 \/ Holder(run)
      <4>1. q # <<>>
        OBVIOUS
      <4>2. k = 1 \/ (k - 1 \in DOMAIN Tail(q) /\ Tail(q)[k - 1] = q[k])
        BY <3>1, <4>1, TailFacts
      <4>3. Head(q) = q[1]
        BY <3>1, <4>1, TailFacts
      <4> QED
        BY <2>1, <2>5, <3>3, <4>1, <4>2, <4>3 DEF shift, message
    <3> QED
      BY <1>1, <2>2, <2>3, <3>1, <3>2, <3>3
  <2> QED
    BY <2>4, <2>5
<1>5. CASE \/ ScanStopped \/ onWriteRequestFinished \/ Established \/ ConnectFails
           \/ Dropped \/ UNCHANGED vars
  <2>1. /\ UNCHANGED <<pendingMessages, written, accepted>>
        /\ active' \union stuck' = active \union stuck
    BY <1>5 DEF ScanStopped, onWriteRequestFinished, Established, ConnectFails, Dropped
  <2> QED
    BY <1>1, <2>1 DEF AllKept
<1>6. ASSUME NEW run \in active, Finish(run),
             NEW q \in pendingMessages[p], NEW k \in DOMAIN q
      PROVE  q \in pendingMessages'[p]
  <2>1. q # <<>>
    OBVIOUS
  <2> QED
    BY <1>6, <2>1 DEF Finish, Remaining, TypeOK
<1>7. ASSUME NEW run \in active, writeMessage(run)
      PROVE  Kept(p, m)'
  <2>1. /\ run \in RunType /\ active = {run} /\ stuck' = stuck /\ accepted' = accepted
        /\ \/ Finish(run)
           \/ UNCHANGED pendingMessages
    BY <1>7 DEF TypeOK, FlagGuardsRadio, writeMessage
  <2>2. Kept(p, m)
    BY <2>1 DEF AllKept
  <2>3. /\ run.peer \in Peripherals /\ run.message \in Nat
        /\ written' = [written EXCEPT ![run.peer] = Append(@, run.message)]
    BY <1>7, <2>1 DEF RunType, writeMessage
  <2>4. /\ \A k \in DOMAIN written[p] : k \in DOMAIN written'[p] /\ written'[p][k] = written[p][k]
        /\ run.peer = p => \E k \in DOMAIN written'[p] : written'[p][k] = run.message
    <3>1. CASE run.peer # p
      BY <2>3, <3>1 DEF TypeOK
    <3>2. CASE run.peer = p
      <4>1. written'[p] = Append(written[p], run.message) /\ written[p] \in Seq(Nat)
        BY <2>3, <3>2 DEF TypeOK
      <4> QED
        BY <2>3, <4>1, AppendFacts
    <3> QED
      BY <3>1, <3>2
  <2>5. ASSUME NEW q \in pendingMessages[p], NEW k \in DOMAIN q
        PROVE  q \in pendingMessages'[p]
    BY <1>6, <2>1, <2>5
  <2> QED
    BY <1>1, <2>1, <2>2, <2>4, <2>5
<1>8. ASSUME NEW run \in active, writeUndefined(run)
      PROVE  Kept(p, m)'
  <2>1. active = {run} /\ UNCHANGED <<pendingMessages, written, accepted, stuck>>
    BY <1>8 DEF FlagGuardsRadio, writeUndefined
  <2>2. Kept(p, m) /\ accepted[p] \in Nat
    BY <2>1 DEF AllKept, TypeOK
  <2>3. m # Undefined
    BY <2>1, <2>2 DEF Undefined
  <2>4. ~Holder(run)
    BY <1>8, <2>3 DEF writeUndefined
  <2> QED
    BY <1>1, <2>1, <2>2, <2>4
<1>9. ASSUME NEW run \in active, Disconnected(run)
      PROVE  Kept(p, m)'
  <2>1. /\ active = {run} /\ run.sent /\ Finish(run)
        /\ UNCHANGED <<written, accepted, stuck>>
    BY <1>9 DEF FlagGuardsRadio, Disconnected
  <2>2. Kept(p, m)
    BY <2>1 DEF AllKept
  <2> QED
    BY <1>1, <1>6, <2>1, <2>2
<1> QED
  BY <1>2, <1>3, <1>4, <1>5, <1>7, <1>8, <1>9 DEF Next, Write, Disconnection

(* The lists that are dropped and the lists two runs share lose nothing:   *)
(* every message accepted is in exactly one place.                         *)
THEOREM Accounting == Spec => []Accounted
<1>1. Init => BleInv /\ AllKept
  BY InitOrder DEF Init, AllKept
<1>2. BleInv /\ AllKept /\ [Next]_vars => BleInv' /\ AllKept'
  BY BleStep, KeptStep DEF AllKept
<1>3. BleInv /\ AllKept => Accounted
  <2> SUFFICES ASSUME BleInv, AllKept, NEW p \in Peripherals, NEW m \in 1..accepted[p]
               PROVE  /\ InList(p, m) \/ IsWritten(p, m) \/ Held(p, m) # {}
                      /\ ~(InList(p, m) /\ IsWritten(p, m))
                      /\ Held(p, m) # {} => ~InList(p, m) /\ ~IsWritten(p, m)
    BY DEF Accounted
  <2>1. OrderOf(p) /\ accepted[p] \in Nat /\ m \in Nat /\ m # Undefined /\ ~(m < m)
    BY DEF BleInv, RadioInv, TypeOK, Undefined
  <2>2. ASSUME NEW q \in pendingMessages[p], NEW k \in DOMAIN q, q[k] = m
        PROVE  /\ ~IsWritten(p, m)
               /\ Held(p, m) = {}
    BY <2>1, <2>2 DEF OrderOf, PrecedesList, IsWritten, Held
  <2>3. ASSUME NEW run \in Held(p, m), NEW k \in DOMAIN written[p], written[p][k] = m
        PROVE  FALSE
    <3>1. Holds(run, p) /\ run.message = m
      BY <2>1 DEF Held, Holds
    <3>2. CASE run \in active
      BY <2>1, <2>3, <3>1, <3>2 DEF OrderOf
    <3>3. CASE run \in stuck
      BY <2>1, <2>3, <3>1, <3>3 DEF OrderOf, IsWritten
    <3> QED
      BY <3>2, <3>3 DEF Held
  <2> QED
    BY <2>2, <2>3 DEF AllKept, Kept, InList, IsWritten
<1> QED
  BY <1>1, <1>2, <1>3, PTL DEF Spec

-----------------------------------------------------------------------------
(* The handler that downloads a parser for what the radio hears.           *)
Text == [url : Urls, loads : BOOLEAN]

(* A parser is requested only for a URL that expands.                      *)
Requested == \A d \in Devices : fetches[d] > 0 => UrlOf[d] \in Urls

ParsersInv == CacheInv /\ Requested

(* Putting a text into the cache.                                          *)
LEMMA PutFacts ==
  ASSUME NEW q \in Seq(Text), NEW u \in Urls, NEW l \in BOOLEAN
  PROVE  /\ Put(q, u, l) \in Seq(Text)
         /\ \E k \in DOMAIN Put(q, u, l) :
              Put(q, u, l)[k] = [url |-> u, loads |-> l]
         /\ \A k \in DOMAIN q : q[k].url # u =>
              k \in DOMAIN Put(q, u, l) /\ Put(q, u, l)[k] = q[k]
<1> DEFINE t == [url |-> u, loads |-> l]
           p == Put(q, u, l)
<1>1. t \in Text /\ t.url = u
  BY DEF Text
<1>2. Len(q) \in Nat /\ DOMAIN q = 1..Len(q) /\ \A k \in DOMAIN q : q[k] \in Text
  OBVIOUS
<1>3. CASE u \in Keys(q)
  <2>1. p = [k \in DOMAIN q |-> IF q[k].url = u THEN t ELSE q[k]]
    BY <1>3 DEF Put
  <2>2. PICK k \in DOMAIN q : q[k].url = u
    BY <1>3 DEF Keys
  <2>3. \A j \in DOMAIN q : (IF q[j].url = u THEN t ELSE q[j]) \in Text
    BY <1>1, <1>2
  <2> HIDE DEF t
  <2>4. p \in [1..Len(q) -> Text]
    BY <1>2, <2>1, <2>3
  <2>5. p \in Seq(Text)
    BY <1>2, <2>4
  <2>6. p[k] = t /\ k \in DOMAIN p
    BY <2>1, <2>2
  <2>7. \A j \in DOMAIN q : q[j].url # u => j \in DOMAIN p /\ p[j] = q[j]
    BY <2>1
  <2> QED
    BY <2>5, <2>6, <2>7 DEF t
<1>4. CASE u \notin Keys(q)
  <2>1. p = Append(q, t)
    BY <1>4 DEF Put
  <2> HIDE DEF t, p
  <2>2. /\ p \in Seq(Text) /\ Len(p) = Len(q) + 1 /\ p[Len(q) + 1] = t
        /\ \A k \in 1..Len(q) : p[k] = q[k]
        /\ DOMAIN p = 1..(Len(q) + 1)
    BY <1>1, <1>2, <2>1
  <2>3. Len(q) + 1 \in DOMAIN p /\ DOMAIN q \subseteq DOMAIN p
    BY <1>2, <2>2
  <2> QED
    BY <1>2, <2>2, <2>3 DEF t, p
<1> QED
  BY <1>3, <1>4

(* Every parser loaded is that of a text that loads, and when all of them  *)
(* do, none is left out.                                                   *)
LEMMA LoadedFacts ==
  ASSUME NEW q \in Seq(Text)
  PROVE  /\ \A u \in Loaded(q) :
              u \in Urls /\ \E k \in DOMAIN q : q[k] = [url |-> u, loads |-> TRUE]
         /\ AllLoad(q) => \A k \in DOMAIN q : q[k].url \in Loaded(q)
<1>1. Len(q) \in Nat /\ DOMAIN q = 1..Len(q) /\ \A k \in DOMAIN q : q[k] \in Text
  OBVIOUS
<1>2. ASSUME NEW j \in DOMAIN q
      PROVE  /\ j \in DOMAIN SubSeq(q, 1, j) /\ SubSeq(q, 1, j)[j] = q[j]
             /\ \A k \in DOMAIN SubSeq(q, 1, j) :
                  k \in DOMAIN q /\ SubSeq(q, 1, j)[k] = q[k]
  BY <1>1
<1>3. ASSUME NEW u \in Loaded(q)
      PROVE  u \in Urls /\ \E k \in DOMAIN q : q[k] = [url |-> u, loads |-> TRUE]
  <2>1. PICK j \in DOMAIN q : u = q[j].url /\ AllLoad(SubSeq(q, 1, j))
    BY <1>3 DEF Loaded
  <2>2. q[j].loads = TRUE
    BY <1>1, <1>2, <2>1 DEF AllLoad, Text
  <2>3. q[j] = [url |-> u, loads |-> TRUE]
    BY <1>1, <2>1, <2>2 DEF Text
  <2> QED
    BY <1>1, <2>1, <2>3 DEF Text
<1>4. ASSUME AllLoad(q), NEW k \in DOMAIN q
      PROVE  q[k].url \in Loaded(q)
  <2>1. AllLoad(SubSeq(q, 1, k))
    BY <1>2, <1>4 DEF AllLoad
  <2> QED
    BY <1>4, <2>1 DEF Loaded
<1> QED
  BY <1>3, <1>4

LEMMA InitParsers ==
  ASSUME LabInit
  PROVE  ParsersInv
<1>1. LabTypeOK
  BY Lab11Assumption DEF LabInit, LabTypeOK, Frames
<1> QED
  BY <1>1 DEF LabInit, ParsersInv, CacheInv, CacheOnDisk, Requested

(* A beacon asks for a parser, or is parsed; the cache stays.              *)
LEMMA BeaconKeepsParsers ==
  ASSUME ParsersInv, NEW d \in Devices, NEW frame \in Frames,
         Beacon(d, frame)
  PROVE  ParsersInv'
<1> USE DEF ParsersInv, CacheInv, LabTypeOK
<1>1. UNCHANGED <<cache, parsers, file, bad, restarts>>
      /\ discovered' = [discovered EXCEPT ![d] = TypeOf(d, frame)]
  BY DEF Beacon, store, bounds
<1>2. TypeOf(d, frame) \in Frames
  BY DEF TypeOf
<1>3. /\ known' \subseteq Devices /\ handled' \subseteq Devices
      /\ age' \in [Devices -> {"none", "new", "used", "old"}]
      /\ \/ fetches' = fetches
         \/ /\ fetches' = [fetches EXCEPT ![d] = @ + 1]
            /\ fetches[d] < MaxFetches /\ UrlOf[d] # NoUrl
  BY DEF Beacon, HandlePeripheral, FindParser
<1>4. fetches' \in [Devices -> 0..MaxFetches] /\ Requested'
  <2>1. CASE fetches' = fetches
    BY <2>1 DEF Requested
  <2>2. CASE /\ fetches' = [fetches EXCEPT ![d] = @ + 1]
             /\ fetches[d] < MaxFetches /\ UrlOf[d] # NoUrl
    <3>1. UrlOf[d] \in Urls /\ MaxFetches \in Nat
      BY <2>2, Lab11Assumption
    <3>2. fetches[d] \in Nat
      BY <3>1
    <3>3. fetches[d] + 1 \in 0..MaxFetches
      BY <2>2, <3>1, <3>2
    <3>4. fetches' \in [Devices -> 0..MaxFetches]
      BY <2>2, <3>3
    <3>5. \A e \in Devices \ {d} : fetches'[e] = fetches[e]
      BY <2>2
    <3> QED
      BY <3>1, <3>4, <3>5 DEF Requested
  <2> QED
    BY <1>3, <2>1, <2>2
<1>5. discovered' \in [Devices -> Frames \union {"none"}]
  BY <1>1, <1>2
<1>6. CacheOnDisk'
  BY <1>1 DEF CacheOnDisk
<1> QED
  BY <1>1, <1>3, <1>4, <1>5, <1>6

(* A text that comes is put in the cache and in the file at once.          *)
LEMMA FetchedKeepsParsers ==
  ASSUME ParsersInv, NEW d \in Devices, NEW loads \in BOOLEAN,
         Fetched(d, loads)
  PROVE  ParsersInv'
<1> USE DEF ParsersInv, CacheInv, LabTypeOK
<1> DEFINE u == UrlOf[d]
           q == Put(cache, u, loads)
<1>1. /\ fetches[d] > 0 /\ fetches' = [fetches EXCEPT ![d] = @ - 1]
      /\ cache' = q /\ file' = q
      /\ parsers' = IF loads THEN parsers \union {u} ELSE parsers \ {u}
      /\ age' = IF loads THEN [age EXCEPT ![d] = "new"] ELSE age
      /\ loads \/ bad < MaxBad
      /\ bad' = IF loads THEN bad ELSE bad + 1
      /\ handled' = {} /\ UNCHANGED <<discovered, known, restarts>>
  BY DEF Fetched
<1>2. u \in Urls /\ cache \in Seq(Text)
  BY <1>1 DEF Requested, Text
<1>3. /\ q \in Seq(Text)
      /\ \E k \in DOMAIN q : q[k] = [url |-> u, loads |-> loads]
      /\ \A k \in DOMAIN cache : cache[k].url # u => k \in DOMAIN q /\ q[k] = cache[k]
  BY <1>2, PutFacts
<1> HIDE DEF u, q
<1>4. /\ fetches' \in [Devices -> 0..MaxFetches]
      /\ \A e \in Devices : fetches'[e] > 0 => fetches[e] > 0
  BY <1>1, Lab11Assumption
<1>5. age' \in [Devices -> {"none", "new", "used", "old"}] /\ bad' \in 0..MaxBad
  BY <1>1, Lab11Assumption
<1>6. ASSUME NEW v \in parsers' PROVE \E k \in DOMAIN q : q[k] = [url |-> v, loads |-> TRUE]
  <2>1. CASE v = u
    BY <1>1, <1>3, <1>6, <2>1
  <2>2. CASE v # u
    <3>1. PICK k \in DOMAIN cache : cache[k] = [url |-> v, loads |-> TRUE]
      BY <1>1, <1>6, <2>2 DEF CacheOnDisk
    <3> QED
      BY <1>3, <2>2, <3>1
  <2> QED
    BY <2>1, <2>2
<1>7. CacheOnDisk'
  BY <1>1, <1>6 DEF CacheOnDisk
<1>8. Requested'
  BY <1>4 DEF Requested
<1> QED
  BY <1>1, <1>2, <1>3, <1>4, <1>5, <1>7, <1>8 DEF Text

(* A failure puts back what is on disk.                                    *)
LEMMA FailureKeepsParsers ==
  ASSUME ParsersInv, NEW d \in Devices, FetchFails(d)
  PROVE  ParsersInv'
<1> USE DEF ParsersInv, CacheInv, LabTypeOK
<1>1. /\ fetches[d] > 0 /\ fetches' = [fetches EXCEPT ![d] = @ - 1]
      /\ handled' = {} /\ UNCHANGED <<discovered, known, file, bad, restarts>>
      /\ age' = age \/ age' = [age EXCEPT ![d] = "new"]
      /\ \/ UNCHANGED <<cache, parsers>>
         \/ cache' = file /\ parsers' = Loaded(file)
  BY DEF FetchFails, ReadBack, bounds
<1>2. /\ fetches' \in [Devices -> 0..MaxFetches]
      /\ \A e \in Devices : fetches'[e] > 0 => fetches[e] > 0
      /\ age' \in [Devices -> {"none", "new", "used", "old"}]
  BY <1>1, Lab11Assumption
<1>3. file \in Seq(Text)
  BY DEF Text
<1>4. cache' \in Seq(Text) /\ parsers' \subseteq Urls
  BY <1>1, <1>3, LoadedFacts DEF Text
<1>5. CacheOnDisk'
  <2>1. CASE UNCHANGED <<cache, parsers>>
    BY <1>1, <2>1 DEF CacheOnDisk
  <2>2. CASE cache' = file /\ parsers' = Loaded(file)
    BY <1>1, <1>3, <2>2, LoadedFacts DEF CacheOnDisk
  <2> QED
    BY <1>1, <2>1, <2>2
<1>6. Requested'
  BY <1>2 DEF Requested
<1> QED
  BY <1>1, <1>2, <1>4, <1>5, <1>6 DEF Text

LEMMA ParsersKept ==
  ASSUME ParsersInv, [LabNext]_labvars
  PROVE  ParsersInv'
<1> USE DEF ParsersInv, CacheInv, LabTypeOK
<1>1. ASSUME NEW d \in Devices, Expire(d) PROVE ParsersInv'
  BY <1>1 DEF Expire, store, bounds, CacheOnDisk, Requested
<1>2. CASE Restart
  <2>1. /\ cache' = <<>> /\ parsers' = {} /\ UNCHANGED <<file, bad>>
        /\ restarts' \in 0..MaxRestarts
        /\ fetches' = [d \in Devices |-> 0] /\ known' = {} /\ handled' = {}
        /\ discovered' = [d \in Devices |-> "none"]
        /\ age' = [d \in Devices |-> "none"]
    BY <1>2, Lab11Assumption DEF Restart
  <2> QED
    BY <2>1, Lab11Assumption DEF CacheOnDisk, Requested
<1>3. CASE UNCHANGED labvars
  BY <1>3 DEF labvars, store, bounds, CacheOnDisk, Requested
<1> QED
  BY <1>1, <1>2, <1>3, BeaconKeepsParsers, FetchedKeepsParsers, FailureKeepsParsers
  DEF LabNext

(* What a failed download puts in the place of the cache is what was there, *)
(* and every parser is that of a text that loads, for any devices and URLs *)
(* Lab11Assumption admits.                                                 *)
THEOREM ParsersCached ==
  LabSpec => []CacheInv
<1>1. LabInit => ParsersInv
  BY InitParsers
<1>2. ParsersInv /\ [LabNext]_labvars => ParsersInv'
  BY ParsersKept
<1>3. ParsersInv => CacheInv
  BY DEF ParsersInv
<1> QED
  BY <1>1, <1>2, <1>3, PTL DEF LabSpec

LEMMA StepKeepsParsers ==
  ASSUME ParsersInv, LabNext, restarts' = restarts,
         AllLoad(file), AllLoad(file)'
  PROVE  parsers \subseteq parsers'
<1> USE DEF ParsersInv, CacheInv, LabTypeOK
<1>1. CASE UNCHANGED parsers
  BY <1>1
<1>2. ASSUME NEW d \in Devices, NEW loads \in BOOLEAN, Fetched(d, loads)
      PROVE  parsers \subseteq parsers'
  <2>1. /\ cache \in Seq(Text) /\ UrlOf[d] \in Urls
        /\ file' = Put(cache, UrlOf[d], loads)
    BY <1>2 DEF Fetched, Requested, Text
  <2>2. PICK k \in DOMAIN file' : file'[k] = [url |-> UrlOf[d], loads |-> loads]
    BY <2>1, PutFacts
  <2>3. loads
    BY <2>2 DEF AllLoad
  <2> QED
    BY <1>2, <2>3 DEF Fetched
<1>3. ASSUME NEW d \in Devices, FetchFails(d)
      PROVE  parsers \subseteq parsers'
  <2>1. CASE parsers' = parsers
    BY <2>1
  <2>2. CASE parsers' = Loaded(file)
    <3>1. file \in Seq(Text)
      BY DEF Text
    <3>2. ASSUME NEW u \in parsers PROVE u \in Loaded(file)
      <4>1. PICK k \in DOMAIN cache : cache[k] = [url |-> u, loads |-> TRUE]
        BY <3>2 DEF CacheOnDisk
      <4>2. cache # <<>>
        BY <4>1
      <4>3. cache = file
        BY <4>2 DEF CacheOnDisk
      <4> QED
        BY <3>1, <4>1, <4>3, LoadedFacts
    <3> QED
      BY <2>2, <3>2
  <2> QED
    BY <1>3, <2>1, <2>2 DEF FetchFails, ReadBack
<1>4. ~Restart
  BY Lab11Assumption DEF Restart
<1>5. ASSUME NEW d \in Devices,
             Expire(d) \/ \E frame \in Frames : Beacon(d, frame)
      PROVE  UNCHANGED parsers
  BY <1>5 DEF Expire, Beacon, store
<1> QED
  BY <1>1, <1>2, <1>3, <1>4, <1>5 DEF LabNext

(* However downloads overlap and fail, a parser stays, unless a text has   *)
(* come that does not load.                                                *)
THEOREM ParsersAreKept ==
  LabSpec => ParsersStay
<1> DEFINE Stay == restarts' = restarts /\ AllLoad(file) /\ AllLoad(file')
                     => parsers \subseteq parsers'
<1>1. LabInit => ParsersInv
  BY InitParsers
<1>2. ParsersInv /\ [LabNext]_labvars => ParsersInv'
  BY ParsersKept
<1>3. ParsersInv /\ [LabNext]_labvars => [Stay]_labvars
  BY StepKeepsParsers DEF AllLoad
<1> QED
  BY <1>1, <1>2, <1>3, PTL DEF LabSpec, ParsersStay
=============================================================================
