---------------------------- MODULE BleController ---------------------------
(***************************************************************************)
(* The one BLE radio of a gateway and who shares it: ble-controller.js     *)
(* connects to one peripheral at a time and stops the scan meanwhile; the  *)
(* gateway scanner and the handlers of commanded devices keep messages for *)
(* peripherals and write one whenever the peripheral is discovered.        *)
(*                                                                         *)
(* A run of _handlePeripheral is a record; the await it is at is told by   *)
(* the connection: it waits for it, then for services, then writes.        *)
(***************************************************************************)
EXTENDS Naturals, Sequences, FiniteSets

CONSTANTS
  Peripherals,  \* devices and gateways in range
  Handlers,     \* the subscribers of discoveries
  Handler,      \* peripheral -> the handler that recognizes it
  Locking,      \* handlers with a critical section (OORT, Leviton)
  Closing,      \* handlers that disconnect and await it (Leviton)
  MaxMessages,  \* bound: messages per peripheral
  MaxQueue      \* bound: length of connectionQueue

ASSUME BleAssumption ==
  /\ Handler \in [Peripherals -> Handlers]
  /\ Closing \subseteq Locking /\ Locking \subseteq Handlers
  /\ MaxMessages \in Nat /\ MaxQueue \in Nat

VARIABLES
  radio,                    \* "on", "stopping" or "off": the scan
  isConnectedToPeripheral,
  link,                     \* {} or {the peripheral connected or connecting}
  connected,                \* the connection is established
  connectionQueue,
  pendingMessages,          \* peripheral -> {} (no key) or {its list}
  isHandlingMessages,       \* locking handler -> BOOLEAN
  active,                   \* {} or {the run that awaits the connection}
  stuck,                    \* runs that await what never happens
  accepted,                 \* history: peripheral -> messages accepted
  written,                  \* history: peripheral -> messages written
  failed                    \* history: a connection attempt has failed

radioState == <<radio, isConnectedToPeripheral, link, connected, connectionQueue>>
messages == <<pendingMessages, isHandlingMessages, accepted, written>>
vars == <<radioState, messages, active, stuck, failed>>

Undefined == 0  \* what shift() returns of an empty list
Messages == Nat \ {Undefined}

Run(p, m) == [peer |-> p, message |-> m, sent |-> FALSE]

Init ==
  /\ radio = "on"
  /\ isConnectedToPeripheral = FALSE
  /\ link = {} /\ connected = FALSE
  /\ connectionQueue = <<>>
  /\ pendingMessages = [p \in Peripherals |-> {}]
  /\ isHandlingMessages = [h \in Locking |-> FALSE]
  /\ active = {} /\ stuck = {}
  /\ accepted = [p \in Peripherals |-> 0]
  /\ written = [p \in Peripherals |-> <<>>]
  /\ failed = FALSE

-----------------------------------------------------------------------------
(* dispatch() of a handler, talkToGateway() of the gateway scanner.        *)
dispatch(p) ==
  /\ accepted[p] < MaxMessages
  /\ accepted' = [accepted EXCEPT ![p] = @ + 1]
  /\ pendingMessages' = [pendingMessages EXCEPT ![p] =
       IF @ = {} THEN {<<accepted'[p]>>} ELSE {Append(q, accepted'[p]) : q \in @}]
  /\ UNCHANGED <<radioState, isHandlingMessages, written, active, stuck, failed>>

message(q) == IF q = <<>> THEN Undefined ELSE Head(q)

(* Mutant: the head stays in the list.                                     *)
Unshifted(q) == q
shift(q) == IF q = <<>> THEN <<>> ELSE Tail(q)

(* Mutant: no critical section.                                            *)
Unlocked(h) == TRUE
Free(h) == h \in Locking => ~isHandlingMessages[h]

(* connectToPeripheralAsync(p), for a run or, from the queue, for nobody.  *)
Connecting(p) ==
  /\ isConnectedToPeripheral' = TRUE
  /\ link' = {p} /\ connected' = FALSE
  /\ radio' = IF radio = "on" THEN "stopping" ELSE radio

(* The promise of a queued call is never settled.                          *)
connectToPeripheralAsync(p, run) ==
  \/ /\ ~isConnectedToPeripheral
     /\ Connecting(p)
     /\ active' = {run}
     /\ UNCHANGED <<connectionQueue, stuck>>
  \/ /\ isConnectedToPeripheral
     /\ connectionQueue' = Append(connectionQueue, p)
     /\ stuck' = stuck \union {run}
     /\ UNCHANGED <<radio, isConnectedToPeripheral, link, connected, active>>

(* A peripheral with messages is discovered; discoveries still come in     *)
(* while the scan is being stopped.                                        *)
handlePeripheral(p) ==
  /\ radio # "off"
  /\ Len(connectionQueue) < MaxQueue
  /\ Free(Handler[p])
  /\ \E q \in pendingMessages[p] :
       /\ pendingMessages' = [pendingMessages EXCEPT ![p] = {shift(q)}]
       /\ connectToPeripheralAsync(p, Run(p, message(q)))
  /\ isHandlingMessages' = [h \in Locking |-> isHandlingMessages[h] \/ h = Handler[p]]
  /\ UNCHANGED <<accepted, written, failed>>

ScanStopped ==
  /\ radio = "stopping"
  /\ radio' = "off"
  /\ UNCHANGED <<isConnectedToPeripheral, link, connected, connectionQueue,
                 messages, active, stuck, failed>>

(* A peer gateway has written its message to this one: the scan is started *)
(* again, connected or not.                                                *)
onWriteRequestFinished ==
  /\ radio # "on"
  /\ radio' = "on"
  /\ UNCHANGED <<isConnectedToPeripheral, link, connected, connectionQueue,
                 messages, active, stuck, failed>>

-----------------------------------------------------------------------------
Established ==
  /\ link # {} /\ ~connected
  /\ connected' = TRUE
  /\ UNCHANGED <<radio, isConnectedToPeripheral, link, connectionQueue,
                 messages, active, stuck, failed>>

(* The attempt fails: the promise rejects, and the rejection leaves the    *)
(* run.  The flag stays set until a disconnection, which does not come.    *)
ConnectFails ==
  /\ link # {} /\ ~connected
  /\ link' = {}
  /\ stuck' = stuck \union active
  /\ active' = {}
  /\ failed' = TRUE
  /\ UNCHANGED <<radio, isConnectedToPeripheral, connected, connectionQueue, messages>>

(* Mutant: the key is deleted whatever the list has.                       *)
Deleted(q) == {}
Remaining(q) == IF q = <<>> THEN {} ELSE {q}

(* The end of _handlePeripheral: drop an empty list, leave the section.    *)
Finish(run) ==
  /\ pendingMessages' = [pendingMessages EXCEPT ![run.peer] =
       UNION {Remaining(q) : q \in @}]
  /\ isHandlingMessages' =
       [h \in Locking |-> isHandlingMessages[h] /\ h # Handler[run.peer]]
  /\ active' = {}

(* The services are known: write, then end, or wait for the disconnection. *)
writeMessage(run) ==
  /\ connected /\ run \in active
  /\ ~run.sent /\ run.message # Undefined
  /\ written' = [written EXCEPT ![run.peer] = Append(@, run.message)]
  /\ \/ /\ Handler[run.peer] \notin Closing
        /\ Finish(run)
     \/ /\ Handler[run.peer] \in Closing
        /\ active' = {[run EXCEPT !.sent = TRUE]}
        /\ UNCHANGED <<pendingMessages, isHandlingMessages>>
  /\ UNCHANGED <<radioState, stuck, accepted, failed>>

(* Buffer.from(undefined) throws: the run ends there.                      *)
writeUndefined(run) ==
  /\ connected /\ run \in active
  /\ ~run.sent /\ run.message = Undefined
  /\ active' = {}
  /\ UNCHANGED <<radioState, messages, stuck, failed>>

(* Mutant: the scan is not started again.                                  *)
ScanLeft == radio
ScanRestarted == "on"

FlagAfter(q) == q # <<>>

(* The listener of 'disconnect': connect to the next in the queue, or scan. *)
onDisconnect ==
  /\ link # {} /\ connected
  /\ connected' = FALSE
  /\ isConnectedToPeripheral' = FlagAfter(connectionQueue)
  /\ \/ /\ connectionQueue # <<>>
        /\ link' = {Head(connectionQueue)}
        /\ connectionQueue' = Tail(connectionQueue)
        /\ radio' = IF radio = "on" THEN "stopping" ELSE radio
     \/ /\ connectionQueue = <<>>
        /\ link' = {}
        /\ radio' = ScanRestarted
        /\ UNCHANGED connectionQueue

(* The peripheral drops the connection, or the OORT handler does, 2 s after *)
(* it wrote.  A run that still awaits something of it waits for ever.       *)
Dropped ==
  /\ onDisconnect
  /\ stuck' = stuck \union active
  /\ active' = {}
  /\ UNCHANGED <<messages, failed>>

(* The handler disconnects, or the peripheral does while that is awaited.  *)
Disconnected(run) ==
  /\ onDisconnect
  /\ run \in active /\ run.sent
  /\ Finish(run)
  /\ UNCHANGED <<stuck, accepted, written, failed>>

Write == \E run \in active : writeMessage(run) \/ writeUndefined(run)
Disconnection == Dropped \/ \E run \in active : Disconnected(run)

Next ==
  \/ \E p \in Peripherals : dispatch(p) \/ handlePeripheral(p)
  \/ ScanStopped
  \/ onWriteRequestFinished
  \/ Established
  \/ ConnectFails
  \/ Write
  \/ Disconnection

Spec == Init /\ [][Next]_vars

(* Scans stop when told, attempts succeed or fail, and a connection ends:  *)
(* "after a write request completes, the connection automatically          *)
(* disconnects after 1-2 seconds".                                         *)
FairSpec ==
  /\ Spec
  /\ WF_vars(ScanStopped)
  /\ WF_vars(Established \/ ConnectFails)
  /\ WF_vars(Disconnection)

-----------------------------------------------------------------------------
RunType == [peer : Peripherals, message : Nat, sent : BOOLEAN]

TypeOK ==
  /\ radio \in {"on", "stopping", "off"}
  /\ isConnectedToPeripheral \in BOOLEAN
  /\ link \subseteq Peripherals
  /\ connected \in BOOLEAN
  /\ connectionQueue \in Seq(Peripherals)
  /\ pendingMessages \in [Peripherals -> SUBSET Seq(Messages)]
  /\ isHandlingMessages \in [Locking -> BOOLEAN]
  /\ active \subseteq RunType /\ stuck \subseteq RunType
  /\ accepted \in [Peripherals -> Nat]
  /\ written \in [Peripherals -> Seq(Nat)]
  /\ failed \in BOOLEAN

(* The flag that guards the radio tells the truth but for an attempt that  *)
(* failed, after which it stays set for nothing: otherwise it is set        *)
(* exactly while a connection is attempted or up, there is one at most,    *)
(* and the run that uses it awaits that peripheral.                        *)
FlagGuardsRadio ==
  /\ failed => link = {}
  /\ isConnectedToPeripheral <=> link # {} \/ failed
  /\ connectionQueue # <<>> => isConnectedToPeripheral
  /\ \A p, r \in link : p = r
  /\ \A run \in active : link = {run.peer} /\ active = {run}

(* "to ensure that two handlers don't handle pendingMessages at the same   *)
(* time": a locking handler has at most one run, exactly while its flag is *)
(* set, and outside of it no list is empty, so that none is shifted empty. *)
RunsOf(h) == {run \in active \union stuck : Handler[run.peer] = h}

CriticalSection ==
  \A h \in Locking :
    /\ isHandlingMessages[h] <=> RunsOf(h) # {}
    /\ \A a, b \in RunsOf(h) : a = b
    /\ \A p \in Peripherals : Handler[p] = h /\ ~isHandlingMessages[h] =>
         <<>> \notin pendingMessages[p]

(* Messages reach a peripheral in the order they were accepted, each once. *)
Increasing(q) == \A j, k \in DOMAIN q : j < k => q[j] < q[k]

WrittenInOrder == \A p \in Peripherals : Increasing(written[p])

(* Every message accepted is pending, written, or with the one run that    *)
(* took it: lists deleted and shared lists shifted lose none.              *)
InList(p, m) == \E q \in pendingMessages[p] : \E k \in DOMAIN q : q[k] = m
IsWritten(p, m) == \E k \in DOMAIN written[p] : written[p][k] = m
Held(p, m) ==
  {run \in active \union stuck : run.peer = p /\ run.message = m /\ ~run.sent}

Accounted ==
  \A p \in Peripherals : \A m \in 1..accepted[p] :
    /\ InList(p, m) \/ IsWritten(p, m) \/ Held(p, m) # {}
    /\ ~(InList(p, m) /\ IsWritten(p, m))
    /\ Held(p, m) # {} => ~InList(p, m) /\ ~IsWritten(p, m)

(* The strengthening that makes these inductive.  The one run with the     *)
(* radio shares no critical section with one that is stuck, has a message  *)
(* if it locks, and a list is empty only when a run emptied it.            *)
Separate ==
  /\ \A run \in active :
       Handler[run.peer] \in Locking => run.message # Undefined
  /\ \A a \in active, b \in stuck :
       Handler[a.peer] = Handler[b.peer] => Handler[a.peer] \notin Locking
  /\ \A p \in Peripherals :
       Handler[p] \in Locking /\ <<>> \in pendingMessages[p] =>
         \E run \in active \union stuck : run.peer = p

(* What is written comes before what a run holds, and that before what is  *)
(* still in the list; two runs never hold the same message.                *)
PrecedesList(p, q) ==
  \A k \in DOMAIN q :
    /\ q[k] \in 1..accepted[p]
    /\ \A j \in DOMAIN written[p] : written[p][j] < q[k]
    /\ \A run \in active \union stuck : run.peer = p => run.message < q[k]

Holds(run, p) == run.peer = p /\ ~run.sent /\ run.message # Undefined

OrderOf(p) ==
  /\ \A q, r \in pendingMessages[p] : q = r
  /\ \A q \in pendingMessages[p] : Increasing(q) /\ PrecedesList(p, q)
  /\ Increasing(written[p])
  /\ \A k \in DOMAIN written[p] : written[p][k] \in 1..accepted[p]
  /\ \A run \in active \union stuck : run.peer = p => run.message <= accepted[p]
  /\ \A run \in active : Holds(run, p) =>
       \A k \in DOMAIN written[p] : written[p][k] < run.message
  /\ \A run \in stuck : Holds(run, p) => ~IsWritten(p, run.message)
  /\ \A a \in active, b \in stuck :
       Holds(a, p) /\ Holds(b, p) => a.message # b.message

RadioInv == TypeOK /\ FlagGuardsRadio /\ CriticalSection /\ Separate
BleInv == RadioInv /\ \A p \in Peripherals : OrderOf(p)

(* Whatever was connected, queued or dropped, the gateway scans again,     *)
(* unless an attempt to connect failed.                                    *)
ScanningResumes == link # {} ~> radio = "on" \/ failed

(* "Returns a promise which resolves after a connection is established":   *)
(* when one is, there is a run that awaited it and goes on.                *)
QueuedIsServed == [][Established => active # {}]_vars
=============================================================================
