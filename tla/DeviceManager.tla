---------------------------- MODULE DeviceManager ---------------------------
(***************************************************************************)
(* device-manager/device-manager.js: the device cache, the buffers of      *)
(* devices that await registration, and the devices database behind them   *)
(* (dao/collections/devices-dao.js over the "dirty" file database).        *)
(*                                                                         *)
(* addDevice() answers through promises.  Its two continuations (the       *)
(* check-and-insert, then the caller's .then) run later, in the order of   *)
(* the promise-job queue; any handler callback may run in between.  The    *)
(* queue is `jobs`: an "add" job, when run, puts its "done" job at the end. *)
(***************************************************************************)
EXTENDS Naturals, Sequences, FiniteSets

CONSTANTS
  Devices,       \* device ids the handlers can see
  Handlers,      \* handler ids
  NoHandler,     \* "no entry" in the cache and in the database
  Registrars,    \* device -> handlers that call register() for it
  Deliverers,    \* device -> handlers that call deliver() for it
  MaxReadings,   \* bound: readings delivered
  MaxRegisters,  \* bound: register() calls per run that reach the database
  MaxCrashes     \* bound: process deaths

ASSUME ConstantsAssumption ==
  /\ NoHandler \notin Handlers
  /\ Registrars \in [Devices -> SUBSET Handlers]
  /\ Deliverers \in [Devices -> SUBSET Handlers]
  /\ MaxReadings \in Nat /\ MaxRegisters \in Nat /\ MaxCrashes \in Nat

(* A device some handler register()s is that handler's alone: register()   *)
(* is for the devices a handler commands, found by its own service uuid.   *)
ASSUME OwnershipAssumption ==
  \A d \in Devices : \A r \in Registrars[d] :
    Registrars[d] \union Deliverers[d] = {r}

VARIABLES
  running,              \* handlers started (the cache has been loaded)
  deviceCache,          \* device -> handler, or NoHandler
  pendingDeviceBuffer,  \* device -> readings; <<>> models an absent key
  jobs,                 \* promise jobs of the addDevice() calls, oldest first
  db,                   \* the devices database in memory
  dbFile,               \* the rows dirty has flushed to disk
  received,             \* history: readings delivered so far, per device
  published,            \* history: readings published on the platform topic
  lost,                 \* history: readings held when the process died
  registers, crashes    \* counters for the bounds

stream == <<received, published, lost>>
vars == <<running, deviceCache, pendingDeviceBuffer, jobs, db, dbFile,
          received, published, lost, registers, crashes>>

Empty == [d \in Devices |-> NoHandler]
Elements(s) == {s[i] : i \in DOMAIN s}

Job(step, d, h, call) == [step |-> step, dev |-> d, handler |-> h, call |-> call]

Init ==
  /\ running = FALSE
  /\ deviceCache = Empty
  /\ pendingDeviceBuffer = [d \in Devices |-> <<>>]
  /\ jobs = <<>>
  /\ db = Empty
  /\ dbFile = Empty
  /\ received = [d \in Devices |-> 0]
  /\ published = [d \in Devices |-> <<>>]
  /\ lost = [d \in Devices |-> {}]
  /\ registers = 0
  /\ crashes = 0

isDeviceInCache(d) == deviceCache[d] # NoHandler

(* Mutants: a cached device counts as registered; the check is left out.   *)
CacheCheckedFirst(d) == pendingDeviceBuffer[d] # <<>> /\ ~isDeviceInCache(d)
NeverAwaiting(d) == FALSE

isAwaitingRegistration(d) == pendingDeviceBuffer[d] # <<>>

-----------------------------------------------------------------------------
(* Mutant: a start that opens an empty database instead of the file.       *)
StartEmpty ==
  /\ ~running
  /\ running' = TRUE
  /\ db' = Empty
  /\ deviceCache' = Empty
  /\ UNCHANGED <<pendingDeviceBuffer, jobs, dbFile, stream, registers, crashes>>

(* Mutant: the handlers start before the rows are there.                   *)
StartUncached ==
  /\ ~running
  /\ running' = TRUE
  /\ db' = dbFile
  /\ deviceCache' = Empty
  /\ UNCHANGED <<pendingDeviceBuffer, jobs, dbFile, stream, registers, crashes>>

(* loadHandlers() and fetchAll(): the cache takes every row of the         *)
(* database and the handlers start.  fetchAll() also creates the in-memory *)
(* database from the file.                                                 *)
Start ==
  /\ ~running
  /\ running' = TRUE
  /\ db' = dbFile
  /\ deviceCache' = dbFile
  /\ UNCHANGED <<pendingDeviceBuffer, jobs, dbFile, stream, registers, crashes>>

(* register(): a device that is not cached is added to the database.  It   *)
(* does not look at the pending buffers, nor at a registration under way.  *)
register(d, h) ==
  /\ running
  /\ ~isDeviceInCache(d)
  /\ registers < MaxRegisters
  /\ registers' = registers + 1
  /\ jobs' = Append(jobs, Job("add", d, h, "register"))
  /\ UNCHANGED <<running, deviceCache, pendingDeviceBuffer, db, dbFile,
                 stream, crashes>>

Reading(d) == received[d] + 1
Readings == UNION {{d} \X (1 .. received[d]) : d \in Devices}

Receive(d) ==
  /\ running
  /\ Cardinality(Readings) < MaxReadings
  /\ received' = [received EXCEPT ![d] = Reading(d)]

(* pendingDeviceBuffer[d].push(data) *)
Pushed(d) == Append(pendingDeviceBuffer[d], Reading(d))

(* deliver(), a registration of the device being under way.                *)
deliverBuffered(d) ==
  /\ Receive(d)
  /\ isAwaitingRegistration(d)
  /\ pendingDeviceBuffer' = [pendingDeviceBuffer EXCEPT ![d] = Pushed(d)]
  /\ UNCHANGED <<running, deviceCache, jobs, db, dbFile, published, lost,
                 registers, crashes>>

(* deliver(), first reading of an unknown device: hold it and register.    *)
deliverNew(d, h) ==
  /\ Receive(d)
  /\ ~isAwaitingRegistration(d)
  /\ ~isDeviceInCache(d)
  /\ pendingDeviceBuffer' = [pendingDeviceBuffer EXCEPT ![d] = <<Reading(d)>>]
  /\ jobs' = Append(jobs, Job("add", d, h, "deliver"))
  /\ UNCHANGED <<running, deviceCache, db, dbFile, published, lost,
                 registers, crashes>>

(* deliver(), a reading of a known device.                                 *)
deliverKnown(d) ==
  /\ Receive(d)
  /\ ~isAwaitingRegistration(d)
  /\ isDeviceInCache(d)
  /\ published' = [published EXCEPT ![d] = Append(@, Reading(d))]
  /\ UNCHANGED <<running, deviceCache, pendingDeviceBuffer, jobs, db, dbFile,
                 lost, registers, crashes>>

deliver(d, h) == deliverBuffered(d) \/ deliverNew(d, h) \/ deliverKnown(d)

-----------------------------------------------------------------------------
(* addDevice() in devices-dao.js: insert unless the row exists, then       *)
(* resolve, which queues the caller's continuation.                        *)
Inserted(d, h) == IF db[d] = NoHandler THEN [db EXCEPT ![d] = h] ELSE db

(* Mutant: the promise resolves only when a row was inserted.              *)
ResolvedIfNew(j) ==
  IF db[j.dev] = NoHandler
    THEN Append(Tail(jobs), Job("done", j.dev, j.handler, j.call))
    ELSE Tail(jobs)
Resolved(j) == Append(Tail(jobs), Job("done", j.dev, j.handler, j.call))

addDevice ==
  /\ jobs # <<>>
  /\ LET j == Head(jobs) IN
       /\ j.step = "add"
       /\ db' = Inserted(j.dev, j.handler)
       /\ jobs' = Resolved(j)
  /\ UNCHANGED <<running, deviceCache, pendingDeviceBuffer, dbFile, stream,
                 registers, crashes>>

(* The .then of register(): cache the device.                              *)
registered ==
  /\ jobs # <<>>
  /\ LET j == Head(jobs) IN
       /\ j.step = "done" /\ j.call = "register"
       /\ deviceCache' = [deviceCache EXCEPT ![j.dev] = j.handler]
  /\ jobs' = Tail(jobs)
  /\ UNCHANGED <<running, pendingDeviceBuffer, db, dbFile, stream,
                 registers, crashes>>

DrainedKept(d) == pendingDeviceBuffer   \* mutant: the buffer is not deleted
Drained(d) == [pendingDeviceBuffer EXCEPT ![d] = <<>>]

(* The .then of deliver(): cache the device, publish what was held in the  *)
(* order it was received, drop the buffer.                                 *)
drainBuffer ==
  /\ jobs # <<>>
  /\ LET j == Head(jobs) IN
       /\ j.step = "done" /\ j.call = "deliver"
       /\ deviceCache' = [deviceCache EXCEPT ![j.dev] = j.handler]
       /\ published' =
            [published EXCEPT ![j.dev] = @ \o pendingDeviceBuffer[j.dev]]
       /\ pendingDeviceBuffer' = Drained(j.dev)
  /\ jobs' = Tail(jobs)
  /\ UNCHANGED <<running, db, dbFile, received, lost, registers, crashes>>

RunJob == addDevice \/ registered \/ drainBuffer

(* dirty writes its pending rows to the file some time after set().        *)
Flush ==
  /\ dbFile # db
  /\ running
  /\ dbFile' = db
  /\ UNCHANGED <<running, deviceCache, pendingDeviceBuffer, jobs, db, stream,
                 registers, crashes>>

(* The process dies; what it held in memory is gone.  The operator starts  *)
(* the service again (Start).                                              *)
Crash ==
  /\ crashes < MaxCrashes
  /\ running
  /\ crashes' = crashes + 1
  /\ running' = FALSE
  /\ deviceCache' = Empty
  /\ pendingDeviceBuffer' = [d \in Devices |-> <<>>]
  /\ jobs' = <<>>
  /\ db' = Empty
  /\ lost' = [d \in Devices |-> lost[d] \union Elements(pendingDeviceBuffer[d])]
  /\ UNCHANGED <<dbFile, received, published, registers>>

Next ==
  \/ Start
  \/ \E d \in Devices : \E h \in Registrars[d] : register(d, h)
  \/ \E d \in Devices : \E h \in Deliverers[d] : deliver(d, h)
  \/ addDevice
  \/ registered
  \/ drainBuffer
  \/ Flush
  \/ Crash

Spec == Init /\ [][Next]_vars

(* The event loop runs every queued promise job.                           *)
FairSpec == Spec /\ WF_vars(RunJob)

-----------------------------------------------------------------------------
Entry == Handlers \union {NoHandler}
JobType == [step : {"add", "done"}, dev : Devices, handler : Handlers,
            call : {"register", "deliver"}]

TypeOK ==
  /\ running \in BOOLEAN
  /\ deviceCache \in [Devices -> Entry]
  /\ pendingDeviceBuffer \in [Devices -> Seq(Nat)]
  /\ jobs \in Seq(JobType)
  /\ db \in [Devices -> Entry]
  /\ dbFile \in [Devices -> Entry]
  /\ received \in [Devices -> Nat]
  /\ published \in [Devices -> Seq(Nat)]
  /\ lost \in [Devices -> SUBSET Nat]
  /\ registers \in Nat
  /\ crashes \in Nat

DeliverJobs(d) == {i \in DOMAIN jobs : jobs[i].dev = d /\ jobs[i].call = "deliver"}

(* A device's buffer exists exactly while one registration by deliver() is *)
(* in flight for it.  Without a job the readings held would never leave;   *)
(* without a buffer, or with two jobs, the continuation would read the     *)
(* buffer after its deletion (pendingDeviceBuffer[id].forEach of undefined). *)
BufferHasItsJob ==
  \A d \in Devices :
    /\ pendingDeviceBuffer[d] # <<>> <=> DeliverJobs(d) # {}
    /\ \A i, j \in DeliverJobs(d) : i = j

(* The cache reflects the database: a cached device is in the database,    *)
(* under the same handler (the one its commands are dispatched to), and a  *)
(* stored device is cached or its registration is about to cache it.       *)
CacheReflectsDb ==
  running => \A d \in Devices :
    /\ isDeviceInCache(d) => deviceCache[d] = db[d]
    /\ db[d] # NoHandler /\ ~isDeviceInCache(d) =>
         \E i \in DOMAIN jobs : jobs[i].step = "done" /\ jobs[i].dev = d

(* The strengthening that makes both inductive: rows and jobs name handlers *)
(* of their device, a finished insertion left its own handler in the row,  *)
(* and one still to run for a device nobody register()s will find no row.  *)
HandlersOf(d) == Registrars[d] \union Deliverers[d]

JobSound(j) ==
  /\ j.handler \in IF j.call = "register" THEN Registrars[j.dev]
                                           ELSE Deliverers[j.dev]
  /\ j.step = "done" => db[j.dev] = j.handler
  /\ j.step = "add" /\ Registrars[j.dev] = {} => db[j.dev] = NoHandler

AllSound == \A i \in DOMAIN jobs : JobSound(jobs[i])
Idle == ~running => jobs = <<>>

RowsSound(rows) ==
  \A d \in Devices : rows[d] # NoHandler => rows[d] \in HandlersOf(d)

IInv ==
  /\ TypeOK
  /\ BufferHasItsJob
  /\ CacheReflectsDb
  /\ AllSound
  /\ RowsSound(db) /\ RowsSound(dbFile)
  /\ Idle

(* The readings of a device leave as DeviceStream promises.                *)
DS == INSTANCE DeviceStream WITH backlog <- pendingDeviceBuffer
StreamSpec == DS!Spec
InOrder == DS!InOrder
Conserved == DS!Conserved

(* A device once in the database file is never unknown again: after every  *)
(* restart its readings pass without a new registration.                   *)
FileRowsPersist ==
  [][\A d \in Devices : dbFile[d] # NoHandler => dbFile'[d] = dbFile[d]]_vars

(* Every reading held for a registration leaves, unless the process dies.  *)
HeldLeaves ==
  \A d \in Devices :
    pendingDeviceBuffer[d] # <<>> ~> pendingDeviceBuffer[d] = <<>>

=============================================================================
