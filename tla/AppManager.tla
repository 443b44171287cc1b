----------------------------- MODULE AppManager -----------------------------
(***************************************************************************)
(* app-manager/app-manager.js with what it works on: the uploads of the    *)
(* API server, the directories and processes of apps (deployment-utils.js) *)
(* and the apps database (apps-dao.js, dirty-db-service.js).               *)
(*                                                                         *)
(* executeApplication() awaits the metadata file; the rest of it runs in   *)
(* one go, and so does a database call once the database is cached.  A     *)
(* call that finds none cached loads one of its own (`loads`), and two     *)
(* such loads may overlap.  At the start restartAllApps() waits two        *)
(* seconds and for the link graph, while requests are already served.      *)
(***************************************************************************)
EXTENDS Naturals, Sequences, FiniteSets

CONSTANTS
  Apps,        \* ids of apps; a client sends one execute-app for each
  NoApp,       \* stands for the app of a database call about all rows
  NameOf,      \* id -> file name of the package, which names the log
  MaxTails,    \* bound: apps whose logs are streamed at a time
  MaxCrashes   \* bound: deaths of the gateway's services

ASSUME AppAssumption ==
  /\ NoApp \notin Apps /\ DOMAIN NameOf = Apps
  /\ MaxTails \in Nat /\ MaxCrashes \in Nat

VARIABLES
  \* API server
  client,     \* id -> new, waiting, told (204), unanswered or lost
  uploads,    \* ids whose uploaded files are there
  deleting,   \* ids whose uploaded files are being removed
  answers,    \* execute-app responses on their way, TRUE for success
  \* app manager
  reading,    \* executions that await their metadata file
  apps,       \* keys of apps
  tails,      \* ids whose entry has a logTail
  requested,  \* ids whose streams have been asked for with request-streams
  boot,       \* restartAllApps(): waiting, fetching, done or failed
  \* operating system
  running,    \* ids whose entry's process is alive
  orphans,    \* ids with a live process that no entry refers to
  leaked,     \* ids with a tail that no entry refers to
  dirs,       \* id -> its directory: none, left (by a failure) or whole
  logs,       \* names with a log file
  \* apps database
  cached,     \* _dbCache has it
  mem,        \* rows of the cached database
  file,       \* rows as written
  disk,       \* rows as flushed
  loads,      \* calls that wait for a load: the call, the rows it may read
  \* history and bounds
  early,      \* apps executed before restartAllApps() was through
  overlap,    \* two loads have overlapped since the start
  survived,   \* apps with a process that outlived the app manager
  stranded,   \* uploads of services that died
  ended,      \* apps ever terminated
  torn,       \* a crash undid a row, or followed overlapping loads
  crashes

http == <<client, uploads, deleting, answers>>
entries == <<apps, tails, requested, running, orphans, leaked, logs>>
db == <<cached, mem, file, loads, overlap>>
past == <<survived, stranded, ended, torn, crashes>>
vars == <<http, reading, entries, boot, dirs, db, disk, early, past>>

Init ==
  /\ client = [a \in Apps |-> "new"]
  /\ answers = <<>>
  /\ dirs = [a \in Apps |-> "none"]
  /\ boot = "waiting"
  /\ uploads = {} /\ deleting = {} /\ reading = {}
  /\ apps = {} /\ tails = {} /\ requested = {}
  /\ running = {} /\ orphans = {} /\ leaked = {} /\ logs = {}
  /\ cached = FALSE /\ mem = {} /\ loads = {} /\ overlap = FALSE
  /\ file = {} /\ disk = {}
  /\ early = {} /\ survived = {} /\ stranded = {} /\ ended = {}
  /\ torn = FALSE /\ crashes = 0

-----------------------------------------------------------------------------
(* The apps database.  A call is its kind and its app; restart is the      *)
(* fetchAll() that relaunches every row, clear the one that removes them.  *)
Op(kind, a) == [kind |-> kind, app |-> a]

(* Mutants: addApp() only; a removal that has no effect.                   *)
NeverRemoved(op, rows) ==
  IF op.kind = "add" THEN rows \union {op.app}
  ELSE IF op.kind = "clear" THEN {} ELSE rows

Result(op, rows) ==
  IF op.kind = "add" THEN rows \union {op.app}
  ELSE IF op.kind = "remove" THEN rows \ {op.app}
  ELSE IF op.kind = "clear" THEN {} ELSE rows

(* What a call on a database that holds rows appends to the file.          *)
Written(op, rows) ==
  (file \ (rows \ Result(op, rows))) \union (Result(op, rows) \ rows)

Perform(op, rows) ==
  /\ cached' = TRUE
  /\ mem' = Result(op, rows)
  /\ file' = Written(op, rows)

(* getDb(): the cached database, or one more load.                         *)
Load(op) ==
  /\ loads' = loads \union {[op |-> op, rows |-> disk]}
  /\ overlap' = (overlap \/ loads # {})
  /\ UNCHANGED <<cached, mem, file>>

Call(op) ==
  IF cached THEN Perform(op, mem) /\ UNCHANGED <<loads, overlap>>
            ELSE Load(op)

Flush ==
  /\ disk # file
  /\ disk' = file
  /\ UNCHANGED <<http, reading, entries, boot, dirs, db, early, past>>

-----------------------------------------------------------------------------
(* executeApplication() of deployment-utils.js and storeAppInfo() for the  *)
(* apps in S: a new process, and an entry that replaces what was there.    *)
(* A process whose files are gone ends at once.                            *)
Start(S, stored) ==
  /\ apps' = apps \union S
  /\ requested' = requested \union S
  /\ running' = (running \ S) \union (S \intersect stored)
  /\ orphans' = orphans \union (running \intersect S)
  /\ tails' = tails \ S
  /\ leaked' = leaked \union (tails \intersect S)
  /\ logs' = logs \union {NameOf[a] : a \in S}

Stored == {a \in Apps : dirs[a] = "whole"}

(* POST /gateway/execute-app: the files are stored, the query is sent.     *)
Upload(a) ==
  /\ client[a] = "new"
  /\ client' = [client EXCEPT ![a] = "waiting"]
  /\ uploads' = uploads \union {a}
  /\ reading' = reading \union {a}
  /\ UNCHANGED <<deleting, answers, entries, boot, dirs, db, disk, early, past>>

Settle(a, status) ==
  /\ a \in reading
  /\ reading' = reading \ {a}
  /\ answers' = Append(answers, status)
  /\ UNCHANGED <<client, uploads, deleting, boot, disk, past>>

(* Mutant: a rejection that does not respond.                              *)
RejectSilently(a) ==
  /\ a \in reading
  /\ reading' = reading \ {a}
  /\ UNCHANGED <<http, entries, boot, dirs, db, disk, early, past>>

(* executeApplication() throws: readJson() fails, or, with a directory     *)
(* left behind, a file has vanished or the runtime is not supported.       *)
Reject(a) ==
  /\ Settle(a, FALSE)
  /\ dirs' \in {dirs, [dirs EXCEPT ![a] = "left"]}
  /\ UNCHANGED <<entries, db, early>>

(* executeApplication(): copy, start, record, request the streams.         *)
Launch(a) ==
  /\ Settle(a, TRUE)
  /\ a \in uploads
  /\ dirs' = [dirs EXCEPT ![a] = "whole"]
  /\ Start({a}, {a})
  /\ Call(Op("add", a))
  /\ early' = IF boot \in {"waiting", "fetching"} THEN early \union {a} ELSE early

Waiting == {a \in Apps : client[a] = "waiting"}

(* The response resolves the promises of all execute-app queries.  A       *)
(* failure carries no message, whose length executeApp() reads: it throws, *)
(* and the client is not answered.                                         *)
TakeAnswer ==
  /\ answers # <<>>
  /\ answers' = Tail(answers)
  /\ client' = [a \in Apps |-> IF a \notin Waiting THEN client[a]
                               ELSE IF Head(answers) THEN "told" ELSE "unanswered"]
  /\ deleting' = deleting \union Waiting
  /\ UNCHANGED <<uploads, reading, entries, boot, dirs, db, disk, early, past>>

(* deleteFile() of the directories of the upload, which nobody awaits.     *)
RemoveUpload(a) ==
  /\ a \in deleting
  /\ deleting' = deleting \ {a}
  /\ uploads' = uploads \ {a}
  /\ UNCHANGED <<client, answers, reading, entries, boot, dirs, db, disk, early, past>>

(* Mutant: the process is not killed.                                      *)
Unkilled(a) ==
  /\ running' = running \ {a}
  /\ orphans' = orphans \union (running \intersect {a})

Kill(a) == running' = running \ {a} /\ UNCHANGED orphans

(* terminate-app of an app the manager knows.  A tail stays: the entry     *)
(* that refers to it is deleted.  The streams are not cancelled.           *)
Terminate(a) ==
  /\ a \in apps
  /\ Kill(a)
  /\ logs' = logs \ {NameOf[a]}
  /\ dirs' = [dirs EXCEPT ![a] = "none"]
  /\ apps' = apps \ {a}
  /\ tails' = tails \ {a}
  /\ leaked' = leaked \union (tails \intersect {a})
  /\ Call(Op("remove", a))
  /\ ended' = ended \union {a}
  /\ UNCHANGED <<http, reading, requested, boot, disk, early,
                 survived, stranded, torn, crashes>>

(* start-log-streaming tails an existing log, unless it does already.      *)
StartTail(a) ==
  /\ a \in apps \ tails
  /\ NameOf[a] \in logs
  /\ Cardinality(tails \union leaked \union {a}) <= MaxTails
  /\ tails' = tails \union {a}
  /\ UNCHANGED <<http, reading, apps, requested, running, orphans, leaked, logs>>
  /\ UNCHANGED <<boot, dirs, db, disk, early, past>>

StopTail(a) ==
  /\ a \in apps \intersect tails
  /\ tails' = tails \ {a}
  /\ UNCHANGED <<http, reading, apps, requested, running, orphans, leaked, logs>>
  /\ UNCHANGED <<boot, dirs, db, disk, early, past>>

(* A process ends by itself; nothing listens for its exit.                 *)
Exit(a) ==
  /\ a \in running \union orphans
  /\ \/ running' = running \ {a} /\ UNCHANGED orphans
     \/ orphans' = orphans \ {a} /\ UNCHANGED running
  /\ UNCHANGED <<http, reading, apps, requested, tails, leaked, logs>>
  /\ UNCHANGED <<boot, dirs, db, disk, early, past>>

-----------------------------------------------------------------------------
Relaunched(op, rows) == IF op.kind = "restart" THEN rows ELSE {}

(* restartAllApps(): two seconds have passed and the link graph is there;  *)
(* alone, the gateway relaunches all rows, otherwise it removes them.      *)
Boot(kind) ==
  /\ boot = "waiting"
  /\ kind \in {"restart", "clear"}
  /\ boot' = IF cached THEN "done" ELSE "fetching"
  /\ Call(Op(kind, NoApp))
  /\ IF cached THEN Start(Relaunched(Op(kind, NoApp), mem), Stored)
               ELSE UNCHANGED entries
  /\ UNCHANGED <<http, reading, dirs, disk, early, past>>

(* No link graph (the API server is late): nothing is restarted.           *)
BootFails ==
  /\ boot = "waiting"
  /\ boot' = "failed"
  /\ UNCHANGED <<http, reading, entries, dirs, db, disk, early, past>>

ForBoot(j) == j.op.kind \in {"restart", "clear"}

(* A database has been loaded: it becomes the cached one, and the call     *)
(* goes on with it.  It read the file at some time since the call.         *)
Loaded(j) ==
  /\ j \in loads
  /\ loads' = loads \ {j}
  /\ \E rows \in {j.rows, disk} :
       /\ Perform(j.op, rows)
       /\ Start(Relaunched(j.op, rows), Stored)
  /\ boot' = IF ForBoot(j) THEN "done" ELSE boot
  /\ UNCHANGED <<http, reading, dirs, overlap, disk, early, past>>

(* The services die together.  Processes of apps may live on.              *)
Crash ==
  /\ crashes < MaxCrashes
  /\ crashes' = crashes + 1
  /\ client' = [a \in Apps |-> IF a \in Waiting THEN "lost" ELSE client[a]]
  /\ answers' = <<>> /\ deleting' = {}
  /\ reading' = {} /\ apps' = {} /\ tails' = {} /\ requested' = {}
  /\ running' = {} /\ leaked' = {}
  /\ orphans' \in {running \union orphans, {}}
  /\ survived' = orphans'
  /\ stranded' = uploads
  /\ boot' = "waiting"
  /\ cached' = FALSE /\ mem' = {} /\ loads' = {} /\ overlap' = FALSE
  /\ early' = {}
  /\ file' = disk
  /\ torn' = (torn \/ overlap \/ disk # file)
  /\ UNCHANGED <<uploads, dirs, logs, disk, ended>>

Next ==
  \/ Flush \/ TakeAnswer \/ BootFails \/ Crash
  \/ \E a \in Apps :
       \/ Upload(a) \/ Reject(a) \/ Launch(a) \/ RemoveUpload(a)
       \/ Terminate(a) \/ StartTail(a) \/ StopTail(a) \/ Exit(a)
  \/ \E kind \in {"restart", "clear"} : Boot(kind)
  \/ \E j \in loads : Loaded(j)

Spec == Init /\ [][Next]_vars

-----------------------------------------------------------------------------
(* The database agrees with the entries once restartAllApps() is through:  *)
(* what it would restart next time is what runs now, but for apps that     *)
(* were executed before; unless two databases have been loaded.            *)
RowsMatch ==
  boot = "done" /\ ~overlap => apps \ early \subseteq file /\ file \subseteq apps

(* An app that was terminated does not come back, also not through a       *)
(* restart: unless two databases have been loaded, or the gateway died     *)
(* before the removal was on disk.                                         *)
TerminatedForGood == ~torn /\ ~overlap => ended \intersect (apps \union running) = {}

(* Nothing of an app is out of reach of terminate-app and                  *)
(* stop-log-streaming but for what a crash left running and for apps       *)
(* executed before restartAllApps(), whose entries it overwrites.          *)
Accountable ==
  /\ running \union tails \subseteq apps
  /\ apps \subseteq requested
  /\ orphans \subseteq early \union survived
  /\ leaked \intersect apps \subseteq early

(* No client waits in vain: its execution is under way or a response is    *)
(* coming, which also has its upload removed.  It may be the response to   *)
(* another request: the promises of all of them are resolved at once.      *)
UploadsGo ==
  /\ \A a \in Waiting : a \in reading \/ answers # <<>>
  /\ \A a \in uploads : a \in Waiting \union deleting \union stranded

-----------------------------------------------------------------------------
Ops == [kind : {"add", "remove"}, app : Apps]
         \union [kind : {"restart", "clear"}, app : {NoApp}]

TypeOK ==
  /\ client \in [Apps -> {"new", "waiting", "told", "unanswered", "lost"}]
  /\ answers \in Seq(BOOLEAN)
  /\ dirs \in [Apps -> {"none", "left", "whole"}]
  /\ boot \in {"waiting", "fetching", "done", "failed"}
  /\ uploads \subseteq Apps /\ deleting \subseteq Apps /\ reading \subseteq Apps
  /\ apps \subseteq Apps /\ tails \subseteq Apps /\ requested \subseteq Apps
  /\ running \subseteq Apps /\ orphans \subseteq Apps /\ leaked \subseteq Apps
  /\ mem \subseteq Apps /\ file \subseteq Apps /\ disk \subseteq Apps
  /\ loads \subseteq [op : Ops, rows : SUBSET Apps]
  /\ early \subseteq Apps /\ survived \subseteq Apps
  /\ stranded \subseteq Apps /\ ended \subseteq Apps
  /\ cached \in BOOLEAN /\ overlap \in BOOLEAN /\ torn \in BOOLEAN
  /\ crashes \in Nat

(* One load at most, and then nothing is cached; otherwise the cached rows *)
(* are those written.                                                      *)
OneDatabase ==
  ~overlap =>
    /\ cached => loads = {} /\ mem = file
    /\ ~cached => file = disk /\ \A j \in loads : j.rows = disk
    /\ \A j, k \in loads : j = k
    /\ ~cached /\ apps # {} => loads # {}
    /\ boot = "done" => cached

(* restartAllApps() has a load under way at most while it fetches, and     *)
(* every app known before it is through is early, and so is a lost tail.    *)
BootOnce ==
  /\ \A j \in loads : ForBoot(j) => boot = "fetching"
  /\ \A j, k \in loads : ForBoot(j) /\ ForBoot(k) => j = k
  /\ boot \in {"waiting", "fetching"} => apps \union leaked \subseteq early

(* An app that is not launched yet is nowhere.                             *)
Unlaunched == {a \in Apps : client[a] = "new"} \union reading

LaunchedOnce ==
  /\ \A a \in reading : client[a] # "new"
  /\ Unlaunched \intersect (apps \union ended \union leaked) = {}
  /\ Unlaunched \intersect (file \union disk \union mem) = {}
  /\ \A j \in loads : Unlaunched \intersect (j.rows \union {j.op.app}) = {}

(* The strengthening of TerminatedForGood: a terminated app has no row.    *)
EndedHaveNoRows ==
  ~torn /\ ~overlap =>
    /\ ended \intersect (apps \union file) = {}
    /\ \A j \in loads : j.op.kind = "add" => j.op.app \notin ended

AppInv ==
  /\ TypeOK /\ OneDatabase /\ BootOnce /\ LaunchedOnce /\ EndedHaveNoRows
  /\ RowsMatch /\ Accountable /\ UploadsGo

(* apps is the "list of running apps" (app-manager.js 18).                 *)
AppsRun == apps \subseteq running
=============================================================================
