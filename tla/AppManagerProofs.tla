-------------------------- MODULE AppManagerProofs --------------------------
(***************************************************************************)
(* AppInv is an inductive invariant of AppManager, for any set of apps and *)
(* any number of crashes.                                                  *)
(***************************************************************************)
EXTENDS AppManager, SequenceTheorems, TLAPS

(* What a loaded database answers a call with.                             *)
LEMMA RowsTypes ==
  ASSUME TypeOK, NEW op \in Ops, NEW rows \in SUBSET Apps
  PROVE  Result(op, rows) \subseteq Apps /\ Written(op, rows) \subseteq Apps
<1>1. Result(op, rows) \subseteq Apps
  BY DEF Result, Ops
<1>2. file \subseteq Apps
  BY DEF TypeOK
<1> QED
  BY <1>1, <1>2 DEF Written

(* What a call does to the database and its loads keeps their types.       *)
LEMMA CallTypes ==
  ASSUME TypeOK, NEW op \in Ops, Call(op)
  PROVE  /\ mem' \subseteq Apps /\ file' \subseteq Apps
         /\ loads' \subseteq [op : Ops, rows : SUBSET Apps]
         /\ cached' \in BOOLEAN /\ overlap' \in BOOLEAN
<1>1. CASE cached
  <2>1. Result(op, mem) \subseteq Apps
    BY RowsTypes DEF TypeOK
  <2>2. Written(op, mem) \subseteq Apps
    BY RowsTypes DEF TypeOK
  <2> QED
    BY <1>1, <2>1, <2>2 DEF TypeOK, Call, Perform
<1>2. CASE ~cached
  <2>1. [op |-> op, rows |-> disk] \in [op : Ops, rows : SUBSET Apps]
    BY DEF TypeOK
  <2>2. mem' \subseteq Apps /\ file' \subseteq Apps /\ cached' \in BOOLEAN
    BY <1>2 DEF TypeOK, Call, Load
  <2>3. loads' \subseteq [op : Ops, rows : SUBSET Apps]
    BY <1>2, <2>1 DEF TypeOK, Call, Load
  <2>4. overlap' \in BOOLEAN
    BY <1>2 DEF TypeOK, Call, Load
  <2> QED
    BY <2>2, <2>3, <2>4
<1> QED
  BY <1>1, <1>2

LEMMA StartTypes ==
  ASSUME TypeOK, NEW S \in SUBSET Apps, NEW T \in SUBSET Apps, Start(S, T)
  PROVE  /\ apps' \subseteq Apps /\ tails' \subseteq Apps /\ requested' \subseteq Apps
         /\ running' \subseteq Apps /\ orphans' \subseteq Apps /\ leaked' \subseteq Apps
  BY DEF TypeOK, Start

LEMMA InitInv == Init => AppInv
<1> SUFFICES ASSUME Init PROVE AppInv
  OBVIOUS
<1>1. TypeOK
  <2>1. /\ client \in [Apps -> {"new", "waiting", "told", "unanswered", "lost"}]
        /\ dirs \in [Apps -> {"none", "left", "whole"}]
    BY DEF Init
  <2>2. answers \in Seq(BOOLEAN) /\ crashes \in Nat
    BY DEF Init
  <2>3. cached \in BOOLEAN /\ overlap \in BOOLEAN /\ torn \in BOOLEAN
    BY DEF Init
  <2> QED
    BY <2>1, <2>2, <2>3 DEF Init, TypeOK
<1>2. OneDatabase /\ BootOnce /\ EndedHaveNoRows /\ RowsMatch /\ Accountable
  BY DEF Init, OneDatabase, BootOnce, EndedHaveNoRows, RowsMatch, Accountable
<1>3. LaunchedOnce
  BY DEF Init, LaunchedOnce
<1>4. UploadsGo
  BY DEF Init, UploadsGo, Waiting
<1> QED
  BY <1>1, <1>2, <1>3, <1>4 DEF AppInv

(* Every step keeps the types.                                            *)
LEMMA TypeStep == TypeOK /\ [Next]_vars => TypeOK'
<1> SUFFICES ASSUME TypeOK, [Next]_vars PROVE TypeOK'
  OBVIOUS
<1> USE DEF http, entries, db, past
<1>1. CASE Flush
  BY <1>1 DEF Flush, TypeOK
<1>2. CASE TakeAnswer
  <2>1. answers \in Seq(BOOLEAN) /\ answers # <<>>
    BY <1>2 DEF TakeAnswer, TypeOK
  <2>2. answers' \in Seq(BOOLEAN)
    BY <1>2, <2>1, HeadTailProperties DEF TakeAnswer
  <2>3. client' \in [Apps -> {"new", "waiting", "told", "unanswered", "lost"}]
    BY <1>2 DEF TakeAnswer, TypeOK
  <2>4. deleting' \subseteq Apps
    BY <1>2 DEF TakeAnswer, TypeOK, Waiting
  <2> QED
    BY <1>2, <2>2, <2>3, <2>4 DEF TakeAnswer, TypeOK
<1>3. CASE BootFails
  BY <1>3 DEF BootFails, TypeOK
<1>4. CASE Crash
  <2>1. client' \in [Apps -> {"new", "waiting", "told", "unanswered", "lost"}]
    BY <1>4 DEF Crash, TypeOK
  <2>2. answers' \in Seq(BOOLEAN)
    BY <1>4 DEF Crash
  <2>3. cached' \in BOOLEAN /\ overlap' \in BOOLEAN
    BY <1>4 DEF Crash
  <2>4. torn' \in BOOLEAN
    BY <1>4 DEF Crash, TypeOK
  <2>5. orphans' \subseteq Apps /\ survived' \subseteq Apps
    BY <1>4 DEF Crash, TypeOK
  <2> QED
    BY <1>4, <2>1, <2>2, <2>3, <2>4, <2>5 DEF Crash, TypeOK
<1>5. ASSUME NEW a \in Apps, Upload(a) PROVE TypeOK'
  BY <1>5 DEF Upload, TypeOK
<1>6. ASSUME NEW a \in Apps, Reject(a) PROVE TypeOK'
  BY <1>6 DEF Reject, Settle, TypeOK
<1>7. ASSUME NEW a \in Apps, Launch(a) PROVE TypeOK'
  <2>1. Op("add", a) \in Ops /\ Op("add", a).app = a
    BY DEF Op, Ops
  <2>2. Call(Op("add", a)) /\ Start({a}, {a}) /\ Settle(a, TRUE)
    BY <1>7 DEF Launch
  <2>3. /\ mem' \subseteq Apps /\ file' \subseteq Apps
        /\ loads' \subseteq [op : Ops, rows : SUBSET Apps]
        /\ cached' \in BOOLEAN /\ overlap' \in BOOLEAN
    BY <2>1, <2>2, CallTypes
  <2>4. /\ apps' \subseteq Apps /\ tails' \subseteq Apps /\ requested' \subseteq Apps
        /\ running' \subseteq Apps /\ orphans' \subseteq Apps /\ leaked' \subseteq Apps
    BY <2>2, StartTypes
  <2> QED
    BY <1>7, <2>3, <2>4 DEF Launch, Settle, TypeOK
<1>8. ASSUME NEW a \in Apps, RemoveUpload(a) PROVE TypeOK'
  BY <1>8 DEF RemoveUpload, TypeOK
<1>9. ASSUME NEW a \in Apps, Terminate(a) PROVE TypeOK'
  <2>1. Op("remove", a) \in Ops /\ Op("remove", a).app = a
    BY DEF Op, Ops
  <2>2. /\ mem' \subseteq Apps /\ file' \subseteq Apps
        /\ loads' \subseteq [op : Ops, rows : SUBSET Apps]
        /\ cached' \in BOOLEAN /\ overlap' \in BOOLEAN
    BY <1>9, <2>1, CallTypes DEF Terminate
  <2> QED
    BY <1>9, <2>2 DEF Terminate, Kill, TypeOK
<1>10. ASSUME NEW a \in Apps, StartTail(a) \/ StopTail(a) \/ Exit(a) PROVE TypeOK'
  BY <1>10 DEF StartTail, StopTail, Exit, TypeOK
<1>11. ASSUME NEW kind \in {"restart", "clear"}, Boot(kind) PROVE TypeOK'
  <2> DEFINE op == Op(kind, NoApp)
  <2>1. op \in Ops /\ op.kind = kind
    BY <1>11 DEF Op, Ops
  <2>2. /\ mem' \subseteq Apps /\ file' \subseteq Apps
        /\ loads' \subseteq [op : Ops, rows : SUBSET Apps]
        /\ cached' \in BOOLEAN /\ overlap' \in BOOLEAN
    BY <1>11, <2>1, CallTypes DEF Boot
  <2>3. Relaunched(op, mem) \subseteq Apps /\ Stored \subseteq Apps
    BY DEF Relaunched, Stored, TypeOK
  <2>4. /\ apps' \subseteq Apps /\ tails' \subseteq Apps /\ requested' \subseteq Apps
        /\ running' \subseteq Apps /\ orphans' \subseteq Apps /\ leaked' \subseteq Apps
    <3>1. CASE cached
      BY <3>1, <1>11, <2>3, StartTypes DEF Boot
    <3>2. CASE ~cached
      BY <3>2, <1>11 DEF Boot, TypeOK
    <3> QED BY <3>1, <3>2
  <2> QED
    BY <1>11, <2>2, <2>4 DEF Boot, TypeOK
<1>12. ASSUME NEW j \in loads, Loaded(j) PROVE TypeOK'
  <2>1. j \in [op : Ops, rows : SUBSET Apps]
    BY DEF TypeOK
  <2>2. PICK rows \in {j.rows, disk} :
          Perform(j.op, rows) /\ Start(Relaunched(j.op, rows), Stored)
    BY <1>12 DEF Loaded
  <2>3. rows \subseteq Apps /\ Stored \subseteq Apps
    BY <2>1 DEF TypeOK, Stored
  <2>4. Relaunched(j.op, rows) \subseteq Apps
    BY <2>3 DEF Relaunched
  <2>5. /\ apps' \subseteq Apps /\ tails' \subseteq Apps /\ requested' \subseteq Apps
        /\ running' \subseteq Apps /\ orphans' \subseteq Apps /\ leaked' \subseteq Apps
    BY <2>2, <2>3, <2>4, StartTypes
  <2>6. /\ mem' \subseteq Apps /\ file' \subseteq Apps /\ cached' \in BOOLEAN
    BY <2>1, <2>2, <2>3, RowsTypes DEF Perform
  <2> QED
    BY <1>12, <2>5, <2>6 DEF Loaded, TypeOK
<1>13. CASE UNCHANGED vars
  BY <1>13 DEF vars, TypeOK
<1> QED
  BY <1>1, <1>2, <1>3, <1>4, <1>5, <1>6, <1>7, <1>8, <1>9, <1>10, <1>11,
     <1>12, <1>13
  DEF Next

(* Type correctness, for every set of apps and number of crashes.          *)
THEOREM TypeInvariant == Spec => []TypeOK
<1>1. Init => TypeOK
  BY InitInv DEF AppInv
<1> QED
  BY <1>1, TypeStep, PTL DEF Spec

(* AppInv is inductive: a step leaves each of its parts.                   *)
LEMMA AppStep == AppInv /\ [Next]_vars => AppInv'
<1> SUFFICES ASSUME AppInv, [Next]_vars PROVE AppInv'
  OBVIOUS
<1> USE DEF http, entries, db, past
<1>t. TypeOK /\ TypeOK'
  BY TypeStep DEF AppInv
<1>i. /\ OneDatabase /\ BootOnce /\ LaunchedOnce /\ EndedHaveNoRows
      /\ RowsMatch /\ Accountable /\ UploadsGo
  BY DEF AppInv
<1>1. CASE Flush
  <2>1. OneDatabase'
    BY <1>i, <1>1 DEF Flush, OneDatabase, BootOnce
  <2>2. BootOnce'
    BY <1>i, <1>1 DEF Flush, BootOnce
  <2>3. LaunchedOnce'
    BY <1>i, <1>1 DEF Flush, LaunchedOnce, Unlaunched
  <2>4. EndedHaveNoRows'
    BY <1>i, <1>1 DEF Flush, EndedHaveNoRows, OneDatabase, LaunchedOnce,
       Unlaunched
  <2>5. RowsMatch'
    BY <1>i, <1>1 DEF Flush, RowsMatch, OneDatabase, BootOnce,
       LaunchedOnce, Unlaunched
  <2>6. Accountable'
    BY <1>i, <1>1 DEF Flush, Accountable, BootOnce, LaunchedOnce, Unlaunched
  <2>7. UploadsGo'
    BY <1>i, <1>1 DEF Flush, UploadsGo, Waiting
  <2> QED
    BY <1>t, <2>1, <2>2, <2>3, <2>4, <2>5, <2>6, <2>7 DEF AppInv
<1>2. CASE TakeAnswer
  <2>1. OneDatabase'
    BY <1>i, <1>2 DEF TakeAnswer, OneDatabase, BootOnce, Waiting
  <2>2. BootOnce'
    BY <1>i, <1>2 DEF TakeAnswer, BootOnce, Waiting
  <2>3. LaunchedOnce'
    BY <1>t, <1>i, <1>2 DEF TypeOK, TakeAnswer, LaunchedOnce, Unlaunched,
       Waiting
  <2>4. EndedHaveNoRows'
    BY <1>i, <1>2 DEF TakeAnswer, EndedHaveNoRows, OneDatabase,
       LaunchedOnce, Unlaunched, Waiting
  <2>5. RowsMatch'
    BY <1>i, <1>2 DEF TakeAnswer, RowsMatch, OneDatabase, BootOnce,
       LaunchedOnce, Unlaunched, Waiting
  <2>6. Accountable'
    BY <1>i, <1>2 DEF TakeAnswer, Accountable, BootOnce, LaunchedOnce,
       Unlaunched, Waiting
  <2>7. UploadsGo'
    BY <1>i, <1>2 DEF TakeAnswer, UploadsGo, Waiting
  <2> QED
    BY <1>t, <2>1, <2>2, <2>3, <2>4, <2>5, <2>6, <2>7 DEF AppInv
<1>3. CASE BootFails
  <2>1. OneDatabase'
    BY <1>i, <1>3 DEF BootFails, OneDatabase, BootOnce
  <2>2. BootOnce'
    BY <1>i, <1>3 DEF BootFails, BootOnce
  <2>3. LaunchedOnce'
    BY <1>i, <1>3 DEF BootFails, LaunchedOnce, Unlaunched
  <2>4. EndedHaveNoRows'
    BY <1>i, <1>3 DEF BootFails, EndedHaveNoRows, OneDatabase,
       LaunchedOnce, Unlaunched
  <2>5. RowsMatch'
    BY <1>i, <1>3 DEF BootFails, RowsMatch, OneDatabase, BootOnce,
       LaunchedOnce, Unlaunched
  <2>6. Accountable'
    BY <1>i, <1>3 DEF BootFails, Accountable, BootOnce, LaunchedOnce, Unlaunched
  <2>7. UploadsGo'
    BY <1>i, <1>3 DEF BootFails, UploadsGo, Waiting
  <2> QED
    BY <1>t, <2>1, <2>2, <2>3, <2>4, <2>5, <2>6, <2>7 DEF AppInv
<1>4. CASE Crash
  <2>1. OneDatabase'
    BY <1>i, <1>4 DEF Crash, OneDatabase, BootOnce, Waiting
  <2>2. BootOnce'
    BY <1>i, <1>4 DEF Crash, BootOnce, Waiting
  <2>3. LaunchedOnce'
    BY <1>i, <1>4 DEF Crash, LaunchedOnce, Unlaunched, Waiting
  <2>4. EndedHaveNoRows'
    BY <1>i, <1>4 DEF Crash, EndedHaveNoRows, OneDatabase, LaunchedOnce,
       Unlaunched, Waiting
  <2>5. RowsMatch'
    BY <1>i, <1>4 DEF Crash, RowsMatch, OneDatabase, BootOnce,
       LaunchedOnce, Unlaunched, Waiting
  <2>6. Accountable'
    BY <1>i, <1>4 DEF Crash, Accountable, BootOnce, LaunchedOnce,
       Unlaunched, Waiting
  <2>7. UploadsGo'
    BY <1>i, <1>4 DEF Crash, UploadsGo, Waiting
  <2> QED
    BY <1>t, <2>1, <2>2, <2>3, <2>4, <2>5, <2>6, <2>7 DEF AppInv
<1>5. ASSUME NEW a \in Apps, Upload(a) PROVE AppInv'
  <2>1. OneDatabase'
    BY <1>i, <1>5 DEF Upload, OneDatabase, BootOnce
  <2>2. BootOnce'
    BY <1>i, <1>5 DEF Upload, BootOnce
  <2>3. LaunchedOnce'
    BY <1>t, <1>i, <1>5 DEF TypeOK, Upload, LaunchedOnce, Unlaunched
  <2>4. EndedHaveNoRows'
    BY <1>i, <1>5 DEF Upload, EndedHaveNoRows, OneDatabase, LaunchedOnce,
       Unlaunched
  <2>5. RowsMatch'
    BY <1>i, <1>5 DEF Upload, RowsMatch, OneDatabase, BootOnce,
       LaunchedOnce, Unlaunched
  <2>6. Accountable'
    BY <1>i, <1>5 DEF Upload, Accountable, BootOnce, LaunchedOnce, Unlaunched
  <2>7. UploadsGo'
    BY <1>t, <1>i, <1>5 DEF TypeOK, Upload, UploadsGo, Waiting
  <2> QED
    BY <1>t, <2>1, <2>2, <2>3, <2>4, <2>5, <2>6, <2>7 DEF AppInv
<1>6. ASSUME NEW a \in Apps, Reject(a) PROVE AppInv'
  <2>1. OneDatabase'
    BY <1>i, <1>6 DEF Reject, Settle, OneDatabase, BootOnce
  <2>2. BootOnce'
    BY <1>i, <1>6 DEF Reject, Settle, BootOnce
  <2>3. LaunchedOnce'
    BY <1>i, <1>6 DEF Reject, Settle, LaunchedOnce, Unlaunched
  <2>4. EndedHaveNoRows'
    BY <1>i, <1>6 DEF Reject, Settle, EndedHaveNoRows, OneDatabase,
       LaunchedOnce, Unlaunched
  <2>5. RowsMatch'
    BY <1>i, <1>6 DEF Reject, Settle, RowsMatch, OneDatabase, BootOnce,
       LaunchedOnce, Unlaunched
  <2>6. Accountable'
    BY <1>i, <1>6 DEF Reject, Settle, Accountable, BootOnce, LaunchedOnce,
       Unlaunched
  <2>7. UploadsGo'
    <3>1. answers \in Seq(BOOLEAN) /\ answers' = Append(answers, FALSE)
      BY <1>t, <1>6 DEF TypeOK, Reject, Settle
    <3>2. answers' # <<>>
      <4>1. FALSE \in BOOLEAN
        OBVIOUS
      <4> QED
        BY <3>1, <4>1, AppendProperties, Zenon
    <3> QED
      BY <1>i, <1>6, <3>2 DEF Reject, Settle, UploadsGo, Waiting
  <2> QED
    BY <1>t, <2>1, <2>2, <2>3, <2>4, <2>5, <2>6, <2>7 DEF AppInv
<1>7. ASSUME NEW a \in Apps, Launch(a) PROVE AppInv'
  <2>1. OneDatabase'
    <3>1. Call(Op("add", a))
      BY <1>7 DEF Launch
    <3>2. CASE cached
      <4>1. ~overlap => loads = {} /\ mem = file
        BY <1>i, <3>2 DEF OneDatabase
      <4>2. loads' = loads /\ overlap' = overlap /\ cached' = TRUE
        BY <3>1, <3>2 DEF Call, Perform
      <4>3. mem' = Result(Op("add", a), mem) /\ file' = Written(Op("add", a), mem)
        BY <3>1, <3>2 DEF Call, Perform
      <4>4. mem = file => mem' = file'
        BY <4>3 DEF Written, Result
      <4> QED
        BY <4>1, <4>2, <4>4 DEF OneDatabase
    <3>3. CASE ~cached
      <4>1. /\ cached' = cached /\ mem' = mem /\ file' = file /\ disk' = disk
            /\ loads' = loads \union {[op |-> Op("add", a), rows |-> disk]}
            /\ overlap' = (overlap \/ loads # {})
        BY <1>7, <3>1, <3>3 DEF Call, Load, Launch, Settle
      <4>2. boot' = "done" => boot = "done"
        BY <1>7, <3>3 DEF Launch, Settle
      <4>3. ~overlap' => loads = {}
        BY <4>1
      <4>4. ~overlap' => file = disk /\ boot # "done"
        BY <1>i, <3>3, <4>1 DEF OneDatabase
      <4>5. ~overlap' => loads' = {[op |-> Op("add", a), rows |-> disk]}
        BY <4>1, <4>3
      <4>6. ~overlap' => \A l, k \in loads' : l = k
        BY <4>5
      <4>7. ~overlap' => \A l \in loads' : l.rows = disk'
        BY <4>1, <4>5
      <4>8. loads' # {}
        BY <4>1
      <4> QED
        BY <3>3, <4>1, <4>2, <4>4, <4>6, <4>7, <4>8 DEF OneDatabase
    <3> QED
      BY <3>2, <3>3
  <2>2. BootOnce'
    BY <1>i, <1>7 DEF Launch, Settle, Start, Call, Load, Op, BootOnce, ForBoot
  <2>3. LaunchedOnce'
    BY <1>i, <1>7 DEF Launch, Settle, Start, Call, Perform, Load, Result,
       Written, Op, LaunchedOnce, Unlaunched
  <2>4. EndedHaveNoRows'
    BY <1>t, <1>i, <1>7 DEF TypeOK, Launch, Settle, Start, Call, Perform,
       Load, Result, Written, Op, EndedHaveNoRows, OneDatabase,
       LaunchedOnce, Unlaunched
  <2>5. RowsMatch'
    BY <1>i, <1>7 DEF Launch, Settle, Start, Call, Perform, Load, Result,
       Written, Op, RowsMatch, OneDatabase, BootOnce, LaunchedOnce,
       Unlaunched
  <2>6. Accountable'
    BY <1>i, <1>7 DEF Launch, Settle, Start, Accountable, BootOnce,
       LaunchedOnce, Unlaunched
  <2>7. UploadsGo'
    <3>1. answers' # <<>>
      <4>1. answers' = Append(answers, TRUE)
        BY <1>7 DEF Launch, Settle
      <4>2. answers \in Seq(BOOLEAN)
        BY <1>t DEF TypeOK
      <4> QED
        BY <4>1, <4>2, AppendProperties
    <3> QED
      BY <1>i, <1>7, <3>1 DEF Launch, Settle, UploadsGo, Waiting
  <2> QED
    BY <1>t, <2>1, <2>2, <2>3, <2>4, <2>5, <2>6, <2>7 DEF AppInv
<1>8. ASSUME NEW a \in Apps, RemoveUpload(a) PROVE AppInv'
  <2>1. OneDatabase'
    BY <1>i, <1>8 DEF RemoveUpload, OneDatabase, BootOnce
  <2>2. BootOnce'
    BY <1>i, <1>8 DEF RemoveUpload, BootOnce
  <2>3. LaunchedOnce'
    BY <1>i, <1>8 DEF RemoveUpload, LaunchedOnce, Unlaunched
  <2>4. EndedHaveNoRows'
    BY <1>i, <1>8 DEF RemoveUpload, EndedHaveNoRows, OneDatabase,
       LaunchedOnce, Unlaunched
  <2>5. RowsMatch'
    BY <1>i, <1>8 DEF RemoveUpload, RowsMatch, OneDatabase, BootOnce,
       LaunchedOnce, Unlaunched
  <2>6. Accountable'
    BY <1>i, <1>8 DEF RemoveUpload, Accountable, BootOnce, LaunchedOnce,
       Unlaunched
  <2>7. UploadsGo'
    BY <1>i, <1>8 DEF RemoveUpload, UploadsGo, Waiting
  <2> QED
    BY <1>t, <2>1, <2>2, <2>3, <2>4, <2>5, <2>6, <2>7 DEF AppInv
<1>9. ASSUME NEW a \in Apps, Terminate(a) PROVE AppInv'
  <2>1. OneDatabase'
    <3>1. Call(Op("remove", a))
      BY <1>9 DEF Terminate
    <3>2. CASE cached
      <4>1. ~overlap => loads = {} /\ mem = file
        BY <1>i, <3>2 DEF OneDatabase
      <4>2. loads' = loads /\ overlap' = overlap /\ cached' = TRUE
        BY <3>1, <3>2 DEF Call, Perform
      <4>3. mem' = Result(Op("remove", a), mem) /\ file' = Written(Op("remove", a), mem)
        BY <3>1, <3>2 DEF Call, Perform
      <4>4. mem = file => mem' = file'
        BY <4>3 DEF Written, Result
      <4> QED
        BY <4>1, <4>2, <4>4 DEF OneDatabase
    <3>3. CASE ~cached
      <4>1. /\ cached' = cached /\ mem' = mem /\ file' = file /\ disk' = disk
            /\ loads' = loads \union {[op |-> Op("remove", a), rows |-> disk]}
            /\ overlap' = (overlap \/ loads # {})
        BY <1>9, <3>1, <3>3 DEF Call, Load, Terminate
      <4>2. boot' = "done" => boot = "done"
        BY <1>9, <3>3 DEF Terminate
      <4>3. ~overlap' => loads = {}
        BY <4>1
      <4>4. ~overlap' => file = disk /\ boot # "done"
        BY <1>i, <3>3, <4>1 DEF OneDatabase
      <4>5. ~overlap' => loads' = {[op |-> Op("remove", a), rows |-> disk]}
        BY <4>1, <4>3
      <4>6. ~overlap' => \A l, k \in loads' : l = k
        BY <4>5
      <4>7. ~overlap' => \A l \in loads' : l.rows = disk'
        BY <4>1, <4>5
      <4>8. loads' # {}
        BY <4>1
      <4> QED
        BY <3>3, <4>1, <4>2, <4>4, <4>6, <4>7, <4>8 DEF OneDatabase
    <3> QED
      BY <3>2, <3>3
  <2>2. BootOnce'
    BY <1>i, <1>9 DEF Terminate, Kill, Call, Load, Op, BootOnce, ForBoot
  <2>3. LaunchedOnce'
    BY <1>i, <1>9 DEF Terminate, Kill, Call, Perform, Load, Result,
       Written, Op, LaunchedOnce, Unlaunched
  <2>4. EndedHaveNoRows'
    BY <1>i, <1>9 DEF Terminate, Kill, Call, Perform, Load, Result,
       Written, Op, EndedHaveNoRows, OneDatabase, LaunchedOnce, Unlaunched
  <2>5. RowsMatch'
    BY <1>i, <1>9 DEF Terminate, Kill, Call, Perform, Load, Result,
       Written, Op, RowsMatch, OneDatabase, BootOnce, LaunchedOnce,
       Unlaunched
  <2>6. Accountable'
    BY <1>i, <1>9 DEF Terminate, Kill, Accountable, BootOnce,
       LaunchedOnce, Unlaunched
  <2>7. UploadsGo'
    BY <1>i, <1>9 DEF Terminate, Kill, UploadsGo, Waiting
  <2> QED
    BY <1>t, <2>1, <2>2, <2>3, <2>4, <2>5, <2>6, <2>7 DEF AppInv
<1>10. ASSUME NEW a \in Apps, StartTail(a) \/ StopTail(a) \/ Exit(a) PROVE AppInv'
  <2>1. OneDatabase'
    BY <1>i, <1>10 DEF StartTail, StopTail, Exit, OneDatabase, BootOnce
  <2>2. BootOnce'
    BY <1>i, <1>10 DEF StartTail, StopTail, Exit, BootOnce
  <2>3. LaunchedOnce'
    BY <1>i, <1>10 DEF StartTail, StopTail, Exit, LaunchedOnce, Unlaunched
  <2>4. EndedHaveNoRows'
    BY <1>i, <1>10 DEF StartTail, StopTail, Exit, EndedHaveNoRows,
       OneDatabase, LaunchedOnce, Unlaunched
  <2>5. RowsMatch'
    BY <1>i, <1>10 DEF StartTail, StopTail, Exit, RowsMatch, OneDatabase,
       BootOnce, LaunchedOnce, Unlaunched
  <2>6. Accountable'
    BY <1>i, <1>10 DEF StartTail, StopTail, Exit, Accountable, BootOnce,
       LaunchedOnce, Unlaunched
  <2>7. UploadsGo'
    BY <1>i, <1>10 DEF StartTail, StopTail, Exit, UploadsGo, Waiting
  <2> QED
    BY <1>t, <2>1, <2>2, <2>3, <2>4, <2>5, <2>6, <2>7 DEF AppInv
<1>11. ASSUME NEW kind \in {"restart", "clear"}, Boot(kind) PROVE AppInv'
  <2>1. OneDatabase'
    <3>1. Call(Op(kind, NoApp))
      BY <1>11 DEF Boot
    <3>2. CASE cached
      <4>1. ~overlap => loads = {} /\ mem = file
        BY <1>i, <3>2 DEF OneDatabase
      <4>2. loads' = loads /\ overlap' = overlap /\ cached' = TRUE
        BY <3>1, <3>2 DEF Call, Perform
      <4>3. mem' = Result(Op(kind, NoApp), mem) /\ file' = Written(Op(kind, NoApp), mem)
        BY <3>1, <3>2 DEF Call, Perform
      <4>4. mem = file => mem' = file'
        BY <4>3 DEF Written, Result
      <4> QED
        BY <4>1, <4>2, <4>4 DEF OneDatabase
    <3>3. CASE ~cached
      <4>1. /\ cached' = cached /\ mem' = mem /\ file' = file /\ disk' = disk
            /\ loads' = loads \union {[op |-> Op(kind, NoApp), rows |-> disk]}
            /\ overlap' = (overlap \/ loads # {})
        BY <1>11, <3>1, <3>3 DEF Call, Load, Boot
      <4>2. boot' = "done" => boot = "done"
        BY <1>11, <3>3 DEF Boot
      <4>3. ~overlap' => loads = {}
        BY <4>1
      <4>4. ~overlap' => file = disk /\ boot # "done"
        BY <1>i, <3>3, <4>1 DEF OneDatabase
      <4>5. ~overlap' => loads' = {[op |-> Op(kind, NoApp), rows |-> disk]}
        BY <4>1, <4>3
      <4>6. ~overlap' => \A l, k \in loads' : l = k
        BY <4>5
      <4>7. ~overlap' => \A l \in loads' : l.rows = disk'
        BY <4>1, <4>5
      <4>8. loads' # {}
        BY <4>1
      <4> QED
        BY <3>3, <4>1, <4>2, <4>4, <4>6, <4>7, <4>8 DEF OneDatabase
    <3> QED
      BY <3>2, <3>3
  <2>2. BootOnce'
    BY <1>i, <1>11 DEF Boot, Call, Load, BootOnce
  <2>3. LaunchedOnce'
    BY <1>t, <1>i, <1>11, AppAssumption DEF TypeOK, Boot, Start,
       Relaunched, Call, Perform, Load, Result, Written, Op, LaunchedOnce,
       Unlaunched
  <2>4. EndedHaveNoRows'
    BY <1>t, <1>i, <1>11 DEF TypeOK, Boot, Start, Relaunched, Call,
       Perform, Load, Result, Written, Op, EndedHaveNoRows, OneDatabase,
       LaunchedOnce, Unlaunched
  <2>5. RowsMatch'
    BY <1>i, <1>11 DEF Boot, Start, Relaunched, Call, Perform, Result,
       Written, Op, RowsMatch, OneDatabase, BootOnce, LaunchedOnce,
       Unlaunched
  <2>6. Accountable'
    BY <1>i, <1>11 DEF Boot, Start, Accountable, BootOnce, LaunchedOnce,
       Unlaunched
  <2>7. UploadsGo'
    BY <1>i, <1>11 DEF Boot, UploadsGo, Waiting
  <2> QED
    BY <1>t, <2>1, <2>2, <2>3, <2>4, <2>5, <2>6, <2>7 DEF AppInv
<1>12. ASSUME NEW j \in loads, Loaded(j) PROVE AppInv'
  <2>1. OneDatabase'
    BY <1>i, <1>12 DEF Loaded, Perform, Written, OneDatabase, BootOnce
  <2>2. BootOnce'
    BY <1>i, <1>12 DEF Loaded, Start, Relaunched, BootOnce, ForBoot
  <2>3. LaunchedOnce'
    BY <1>i, <1>12 DEF Loaded, Start, Relaunched, Perform, Result,
       Written, LaunchedOnce, Unlaunched
  <2>4. EndedHaveNoRows'
    BY <1>i, <1>12 DEF Loaded, Start, Relaunched, Perform, Result,
       Written, EndedHaveNoRows, OneDatabase, LaunchedOnce, Unlaunched
  <2>5. RowsMatch'
    BY <1>i, <1>12 DEF Loaded, Start, Relaunched, Perform, Result,
       Written, RowsMatch, OneDatabase, BootOnce, ForBoot, LaunchedOnce,
       Unlaunched
  <2>6. Accountable'
    BY <1>i, <1>12 DEF Loaded, Start, Relaunched, Accountable, BootOnce,
       ForBoot, LaunchedOnce, Unlaunched
  <2>7. UploadsGo'
    BY <1>i, <1>12 DEF Loaded, UploadsGo, Waiting
  <2> QED
    BY <1>t, <2>1, <2>2, <2>3, <2>4, <2>5, <2>6, <2>7 DEF AppInv
<1>13. CASE UNCHANGED vars
  <2>1. OneDatabase'
    BY <1>i, <1>13 DEF vars, OneDatabase
  <2>2. BootOnce'
    BY <1>i, <1>13 DEF vars, BootOnce
  <2>3. LaunchedOnce'
    BY <1>i, <1>13 DEF vars, LaunchedOnce, Unlaunched
  <2>4. EndedHaveNoRows'
    BY <1>i, <1>13 DEF vars, EndedHaveNoRows
  <2>5. RowsMatch'
    BY <1>i, <1>13 DEF vars, RowsMatch
  <2>6. Accountable'
    BY <1>i, <1>13 DEF vars, Accountable
  <2>7. UploadsGo'
    BY <1>i, <1>13 DEF vars, UploadsGo, Waiting
  <2> QED
    BY <1>t, <2>1, <2>2, <2>3, <2>4, <2>5, <2>6, <2>7 DEF AppInv
<1> QED
  BY <1>1, <1>2, <1>3, <1>4, <1>5, <1>6, <1>7, <1>8, <1>9, <1>10, <1>11,
     <1>12, <1>13 DEF Next

(* AppInv holds of every reachable state.                                  *)
THEOREM AppInvariant == Spec => []AppInv
  BY InitInv, AppStep, PTL DEF Spec

(* The apps database agrees with the entries once restartAllApps() is      *)
(* through, for any number of apps, crashes and interleaved requests.      *)
THEOREM RowsMatchTheorem == Spec => []RowsMatch
<1>1. AppInv => RowsMatch
  BY DEF AppInv
<1> QED
  BY <1>1, AppInvariant, PTL

(* A terminated app does not come back.                                    *)
THEOREM TerminatedForGoodTheorem == Spec => []TerminatedForGood
<1>1. AppInv => TerminatedForGood
  BY DEF AppInv, EndedHaveNoRows, Accountable, TerminatedForGood
<1> QED
  BY <1>1, AppInvariant, PTL

(* No process and no tail is lost but at a crash or by an early execution. *)
THEOREM AccountableTheorem == Spec => []Accountable
<1>1. AppInv => Accountable
  BY DEF AppInv
<1> QED
  BY <1>1, AppInvariant, PTL

(* No client and no upload waits for a response that is not coming.        *)
THEOREM UploadsGoTheorem == Spec => []UploadsGo
<1>1. AppInv => UploadsGo
  BY DEF AppInv
<1> QED
  BY <1>1, AppInvariant, PTL
=============================================================================
